---------------------------- MODULE WeComProfile ----------------------------
(***************************************************************************)
(* How the WeCom driver binds an account to its Android data: the profile  *)
(* and its two markers (internal/driver/wecom/profile.go), the operator's  *)
(* approval of a stopped legacy profile (legacy_approval.go), the start    *)
(* and the stop of the container (runtime.go, android.go) and Purge        *)
(* (driver.go).                                                            *)
(*                                                                         *)
(* A data directory is its inode: path is the one the registered name      *)
(* refers to, and somebody may exchange it between any two steps.  The     *)
(* daemon may crash, the container may exit, and the operator may run it.  *)
(*                                                                         *)
(* External: the container engine, and whoever else uses the directory.    *)
(***************************************************************************)
EXTENDS Naturals, Sequences, FiniteSets

CONSTANTS
    Inode,          \* data directories
    Legacy,         \* the one of an account older than the markers
    Other,          \* one with data of unknown origin
    Nil,
    MaxProfiles,    \* bound: random profile identities
    MaxEpochs,      \* bound: runs and creations of the container
    MaxApprovals,   \* bound: approvals of the operator
    MaxFaults,      \* bound: exchanges of the directory, runs by the operator,
                    \* removals of a file that fail
    MaxCrashes      \* bound: crashes of the daemon

ASSUME DirectoriesDiffer == {Legacy, Other} \subseteq Inode /\ Legacy # Other /\ Nil \notin Inode

\* An account may have an identity and a run of its container in the beginning.
ASSUME BoundsAreNatural ==
    /\ {MaxApprovals, MaxFaults, MaxCrashes} \subseteq Nat
    /\ {MaxProfiles, MaxEpochs} \subseteq Nat \ {0}

VARIABLES
    \* durable
    path,           \* the directory at the registered path, or Nil
    used,           \* directories with Android data
    litter,         \* directories with a temporary file of a publication
    sentinel,       \* the profile in the directory's sentinel, or Nil
    meta,           \* the external metadata, or Nil
    approval,       \* the operator's approval, or Nil
    container,      \* the account's container, or Nil
    network,        \* the account's isolated network exists
    deleting,       \* the account store has the account marked for removal
    \* the daemon
    pc,             \* the step of Start, Purge or the approval command
    st,             \* what Start has pinned, see Pinned
    \* history
    kind,           \* what the account was in the beginning
    profiles,       \* identities generated
    approvals,      \* approvals given
    uses,           \* profiles bound by each approval
    proven,         \* directories the account may use
    swapped,        \* others, bound by an approval that was checked against the
                    \* directory of an exchange in the meantime
    touched,        \* directories Android commands or Purge reached
    faults, crashes

disk    == <<path, used, litter, sentinel, meta, approval>>
docker  == <<container, network, deleting>>
budgets == <<faults, crashes>>
history == <<kind, profiles, approvals, uses, proven, swapped, touched>>
vars    == <<disk, docker, pc, st, history, budgets>>

Profile  == 1 .. MaxProfiles
Metadata == [profile : Profile, inode : Inode, schema : {1, 2}]
Approval == [inode : Inode, epoch : 1 .. MaxEpochs, number : 1 .. MaxApprovals]

\* The container: its bind mount is resolved when it starts, and every run or
\* creation is a new execution epoch.
Container == [running : BOOLEAN, mounted : Inode \cup {Nil}, epoch : 1 .. MaxEpochs]

\* What a start has pinned: the directory, the profile to publish, whether the
\* sentinel is its own, the epoch it saw, the approval it consumed, and whether
\* the container is its to stop.
Pinned  == [dir : Inode \cup {Nil}, profile : Profile \cup {Nil}, create : BOOLEAN,
            epoch : 0 .. MaxEpochs, number : 0 .. MaxApprovals, mine : BOOLEAN]
Unpinned == [dir |-> Nil, profile |-> Nil, create |-> FALSE, epoch |-> 0, number |-> 0,
             mine |-> FALSE]

ASSUME NilIsNothing == Nil \notin Profile \cup Metadata \cup Approval \cup Container

Stages == <<"boot", "install", "companion", "launch">>

Exists   == container # Nil
Running  == Exists /\ container.running

\* inspectExactStoppedContainerEpoch: the account's container, and it is stopped.
StoppedExact == Exists /\ ~Running

\* Mutant: only an empty directory is an interrupted initialisation.
NeverOnlySentinel(d) == FALSE

IsEmpty(d) == d \notin used \cup litter /\ sentinel[d] = Nil
OnlySentinel(d) == d \notin used \cup litter /\ sentinel[d] # Nil

\* validateWeComProfileMetadata and validateWeComProfileSentinel.
MetadataNames(d) == meta # Nil /\ d = meta.inode
SentinelAgrees(d) == sentinel[d] = meta.profile

\* verifyBoundWeComProfile: the directory is the one of the metadata, and its
\* sentinel has the same identity.
Bound(d) == MetadataNames(d) /\ SentinelAgrees(d)

\* The account's lock file is held by a start and by a purge, for as long as the
\* runtime is up.
LockFree == pc = "idle"

\* inspectMarkerlessLegacyProfile: data without metadata.  Every operation on an
\* approval begins with it.
Markerless == meta = Nil /\ path # Nil /\ ~IsEmpty(path)

Init ==
    /\ kind \in {"new", "stopped", "running", "schema1"}
    /\ path = IF kind = "new" THEN Nil ELSE Legacy
    /\ used = {Other} \cup ({path} \ {Nil})
    /\ litter = {}
    /\ sentinel = [i \in Inode |-> IF kind = "schema1" /\ i = Legacy THEN 1 ELSE Nil]
    /\ meta = IF kind = "schema1" THEN [profile |-> 1, inode |-> Legacy, schema |-> 1] ELSE Nil
    /\ approval = Nil
    /\ container = IF kind = "new" THEN Nil
                   ELSE [running |-> kind = "running", epoch |-> 1,
                         mounted |-> IF kind = "running" THEN Legacy ELSE Nil]
    /\ network = (kind # "new")
    /\ pc = "idle" /\ st = Unpinned
    /\ profiles = IF kind = "schema1" THEN 1 ELSE 0
    /\ approvals = 0 /\ uses = [n \in 1 .. MaxApprovals |-> 0]
    /\ proven = IF kind \in {"running", "schema1"} THEN {Legacy} ELSE {}
    /\ swapped = {} /\ touched = IF kind = "schema1" THEN {Legacy} ELSE {}
    /\ deleting = FALSE /\ faults = 0 /\ crashes = 0

-----------------------------------------------------------------------------
(* The end of a failed start, and of a refused one.                        *)

Fail == pc' = "idle" /\ st' = Unpinned

Refuse == Fail /\ UNCHANGED <<disk, docker, history, budgets>>

Step(p) == pc' = p

-----------------------------------------------------------------------------
(* preparePersistentProfile.                                               *)

StartBegin ==
    /\ LockFree /\ ~deleting
    /\ Step("classify") /\ st' = [Unpinned EXCEPT !.dir = path]
    /\ UNCHANGED <<disk, docker, history, budgets>>

\* With metadata the profile must be the bound one, or nothing starts.
BoundProfile ==
    /\ pc = "classify" /\ meta # Nil
    /\ \/ /\ Bound(path)
          /\ Step(IF meta.schema = 1 THEN "migrate" ELSE "network") /\ st' = Unpinned
          /\ UNCHANGED <<disk, docker, history, budgets>>
       \/ ~Bound(path) /\ Refuse

\* migrateLegacyWeComProfileMetadata exchanges the two files in one rename ...
MigrateMetadata ==
    /\ pc = "migrate"
    /\ \/ /\ Bound(path) /\ meta' = [meta EXCEPT !.schema = 2] /\ Step("migrated") /\ st' = st
       \/ ~Bound(path) /\ meta' = meta /\ Fail
    /\ UNCHANGED <<path, used, litter, sentinel, approval, docker, history, budgets>>

\* Mutant: the way back removes the metadata.
LostMetadata == Nil

RestoredMetadata == [meta EXCEPT !.schema = 1]

\* ... and back when the profile is no longer the one it verified; the clean-up
\* after it, and the way back, may fail.
MigrateVerify ==
    /\ pc = "migrated"
    /\ \/ Bound(path) /\ meta' = meta /\ Step("network") /\ st' = st
       \/ meta' \in {meta, RestoredMetadata} /\ Fail
    /\ UNCHANGED <<path, used, litter, sentinel, approval, docker, history, budgets>>

Unmarked == pc = "classify" /\ meta = Nil

NewIdentity == profiles < MaxProfiles /\ profiles' = profiles + 1

\* A new account: the directory is created, never an existing one reused.
CreateProfile ==
    /\ Unmarked /\ st.dir = Nil /\ path = Nil /\ ~Exists /\ NewIdentity
    /\ \E d \in Inode \ (used \cup litter \cup proven) :
         /\ sentinel[d] = Nil
         /\ path' = d /\ proven' = proven \cup {d}
         /\ st' = [st EXCEPT !.dir = d, !.profile = profiles', !.create = TRUE]
    /\ Step("sentinel")
    /\ UNCHANGED <<used, litter, sentinel, meta, approval, docker, kind, approvals, uses,
                   swapped, touched, budgets>>

\* An interrupted initialisation left an empty directory, or the sentinel alone.
RecoverEmpty ==
    /\ Unmarked /\ st.dir # Nil /\ ~Exists /\ path = st.dir /\ IsEmpty(st.dir) /\ NewIdentity
    /\ st' = [st EXCEPT !.profile = profiles', !.create = TRUE]
    /\ proven' = proven \cup {st.dir}
    /\ Step("sentinel")
    /\ UNCHANGED <<disk, docker, kind, approvals, uses, swapped, touched, budgets>>

RecoverSentinel ==
    /\ Unmarked /\ st.dir # Nil /\ ~Exists /\ path = st.dir /\ OnlySentinel(st.dir)
    /\ st' = [st EXCEPT !.profile = sentinel[st.dir]]
    /\ Step("metadata")
    /\ UNCHANGED <<disk, docker, history, budgets>>

\* Data that nothing vouches for, and a container without its data.
NothingVouches ==
    \/ st.dir # Nil /\ ~Exists /\ ~(IsEmpty(st.dir) \/ OnlySentinel(st.dir))
    \/ st.dir = Nil /\ Exists
    \/ st.dir # Nil /\ Exists /\ ~network

RefuseUnmarked == Unmarked /\ NothingVouches /\ Refuse

\* The directory is another one than a moment ago.
ChangedMeanwhile ==
    /\ pc \in {"classify", "prepare"} /\ meta = Nil /\ path # st.dir
    /\ Fail
    /\ UNCHANGED <<disk, docker, history, budgets>>

\* A legacy profile: the container that vouches for it runs, or it does not.
LegacyProfile ==
    /\ Unmarked /\ st.dir # Nil /\ Exists /\ network /\ path = st.dir
    /\ IF Running THEN Step("prove") /\ st' = st
                  ELSE Step("consume") /\ st' = [st EXCEPT !.epoch = container.epoch]
    /\ UNCHANGED <<disk, docker, history, budgets>>

\* verifyRunningContainerProfileFrame: the live /data is this directory.
LiveProof(d) == Running /\ container.mounted = d

\* A live proof revokes whatever approval there is.
ProveLive ==
    /\ pc = "prove"
    /\ \/ /\ LiveProof(st.dir) /\ path = st.dir /\ Markerless
          /\ approval' = Nil /\ Step("prepare") /\ st' = st
       \/ ~(LiveProof(st.dir) /\ path = st.dir /\ Markerless) /\ approval' = approval /\ Fail
    /\ UNCHANGED <<path, used, litter, sentinel, meta, docker, history, budgets>>

\* Mutant: an approval is good for whatever directory is there now.
ApprovedAnyDirectory == approval # Nil

\* consumeLegacyProfileApprovalForData looks the directory up once more.
Approved == Markerless /\ approval # Nil /\ approval.inode = path

\* Mutant: the approval stays until its profile is published.
KeptApproval == approval

ConsumedApproval == Nil

\* The approval goes before any marker is written; one of another execution of
\* the container is revoked.  It vouches for the directory it names, which need
\* not be the one the start has pinned.
ConsumeApproval ==
    /\ pc = "consume"
    /\ \/ ~Approved /\ UNCHANGED <<approval, proven, swapped>> /\ Fail
       \/ Approved /\ approval.epoch # st.epoch /\ approval' = Nil
          /\ UNCHANGED <<proven, swapped>> /\ Fail
       \/ /\ Approved /\ approval.epoch = st.epoch
          /\ approval' = ConsumedApproval
          /\ \/ /\ st' = [st EXCEPT !.number = approval.number] /\ Step("recheck")
                /\ proven' = proven \cup {approval.inode}
                /\ swapped' = IF path = st.dir THEN swapped ELSE swapped \cup {st.dir}
             \/ UNCHANGED <<proven, swapped>> /\ Fail  \* the unlink could not be synced
    /\ UNCHANGED <<path, used, litter, sentinel, meta, docker, kind, profiles, approvals, uses,
                   touched, budgets>>

RecheckContainer ==
    /\ pc = "recheck"
    /\ IF StoppedExact /\ container.epoch = st.epoch
          THEN Step("prepare") /\ st' = st ELSE Fail
    /\ UNCHANGED <<disk, docker, history, budgets>>

\* The pinned directory is still the one at the path.  Its ownership is changed
\* only while the container is stopped; the change, or a check after it, may fail.
PrepareDirectory ==
    /\ pc = "prepare" /\ path = st.dir
    /\ \/ container' = container
       \/ Running /\ sentinel[st.dir] = Nil /\ container' = [container EXCEPT !.running = FALSE]
    /\ \/ /\ sentinel[st.dir] = Nil /\ NewIdentity
          /\ st' = [st EXCEPT !.profile = profiles', !.create = TRUE] /\ Step("sentinel")
       \/ /\ sentinel[st.dir] # Nil /\ profiles' = profiles
          /\ st' = [st EXCEPT !.profile = sentinel[st.dir]] /\ Step("metadata")
       \/ profiles' = profiles /\ Fail
    /\ UNCHANGED <<disk, network, deleting, kind, approvals, uses, proven, swapped, touched, budgets>>

-----------------------------------------------------------------------------
(* publishLegacyWeComProfileBinding: the sentinel, then the metadata, each *)
(* through a temporary file and a rename that replaces nothing.            *)

WriteTemporary ==
    /\ pc = "sentinel"
    /\ IF path = st.dir THEN litter' = litter \cup {st.dir} /\ Step("rename") /\ st' = st
                        ELSE litter' = litter /\ Fail
    /\ UNCHANGED <<path, used, sentinel, meta, approval, docker, history, budgets>>

PublishSentinel ==
    /\ pc = "rename"
    /\ litter' = litter \ {st.dir}
    /\ sentinel' = [sentinel EXCEPT ![st.dir] = st.profile]
    /\ Step("metadata")
    /\ UNCHANGED <<path, used, meta, approval, docker, st, history, budgets>>

\* The directory is looked up again.
StillThere == path = st.dir

NewMetadata == [profile |-> st.profile, inode |-> st.dir, schema |-> 2]

PublishMetadata ==
    /\ pc = "metadata"
    /\ \/ /\ StillThere /\ meta = Nil
          /\ meta' = NewMetadata
          /\ uses' = [n \in DOMAIN uses |-> uses[n] + (IF n = st.number THEN 1 ELSE 0)]
          /\ Step("verify")
       \/ meta' = meta /\ uses' = uses /\ Step("rollback")
    /\ UNCHANGED <<path, used, litter, sentinel, approval, docker, st, kind, profiles, approvals,
                   proven, swapped, touched, budgets>>

\* A removal that fails leaves its file where it is.
RemovalFails == faults < MaxFaults /\ faults' = faults + 1 /\ crashes' = crashes

\* The last check; any failure, of a write too, takes the markers back: the
\* metadata first ...
VerifyPublication ==
    /\ pc = "verify"
    /\ \/ StillThere /\ Bound(path) /\ meta' = meta /\ Step("network") /\ UNCHANGED budgets
       \/ meta' = Nil /\ Step("rollback") /\ UNCHANGED budgets
       \/ meta' = meta /\ Step("rollback") /\ RemovalFails
    /\ UNCHANGED <<path, used, litter, sentinel, approval, docker, st, history>>

\* ... and then the sentinel, even if the metadata are still there.
RemoveSentinel ==
    /\ pc = "rollback"
    /\ \/ /\ sentinel' = IF st.create THEN [sentinel EXCEPT ![st.dir] = Nil] ELSE sentinel
          /\ UNCHANGED budgets
       \/ st.create /\ sentinel' = sentinel /\ RemovalFails
    /\ Fail
    /\ UNCHANGED <<path, used, litter, meta, approval, docker, history>>

\* A write fails; its temporary file is removed, if that does not fail too.
PublishFails ==
    /\ pc \in {"sentinel", "rename"}
    /\ \/ litter' = litter \ {st.dir} /\ UNCHANGED budgets
       \/ pc = "rename" /\ litter' = litter /\ RemovalFails
    /\ Fail
    /\ UNCHANGED <<path, used, sentinel, meta, approval, docker, history>>

-----------------------------------------------------------------------------
(* Runtime.Start after the profile, and cleanupFailedStart.                *)

EnsureNetwork ==
    /\ pc = "network"
    /\ network' = TRUE /\ Step("container")
    /\ UNCHANGED <<disk, container, deleting, st, history, budgets>>

Profiled == Bound(path)

CreateContainer ==
    /\ pc = "container" /\ Profiled
    /\ \/ Exists /\ container' = container
       \/ ~Exists /\ container' = [running |-> FALSE, mounted |-> Nil, epoch |-> 1]
    /\ Step("start")
    /\ UNCHANGED <<disk, network, deleting, st, history, budgets>>

\* verifyProfileBeforeContainerOperation, and then ...
VerifyStart ==
    /\ pc = "start" /\ Profiled
    /\ Step(IF Running THEN "proof" ELSE "docker")
    /\ st' = [st EXCEPT !.mine = Running]
    /\ UNCHANGED <<disk, docker, history, budgets>>

\* ... docker start, which mounts what is at the path by now.
StartContainer ==
    /\ pc = "docker" /\ Exists /\ ~Running /\ path # Nil /\ container.epoch < MaxEpochs
    /\ container' = [running |-> TRUE, mounted |-> path, epoch |-> container.epoch + 1]
    /\ used' = used \cup {path}
    /\ st' = [st EXCEPT !.mine = TRUE] /\ Step("proof")
    /\ UNCHANGED <<path, litter, sentinel, meta, approval, network, deleting, history, budgets>>

\* resolveRunningContainerProfile: the live /data is the bound directory.
ProvesProfile == Profiled /\ LiveProof(path)

ProveProfile ==
    /\ pc = "proof" /\ ProvesProfile
    /\ Step(Stages[1])
    /\ UNCHANGED <<disk, docker, st, history, budgets>>

StageOf(p) == {k \in DOMAIN Stages : Stages[k] = p}

\* Every command to Android repeats the proof and targets the pinned container.
AndroidCommand ==
    /\ \/ pc = "up" /\ pc' = "up"
       \/ \E k \in StageOf(pc) : Step(IF k = Len(Stages) THEN "up" ELSE Stages[k + 1])
    /\ ProvesProfile
    /\ touched' = touched \cup {container.mounted}
    /\ UNCHANGED <<disk, docker, st, kind, profiles, approvals, uses, proven, swapped, budgets>>

\* A start that fails after the profile stops the container it pinned, if it can.
StartFails ==
    /\ pc \in {"network", "container", "start", "docker", "proof"} \cup {Stages[k] : k \in DOMAIN Stages}
    /\ container' \in (IF st.mine /\ Exists THEN {container, [container EXCEPT !.running = FALSE]}
                                            ELSE {container})
    /\ Fail
    /\ UNCHANGED <<disk, network, deleting, history, budgets>>

Stop ==
    /\ pc = "up"
    /\ container' = [container EXCEPT !.running = FALSE]
    /\ Fail
    /\ UNCHANGED <<disk, network, deleting, history, budgets>>

-----------------------------------------------------------------------------
(* CreateStoppedLegacyProfileApproval, offline.                            *)

\* The command takes the state lock, so no daemon runs, and refuses an account that
\* is being removed.
Offline == pc = "idle" /\ ~deleting

Approve ==
    /\ Offline /\ Markerless /\ StoppedExact /\ network
    /\ approval = Nil /\ approvals < MaxApprovals
    /\ approvals' = approvals + 1
    /\ approval' = [inode |-> path, epoch |-> container.epoch, number |-> approvals']
    /\ Step("approve")
    /\ UNCHANGED <<path, used, litter, sentinel, meta, docker, st, kind, profiles, uses, proven, swapped,
                   touched, budgets>>

SubjectUnchanged == path = approval.inode /\ StoppedExact /\ container.epoch = approval.epoch

\* The approval is withdrawn when its subject has changed meanwhile.
ApproveVerify ==
    /\ pc = "approve"
    /\ approval' = IF SubjectUnchanged THEN approval ELSE Nil
    /\ Step("idle")
    /\ UNCHANGED <<path, used, litter, sentinel, meta, docker, st, history, budgets>>

-----------------------------------------------------------------------------
(* Driver.Purge of a stopped account, and the removal of its files.        *)

PurgesBound == meta # Nil /\ path # Nil => MetadataNames(path)

\* inspectPurgeContainer: there is none, or this account's, exactly stopped.
PurgeTarget == Exists => StoppedExact

\* The account is marked first, whether or not the driver then refuses.
PurgeBegin ==
    /\ LockFree /\ deleting' = TRUE
    /\ IF PurgeTarget /\ PurgesBound
          THEN /\ st' = [Unpinned EXCEPT !.dir = path, !.epoch = IF Exists THEN container.epoch ELSE 0]
               /\ Step("purge data")
          ELSE UNCHANGED <<st, pc>>
    /\ UNCHANGED <<disk, container, network, history, budgets>>

\* The cleanup container compares the inode it mounted before it removes data.
\* Without metadata the confirmed removal goes by the path alone, so it does not
\* count as a use of the account's data.
PurgeData ==
    /\ pc = "purge data"
    /\ \/ st.dir \notin {path, Nil} /\ Fail /\ UNCHANGED <<used, litter, sentinel, touched>>
       \/ st.dir = Nil /\ Step("purge container")
          /\ UNCHANGED <<st, used, litter, sentinel, touched>>
       \/ /\ path = st.dir /\ st.dir # Nil
          /\ used' = used \ {st.dir} /\ litter' = litter \ {st.dir}
          /\ sentinel' = [sentinel EXCEPT ![st.dir] = Nil]
          /\ touched' = IF meta = Nil THEN touched ELSE touched \cup {st.dir}
          /\ \/ Step("purge container") /\ st' = st
             \/ Fail                      \* something is left, or the path has changed
    /\ UNCHANGED <<path, meta, approval, docker, kind, profiles, approvals, uses, proven, swapped, budgets>>

RemoveNetwork == network' = FALSE

PurgeContainer ==
    /\ pc = "purge container"
    /\ IF PurgeTarget /\ (Exists => container.epoch = st.epoch)
          THEN /\ container' = Nil
               /\ \/ RemoveNetwork /\ Step("purge files") /\ st' = st
                  \/ network' = network /\ Fail
          ELSE UNCHANGED <<container, network>> /\ Fail
    /\ UNCHANGED <<disk, deleting, history, budgets>>

\* The account store removes the account's directory; the account is gone.
RemoveFiles ==
    /\ pc = "purge files"
    /\ path' = Nil /\ meta' = Nil /\ approval' = Nil /\ Step("gone") /\ st' = Unpinned
    /\ UNCHANGED <<used, litter, sentinel, docker, history, budgets>>

-----------------------------------------------------------------------------
(* The environment.                                                        *)

Crash ==
    /\ pc \notin {"idle", "gone"} /\ crashes < MaxCrashes
    /\ crashes' = crashes + 1 /\ Fail
    /\ UNCHANGED <<disk, docker, history, faults>>

Exchange ==
    /\ pc # "gone" /\ faults < MaxFaults
    /\ path' \in (Inode \cup {Nil}) \ {path}
    /\ path' # Nil => path' \in used \cup litter \cup proven
    /\ faults' = faults + 1
    /\ UNCHANGED <<used, litter, sentinel, meta, approval, docker, pc, st, history, crashes>>

\* The operator runs the account's container, and so vouches for its data.
OperatorRuns ==
    /\ faults < MaxFaults /\ Exists /\ ~Running /\ path # Nil /\ container.epoch < MaxEpochs
    /\ container' = [running |-> TRUE, mounted |-> path, epoch |-> container.epoch + 1]
    /\ used' = used \cup {path} /\ proven' = proven \cup {path}
    /\ faults' = faults + 1
    /\ UNCHANGED <<path, litter, sentinel, meta, approval, network, deleting, pc, st, kind, profiles,
                   approvals, uses, swapped, touched, crashes>>

ContainerExits ==
    /\ Running /\ container' = [container EXCEPT !.running = FALSE]
    /\ UNCHANGED <<disk, network, deleting, pc, st, history, budgets>>

-----------------------------------------------------------------------------
Prepare == \/ BoundProfile \/ MigrateMetadata \/ MigrateVerify \/ CreateProfile \/ RecoverEmpty
           \/ RecoverSentinel \/ RefuseUnmarked \/ ChangedMeanwhile \/ LegacyProfile \/ ProveLive
           \/ ConsumeApproval \/ RecheckContainer \/ PrepareDirectory
Publish == \/ WriteTemporary \/ PublishSentinel \/ PublishMetadata \/ VerifyPublication
           \/ RemoveSentinel \/ PublishFails
Run     == \/ EnsureNetwork \/ CreateContainer \/ VerifyStart \/ StartContainer \/ ProveProfile
           \/ AndroidCommand \/ StartFails \/ Stop
Purge   == PurgeBegin \/ PurgeData \/ PurgeContainer \/ RemoveFiles

Next == \/ StartBegin \/ Prepare \/ Publish \/ Run \/ Approve \/ ApproveVerify \/ Purge
        \/ Crash \/ Exchange \/ OperatorRuns \/ ContainerExits

Spec == Init /\ [][Next]_vars

-----------------------------------------------------------------------------
(* Properties.                                                             *)

\* The type invariant.
TypeOK ==
    /\ path \in Inode \cup {Nil} /\ used \subseteq Inode /\ litter \subseteq Inode
    /\ sentinel \in [Inode -> Profile \cup {Nil}]
    /\ meta \in Metadata \cup {Nil} /\ approval \in Approval \cup {Nil}
    /\ container \in Container \cup {Nil} /\ network \in BOOLEAN
    /\ st \in Pinned /\ {proven, swapped} \subseteq SUBSET Inode /\ touched \subseteq Inode
    /\ profiles \in 0 .. MaxProfiles /\ approvals \in 0 .. MaxApprovals

\* Directories with the account's sentinel.
Sentinels == {i \in Inode : sentinel[i] # Nil}

\* However often the path is exchanged, no marker and no command to Android reaches
\* a directory that the daemon did not create or find empty, that no consumed
\* approval names and that the account's own running container did not have mounted,
\* but for one that a start had pinned while another, which the approval names, was
\* at the path for as long as the approval was consumed: "Approval consumption and
\* live-container proof both bind the original canonical inode" (profile.go:1226)
\* is more than consumeLegacyProfileApprovalForData keeps.
OnlyVouchedData == touched \cup Sentinels \subseteq proven \cup swapped

Used == [n \in {k \in 1 .. MaxApprovals : uses[k] > 0} |-> uses[n]]
ApprovalOnce == INSTANCE OneShot WITH Cap <- 1 .. MaxApprovals, uses <- Used

\* An approval binds at most one profile, wherever the daemon crashes between
\* its consumption and the publication of the markers.
ApprovalsAreOneShot == ApprovalOnce!Spec

\* Once Android has been used with a binding, the account keeps that binding
\* until it is purged: no restart begins again with empty data.
BindingIsStable ==
    [][touched # {} /\ pc # "purge files" =>
         meta # Nil /\ meta' # Nil /\ meta'.profile = meta.profile /\ meta'.inode = meta.inode]_vars

\* Crashes alone do not make a new account unusable, but for the temporary file
\* of the sentinel that one of them may leave behind.
CrashesAreRecovered ==
    /\ kind = "new" /\ faults = 0 /\ pc = "classify"
    /\ IF meta = Nil THEN NothingVouches ELSE ~Bound(path)
    => path \in litter
=============================================================================
