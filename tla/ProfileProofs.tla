--------------------------- MODULE ProfileProofs ---------------------------
(***************************************************************************)
(* Theorems about WeComProfile, for any number of directories, profiles,   *)
(* container runs, approvals, faults and crashes.                          *)
(*                                                                         *)
(* ProfileInv says at which labels of Start the metadata exist, what is    *)
(* pinned there, which approval is still unused, and, for an account that  *)
(* began new and was only crashed, that its directory and container are    *)
(* what its metadata say.                                                  *)
(***************************************************************************)
EXTENDS WeComProfile, TLAPS

\* The labels between the classification and the publication of the metadata ...
BindLabel == {"prove", "consume", "recheck", "prepare", "sentinel", "rename", "metadata"}

\* ... after it, with the container to run or running ...
UpLabel  == {"start", "docker", "proof", "boot", "install", "companion", "launch", "up"}
RunLabel == {"network", "container"} \cup UpLabel

\* ... of a removal, and all.
PurgeLabel == {"purge data", "purge container", "purge files"}
Label == {"idle", "gone", "approve", "classify", "migrate", "migrated", "verify", "rollback"}
           \cup BindLabel \cup RunLabel \cup PurgeLabel

\* The types, with what TypeOK leaves to the labels and the counters.
Types ==
    /\ TypeOK
    /\ pc \in Label /\ deleting \in BOOLEAN /\ faults \in Nat
    /\ uses \in [1 .. MaxApprovals -> Nat]

\* Where there are metadata, and where there is none yet.
Marked ==
    /\ pc \in BindLabel => meta = Nil
    /\ pc \in {"migrate", "migrated", "verify"} \cup RunLabel => meta # Nil

\* A publication knows its directory and its profile, and its sentinel is there
\* before its metadata.
Pinning ==
    /\ pc \in BindLabel \cup {"verify", "rollback"} => st.dir # Nil
    /\ pc \in {"sentinel", "rename", "metadata", "verify"} => st.profile # Nil
    /\ pc \in {"metadata", "verify"} => sentinel[st.dir] = st.profile

\* Commands need the container, and the files go after it.
Contained ==
    /\ pc \in UpLabel => Exists
    /\ pc \in {"purge files", "gone"} => ~Exists

\* A removal excludes starts and approvals.
Removing ==
    /\ deleting => pc \in {"idle", "gone"} \cup PurgeLabel
    /\ pc \in {"gone"} \cup PurgeLabel => deleting

\* The shape of the state, on which all the other parts rest.
ProfileShape == Types /\ Marked /\ Pinning /\ Contained /\ Removing

\* An approval that is given or consumed has bound nothing yet.
Unspent ==
    /\ pc \in {"idle", "approve", "classify", "prove", "consume"} => st.number = 0
    /\ st.number <= approvals
    /\ approval # Nil => approval.number <= approvals /\ uses[approval.number] = 0
    /\ pc \in BindLabel /\ st.number # 0 => approval = Nil /\ uses[st.number] = 0
    /\ \A n \in 1 .. MaxApprovals : uses[n] <= 1 /\ (n > approvals => uses[n] = 0)

\* Android has been used only with metadata that no start takes back.
Settled == touched # {} /\ pc # "gone" => meta # Nil /\ pc # "verify"

\* The directory of a start is the one at the path, and what is unbound is unused.
Unused == ~Exists /\ path \notin used

\* What a start sees and what is bound, as long as nobody interferes.
Undisturbed ==
    /\ pc \in {"classify", "verify"} \cup BindLabel => st.dir = path
    /\ ~deleting => IF meta = Nil THEN Unused ELSE Bound(path)
    /\ pc = "verify" => Unused
    /\ pc = "rollback" => meta = Nil

\* ... which is so for an account that began new and was only crashed.
OnlyCrashes == kind = "new" /\ faults = 0 => Undisturbed

\* What vouches for the directory of a start: an approval that was consumed for
\* it, or in its stead, and a running container for the one it mounted.
Proven ==
    /\ pc \in {"recheck", "prepare"} => st.dir \in proven \cup swapped
    /\ Running /\ (meta = Nil \/ pc = "verify") => container.mounted \in proven

\* What is marked, bound or about to be.
Vouched ==
    /\ OnlyVouchedData
    /\ meta # Nil => meta.inode \in proven \cup swapped
    /\ pc \in {"sentinel", "rename", "metadata", "verify"} => st.dir \in proven \cup swapped
    /\ pc = "purge data" /\ st.dir # Nil /\ meta # Nil => st.dir = meta.inode

\* The inductive invariant.
ProfileInv == ProfileShape /\ Unspent /\ Settled /\ OnlyCrashes /\ Proven /\ Vouched

-----------------------------------------------------------------------------
(* What the operators of Start guarantee.                                  *)

\* A command to Android moves on through the stages of the start.
LEMMA StageMoves ==
    ASSUME AndroidCommand
    PROVE  /\ pc \in {"boot", "install", "companion", "launch", "up"}
           /\ pc' \in {"install", "companion", "launch", "up"}
  BY DEF AndroidCommand, StageOf, Stages, Step

\* The proof of the live directory leads to the first stage.
LEMMA FirstStage == Stages[1] = "boot"
  BY DEF Stages

\* The stages are these labels.
LEMMA StageLabels == {Stages[k] : k \in DOMAIN Stages} = {"boot", "install", "companion", "launch"}
  BY DEF Stages

-----------------------------------------------------------------------------
(* Which steps write what.                                                 *)

\* All other steps leave the variable alone.
Writers ==
    /\ path' = path \/ CreateProfile \/ RemoveFiles \/ Exchange
    /\ used' = used \/ StartContainer \/ PurgeData \/ OperatorRuns
    /\ litter' = litter \/ WriteTemporary \/ PublishSentinel \/ PublishFails \/ PurgeData
    /\ sentinel' = sentinel \/ PublishSentinel \/ RemoveSentinel \/ PurgeData
    /\ meta' = meta \/ MigrateMetadata \/ MigrateVerify \/ PublishMetadata \/ VerifyPublication
                    \/ RemoveFiles
    /\ approval' = approval \/ ProveLive \/ ConsumeApproval \/ Approve \/ ApproveVerify \/ RemoveFiles
    /\ container' = container \/ PrepareDirectory \/ CreateContainer \/ StartContainer \/ StartFails
                              \/ Stop \/ PurgeContainer \/ OperatorRuns \/ ContainerExits
    /\ network' = network \/ EnsureNetwork \/ PurgeContainer
    /\ deleting' = deleting \/ PurgeBegin

\* The same for the history.
HistoryWriters ==
    /\ kind' = kind
    /\ profiles' = profiles \/ CreateProfile \/ RecoverEmpty \/ PrepareDirectory
    /\ approvals' = approvals \/ Approve
    /\ uses' = uses \/ PublishMetadata
    /\ proven' = proven \/ CreateProfile \/ RecoverEmpty \/ ConsumeApproval \/ OperatorRuns
    /\ swapped' = swapped \/ ConsumeApproval
    /\ touched' = touched \/ AndroidCommand \/ PurgeData
    /\ faults' = faults \/ ((Exchange \/ OperatorRuns \/ VerifyPublication \/ RemoveSentinel
                              \/ PublishFails) /\ faults' = faults + 1)

\* What a start has pinned: kept, dropped with the end, or written by these.
StartWriters ==
    \/ st' = st
    \/ pc' = "idle" /\ st' = Unpinned
    \/ BoundProfile \/ CreateProfile \/ RecoverEmpty \/ RecoverSentinel \/ LegacyProfile
    \/ ConsumeApproval \/ PrepareDirectory \/ VerifyStart \/ StartContainer
    \/ StartBegin \/ PurgeBegin \/ RemoveFiles

\* Every step writes only what Writers, HistoryWriters and StartWriters grant it.
LEMMA WhoWrites == [Next]_vars => Writers /\ HistoryWriters /\ StartWriters
<1> USE DEF disk, docker, history, budgets, Fail, RemovalFails, Writers, HistoryWriters, StartWriters
<1>1. ASSUME Prepare PROVE Writers /\ HistoryWriters /\ StartWriters
  <2>1. CASE BoundProfile \/ MigrateMetadata \/ MigrateVerify \/ CreateProfile \/ RecoverEmpty
    BY <2>1, Zenon DEF BoundProfile, MigrateMetadata, MigrateVerify, CreateProfile, RecoverEmpty, Refuse
  <2>2. CASE RecoverSentinel \/ RefuseUnmarked \/ ChangedMeanwhile \/ LegacyProfile
    BY <2>2, Zenon DEF RecoverSentinel, RefuseUnmarked, ChangedMeanwhile, LegacyProfile, Refuse
  <2>3. CASE ProveLive \/ ConsumeApproval \/ RecheckContainer \/ PrepareDirectory
    BY <2>3, Zenon DEF ProveLive, ConsumeApproval, RecheckContainer, PrepareDirectory
  <2> QED
    BY <1>1, <2>1, <2>2, <2>3, Zenon DEF Prepare
<1>2. ASSUME Publish PROVE Writers /\ HistoryWriters /\ StartWriters
  BY <1>2, Zenon DEF Publish, WriteTemporary, PublishSentinel, PublishMetadata, VerifyPublication,
     RemoveSentinel, PublishFails
<1>3. ASSUME Run PROVE Writers /\ HistoryWriters /\ StartWriters
  BY <1>3, Zenon DEF Run, EnsureNetwork, CreateContainer, VerifyStart, StartContainer, ProveProfile,
     AndroidCommand, StartFails, Stop
<1>4. ASSUME Purge PROVE Writers /\ HistoryWriters /\ StartWriters
  BY <1>4, Zenon DEF Purge, PurgeBegin, PurgeData, PurgeContainer, RemoveFiles
<1>5. ASSUME StartBegin \/ Approve \/ ApproveVerify \/ Crash \/ Exchange \/ OperatorRuns \/ ContainerExits
      PROVE  Writers /\ HistoryWriters /\ StartWriters
  BY <1>5, Zenon DEF StartBegin, Approve, ApproveVerify, Crash, Exchange, OperatorRuns, ContainerExits
<1>6. ASSUME UNCHANGED vars PROVE Writers /\ HistoryWriters /\ StartWriters
  BY <1>6, Zenon DEF vars
<1> QED
  BY <1>1, <1>2, <1>3, <1>4, <1>5, <1>6, Zenon DEF Next

-----------------------------------------------------------------------------
(* The shape of the state.                                                 *)

\* Every step leads from a label to a label.
LEMMA LabelStep ==
    ASSUME pc \in Label, [Next]_vars
    PROVE  pc' \in Label
<1> USE DEF Label, BindLabel, UpLabel, RunLabel, PurgeLabel, Step, Fail, Refuse
<1>1. ASSUME Prepare PROVE pc' \in Label
  <2>1. CASE BoundProfile \/ MigrateMetadata \/ MigrateVerify \/ CreateProfile \/ RecoverEmpty
    BY <2>1 DEF BoundProfile, MigrateMetadata, MigrateVerify, CreateProfile, RecoverEmpty
  <2>2. CASE RecoverSentinel \/ RefuseUnmarked \/ ChangedMeanwhile \/ LegacyProfile
    BY <2>2 DEF RecoverSentinel, RefuseUnmarked, ChangedMeanwhile, LegacyProfile
  <2>3. CASE ProveLive \/ ConsumeApproval \/ RecheckContainer \/ PrepareDirectory
    BY <2>3 DEF ProveLive, ConsumeApproval, RecheckContainer, PrepareDirectory
  <2> QED
    BY <1>1, <2>1, <2>2, <2>3, Zenon DEF Prepare
<1>2. ASSUME Publish PROVE pc' \in Label
  BY <1>2 DEF Publish, WriteTemporary, PublishSentinel, PublishMetadata, VerifyPublication,
     RemoveSentinel, PublishFails
<1>3. ASSUME Run PROVE pc' \in Label
  BY <1>3, StageMoves, FirstStage DEF Run, EnsureNetwork, CreateContainer, VerifyStart,
     StartContainer, ProveProfile, StartFails, Stop
<1>4. ASSUME Purge PROVE pc' \in Label
  BY <1>4 DEF Purge, PurgeBegin, PurgeData, PurgeContainer, RemoveFiles
<1>5. ASSUME StartBegin \/ Approve \/ ApproveVerify \/ Crash \/ Exchange \/ OperatorRuns \/ ContainerExits
      PROVE  pc' \in Label
  BY <1>5 DEF StartBegin, Approve, ApproveVerify, Crash, Exchange, OperatorRuns, ContainerExits
<1>6. ASSUME UNCHANGED vars PROVE pc' \in Label
  BY <1>6 DEF vars
<1> QED
  BY <1>1, <1>2, <1>3, <1>4, <1>5, <1>6, Zenon DEF Next

\* A start works at its labels, and only there; it knows nothing of removals.
LEMMA WorkingLabels ==
    ASSUME Prepare \/ Publish \/ Run
    PROVE  /\ pc \in {"classify", "migrate", "migrated", "verify", "rollback"} \cup BindLabel \cup RunLabel
           /\ deleting' = deleting /\ pc' \notin {"gone", "approve"} \cup PurgeLabel
<1> DEFINE From == pc \in {"classify", "migrate", "migrated", "verify", "rollback"} \cup BindLabel \cup RunLabel
           To   == deleting' = deleting /\ pc' \notin {"gone", "approve"} \cup PurgeLabel
<1> USE DEF BindLabel, UpLabel, RunLabel, PurgeLabel, Step, Fail, Refuse, docker
<1>1. ASSUME Prepare PROVE From /\ To
  <2>1. CASE BoundProfile \/ MigrateMetadata \/ MigrateVerify \/ CreateProfile \/ RecoverEmpty
    BY <2>1 DEF BoundProfile, MigrateMetadata, MigrateVerify, CreateProfile, RecoverEmpty, Unmarked
  <2>2. CASE RecoverSentinel \/ RefuseUnmarked \/ ChangedMeanwhile \/ LegacyProfile
    BY <2>2 DEF RecoverSentinel, RefuseUnmarked, ChangedMeanwhile, LegacyProfile, Unmarked
  <2>3. CASE ProveLive \/ ConsumeApproval \/ RecheckContainer \/ PrepareDirectory
    BY <2>3 DEF ProveLive, ConsumeApproval, RecheckContainer, PrepareDirectory
  <2> QED
    BY <1>1, <2>1, <2>2, <2>3, Zenon DEF Prepare
<1>2. ASSUME Publish PROVE From /\ To
  BY <1>2 DEF Publish, WriteTemporary, PublishSentinel, PublishMetadata, VerifyPublication,
     RemoveSentinel, PublishFails
<1>3. ASSUME Run PROVE From /\ To
  <2>1. CASE EnsureNetwork \/ CreateContainer \/ VerifyStart \/ StartContainer \/ StartFails \/ Stop
    BY <2>1, StageLabels DEF EnsureNetwork, CreateContainer, VerifyStart, StartContainer, StartFails, Stop
  <2>2. CASE ProveProfile \/ AndroidCommand
    <3>1. deleting' = deleting
      BY <2>2, Zenon DEF ProveProfile, AndroidCommand
    <3> QED
      BY <2>2, <3>1, StageMoves, FirstStage DEF ProveProfile
  <2> QED
    BY <1>3, <2>1, <2>2, Zenon DEF Run
<1> QED
  BY <1>1, <1>2, <1>3

\* Values of Metadata, Approval and Container are not Nil.
LEMMA Values ==
    /\ Nil \notin Profile /\ Nil \notin Metadata /\ Nil \notin Approval /\ Nil \notin Container
    /\ Nil \notin Inode
  BY NilIsNothing, DirectoriesDiffer

\* The bounds are numbers, and an account may have an identity and a run.
LEMMA Bounds ==
    /\ MaxProfiles \in Nat /\ MaxEpochs \in Nat /\ MaxApprovals \in Nat
    /\ 1 \in Profile /\ 1 \in 1 .. MaxEpochs
  BY BoundsAreNatural DEF Profile

\* A generated identity is a profile.
LEMMA NewIdentities == TypeOK /\ NewIdentity => profiles' \in Profile
  BY Bounds DEF TypeOK, NewIdentity, Profile

\* A prepared directory has a profile, or the start has failed.
LEMMA Prepared ==
    ASSUME PrepareDirectory
    PROVE  \/ Fail
           \/ NewIdentity /\ pc' = "sentinel" /\ st' = [st EXCEPT !.profile = profiles', !.create = TRUE]
           \/ /\ sentinel[st.dir] # Nil /\ sentinel' = sentinel /\ pc' = "metadata"
              /\ st' = [st EXCEPT !.profile = sentinel[st.dir]]
<1>1. sentinel' = sentinel
  BY Zenon DEF PrepareDirectory, disk
<1> QED
  BY <1>1, Zenon DEF PrepareDirectory, Step

\* What a step pins has the shape of a pin.
LEMMA PinStep ==
    ASSUME ProfileShape, [Next]_vars
    PROVE  st' \in Pinned
<1> USE DEF ProfileShape, Types, TypeOK
<1>0. Unpinned \in Pinned
  BY BoundsAreNatural DEF Unpinned, Pinned
<1>1. CASE StartBegin \/ PurgeBegin
  <2>1. (IF Exists THEN container.epoch ELSE 0) \in 0 .. MaxEpochs
    BY Bounds DEF Exists, Container
  <2> QED
    BY <1>0, <1>1, <2>1 DEF StartBegin, PurgeBegin, Pinned
<1>2. CASE CreateProfile \/ RecoverEmpty
  <2>1. profiles' \in Profile
    BY <1>2, NewIdentities DEF CreateProfile, RecoverEmpty
  <2>2. \E d \in Inode \cup {Nil} :
          st' = [st EXCEPT !.dir = d, !.profile = profiles', !.create = TRUE]
             \/ st' = [st EXCEPT !.profile = profiles', !.create = TRUE]
    BY <1>2, Zenon DEF CreateProfile, RecoverEmpty
  <2> QED
    BY <2>1, <2>2 DEF Pinned
<1>3. CASE RecoverSentinel
  BY <1>3 DEF RecoverSentinel, OnlySentinel, Pinned, Pinning
<1>4. CASE PrepareDirectory
  <2>1. st.dir \in Inode
    BY <1>4, Values DEF PrepareDirectory, Pinning, Pinned, BindLabel
  <2> QED
    BY <1>0, <1>4, <2>1, NewIdentities, Prepared DEF Fail, Pinned
<1>5. CASE LegacyProfile \/ ConsumeApproval
  BY <1>0, <1>5 DEF LegacyProfile, ConsumeApproval, Exists, Approved, Fail, Pinned, Container, Approval
<1>6. CASE VerifyStart \/ StartContainer
  BY <1>6 DEF VerifyStart, StartContainer, Running, Exists, Pinned, Container
<1>7. CASE BoundProfile \/ RemoveFiles
  BY <1>0, <1>7 DEF BoundProfile, RemoveFiles, Refuse, Fail
<1> QED
  BY <1>0, <1>1, <1>2, <1>3, <1>4, <1>5, <1>6, <1>7, WhoWrites DEF StartWriters

\* Any run of any directory is a container.
LEMMA Containers ==
    \A r \in BOOLEAN, i \in Inode \cup {Nil}, e \in 1 .. MaxEpochs :
        [running |-> r, mounted |-> i, epoch |-> e] \in Container
  BY DEF Container

\* A run mounts what is at the path, in a new epoch.
LEMMA RunsAgain ==
    ASSUME TypeOK, StartContainer \/ OperatorRuns
    PROVE  container' \in Container
<1>1. container.epoch + 1 \in 1 .. MaxEpochs /\ path \in Inode
  BY Bounds DEF StartContainer, OperatorRuns, Exists, TypeOK, Container
<1>2. container' = [running |-> TRUE, mounted |-> path, epoch |-> container.epoch + 1]
  BY Zenon DEF StartContainer, OperatorRuns
<1> QED
  BY <1>1, <1>2, Containers

\* Every step keeps the types; one step per variable, over the actions that write it.
LEMMA TypesStep ==
    ASSUME ProfileShape, [Next]_vars
    PROVE  Types'
<1> USE DEF ProfileShape, Types, TypeOK
<1>0. Writers /\ HistoryWriters
  BY WhoWrites
<1>1. path' \in Inode \cup {Nil}
  BY <1>0 DEF Writers, CreateProfile, RemoveFiles, Exchange
<1>2. used' \subseteq Inode
  BY <1>0 DEF Writers, StartContainer, PurgeData, OperatorRuns
<1>3. litter' \subseteq Inode
  <2>1. WriteTemporary => st.dir \in Inode
    BY Values DEF WriteTemporary, Pinning, Pinned, BindLabel
  <2> QED
    BY <1>0, <2>1 DEF Writers, WriteTemporary, PublishSentinel, PublishFails, PurgeData
<1>4. sentinel' \in [Inode -> Profile \cup {Nil}]
  <2>1. st.profile \in Profile \cup {Nil}
    BY DEF Pinned
  <2> QED
    BY <1>0, <2>1 DEF Writers, PublishSentinel, RemoveSentinel, PurgeData
<1>5. meta' \in Metadata \cup {Nil}
  <2>1. CASE MigrateMetadata
    BY <2>1 DEF MigrateMetadata, Marked, Metadata
  <2>2. CASE MigrateVerify
    BY <2>2 DEF MigrateVerify, RestoredMetadata, Marked, Metadata
  <2>3. CASE PublishMetadata
    BY <2>3 DEF PublishMetadata, NewMetadata, Pinning, Pinned, Metadata, BindLabel
  <2>4. CASE VerifyPublication \/ RemoveFiles
    BY <2>4 DEF VerifyPublication, RemoveFiles
  <2> QED
    BY <1>0, <2>1, <2>2, <2>3, <2>4 DEF Writers
<1>6. approvals' \in 0 .. MaxApprovals
  BY <1>0, Bounds DEF HistoryWriters, Approve
<1>7. approval' \in Approval \cup {Nil}
  <2>1. CASE Approve
    <3>1. approvals' \in 1 .. MaxApprovals
      BY <2>1, Bounds DEF Approve
    <3>2. path \in Inode /\ container.epoch \in 1 .. MaxEpochs
      BY <2>1 DEF Approve, Markerless, StoppedExact, Exists, Container
    <3> QED
      BY <2>1, <3>1, <3>2 DEF Approve, Approval
  <2> QED
    BY <1>0, <2>1 DEF Writers, ProveLive, ConsumeApproval, ConsumedApproval, ApproveVerify, RemoveFiles
<1>8. container' \in Container \cup {Nil}
  <2>1. CASE PrepareDirectory \/ Stop \/ StartFails \/ ContainerExits
    BY <2>1 DEF PrepareDirectory, Stop, StartFails, ContainerExits, Running, Exists, Contained, UpLabel,
       Container
  <2>2. CASE PurgeContainer
    BY <2>2 DEF PurgeContainer
  <2>4. CASE CreateContainer
    <3>1. container' = container \/ container' = [running |-> FALSE, mounted |-> Nil, epoch |-> 1]
      BY <2>4, Zenon DEF CreateContainer
    <3>2. [running |-> FALSE, mounted |-> Nil, epoch |-> 1] \in Container
      BY Bounds, Containers
    <3> QED
      BY <3>1, <3>2
  <2>3. CASE StartContainer \/ OperatorRuns
    BY <2>3, RunsAgain
  <2> QED
    BY <1>0, <2>1, <2>2, <2>3, <2>4 DEF Writers
<1>9. network' \in BOOLEAN /\ deleting' \in BOOLEAN
  BY <1>0 DEF Writers, EnsureNetwork, PurgeContainer, RemoveNetwork, PurgeBegin
<1>10. proven' \subseteq Inode /\ swapped' \subseteq Inode
  <2>1. ConsumeApproval => /\ proven' \in {proven, proven \cup {approval.inode}}
                           /\ swapped' \in {swapped, swapped \cup {st.dir}}
                           /\ approval.inode \in Inode \/ UNCHANGED <<proven, swapped>>
                           /\ st.dir \in Inode
    BY Values DEF ConsumeApproval, Approved, Pinning, Pinned, BindLabel, Approval
  <2>2. RecoverEmpty => st.dir \in Inode
    BY DEF RecoverEmpty, Pinned
  <2> QED
    BY <1>0, <2>1, <2>2 DEF HistoryWriters, CreateProfile, RecoverEmpty, OperatorRuns
<1>11. touched' \subseteq Inode
  <2>1. AndroidCommand => container.mounted \in Inode
    BY Values DEF AndroidCommand, ProvesProfile, Profiled, LiveProof, Running, Exists, Container, Bound,
       MetadataNames, Metadata
  <2>2. PurgeData => touched' = touched \/ (touched' = touched \cup {st.dir} /\ path = st.dir /\ st.dir # Nil)
    BY Zenon DEF PurgeData
  <2>3. AndroidCommand => touched' = touched \cup {container.mounted}
    BY DEF AndroidCommand
  <2> QED
    BY <1>0, <2>1, <2>2, <2>3 DEF HistoryWriters
<1>12. profiles' \in 0 .. MaxProfiles
  <2>1. profiles' = profiles \/ NewIdentity
    BY <1>0 DEF HistoryWriters, CreateProfile, RecoverEmpty, PrepareDirectory
  <2> QED
    BY <2>1, Bounds DEF NewIdentity
<1>13. faults' \in Nat
  BY <1>0 DEF HistoryWriters
<1>14. uses' \in [1 .. MaxApprovals -> Nat]
  BY <1>0 DEF HistoryWriters, PublishMetadata
<1> QED
  BY <1>1, <1>2, <1>3, <1>4, <1>5, <1>6, <1>7, <1>8, <1>9, <1>10, <1>11, <1>12, <1>13, <1>14,
     PinStep, LabelStep

\* The metadata are written and removed only between two labels that allow it.
LEMMA MarkedStep ==
    ASSUME ProfileShape, [Next]_vars
    PROVE  Marked'
<1> USE DEF BindLabel, RunLabel, UpLabel, Step, Fail, disk
<1>0. Nil \notin Metadata
  BY Values
<1>1. ASSUME Prepare PROVE Marked'
  <2>1. CASE MigrateMetadata
    <3>1. meta' # Nil \/ pc' = "idle"
      BY <2>1, <1>0, TypesStep DEF MigrateMetadata, ProfileShape, Marked, Types, TypeOK, Metadata
    <3> QED
      BY <2>1, <3>1 DEF MigrateMetadata, Marked
  <2>2. CASE MigrateVerify
    BY <2>2 DEF MigrateVerify, ProfileShape, Marked
  <2>3. CASE BoundProfile \/ CreateProfile \/ RecoverEmpty \/ RecoverSentinel \/ RefuseUnmarked
    BY <2>3 DEF BoundProfile, CreateProfile, RecoverEmpty, RecoverSentinel, RefuseUnmarked, Refuse,
       Unmarked, Marked
  <2>4. CASE ChangedMeanwhile \/ LegacyProfile \/ ProveLive \/ ConsumeApproval
    BY <2>4 DEF ChangedMeanwhile, LegacyProfile, ProveLive, ConsumeApproval, Unmarked,
       ProfileShape, Marked
  <2>5. CASE RecheckContainer \/ PrepareDirectory
    BY <2>5 DEF RecheckContainer, PrepareDirectory, ProfileShape, Marked
  <2> QED
    BY <1>1, <2>1, <2>2, <2>3, <2>4, <2>5, Zenon DEF Prepare
<1>2. ASSUME Publish PROVE Marked'
  <2>1. CASE PublishMetadata
    <3>1. pc' = "verify" => meta' # Nil
      BY <2>1, <1>0 DEF PublishMetadata, NewMetadata, ProfileShape, Types, TypeOK, Pinning, Pinned, Metadata
    <3> QED
      BY <2>1, <3>1 DEF PublishMetadata, ProfileShape, Marked
  <2>2. CASE VerifyPublication
    BY <2>2 DEF VerifyPublication, ProfileShape, Marked
  <2>3. CASE WriteTemporary \/ PublishSentinel \/ RemoveSentinel \/ PublishFails
    BY <2>3 DEF WriteTemporary, PublishSentinel, RemoveSentinel, PublishFails, ProfileShape, Marked
  <2> QED
    BY <1>2, <2>1, <2>2, <2>3, Zenon DEF Publish
<1>3. ASSUME Run PROVE Marked'
  <2>1. meta' = meta
    BY <1>3, Zenon DEF Run, EnsureNetwork, CreateContainer, VerifyStart, StartContainer, ProveProfile,
       AndroidCommand, StartFails, Stop
  <2>2. pc \in RunLabel /\ pc' \notin BindLabel \cup {"migrate", "migrated", "verify"}
    BY <1>3, StageMoves, FirstStage, StageLabels DEF Run, EnsureNetwork, CreateContainer, VerifyStart,
       StartContainer, ProveProfile, StartFails, Stop
  <2> QED
    BY <2>1, <2>2 DEF ProfileShape, Marked
<1>4. ASSUME Purge PROVE Marked'
  BY <1>4 DEF Purge, PurgeBegin, LockFree, PurgeData, PurgeContainer, RemoveFiles, Marked
<1>5. ASSUME StartBegin \/ Approve \/ ApproveVerify \/ Crash PROVE Marked'
  BY <1>5 DEF StartBegin, Approve, ApproveVerify, Crash, Marked
<1>6. ASSUME Exchange \/ OperatorRuns \/ ContainerExits \/ UNCHANGED vars PROVE Marked'
  BY <1>6 DEF Exchange, OperatorRuns, ContainerExits, vars, ProfileShape, Marked
<1> QED
  BY <1>1, <1>2, <1>3, <1>4, <1>5, <1>6, Zenon DEF Next

\* A start that publishes has its directory and its profile, from the first marker on.
LEMMA PinningStep ==
    ASSUME ProfileShape, [Next]_vars
    PROVE  Pinning'
<1> USE DEF BindLabel, Step, Fail, disk
<1>0. Nil \notin Profile
  BY Values
<1>1. ASSUME Prepare PROVE Pinning'
  <2>1. CASE CreateProfile \/ RecoverEmpty
    <3>1. st \in Pinned /\ profiles' # Nil
      BY <2>1, <1>0, NewIdentities DEF CreateProfile, RecoverEmpty, ProfileShape, Types, TypeOK
    <3>2. st'.profile = profiles' /\ st'.dir # Nil
      BY <2>1, <3>1, Values DEF CreateProfile, RecoverEmpty, Pinned
    <3> QED
      BY <2>1, <3>1, <3>2 DEF CreateProfile, RecoverEmpty, Pinning
  <2>2. CASE PrepareDirectory
    <3>1. \/ pc' = "idle"
          \/ st'.dir = st.dir /\ st'.profile # Nil /\ pc' \in {"sentinel", "metadata"}
      <4>1. st \in Pinned /\ TypeOK
        BY DEF ProfileShape, Types, TypeOK
      <4>2. NewIdentity => profiles' # Nil
        BY <1>0, <4>1, NewIdentities
      <4> QED
        BY <2>2, <4>1, <4>2 DEF PrepareDirectory, Pinned
    <3>2. pc' = "metadata" => sentinel'[st'.dir] = st'.profile
      BY <2>2, <3>1 DEF PrepareDirectory, ProfileShape, Types, TypeOK, Pinned
    <3> QED
      BY <2>2, <3>1, <3>2 DEF PrepareDirectory, ProfileShape, Pinning
  <2>3. CASE RecoverSentinel
    BY <2>3 DEF RecoverSentinel, OnlySentinel, ProfileShape, Types, TypeOK, Pinned, Pinning
  <2>4. CASE LegacyProfile \/ ConsumeApproval
    <3>1. (st'.dir = st.dir /\ st.dir # Nil) \/ pc' = "idle"
      BY <2>4 DEF LegacyProfile, ConsumeApproval, ProfileShape, Types, TypeOK, Pinned, Pinning
    <3>2. pc' \in {"idle", "prove", "consume", "recheck"}
      BY <2>4 DEF LegacyProfile, ConsumeApproval
    <3> QED
      BY <3>1, <3>2 DEF Pinning
  <2>5. CASE ProveLive \/ RecheckContainer \/ ChangedMeanwhile
    BY <2>5 DEF ProveLive, RecheckContainer, ChangedMeanwhile, ProfileShape, Pinning
  <2>6. CASE BoundProfile \/ MigrateMetadata \/ MigrateVerify \/ RefuseUnmarked
    BY <2>6 DEF BoundProfile, MigrateMetadata, MigrateVerify, RefuseUnmarked, Refuse, Pinning
  <2> QED
    BY <1>1, <2>1, <2>2, <2>3, <2>4, <2>5, <2>6, Zenon DEF Prepare
<1>2. ASSUME Publish PROVE Pinning'
  <2>1. CASE PublishSentinel
    <3>1. st.dir \in Inode
      BY <2>1 DEF PublishSentinel, ProfileShape, Types, TypeOK, Pinned, Pinning
    <3>2. sentinel'[st.dir] = st.profile
      BY <2>1, <3>1 DEF PublishSentinel, ProfileShape, Types, TypeOK
    <3> QED
      BY <2>1, <3>2 DEF PublishSentinel, ProfileShape, Pinning
  <2>2. CASE WriteTemporary \/ PublishMetadata \/ VerifyPublication \/ RemoveSentinel \/ PublishFails
    BY <2>2 DEF WriteTemporary, PublishMetadata, VerifyPublication, RemoveSentinel, PublishFails,
       ProfileShape, Pinning
  <2> QED
    BY <1>2, <2>1, <2>2, Zenon DEF Publish
<1>3. ASSUME Run PROVE Pinning'
  <2>1. pc' \notin BindLabel \cup {"verify", "rollback"}
    BY <1>3, StageMoves, FirstStage DEF Run, EnsureNetwork, CreateContainer, VerifyStart,
       StartContainer, ProveProfile, StartFails, Stop
  <2> QED
    BY <2>1 DEF Pinning
<1>4. ASSUME Purge PROVE Pinning'
  BY <1>4 DEF Purge, PurgeBegin, LockFree, PurgeData, PurgeContainer, RemoveFiles, Pinning
<1>5. ASSUME StartBegin \/ Approve \/ ApproveVerify \/ Crash PROVE Pinning'
  BY <1>5 DEF StartBegin, Approve, ApproveVerify, Crash, Pinning
<1>6. ASSUME Exchange \/ OperatorRuns \/ ContainerExits \/ UNCHANGED vars PROVE Pinning'
  BY <1>6 DEF Exchange, OperatorRuns, ContainerExits, vars, ProfileShape, Pinning
<1> QED
  BY <1>1, <1>2, <1>3, <1>4, <1>5, <1>6, Zenon DEF Next

\* Only a removal takes the container away.
LEMMA ContainedStep ==
    ASSUME ProfileShape, [Next]_vars
    PROVE  Contained'
<1> USE DEF UpLabel, Step, Fail, disk, docker
<1>0. Nil \notin Container /\ container' \in Container \cup {Nil}
  BY Values, TypesStep DEF Types, TypeOK
<1>1. ASSUME Prepare PROVE Contained'
  <2>1. pc' \notin UpLabel \cup {"purge files", "gone"}
    <3>1. CASE BoundProfile \/ MigrateMetadata \/ MigrateVerify \/ CreateProfile \/ RecoverEmpty
      BY <3>1 DEF BoundProfile, MigrateMetadata, MigrateVerify, CreateProfile, RecoverEmpty, Refuse
    <3>2. CASE RecoverSentinel \/ RefuseUnmarked \/ ChangedMeanwhile \/ LegacyProfile
      BY <3>2 DEF RecoverSentinel, RefuseUnmarked, ChangedMeanwhile, LegacyProfile, Refuse
    <3>3. CASE ProveLive \/ ConsumeApproval \/ RecheckContainer \/ PrepareDirectory
      BY <3>3 DEF ProveLive, ConsumeApproval, RecheckContainer, PrepareDirectory
    <3> QED
      BY <1>1, <3>1, <3>2, <3>3, Zenon DEF Prepare
  <2> QED
    BY <2>1 DEF Contained
<1>2. ASSUME Publish PROVE Contained'
  BY <1>2 DEF Publish, WriteTemporary, PublishSentinel, PublishMetadata, VerifyPublication,
     RemoveSentinel, PublishFails, Contained
<1>3. ASSUME Run PROVE Contained'
  <2>1. CASE EnsureNetwork \/ VerifyStart \/ ProveProfile
    BY <2>1, FirstStage DEF EnsureNetwork, VerifyStart, ProveProfile, ProfileShape, Contained, Exists
  <2>2. CASE CreateContainer
    <3>1. container' # Nil
      BY <2>2, <1>0, Bounds, Containers DEF CreateContainer, Exists
    <3> QED
      BY <2>2, <3>1 DEF CreateContainer, Contained, Exists
  <2>3. CASE StartContainer
    <3>1. container' # Nil
      BY <2>3, <1>0, RunsAgain DEF ProfileShape, Types
    <3> QED
      BY <2>3, <3>1 DEF StartContainer, Contained, Exists
  <2>4. CASE AndroidCommand
    BY <2>4, StageMoves DEF AndroidCommand, ProfileShape, Contained, Exists
  <2>5. CASE StartFails \/ Stop
    BY <2>5 DEF StartFails, Stop, Contained
  <2> QED
    BY <1>3, <2>1, <2>2, <2>3, <2>4, <2>5, Zenon DEF Run
<1>4. ASSUME Purge PROVE Contained'
  BY <1>4 DEF Purge, PurgeBegin, PurgeData, PurgeContainer, RemoveFiles, ProfileShape, Contained, Exists
<1>5. ASSUME StartBegin \/ Approve \/ ApproveVerify \/ Crash PROVE Contained'
  BY <1>5 DEF StartBegin, Approve, ApproveVerify, Crash, Contained
<1>6. ASSUME Exchange \/ UNCHANGED vars PROVE Contained'
  BY <1>6 DEF Exchange, vars, ProfileShape, Contained, Exists
<1>7. ASSUME OperatorRuns PROVE Contained'
  <2>1. container' # Nil
    BY <1>7, <1>0, RunsAgain DEF ProfileShape, Types
  <2> QED
    BY <1>7, <2>1 DEF OperatorRuns, ProfileShape, Contained, Exists
<1>8. ASSUME ContainerExits PROVE Contained'
  <2>1. container' # Nil
    BY <1>8, <1>0 DEF ContainerExits, Running, Exists, ProfileShape, Types, TypeOK, Container
  <2> QED
    BY <1>8, <2>1 DEF ContainerExits, Running, ProfileShape, Contained, Exists
<1> QED
  BY <1>1, <1>2, <1>3, <1>4, <1>5, <1>6, <1>7, <1>8, Zenon DEF Next

\* The mark of a removal stays, and no start begins under it.
LEMMA RemovingStep ==
    ASSUME ProfileShape, [Next]_vars
    PROVE  Removing'
<1> USE DEF BindLabel, RunLabel, UpLabel, PurgeLabel, Step, Fail, docker
<1>1. ASSUME Prepare \/ Publish \/ Run PROVE Removing'
  <2>1. ~deleting
    <3>1. pc \in {"classify", "migrate", "migrated", "verify", "rollback"} \cup BindLabel \cup RunLabel
      BY <1>1, WorkingLabels
    <3> QED
      BY <3>1 DEF ProfileShape, Removing
  <2>2. deleting' = deleting /\ pc' \notin {"gone"} \cup PurgeLabel
    BY <1>1, WorkingLabels
  <2> QED
    BY <2>1, <2>2 DEF Removing
<1>2. ASSUME Purge PROVE Removing'
  BY <1>2 DEF Purge, PurgeBegin, LockFree, PurgeData, PurgeContainer, RemoveFiles, ProfileShape, Removing
<1>3. ASSUME StartBegin \/ Approve PROVE Removing'
  <2>1. deleting' = deleting /\ ~deleting /\ pc' \in {"classify", "approve"}
    BY <1>3, Zenon DEF StartBegin, Approve, Offline
  <2> QED
    BY <2>1 DEF Removing
<1>4. ASSUME ApproveVerify \/ Crash PROVE Removing'
  BY <1>4 DEF ApproveVerify, Crash, Removing
<1>5. ASSUME Exchange \/ OperatorRuns \/ ContainerExits \/ UNCHANGED vars PROVE Removing'
  <2>1. deleting' = deleting /\ pc' = pc
    BY <1>5, Zenon DEF Exchange, OperatorRuns, ContainerExits, vars
  <2> QED
    BY <2>1 DEF ProfileShape, Removing
<1> QED
  BY <1>1, <1>2, <1>3, <1>4, <1>5, Zenon DEF Next

\* The shape is kept ...
LEMMA ShapeStep == ProfileShape /\ [Next]_vars => ProfileShape'
  BY TypesStep, MarkedStep, PinningStep, ContainedStep, RemovingStep DEF ProfileShape

\* ... and is there in the beginning, whatever the account was.
LEMMA ShapeInit == Init => ProfileShape
<1> SUFFICES ASSUME Init PROVE ProfileShape
  OBVIOUS
<1> USE DEF Init
<1>1. Types
  <2>1. meta \in Metadata \cup {Nil}
    BY Bounds, DirectoriesDiffer DEF Metadata
  <2>2. container \in Container \cup {Nil}
    BY Bounds, DirectoriesDiffer, Containers
  <2>3. st \in Pinned
    BY Bounds DEF Unpinned, Pinned
  <2>4. sentinel \in [Inode -> Profile \cup {Nil}]
    BY Bounds
  <2>5. uses \in [1 .. MaxApprovals -> Nat] /\ approvals \in 0 .. MaxApprovals
    BY Bounds
  <2>6. profiles \in 0 .. MaxProfiles
    BY Bounds DEF Profile
  <2>7. path \in Inode \cup {Nil} /\ used \subseteq Inode /\ litter \subseteq Inode
    BY DirectoriesDiffer
  <2>8. {proven, swapped} \subseteq SUBSET Inode /\ touched \subseteq Inode /\ approval = Nil
    BY DirectoriesDiffer
  <2>9. network \in BOOLEAN /\ deleting \in BOOLEAN /\ faults \in Nat /\ pc \in Label
    BY DEF Label
  <2> HIDE DEF Init
  <2> QED
    BY <2>1, <2>2, <2>3, <2>4, <2>5, <2>6, <2>7, <2>8, <2>9 DEF Types, TypeOK
<1>2. Marked /\ Pinning /\ Contained /\ Removing
  BY DEF Marked, Pinning, Contained, Removing, BindLabel, RunLabel, UpLabel, PurgeLabel
<1> QED
  BY <1>1, <1>2 DEF ProfileShape

-----------------------------------------------------------------------------
(* Approvals.                                                              *)

\* The labels at which no approval is consumed yet, and those at which the
\* consumed one has not bound its profile.
FreshLabel == {"idle", "approve", "classify", "prove", "consume"}
OpenLabel  == BindLabel

\* Only ConsumeApproval brings a number into a start; a start keeps or forgets it.
NumberMove ==
    /\ st'.number \in {0, st.number}
    /\ pc' \in FreshLabel => st'.number = 0
    /\ pc' \in OpenLabel => pc \in OpenLabel \/ st'.number = 0

\* All steps but the consumption of an approval move its number so.
LEMMA NumberMoves ==
    ASSUME ProfileShape, pc \in FreshLabel => st.number = 0, [Next]_vars, ~ConsumeApproval
    PROVE  NumberMove
<1> USE DEF FreshLabel, OpenLabel, BindLabel, RunLabel, UpLabel, Step, Fail, Refuse
<1>0. st \in Pinned
  BY DEF ProfileShape, Types, TypeOK
<1>1. ASSUME Prepare PROVE NumberMove
  <2>1. CASE BoundProfile \/ MigrateMetadata \/ MigrateVerify \/ RefuseUnmarked \/ ChangedMeanwhile
    BY <2>1 DEF BoundProfile, MigrateMetadata, MigrateVerify, RefuseUnmarked, ChangedMeanwhile,
       Unmarked, Unpinned, NumberMove
  <2>2. CASE CreateProfile \/ RecoverEmpty \/ RecoverSentinel
    BY <1>0, <2>2 DEF CreateProfile, RecoverEmpty, RecoverSentinel, Unmarked, Pinned, NumberMove
  <2>3. CASE LegacyProfile \/ ProveLive
    BY <1>0, <2>3 DEF LegacyProfile, ProveLive, Unmarked, Unpinned, Pinned, NumberMove
  <2>4. CASE RecheckContainer
    BY <2>4 DEF RecheckContainer, Unpinned, NumberMove
  <2>5. CASE PrepareDirectory
    <3>1. pc = "prepare"
      BY <2>5 DEF PrepareDirectory
    <3>2. CASE Fail
      BY <3>2 DEF Unpinned, NumberMove
    <3>3. CASE ~Fail
      <4>1. pc' \in {"sentinel", "metadata"}
        BY <2>5, <3>3, Prepared, Zenon
      <4>2. \/ st' = [st EXCEPT !.profile = profiles', !.create = TRUE]
            \/ st' = [st EXCEPT !.profile = sentinel[st.dir]]
        BY <2>5, <3>3, Prepared, Zenon
      <4>3. st'.number = st.number
        BY <1>0, <4>2 DEF Pinned
      <4> QED
        BY <3>1, <4>1, <4>3 DEF NumberMove
    <3> QED
      BY <3>2, <3>3
  <2> QED
    BY <1>1, <2>1, <2>2, <2>3, <2>4, <2>5, Zenon DEF Prepare
<1>2. ASSUME Publish PROVE NumberMove
  BY <1>2 DEF Publish, WriteTemporary, PublishSentinel, PublishMetadata, VerifyPublication,
     RemoveSentinel, PublishFails, Unpinned, NumberMove
<1>3. ASSUME Run PROVE NumberMove
  <2>1. CASE EnsureNetwork \/ CreateContainer \/ StartFails \/ Stop
    BY <2>1 DEF EnsureNetwork, CreateContainer, StartFails, Stop, Unpinned, NumberMove
  <2>2. CASE VerifyStart \/ StartContainer
    BY <1>0, <2>2 DEF VerifyStart, StartContainer, Pinned, NumberMove
  <2>3. CASE ProveProfile \/ AndroidCommand
    <3>1. st' = st
      BY <2>3, Zenon DEF ProveProfile, AndroidCommand
    <3> QED
      BY <2>3, <3>1, FirstStage, StageMoves DEF ProveProfile, NumberMove
  <2> QED
    BY <1>3, <2>1, <2>2, <2>3, Zenon DEF Run
<1>4. ASSUME Purge PROVE NumberMove
  <2>1. CASE PurgeBegin
    BY <2>1 DEF PurgeBegin, Unpinned, NumberMove
  <2>2. CASE PurgeData \/ PurgeContainer \/ RemoveFiles
    <3>1. \/ st' = st /\ pc' \in {"purge container", "purge files"}
          \/ st' = Unpinned /\ pc' \in {"idle", "gone"}
      BY <2>2, Zenon DEF PurgeData, PurgeContainer, RemoveFiles
    <3>2. pc' \notin OpenLabel /\ Unpinned.number = 0
      BY <3>1 DEF Unpinned
    <3>3. pc' \in FreshLabel => st' = Unpinned
      BY <3>1
    <3> QED
      BY <3>1, <3>2, <3>3, Zenon DEF NumberMove
  <2> QED
    BY <1>4, <2>1, <2>2, Zenon DEF Purge
<1>5. ASSUME StartBegin \/ Approve \/ ApproveVerify \/ Crash PROVE NumberMove
  BY <1>5 DEF StartBegin, Approve, Offline, ApproveVerify, Crash, Unpinned, NumberMove
<1>6. ASSUME Exchange \/ OperatorRuns \/ ContainerExits \/ UNCHANGED vars PROVE NumberMove
  <2>1. st' = st /\ pc' = pc
    BY <1>6, Zenon DEF Exchange, OperatorRuns, ContainerExits, vars
  <2> QED
    BY <2>1 DEF NumberMove
<1> QED
  BY <1>1, <1>2, <1>3, <1>4, <1>5, <1>6, Zenon DEF Next

\* An approval is consumed before its markers are written, and counts once.
LEMMA UnspentStep ==
    ASSUME ProfileShape, Unspent, [Next]_vars
    PROVE  Unspent'
<1> USE DEF FreshLabel, OpenLabel, BindLabel
<1>0. /\ st \in Pinned /\ approval \in Approval \cup {Nil} /\ uses \in [1 .. MaxApprovals -> Nat]
      /\ approvals \in 0 .. MaxApprovals /\ MaxApprovals \in Nat
  BY Bounds DEF ProfileShape, Types, TypeOK
<1>1. CASE ConsumeApproval
  <2>1. /\ pc = "consume" /\ st.number = 0
        /\ uses' = uses /\ approvals' = approvals
    BY <1>1 DEF ConsumeApproval, Unspent, history
  <2>2. CASE Fail /\ approval' \in {approval, Nil}
    BY <1>0, <2>1, <2>2 DEF Fail, Unpinned, Unspent
  <2>3. CASE /\ approval # Nil /\ approval' = Nil /\ pc' = "recheck"
             /\ st' = [st EXCEPT !.number = approval.number]
    BY <1>0, <2>1, <2>3 DEF Unspent, Pinned, Approval
  <2> QED
    BY <1>1, <2>2, <2>3 DEF ConsumeApproval, ConsumedApproval, Approved, Step
<1>2. CASE Approve
  <2>1. /\ pc' = "approve" /\ st' = st /\ st.number = 0 /\ uses' = uses
        /\ approvals' = approvals + 1 /\ approvals < MaxApprovals
        /\ approval'.number = approvals'
    BY <1>2 DEF Approve, Offline, Step, Unspent
  <2>2. uses[approvals'] = 0
    BY <1>0, <2>1 DEF Unspent
  <2> QED
    BY <1>0, <2>1, <2>2 DEF Unspent
<1>3. CASE PublishMetadata
  <2>1. /\ pc = "metadata" /\ pc' \in {"verify", "rollback"} /\ st' = st
        /\ approval' = approval /\ approvals' = approvals
    BY <1>3 DEF PublishMetadata, Step
  <2>2. \A n \in 1 .. MaxApprovals : uses'[n] = uses[n] \/ (n = st.number /\ uses'[n] = uses[n] + 1)
    BY <1>0, <1>3 DEF PublishMetadata
  <2>3. st.number # 0 => approval = Nil /\ uses[st.number] = 0
    BY <2>1 DEF Unspent
  <2>4. \A n \in 1 .. MaxApprovals : uses'[n] <= 1 /\ (n > approvals => uses'[n] = 0)
    BY <1>0, <2>2, <2>3 DEF Unspent, Pinned
  <2>5. approval # Nil => approval.number <= approvals /\ uses'[approval.number] = 0
    BY <1>0, <2>2, <2>3 DEF Unspent, Approval
  <2> QED
    BY <2>1, <2>4, <2>5 DEF Unspent
<1>4. CASE ~ConsumeApproval /\ ~Approve /\ ~PublishMetadata
  <2>1. uses' = uses /\ approvals' = approvals /\ approval' \in {approval, Nil}
    BY <1>4, WhoWrites DEF Writers, HistoryWriters, ProveLive, ApproveVerify, RemoveFiles
  <2>2. NumberMove
    BY <1>4, NumberMoves DEF Unspent
  <2> QED
    BY <1>0, <2>1, <2>2 DEF Unspent, NumberMove, Pinned
<1> QED
  BY <1>1, <1>2, <1>3, <1>4

\* How a start comes to the labels at which its directory matters.
Arrival ==
    \/ pc' = pc /\ st' = st
    \/ pc' = "consume" /\ LegacyProfile
    \/ pc' = "recheck" /\ ConsumeApproval
    \/ pc' = "prepare" /\ (ProveLive \/ RecheckContainer)
    \/ pc' = "sentinel" /\ (CreateProfile \/ RecoverEmpty \/ PrepareDirectory)
    \/ pc' = "rename" /\ WriteTemporary
    \/ pc' = "metadata" /\ (RecoverSentinel \/ PrepareDirectory \/ PublishSentinel)
    \/ pc' = "verify" /\ PublishMetadata
    \/ pc' = "purge data" /\ PurgeBegin
    \/ pc' \notin {"consume", "recheck", "prepare", "sentinel", "rename", "metadata", "verify", "purge data"}

\* Every step arrives so.
LEMMA Arrivals == [Next]_vars => Arrival
<1> SUFFICES ASSUME [Next]_vars PROVE Arrival
  OBVIOUS
<1> USE DEF Step, Fail, Refuse
<1>1. ASSUME Prepare PROVE Arrival
  <2>1. CASE BoundProfile \/ MigrateMetadata \/ MigrateVerify \/ CreateProfile \/ RecoverEmpty
    BY <2>1 DEF BoundProfile, MigrateMetadata, MigrateVerify, CreateProfile, RecoverEmpty, Arrival
  <2>2. CASE RecoverSentinel \/ RefuseUnmarked \/ ChangedMeanwhile \/ LegacyProfile
    BY <2>2 DEF RecoverSentinel, RefuseUnmarked, ChangedMeanwhile, LegacyProfile, Arrival
  <2>3. CASE ProveLive \/ ConsumeApproval \/ RecheckContainer \/ PrepareDirectory
    BY <2>3 DEF ProveLive, ConsumeApproval, RecheckContainer, PrepareDirectory, Arrival
  <2> QED
    BY <1>1, <2>1, <2>2, <2>3, Zenon DEF Prepare
<1>2. ASSUME Publish PROVE Arrival
  <2>1. CASE WriteTemporary \/ PublishSentinel \/ PublishMetadata
    BY <2>1 DEF WriteTemporary, PublishSentinel, PublishMetadata, Arrival
  <2>2. CASE VerifyPublication \/ RemoveSentinel \/ PublishFails
    BY <2>2 DEF VerifyPublication, RemoveSentinel, PublishFails, Arrival
  <2> QED
    BY <1>2, <2>1, <2>2, Zenon DEF Publish
<1>3. ASSUME Run PROVE Arrival
  BY <1>3, StageMoves, FirstStage DEF Run, EnsureNetwork, CreateContainer, VerifyStart,
     StartContainer, ProveProfile, StartFails, Stop, Arrival
<1>4. ASSUME Purge \/ StartBegin \/ Approve \/ ApproveVerify \/ Crash PROVE Arrival
  BY <1>4 DEF Purge, PurgeBegin, PurgeData, PurgeContainer, RemoveFiles, StartBegin, Approve,
     ApproveVerify, Crash, Arrival
<1>5. ASSUME Exchange \/ OperatorRuns \/ ContainerExits \/ UNCHANGED vars PROVE Arrival
  BY <1>5, Zenon DEF Exchange, OperatorRuns, ContainerExits, vars, Arrival
<1> QED
  BY <1>1, <1>2, <1>3, <1>4, <1>5, Zenon DEF Next

\* The end is the end.
LEMMA GoneStays == Contained /\ pc = "gone" /\ [Next]_vars => UNCHANGED vars
<1> SUFFICES ASSUME Contained, pc = "gone", Next PROVE FALSE
  OBVIOUS
<1>1. ~Exists
  BY DEF Contained
<1>2. ~Prepare /\ ~Publish /\ ~Run
  BY WorkingLabels DEF BindLabel, RunLabel, UpLabel
<1>3. ~Purge /\ ~StartBegin /\ ~Approve /\ ~ApproveVerify /\ ~Crash /\ ~Exchange
  BY DEF Purge, PurgeBegin, PurgeData, PurgeContainer, RemoveFiles, LockFree, StartBegin, Approve,
     Offline, ApproveVerify, Crash, Exchange
<1>4. ~OperatorRuns /\ ~ContainerExits
  BY <1>1 DEF OperatorRuns, ContainerExits, Running
<1> QED
  BY <1>2, <1>3, <1>4, Zenon DEF Next

\* The migration and the way back keep what the metadata bind.
LEMMA MigrationKeeps ==
    ASSUME ProfileShape, MigrateMetadata \/ MigrateVerify
    PROVE  meta' # Nil /\ meta'.profile = meta.profile /\ meta'.inode = meta.inode
<1>1. meta \in Metadata
  BY DEF ProfileShape, Types, TypeOK, Marked, MigrateMetadata, MigrateVerify
<1>2. meta' = meta \/ \E v \in {1, 2} : meta' = [meta EXCEPT !.schema = v]
  BY DEF MigrateMetadata, MigrateVerify, RestoredMetadata
<1>3. \A v \in {1, 2} : [meta EXCEPT !.schema = v] \in Metadata
  BY <1>1 DEF Metadata
<1> QED
  BY <1>1, <1>2, <1>3, Values DEF Metadata

\* What Android was used with is bound: a publication that may be taken back
\* began without metadata, so before any use.
LEMMA SettledStep ==
    ASSUME ProfileShape, Settled, [Next]_vars
    PROVE  Settled'
<1>0. Writers /\ HistoryWriters
  BY WhoWrites
<1>1. CASE touched' # touched
  <2>1. meta # Nil /\ meta' = meta /\ pc' # "verify"
    <3>1. CASE AndroidCommand
      BY <3>1, StageMoves, Zenon
         DEF AndroidCommand, ProvesProfile, Profiled, Bound, MetadataNames, disk
    <3>2. CASE PurgeData
      BY <1>1, <3>2 DEF PurgeData, Step, Fail
    <3> QED
      BY <1>0, <1>1, <3>1, <3>2 DEF HistoryWriters
  <2> QED
    BY <2>1 DEF Settled
<1>2. CASE touched' = touched /\ meta' = meta
  <2>1. pc' = "verify" => pc = "verify" \/ PublishMetadata
    BY Arrivals DEF Arrival
  <2>2. pc = "gone" => UNCHANGED vars
    BY GoneStays DEF ProfileShape
  <2> QED
    BY <1>2, <2>1, <2>2 DEF Settled, ProfileShape, Marked, BindLabel, PublishMetadata, vars
<1>3. CASE touched' = touched /\ meta' # meta
  <2>1. CASE MigrateMetadata \/ MigrateVerify
    BY <2>1, MigrationKeeps DEF MigrateMetadata, MigrateVerify, Step, Fail, Settled
  <2>2. CASE PublishMetadata \/ VerifyPublication
    BY <1>3, <2>2 DEF PublishMetadata, VerifyPublication, Settled, ProfileShape, Marked, BindLabel
  <2>3. CASE RemoveFiles
    BY <2>3 DEF RemoveFiles, Step, Settled
  <2> QED
    BY <1>0, <1>3, <2>1, <2>2, <2>3 DEF Writers
<1> QED
  BY <1>1, <1>2, <1>3

-----------------------------------------------------------------------------
(* What vouches for a directory.                                           *)

\* Directories that may be marked.
Allowed == proven \cup swapped

\* What is allowed stays so, and what is proven stays proven.
LEMMA Growing ==
    ASSUME ProfileShape, [Next]_vars
    PROVE  proven \subseteq proven' /\ Allowed \subseteq Allowed'
<1>1. HistoryWriters
  BY WhoWrites
<1>2. proven \subseteq proven'
  BY <1>1 DEF HistoryWriters, CreateProfile, RecoverEmpty, ConsumeApproval, OperatorRuns
<1>3. swapped \subseteq swapped'
  BY <1>1 DEF HistoryWriters, ConsumeApproval
<1> QED
  BY <1>2, <1>3 DEF Allowed

\* A container vanishes only in a removal, and runs only when started.
ContainerStays ==
    /\ Exists => container' # Nil
    /\ container' # Nil /\ container'.running =>
         container' = container \/ StartContainer \/ OperatorRuns

\* Every step treats the container so, but for its removal by a purge.
LEMMA ContainerMoves ==
    ASSUME ProfileShape, [Next]_vars
    PROVE  ContainerStays \/ (PurgeContainer /\ container' \in {container, Nil})
<1>0. Writers /\ container \in Container \cup {Nil} /\ Nil \notin Container
  BY WhoWrites, Values DEF ProfileShape, Types, TypeOK
<1>1. container' = container => ContainerStays
  BY DEF ContainerStays, Exists
<1>2. CASE PrepareDirectory \/ StartFails \/ Stop \/ ContainerExits
  <2>1. container' = container \/ (container # Nil /\ container' = [container EXCEPT !.running = FALSE])
    BY <1>2 DEF PrepareDirectory, StartFails, Stop, ContainerExits, Running, Exists, ProfileShape,
       Contained, UpLabel
  <2>2. CASE container # Nil /\ container' = [container EXCEPT !.running = FALSE]
    <3>1. container' \in Container /\ container'.running = FALSE
      BY <1>0, <2>2 DEF Container
    <3>2. container' # Nil
      BY <1>0, <3>1
    <3> QED
      BY <3>1, <3>2, Zenon DEF ContainerStays
  <2> QED
    BY <1>1, <2>1, <2>2
<1>3. CASE CreateContainer
  <2>1. container' = container \/ container' = [running |-> FALSE, mounted |-> Nil, epoch |-> 1]
    BY <1>3 DEF CreateContainer
  <2>2. CASE container' = [running |-> FALSE, mounted |-> Nil, epoch |-> 1]
    <3>1. container' \in Container /\ container'.running = FALSE
      BY <2>2, Bounds, Containers
    <3>2. container' # Nil
      BY <1>0, <3>1
    <3> QED
      BY <3>1, <3>2, Zenon DEF ContainerStays
  <2> QED
    BY <1>1, <2>1, <2>2
<1>4. CASE StartContainer \/ OperatorRuns
  <2>1. container' \in Container
    BY <1>4, RunsAgain DEF ProfileShape, Types
  <2>2. container' # Nil
    BY <1>0, <2>1
  <2> QED
    BY <1>4, <2>2, Zenon DEF ContainerStays
<1>5. CASE PurgeContainer
  BY <1>5 DEF PurgeContainer
<1> QED
  BY <1>0, <1>1, <1>2, <1>3, <1>4, <1>5 DEF Writers

\* A start binds the directory that a live container proves, or that an approval
\* names or is checked instead of.
LEMMA ProvenStep ==
    ASSUME ProfileShape, Proven, [Next]_vars
    PROVE  Proven'
<1>0. Writers /\ Arrival /\ proven \subseteq proven' /\ Allowed \subseteq Allowed' /\ st \in Pinned
  BY WhoWrites, Arrivals, Growing DEF ProfileShape, Types, TypeOK
<1>1. ASSUME pc' \in {"recheck", "prepare"}
      PROVE  st'.dir \in Allowed'
  <2>1. CASE pc' = pc /\ st' = st
    BY <1>0, <1>1, <2>1 DEF Proven, Allowed
  <2>2. CASE pc' = "recheck" /\ ConsumeApproval
    <3>1. Approved /\ st'.dir = st.dir /\ proven' = proven \cup {approval.inode}
          /\ swapped' = IF path = st.dir THEN swapped ELSE swapped \cup {st.dir}
      BY <1>0, <2>2 DEF ConsumeApproval, Fail, Pinned
    <3> QED
      BY <3>1 DEF Approved, Allowed
  <2>3. CASE pc' = "prepare" /\ ProveLive
    <3>1. pc = "prove" /\ st' = st /\ LiveProof(st.dir)
      BY <2>3 DEF ProveLive, Fail
    <3> QED
      BY <1>0, <3>1 DEF LiveProof, Proven, ProfileShape, Marked, BindLabel, Allowed
  <2>4. CASE pc' = "prepare" /\ RecheckContainer
    <3>1. pc = "recheck" /\ st' = st
      BY <2>4 DEF RecheckContainer, Fail, Step
    <3> QED
      BY <1>0, <3>1 DEF Proven, Allowed
  <2> QED
    BY <1>0, <1>1, <2>1, <2>2, <2>3, <2>4 DEF Arrival
<1>2. ASSUME Running', meta' = Nil \/ pc' = "verify"
      PROVE  container'.mounted \in proven'
  <2>1. CASE OperatorRuns
    BY <2>1 DEF OperatorRuns
  <2>2. CASE ~OperatorRuns
    <3>1. meta = Nil \/ pc = "verify" \/ RemoveFiles
      BY <1>0, <1>2, MigrationKeeps
         DEF Arrival, Writers, PublishMetadata, VerifyPublication, ProfileShape, Marked, BindLabel
    <3>2. ~RemoveFiles
      BY <1>2 DEF RemoveFiles, ProfileShape, Contained, Running, Exists, docker
    <3>3. ~StartContainer
      BY <3>1, <3>2 DEF StartContainer, ProfileShape, Marked, RunLabel, UpLabel
    <3>4. container' = container
      BY <1>2, <2>2, <3>3, ContainerMoves DEF ContainerStays, Running, Exists
    <3> QED
      BY <1>0, <1>2, <3>1, <3>2, <3>4 DEF Proven, Running, Exists
  <2> QED
    BY <2>1, <2>2
<1> QED
  BY <1>1, <1>2 DEF Proven, Allowed

\* Markers and metadata are written only where Proven and Vouched allow it.
LEMMA VouchedStep ==
    ASSUME ProfileShape, Proven, Vouched, [Next]_vars
    PROVE  Vouched'
<1>0. /\ Writers /\ HistoryWriters /\ Arrival /\ Allowed \subseteq Allowed'
      /\ st \in Pinned /\ meta \in Metadata \cup {Nil}
      /\ sentinel \in [Inode -> Profile \cup {Nil}] /\ sentinel' \in [Inode -> Profile \cup {Nil}]
  BY WhoWrites, Arrivals, Growing, TypesStep DEF ProfileShape, Types, TypeOK
<1>1. /\ touched \subseteq Allowed /\ \A i \in Inode : sentinel[i] # Nil => i \in Allowed
      /\ meta # Nil => meta.inode \in Allowed
      /\ pc \in {"sentinel", "rename", "metadata", "verify"} => st.dir \in Allowed
  BY DEF Vouched, OnlyVouchedData, Sentinels, Allowed
<1>2. touched' \subseteq Allowed'
  <2>1. CASE AndroidCommand
    <3>1. container.mounted = meta.inode /\ meta # Nil /\ touched' = touched \cup {container.mounted}
      BY <2>1 DEF AndroidCommand, ProvesProfile, Profiled, LiveProof, Bound, MetadataNames
    <3> QED
      BY <1>0, <1>1, <3>1
  <2>2. CASE PurgeData
    <3>1. touched' = touched \/ (/\ touched' = touched \cup {st.dir} /\ st.dir # Nil /\ meta # Nil
                                /\ pc = "purge data")
      BY <2>2, Zenon DEF PurgeData
    <3> QED
      BY <1>0, <1>1, <3>1 DEF Vouched
  <2> QED
    BY <1>0, <1>1, <2>1, <2>2 DEF HistoryWriters
<1>3. ASSUME NEW i \in Inode, sentinel'[i] # Nil PROVE i \in Allowed'
  <2>1. sentinel[i] # Nil \/ (PublishSentinel /\ i = st.dir)
    BY <1>0, <1>3 DEF Writers, PublishSentinel, RemoveSentinel, PurgeData
  <2>2. PublishSentinel => pc = "rename"
    BY DEF PublishSentinel
  <2> QED
    BY <1>0, <1>1, <2>1, <2>2
<1>4. ASSUME meta' # Nil PROVE meta'.inode \in Allowed'
  <2>1. CASE PublishMetadata
    BY <1>0, <1>1, <1>4, <2>1 DEF PublishMetadata, NewMetadata
  <2>2. CASE ~PublishMetadata
    <3>1. meta # Nil /\ meta'.inode = meta.inode
      BY <1>0, <1>4, <2>2, MigrationKeeps
         DEF Writers, VerifyPublication, RemoveFiles, MigrateMetadata, MigrateVerify, ProfileShape, Marked
    <3> QED
      BY <1>0, <1>1, <3>1
  <2> QED
    BY <2>1, <2>2
<1>5. ASSUME pc' \in {"sentinel", "rename", "metadata", "verify"} PROVE st'.dir \in Allowed'
  <2>1. CASE pc' = pc /\ st' = st
    BY <1>0, <1>1, <1>5, <2>1
  <2>2. CASE CreateProfile \/ RecoverEmpty
    BY <1>0, <2>2 DEF CreateProfile, RecoverEmpty, Pinned, Allowed
  <2>3. CASE PrepareDirectory
    <3>1. pc = "prepare" /\ st'.dir = st.dir
      BY <1>0, <1>5, <2>3 DEF PrepareDirectory, Pinned, Fail
    <3> QED
      BY <1>0, <3>1 DEF Proven, Allowed
  <2>4. CASE RecoverSentinel
    <3>1. st'.dir = st.dir /\ st.dir \in Inode /\ sentinel[st.dir] # Nil
      BY <1>0, <2>4 DEF RecoverSentinel, OnlySentinel, Pinned
    <3> QED
      BY <1>0, <1>1, <3>1
  <2>5. CASE pc' # "sentinel" /\ (WriteTemporary \/ PublishSentinel \/ PublishMetadata)
    <3>1. pc \in {"sentinel", "rename", "metadata"} /\ (st' = st \/ pc' = "idle")
      BY <2>5 DEF WriteTemporary, PublishSentinel, PublishMetadata, Fail
    <3> QED
      BY <1>0, <1>1, <1>5, <3>1
  <2> QED
    BY <1>0, <1>5, <2>1, <2>2, <2>3, <2>4, <2>5 DEF Arrival
<1>6. ASSUME pc' = "purge data", st'.dir # Nil, meta' # Nil
      PROVE  st'.dir = meta'.inode
  <2>1. CASE pc' = pc /\ st' = st
    <3>1. meta' = meta
      BY <1>0, <1>6, <2>1 DEF Writers, MigrateMetadata, MigrateVerify, PublishMetadata, VerifyPublication,
         RemoveFiles, Step, Fail
    <3> QED
      BY <1>6, <2>1, <3>1 DEF Vouched
  <2>2. CASE PurgeBegin
    <3>1. pc = "idle"
      BY <2>2 DEF PurgeBegin, LockFree
    <3>2. st'.dir = path /\ meta' = meta /\ path' = path /\ PurgesBound
      BY <1>6, <2>2, <3>1 DEF PurgeBegin, Unpinned, disk
    <3> QED
      BY <1>6, <3>2 DEF PurgesBound, MetadataNames
  <2> QED
    BY <1>0, <1>6, <2>1, <2>2 DEF Arrival
<1> QED
  BY <1>2, <1>3, <1>4, <1>5, <1>6 DEF Vouched, OnlyVouchedData, Sentinels, Allowed

-----------------------------------------------------------------------------
(* An account that began new and was only crashed.                         *)

\* The labels at which a start relies on the directory it looked up.
LookLabel == {"classify", "verify"} \cup BindLabel

\* A start looks a directory up at its beginning or creates it, and keeps it.
DirMove ==
    pc' \in LookLabel =>
        \/ pc \in LookLabel /\ st'.dir = st.dir
        \/ StartBegin /\ st'.dir = path
        \/ CreateProfile /\ st'.dir = path'

\* Every step moves the pinned directory so.
LEMMA DirMoves ==
    ASSUME ProfileShape, [Next]_vars
    PROVE  DirMove
<1> USE DEF LookLabel, BindLabel, Step, Fail, Refuse
<1>0. st \in Pinned
  BY DEF ProfileShape, Types, TypeOK
<1>1. ASSUME Prepare PROVE DirMove
  <2>1. CASE BoundProfile \/ MigrateMetadata \/ MigrateVerify \/ RefuseUnmarked \/ ChangedMeanwhile
    BY <2>1 DEF BoundProfile, MigrateMetadata, MigrateVerify, RefuseUnmarked, ChangedMeanwhile, DirMove
  <2>2. CASE CreateProfile
    BY <1>0, <2>2 DEF CreateProfile, Pinned, DirMove
  <2>3. CASE RecoverEmpty \/ RecoverSentinel
    BY <1>0, <2>3 DEF RecoverEmpty, RecoverSentinel, Unmarked, Pinned, DirMove
  <2>4. CASE LegacyProfile \/ ProveLive
    BY <1>0, <2>4 DEF LegacyProfile, ProveLive, Unmarked, Pinned, DirMove
  <2>5. CASE ConsumeApproval
    BY <1>0, <2>5 DEF ConsumeApproval, Pinned, DirMove
  <2>6. CASE RecheckContainer \/ PrepareDirectory
    BY <1>0, <2>6 DEF RecheckContainer, PrepareDirectory, Pinned, DirMove
  <2> QED
    BY <1>1, <2>1, <2>2, <2>3, <2>4, <2>5, <2>6, Zenon DEF Prepare
<1>2. ASSUME Publish PROVE DirMove
  BY <1>2 DEF Publish, WriteTemporary, PublishSentinel, PublishMetadata, VerifyPublication,
     RemoveSentinel, PublishFails, DirMove
<1>3. ASSUME Run PROVE DirMove
  <2>1. pc' \notin LookLabel
    BY <1>3, StageMoves, FirstStage DEF Run, EnsureNetwork, CreateContainer, VerifyStart,
       StartContainer, ProveProfile, StartFails, Stop
  <2> QED
    BY <2>1 DEF DirMove
<1>4. ASSUME Purge \/ Approve \/ ApproveVerify \/ Crash PROVE DirMove
  BY <1>4 DEF Purge, PurgeBegin, PurgeData, PurgeContainer, RemoveFiles, Approve, ApproveVerify, Crash,
     DirMove
<1>5. ASSUME StartBegin PROVE DirMove
  BY <1>5 DEF StartBegin, Unpinned, DirMove
<1>6. ASSUME Exchange \/ OperatorRuns \/ ContainerExits \/ UNCHANGED vars PROVE DirMove
  <2>1. st' = st /\ pc' = pc
    BY <1>6, Zenon DEF Exchange, OperatorRuns, ContainerExits, vars
  <2> QED
    BY <2>1 DEF DirMove
<1> QED
  BY <1>1, <1>2, <1>3, <1>4, <1>5, <1>6, Zenon DEF Next

\* Only a start that has metadata makes a container or data.
LEMMA UnusedKept ==
    ASSUME ProfileShape, Unused, ~deleting, meta = Nil \/ pc = "verify", [Next]_vars,
           ~Exchange, ~OperatorRuns
    PROVE  Unused'
<1>0. Writers /\ pc \notin {"gone"} \cup PurgeLabel
  BY WhoWrites DEF ProfileShape, Removing
<1>1. pc \notin RunLabel \cup {"migrate", "migrated"}
  BY DEF ProfileShape, Marked, RunLabel, UpLabel
<1>2. container' = container
  <2>1. ~StartContainer /\ ~StartFails /\ ~Stop /\ ~CreateContainer
    BY <1>1, StageLabels DEF StartContainer, StartFails, Stop, CreateContainer, RunLabel, UpLabel
  <2>2. ~PurgeContainer /\ ~ContainerExits
    BY <1>0 DEF PurgeContainer, ContainerExits, Running, Unused, PurgeLabel
  <2>3. PrepareDirectory => container' = container
    BY DEF PrepareDirectory, Running, Unused
  <2> QED
    BY <1>0, <2>1, <2>2, <2>3 DEF Writers
<1>3. used' = used
  BY <1>0, <1>1 DEF Writers, StartContainer, PurgeData, RunLabel, UpLabel, PurgeLabel
<1>4. path' = path \/ path' \notin used
  BY <1>0 DEF Writers, CreateProfile, RemoveFiles, PurgeLabel
<1> QED
  BY <1>2, <1>3, <1>4 DEF Unused, Exists

\* What the metadata name stays at the path, and its sentinel with it.
LEMMA BoundKept ==
    ASSUME ProfileShape, Bound(path), ~deleting, meta # Nil, meta' # Nil, pc # "rollback",
           [Next]_vars, ~Exchange
    PROVE  Bound(path)'
<1>0. Writers /\ pc \notin {"gone"} \cup PurgeLabel /\ pc \notin BindLabel
  BY WhoWrites DEF ProfileShape, Removing, Marked
<1>1. path' = path
  BY <1>0 DEF Writers, CreateProfile, Unmarked, RemoveFiles, PurgeLabel
<1>2. sentinel' = sentinel
  BY <1>0 DEF Writers, PublishSentinel, RemoveSentinel, PurgeData, BindLabel, PurgeLabel
<1>3. meta'.profile = meta.profile /\ meta'.inode = meta.inode
  <2>1. ~PublishMetadata /\ ~RemoveFiles
    BY <1>0 DEF PublishMetadata, RemoveFiles, BindLabel, PurgeLabel
  <2>2. VerifyPublication => meta' = meta
    BY DEF VerifyPublication
  <2> QED
    BY <1>0, <2>1, <2>2, MigrationKeeps DEF Writers
<1> QED
  BY <1>1, <1>2, <1>3 DEF Bound, MetadataNames, SentinelAgrees

\* A publication is taken back only when its metadata cannot be written or verified.
LEMMA Rollbacks ==
    ASSUME ProfileShape, [Next]_vars, pc' = "rollback"
    PROVE  IF pc = "rollback" THEN meta' = meta ELSE PublishMetadata \/ VerifyPublication
<1> USE DEF Step, Fail, Refuse
<1>1. ASSUME Prepare PROVE FALSE
  <2>1. CASE BoundProfile \/ MigrateMetadata \/ MigrateVerify \/ CreateProfile \/ RecoverEmpty
    BY <2>1 DEF BoundProfile, MigrateMetadata, MigrateVerify, CreateProfile, RecoverEmpty
  <2>2. CASE RecoverSentinel \/ RefuseUnmarked \/ ChangedMeanwhile \/ LegacyProfile
    BY <2>2 DEF RecoverSentinel, RefuseUnmarked, ChangedMeanwhile, LegacyProfile
  <2>3. CASE ProveLive \/ ConsumeApproval \/ RecheckContainer \/ PrepareDirectory
    BY <2>3 DEF ProveLive, ConsumeApproval, RecheckContainer, PrepareDirectory
  <2> QED
    BY <1>1, <2>1, <2>2, <2>3, Zenon DEF Prepare
<1>2. ASSUME Publish PROVE pc # "rollback" /\ (PublishMetadata \/ VerifyPublication)
  BY <1>2 DEF Publish, WriteTemporary, PublishSentinel, PublishMetadata, VerifyPublication,
     RemoveSentinel, PublishFails
<1>3. ~Run
  BY StageMoves, FirstStage DEF Run, EnsureNetwork, CreateContainer, VerifyStart, StartContainer,
     ProveProfile, StartFails, Stop
<1>4. ~StartBegin /\ ~Approve /\ ~ApproveVerify /\ ~Purge /\ ~Crash
  BY DEF StartBegin, Approve, ApproveVerify, Purge, PurgeBegin, PurgeData, PurgeContainer, RemoveFiles,
     LockFree, Crash
<1>5. ASSUME Exchange \/ OperatorRuns \/ ContainerExits \/ UNCHANGED vars
      PROVE  pc = "rollback" /\ meta' = meta
  BY <1>5 DEF Exchange, OperatorRuns, ContainerExits, vars, disk
<1> QED
  BY <1>1, <1>2, <1>3, <1>4, <1>5, Zenon DEF Next

\* Without interference every step leaves the new account undisturbed.
LEMMA CrashesStep ==
    ASSUME ProfileShape, OnlyCrashes, [Next]_vars
    PROVE  OnlyCrashes'
<1> SUFFICES ASSUME kind' = "new", faults' = 0
             PROVE  Undisturbed'
  BY DEF OnlyCrashes
<1>0. Writers /\ HistoryWriters /\ DirMove
  BY WhoWrites, DirMoves
<1>1. Undisturbed /\ faults' = faults /\ ~Exchange /\ ~OperatorRuns
  BY <1>0 DEF OnlyCrashes, HistoryWriters, Exchange, OperatorRuns, ProfileShape, Types
<1>2. pc' \in LookLabel => st'.dir = path'
  <2>1. CASE CreateProfile
    BY <2>1 DEF CreateProfile, ProfileShape, Types, TypeOK, Pinned
  <2>2. CASE path' = path
    BY <1>0, <1>1, <2>2 DEF DirMove, CreateProfile, Undisturbed, LookLabel
  <2>3. CASE RemoveFiles
    BY <2>3 DEF RemoveFiles, Step, LookLabel, BindLabel
  <2> QED
    BY <1>0, <1>1, <2>1, <2>2, <2>3 DEF Writers
<1>3. ASSUME ~deleting' PROVE IF meta' = Nil THEN Unused' ELSE Bound(path)'
  <2>1. ~deleting
    BY <1>0, <1>3 DEF Writers, PurgeBegin
  <2>2. CASE meta = Nil /\ meta' = Nil
    BY <1>1, <2>1, <2>2, UnusedKept DEF Undisturbed
  <2>3. CASE meta # Nil /\ meta' # Nil
    <3>1. pc # "rollback"
      BY <1>1, <2>3 DEF Undisturbed
    <3> QED
      BY <1>1, <2>1, <2>3, <3>1, BoundKept DEF Undisturbed
  <2>4. CASE meta = Nil /\ meta' # Nil
    <3>1. PublishMetadata
      BY <1>0, <2>4 DEF Writers, MigrateMetadata, MigrateVerify, VerifyPublication, RemoveFiles,
         ProfileShape, Marked
    <3>2. sentinel[st.dir] = st.profile
      BY <3>1 DEF PublishMetadata, ProfileShape, Pinning
    <3> QED
      BY <2>4, <3>1, <3>2 DEF PublishMetadata, StillThere, NewMetadata, Bound, MetadataNames, SentinelAgrees
  <2>5. CASE meta # Nil /\ meta' = Nil
    <3>1. ~RemoveFiles
      BY <2>1 DEF RemoveFiles, ProfileShape, Removing, PurgeLabel
    <3>2. ~PublishMetadata
      BY <2>5 DEF PublishMetadata, ProfileShape, Marked, BindLabel
    <3>3. VerifyPublication
      BY <1>0, <2>5, <3>1, <3>2, MigrationKeeps DEF Writers
    <3>4. pc = "verify"
      BY <3>3 DEF VerifyPublication
    <3> QED
      BY <1>1, <2>1, <2>5, <3>4, UnusedKept DEF Undisturbed
  <2> QED
    BY <2>2, <2>3, <2>4, <2>5
<1>4. ASSUME pc' = "verify" PROVE Unused'
  <2>1. pc = "verify" \/ PublishMetadata
    BY <1>4, Arrivals DEF Arrival
  <2>2. ~deleting
    BY <2>1 DEF PublishMetadata, ProfileShape, Removing, PurgeLabel
  <2>3. Unused /\ (meta = Nil \/ pc = "verify")
    BY <1>1, <2>1, <2>2 DEF PublishMetadata, ProfileShape, Marked, BindLabel, Undisturbed
  <2> QED
    BY <1>1, <2>2, <2>3, UnusedKept
<1>5. ASSUME pc' = "rollback" PROVE meta' = Nil
  <2>1. CASE pc = "rollback"
    BY <1>1, <1>5, <2>1, Rollbacks DEF Undisturbed
  <2>2. CASE pc # "rollback"
    <3>1. PublishMetadata \/ VerifyPublication
      BY <1>5, <2>2, Rollbacks
    <3>2. PublishMetadata => meta = Nil /\ meta' = meta
      BY <1>5 DEF PublishMetadata, Step, ProfileShape, Marked, BindLabel
    <3>3. VerifyPublication => meta' = Nil
      BY <1>1, <1>5 DEF VerifyPublication, Step, RemovalFails, ProfileShape, Types
    <3> QED
      BY <3>1, <3>2, <3>3
  <2> QED
    BY <2>1, <2>2
<1> QED
  BY <1>2, <1>3, <1>4, <1>5 DEF Undisturbed, LookLabel

-----------------------------------------------------------------------------
(* Theorems.                                                               *)

\* ProfileInv is inductive.
LEMMA ProfileInvariant == Spec => []ProfileInv
<1>1. Init => ProfileInv
  <2> SUFFICES ASSUME Init PROVE ProfileInv
    OBVIOUS
  <2>1. ProfileShape
    BY ShapeInit
  <2>2. Unspent
    BY DEF Init, Unspent, Unpinned, BindLabel
  <2>3. Settled
    <3>1. touched # {} => meta # Nil
      BY Bounds, Values, DirectoriesDiffer DEF Init, Metadata
    <3>2. pc = "idle"
      BY DEF Init
    <3> QED
      BY <3>1, <3>2 DEF Settled
  <2>4. OnlyCrashes
    BY DirectoriesDiffer DEF Init, OnlyCrashes, Undisturbed, Unused, Exists, BindLabel
  <2>5. Proven /\ Vouched
    BY DirectoriesDiffer, Values, Bounds DEF Init, Proven, Vouched, OnlyVouchedData, Sentinels, Running,
       Exists
  <2> QED
    BY <2>1, <2>2, <2>3, <2>4, <2>5 DEF ProfileInv
<1>2. ProfileInv /\ [Next]_vars => ProfileInv'
  BY ShapeStep, UnspentStep, SettledStep, CrashesStep, ProvenStep, VouchedStep DEF ProfileInv
<1> QED
  BY <1>1, <1>2, PTL DEF Spec

\* TypeOK: every variable of the profile, its start and its history keeps its shape.
THEOREM ProfileTypeCorrect == Spec => []TypeOK
<1>1. ProfileInv => TypeOK
  BY DEF ProfileInv, ProfileShape, Types
<1> QED
  BY <1>1, ProfileInvariant, PTL

\* CrashesAreRecovered: whatever write a crash interrupts, the next start of a new
\* account finds nothing to refuse, but for the temporary file of the sentinel.
THEOREM RecoveryCorrect == Spec => []CrashesAreRecovered
<1>1. ProfileInv => CrashesAreRecovered
  <2> SUFFICES ASSUME ProfileInv, kind = "new", faults = 0, pc = "classify",
                      IF meta = Nil THEN NothingVouches ELSE ~Bound(path)
               PROVE  path \in litter
    BY DEF CrashesAreRecovered
  <2>1. Undisturbed /\ ~deleting
    BY DEF ProfileInv, OnlyCrashes, ProfileShape, Removing, PurgeLabel
  <2>2. Unused /\ NothingVouches /\ st.dir = path
    BY <2>1 DEF Undisturbed
  <2> QED
    BY <2>2 DEF NothingVouches, Unused, IsEmpty, OnlySentinel
<1> QED
  BY <1>1, ProfileInvariant, PTL

\* OnlyVouchedData: however often the path is exchanged, the container run by the
\* operator, or a removal fails, neither markers nor commands reach a directory that
\* nothing vouches for but an approval checked against another one.
THEOREM VouchedCorrect == Spec => []OnlyVouchedData
<1>1. ProfileInv => OnlyVouchedData
  BY DEF ProfileInv, Vouched
<1> QED
  BY <1>1, ProfileInvariant, PTL

\* BindingIsStable: no start, failure or crash exchanges or removes the binding that
\* Android has been used with.
THEOREM BindingCorrect == Spec => BindingIsStable
<1> DEFINE Keeps ==
      touched # {} /\ pc # "purge files" =>
        meta # Nil /\ meta' # Nil /\ meta'.profile = meta.profile /\ meta'.inode = meta.inode
<1>1. ProfileInv /\ [Next]_vars => [Keeps]_vars
  <2> SUFFICES ASSUME ProfileInv, [Next]_vars, ~UNCHANGED vars, touched # {}, pc # "purge files"
               PROVE  meta # Nil /\ meta' # Nil /\ meta'.profile = meta.profile
                      /\ meta'.inode = meta.inode
    BY Zenon
  <2>1. ProfileShape /\ Settled
    BY DEF ProfileInv
  <2>2. meta # Nil /\ pc # "verify"
    BY <2>1, GoneStays DEF ProfileShape, Settled
  <2>3. meta' = meta \/ MigrateMetadata \/ MigrateVerify
    BY <2>1, <2>2, WhoWrites DEF Writers, PublishMetadata, VerifyPublication, RemoveFiles,
       ProfileShape, Marked, BindLabel
  <2> QED
    BY <2>1, <2>2, <2>3, MigrationKeeps
<1> QED
  BY <1>1, ProfileInvariant, PTL DEF Spec, BindingIsStable

\* ApprovalsAreOneShot: the binding of profiles implements OneShot.  An approval is
\* consumed before its profile is published, and publications count one use.
THEOREM ApprovalsCorrect == Spec => ApprovalsAreOneShot
<1>1. Init => ApprovalOnce!Init
  <2> SUFFICES ASSUME Init PROVE Used = [c \in {} |-> 0]
    BY DEF ApprovalOnce!Init
  <2>1. {k \in 1 .. MaxApprovals : uses[k] > 0} = {}
    BY DEF Init
  <2> QED
    BY <2>1 DEF Used
<1>2. ProfileInv /\ ProfileInv' /\ [Next]_vars => [ApprovalOnce!Use]_Used
  <2> SUFFICES ASSUME ProfileInv, ProfileInv', [Next]_vars
               PROVE  ApprovalOnce!Use
    OBVIOUS
  <2>1. /\ uses \in [1 .. MaxApprovals -> Nat] /\ uses' \in [1 .. MaxApprovals -> Nat]
        /\ \A n \in 1 .. MaxApprovals : uses'[n] <= 1
    BY DEF ProfileInv, ProfileShape, Types, Unspent
  <2>2. \A n \in 1 .. MaxApprovals : uses[n] > 0 => uses'[n] > 0
    BY <2>1, WhoWrites DEF HistoryWriters, PublishMetadata
  <2>3. \A n \in DOMAIN Used' : Used'[n] = 1
    BY <2>1 DEF Used
  <2>4. DOMAIN Used \subseteq DOMAIN Used' /\ DOMAIN Used' \subseteq 1 .. MaxApprovals
    BY <2>2 DEF Used
  <2> QED
    BY <2>3, <2>4 DEF ApprovalOnce!Use
<1> QED
  BY <1>1, <1>2, ProfileInvariant, PTL DEF Spec, ApprovalsAreOneShot, ApprovalOnce!Spec
=============================================================================
