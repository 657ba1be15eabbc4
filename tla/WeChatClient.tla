---------------------------- MODULE WeChatClient ----------------------------
(***************************************************************************)
(* The WeChat driver: internal/driver/wechat/driver.go over the Docker     *)
(* backend (docker.go), the client profile (profile.go) and the index of   *)
(* what is visible in the client (ui_index.go).                            *)
(*                                                                         *)
(* One account.  operationMu serialises the operations: op is the one that *)
(* holds it.  Reading the visible messages takes no operation mutex and    *)
(* interleaves with all of them.  Every call to the client may fail, and a *)
(* failure says nothing about what the client did.  The daemon crashes     *)
(* between any two steps; the profile and the container survive.           *)
(*                                                                         *)
(* The program that drives the client inside the container computes the    *)
(* effects and the replay identities (deploy/wechat/ui_driver.py).         *)
(* External: the container engine, and the official client itself.         *)
(***************************************************************************)
EXTENDS Naturals, Sequences, FiniteSets, Bags

CONSTANTS
    SurfaceId,      \* random IDs of opened surfaces, never reused
    Window,         \* windows of the client, one for every surface it opens
    Ctx,            \* what the rendered frame of a window looks like
    MachineId,      \* random machine IDs
    Key,            \* idempotency keys of sends with one and the same text
    Nil,
    Viewport,       \* messages the chat window shows
    MaxChat,        \* bound: messages in the conversation
    MaxReads,       \* bound: reads of the visible messages of one index
    MaxActs,        \* bound: actions, sends, opens and closes dispatched
    MaxStarts       \* bound: starts of the driver

ASSUME BoundsAreNatural ==
    {Viewport, MaxChat, MaxReads, MaxActs, MaxStarts} \subseteq Nat

ASSUME NilIsNothing ==
    Nil \notin SurfaceId \cup Window \cup Ctx \cup MachineId \cup Key

VARIABLES
    \* durable
    meta,           \* profile.json: the machine ID it records, or Nil
    machineId,      \* the machine-id file: Nil, "empty" or its content
    container,      \* "absent", "foreign" (not one of this profile), "stopped" or "running"
    booted,         \* machine IDs the client has run with
    \* the driver
    account,        \* d.account is set: the driver is started
    profile,        \* b.profile is set: the backend is started
    epoch,          \* starts so far
    op,             \* the operation that holds operationMu
    surfaces,       \* open surface sessions
    memos,          \* sendMemos
    \* the UI index
    known,          \* the conversation is listed, and its title only once
    batch,          \* surfaceBatch
    leases,         \* batches whose reference to the card can still be opened
    reading,        \* batches whose card is about to get its reference
    \* the client
    windows,        \* windows it has opened
    chat,           \* during a send, the conversation: "mine" has its text
    clicks          \* capabilities dispatched, as a bag

vars == <<meta, machineId, container, booted, account, profile, epoch, op, surfaces,
          memos, known, batch, leases, reading, windows, chat, clicks>>
durable == <<meta, machineId, container, booted>>
index   == <<known, batch, leases, reading>>
client  == <<windows, chat, clicks>>

-----------------------------------------------------------------------------
(* Frames and actions (deploy/wechat/ui_driver.py).                        *)

\* "write" stands for external_write and unknown, which the code treats alike, and
\* "observe" for search_input as well.
Effect == {"observe", "navigate", "write", "high_risk"}

\* An action ID binds the window, the frame and the control.  The twin is a
\* second control that looks the same.
Action == [effect : Effect, win : Window, ctx : Ctx, twin : BOOLEAN]

Frame == [win : Window, ctx : Ctx]

\* What a frame offers.
ActionsOf(f) ==
    {a \in Action : a.win = f.win /\ a.ctx = f.ctx /\ (a.twin => a.effect = "write")}

\* The replay identity of a write leaves out window, frame and position: two
\* controls that look the same share it.  The others are bound to the window.
ReplayOf(a) == IF a.effect \in {"write", "high_risk"} THEN <<a.effect>> ELSE <<a.effect, a.win>>

Replay == {ReplayOf(a) : a \in Action}

Session == [win : Window, ctx : Ctx, actions : SUBSET Action, consumed : SUBSET Action,
            tombstones : SUBSET Replay, assets : SUBSET Frame]

ASSUME NilIsNoSession == Nil \notin Session

\* Capabilities, for the lifetime the code gives them.
Cap == ({"act"} \X SurfaceId \X Action) \cup ({"close"} \X SurfaceId)
       \cup ({"card"} \X (1 .. MaxStarts) \X (1 .. MaxReads))
       \cup ({"send"} \X (1 .. MaxStarts) \X Key)

Use(c) == clicks' = clicks (+) SetToBag({c})

NoOp   == [kind |-> "none"]
NoSessions == [s \in SurfaceId |-> Nil]
NoMemos    == [k \in Key |-> "none"]
Open   == {s \in SurfaceId : surfaces[s] # Nil}
Idle   == op = NoOp
Up     == Idle /\ account /\ profile
CanAct == BagCardinality(clicks) < MaxActs

-----------------------------------------------------------------------------
(* Start: ProfileManager.Ensure, then DockerBackend.Start.                 *)

StartBegin ==
    /\ Idle /\ ~account /\ epoch < MaxStarts
    /\ op' = [kind |-> "metadata"]
    /\ UNCHANGED <<durable, account, profile, epoch, surfaces, memos, index, client>>

\* profile.json is written by an atomic rename, once, with a random machine ID.
EnsureMetadata ==
    /\ op.kind = "metadata"
    /\ \/ meta # Nil /\ meta' = meta
       \/ meta = Nil /\ meta' \in MachineId
    /\ op' = [kind |-> "machine"]
    /\ UNCHANGED <<machineId, container, booted, account, profile, epoch, surfaces,
                   memos, index, client>>

\* writeIfMissing creates the file, then fills it.
EnsureFile ==
    /\ op.kind = "machine"
    /\ \/ machineId # Nil /\ machineId' = machineId /\ op' = [kind |-> "check"]
       \/ machineId = Nil /\ machineId' = "empty" /\ op' = [kind |-> "fill"]
    /\ UNCHANGED <<meta, container, booted, account, profile, epoch, surfaces, memos,
                   index, client>>

EnsureFill ==
    /\ op.kind = "fill"
    /\ machineId' = meta
    /\ op' = [kind |-> "check"]
    /\ UNCHANGED <<meta, container, booted, account, profile, epoch, surfaces, memos,
                   index, client>>

\* Mutant: the stored machine-id is not compared with the profile's.
MachineIdAny == TRUE

MachineIdMatches == machineId = meta

EnsureCheck ==
    /\ op.kind = "check"
    /\ op' = IF MachineIdMatches THEN [kind |-> "docker"] ELSE NoOp
    /\ UNCHANGED <<durable, account, profile, epoch, surfaces, memos, index, client>>

\* The container mounts the machine-id file.
Boots ==
    booted' = IF container' = "running"
                 THEN booted \cup {IF container = "foreign" THEN Nil ELSE machineId} ELSE booted

\* verifyContainer: what exists under the name has the identity, the image, the
\* configuration and the mounts that Start would give it.
Verifies == container # "foreign"

\* The existing container is verified and adopted or started, or a new one is
\* run.  The driver then begins with no session, no memo and a new index.
DockerStart ==
    /\ op.kind = "docker" /\ ~profile /\ Verifies
    /\ container' = "running"
    /\ Boots
    /\ profile' = TRUE /\ account' = TRUE
    /\ epoch' = epoch + 1
    /\ surfaces' = NoSessions /\ memos' = NoMemos
    /\ known' = FALSE /\ batch' = 0 /\ leases' = {} /\ reading' = {}
    /\ op' = NoOp
    /\ UNCHANGED <<meta, machineId, client>>

\* The AppImage, the image or the container does not verify, or the engine
\* fails; a failed run or start may have created or started the container.
DockerStartFails ==
    /\ op.kind = "docker"
    /\ \/ container' = container
       \/ ~profile /\ Verifies /\ container # "running" /\ container' \in {"stopped", "running"}
    /\ Boots
    /\ op' = NoOp
    /\ UNCHANGED <<meta, machineId, account, profile, epoch, surfaces, memos, index, client>>

\* A stopped driver has no index and remembers nothing.
Forget ==
    /\ account' = FALSE
    /\ surfaces' = NoSessions /\ memos' = NoMemos
    /\ known' = FALSE /\ batch' = 0 /\ leases' = {} /\ reading' = {}

\* Driver.Stop: a backend that is not started has nothing to stop.
Stop ==
    /\ Idle /\ account
    /\ container' = IF profile THEN "stopped" ELSE container
    /\ profile' = FALSE
    /\ Forget
    /\ UNCHANGED <<meta, machineId, booted, epoch, op, client>>

\* The stop failed or timed out: the driver stays started.
StopFails ==
    /\ Up /\ container = "running"
    /\ container' = "stopped"
    /\ UNCHANGED <<meta, machineId, booted, account, profile, epoch, op, surfaces, memos,
                   index, client>>

\* Only a stopped container with this account's labels is removed; a foreign one
\* may still have them.
Purge ==
    /\ Idle /\ ~account /\ ~profile /\ container \in {"stopped", "foreign"}
    /\ container' = "absent"
    /\ UNCHANGED <<meta, machineId, booted, account, profile, epoch, op, surfaces, memos,
                   index, client>>

\* The daemon dies and is started again.
Crash ==
    /\ account \/ ~Idle
    /\ profile' = FALSE /\ op' = NoOp /\ chat' = <<>>
    /\ Forget
    /\ UNCHANGED <<durable, epoch, windows, clicks>>

-----------------------------------------------------------------------------
(* The UI index.  One conversation with one card in it.                    *)

\* First half of normalizeVisible: a new batch invalidates the references into
\* the conversation.
NewBatch ==
    /\ batch < MaxReads
    /\ batch' = batch + 1
    /\ leases' = {}
    /\ reading' = reading \cup {batch + 1}

\* The conversations are listed, and one whose title is repeated is ambiguous;
\* then one is read, and remembered even if it was not listed.  WaitOutgoing
\* reads the same way until it sees the message.
ReadMessages ==
    /\ account
    /\ known' \in BOOLEAN
    /\ NewBatch
    /\ UNCHANGED <<durable, account, profile, epoch, op, surfaces, memos, client>>

\* Second half: the card, if it is visible, gets a reference of its batch.
OfferCard(b) ==
    /\ leases' \in {leases, leases \cup {b}}
    /\ reading' = reading \ {b}
    /\ UNCHANGED <<durable, account, profile, epoch, op, surfaces, memos, known, batch, client>>

LeaseExpires ==
    /\ leases # {}
    /\ \E b \in leases : leases' = leases \ {b}
    /\ UNCHANGED <<durable, account, profile, epoch, op, surfaces, memos, known, batch,
                   reading, client>>

\* ResolveSurface consumes the reference before it looks at the conversation.
LeaseAfter(b) == leases \ {b}

-----------------------------------------------------------------------------
(* Opening a surface.                                                      *)

OpenSurface(b) ==
    /\ Up /\ b \in leases /\ CanAct
    /\ leases' = LeaseAfter(b)
    /\ \/ known /\ op' = [kind |-> "open"] /\ Use(<<"card", epoch, b>>)
       \/ ~known /\ UNCHANGED <<op, clicks>>
    /\ UNCHANGED <<durable, account, profile, epoch, surfaces, memos, known, batch, reading,
                   windows, chat>>

OpenNamedSurface ==
    /\ Up /\ windows # Window
    /\ op' = [kind |-> "open"]
    /\ UNCHANGED <<durable, account, profile, epoch, surfaces, memos, index, client>>

Offers(f, consumed, tombstones) ==
    {a \in ActionsOf(f) : a \notin consumed /\ ReplayOf(a) \notin tombstones}

\* storeSurface: the offers and the asset tokens are those of the new frame;
\* what was consumed and what was tombstoned in the session is inherited.
Stored(f, consumed, tombstones) ==
    [win |-> f.win, ctx |-> f.ctx, actions |-> Offers(f, consumed, tombstones),
     consumed |-> consumed, tombstones |-> tombstones, assets |-> {f}]

\* The client opened a new window.  All earlier sessions end, even when the
\* new surface is a login page or cannot be stored.
OpenDone ==
    /\ op.kind = "open"
    /\ \E w \in Window \ windows, c \in Ctx :
          /\ windows' = windows \cup {w}
          /\ \/ \E s \in SurfaceId :
                   /\ \A x \in DOMAIN clicks : x[2] # s
                   /\ s \notin Open
                   /\ surfaces' = [NoSessions EXCEPT ![s] =
                                      Stored([win |-> w, ctx |-> c], {}, {})]
             \/ surfaces' = NoSessions
    /\ op' = NoOp
    /\ UNCHANGED <<durable, account, profile, epoch, memos, index, chat, clicks>>

\* The client refused or did not answer; it may have opened a window.
CallFails ==
    /\ op.kind \in {"open", "close"}
    /\ op' = NoOp
    /\ \/ UNCHANGED windows
       \/ op.kind = "open" /\ \E w \in Window \ windows : windows' = windows \cup {w}
    /\ UNCHANGED <<durable, account, profile, epoch, surfaces, memos, index, chat, clicks>>

-----------------------------------------------------------------------------
(* Snapshots, actions, assets, close.                                      *)

\* A snapshot of another window than the session's is refused.
SnapshotSurface(s) ==
    /\ Up /\ s \in Open
    /\ \E c \in Ctx :
          surfaces' = [surfaces EXCEPT ![s] =
              Stored([win |-> @.win, ctx |-> c], @.consumed, @.tombstones)]
    /\ UNCHANGED <<durable, account, profile, epoch, op, memos, index, client>>

Permitted(a) == a.effect # "high_risk"

\* Mutant: the action is consumed when the client answers.
ConsumeNothing(x, a) == x

\* The action is consumed before it is dispatched.
Consume(x, a) == [x EXCEPT !.actions = @ \ {a}, !.consumed = @ \cup {a}]

ActSurface(s, a) ==
    /\ Up /\ s \in Open /\ CanAct
    /\ a \in surfaces[s].actions /\ Permitted(a)
    /\ surfaces' = [surfaces EXCEPT ![s] = Consume(@, a)]
    /\ op' = [kind |-> "act", id |-> s, action |-> a]
    /\ UNCHANGED <<durable, account, profile, epoch, memos, index, client>>

\* Mutant: only a failed action is tombstoned.
TombstoneFailed(effect, succeeded) == ~succeeded

ShouldTombstone(effect, succeeded) ==
    CASE effect = "observe"  -> FALSE
      [] effect = "navigate" -> ~succeeded
      [] OTHER               -> TRUE

Tombstoned(x, a, succeeded) ==
    IF ShouldTombstone(a.effect, succeeded)
    THEN [x EXCEPT !.tombstones = @ \cup {ReplayOf(a)}] ELSE x

\* The session is bound to the window; an action on an element of the page
\* may lead to a new window.
ActDone ==
    /\ op.kind = "act"
    /\ LET a == op.action
           x == Tombstoned(surfaces[op.id], a, TRUE)
       IN  \E w \in {x.win} \cup (IF a.effect = "observe" THEN {} ELSE Window \ windows) :
             /\ windows' = windows \cup {w}
             /\ \/ \E c \in Ctx :
                      surfaces' = [surfaces EXCEPT ![op.id] =
                          Stored([win |-> w, ctx |-> c], x.consumed, x.tombstones)]
                \/ surfaces' = [surfaces EXCEPT ![op.id] = x]   \* storeSurface refused it
             /\ Use(<<"act", op.id, a>>)
    /\ op' = NoOp
    /\ UNCHANGED <<durable, account, profile, epoch, memos, index, chat>>

\* An error or a timeout: the client may have acted.
ActFails ==
    /\ op.kind = "act"
    /\ surfaces' = [surfaces EXCEPT ![op.id] = Tombstoned(@, op.action, FALSE)]
    /\ Use(<<"act", op.id, op.action>>)
    /\ op' = NoOp
    /\ UNCHANGED <<durable, account, profile, epoch, memos, index, windows, chat>>

AssetExpires(s) ==
    /\ s \in Open /\ surfaces[s].assets # {}
    /\ surfaces' = [surfaces EXCEPT ![s].assets = {}]
    /\ UNCHANGED <<durable, account, profile, epoch, op, memos, index, client>>

DropSession(s) == [surfaces EXCEPT ![s] = Nil]

\* The session ends before the close is dispatched.
CloseSurface(s) ==
    /\ Up /\ s \in Open /\ CanAct
    /\ surfaces' = DropSession(s)
    /\ Use(<<"close", s>>)
    /\ op' = [kind |-> "close"]
    /\ UNCHANGED <<durable, account, profile, epoch, memos, index, windows, chat>>

CloseDone ==
    /\ op.kind = "close"
    /\ op' = NoOp
    /\ UNCHANGED <<durable, account, profile, epoch, surfaces, memos, index, client>>

-----------------------------------------------------------------------------
(* Send, with the verification of UIIndex.  All sends have the same text.  *)

\* countExactOutgoing over what the chat window shows.
Shown(q) == SubSeq(q, IF Len(q) > Viewport THEN Len(q) - Viewport + 1 ELSE 1, Len(q))
CountMine(q) == Cardinality({i \in DOMAIN q : q[i] = "mine"})

\* A send without a memo: the conversation is listed again and must be
\* unique, whatever it contains by now; PrepareOutgoing takes the baseline.
SendPrepare(k) ==
    /\ Up /\ memos[k] = "none" /\ CanAct
    /\ known' = TRUE
    /\ \E n \in 0 .. Viewport : chat' \in [1 .. n -> {"mine", "other"}]
    /\ op' = [kind |-> "send", key |-> k, baseline |-> CountMine(Shown(chat')),
              before |-> CountMine(chat')]
    /\ UNCHANGED <<durable, account, profile, epoch, surfaces, memos, batch, leases, reading,
                   windows, clicks>>

\* The client sends, or seems to.
SendDispatch ==
    /\ op.kind = "send"
    /\ Use(<<"send", epoch, op.key>>)
    /\ \/ /\ op' = [op EXCEPT !.kind = "verify"] /\ memos' = memos
          /\ \/ chat' = chat
             \/ Len(chat) < MaxChat /\ chat' = Append(chat, "mine")
       \/ /\ op' = NoOp /\ memos' = [memos EXCEPT ![op.key] = "uncertain"]
          /\ chat' = <<>>
    /\ UNCHANGED <<durable, account, profile, epoch, surfaces, index, windows>>

\* Mutant: as many bubbles as before count as a new one.
NewBubbleOrOld(n, baseline) == n >= baseline

NewBubble(n, baseline) == n > baseline

\* WaitOutgoing lists the conversation, reads it and sees one bubble more than
\* the baseline.
SendVerified ==
    /\ op.kind = "verify" /\ NewBubble(CountMine(Shown(chat)), op.baseline)
    /\ known' = TRUE /\ NewBatch
    /\ memos' = [memos EXCEPT ![op.key] = "verified"]
    /\ op' = [kind |-> "sent", before |-> op.before, batch |-> batch']
    /\ UNCHANGED <<durable, account, profile, epoch, surfaces, client>>

SendUnverified ==
    /\ op.kind = "verify"
    /\ memos' = [memos EXCEPT ![op.key] = "uncertain"]
    /\ op' = NoOp /\ chat' = <<>>
    /\ UNCHANGED <<durable, account, profile, epoch, surfaces, index, windows, clicks>>

SendReturn ==
    /\ op.kind = "sent" /\ op.batch \notin reading
    /\ op' = NoOp /\ chat' = <<>>
    /\ UNCHANGED <<durable, account, profile, epoch, surfaces, memos, index, windows, clicks>>

\* External: others write, and a send that timed out appears late.
MessageArrives ==
    /\ op.kind \in {"send", "verify"} /\ Len(chat) < MaxChat
    /\ \/ chat' = Append(chat, "other")
       \/ (\E k \in Key : memos[k] = "uncertain") /\ chat' = Append(chat, "mine")
    /\ UNCHANGED <<durable, account, profile, epoch, op, surfaces, memos, index, windows, clicks>>

-----------------------------------------------------------------------------
Init ==
    /\ meta = Nil /\ machineId = Nil /\ container \in {"absent", "foreign"} /\ booted = {}
    /\ account = FALSE /\ profile = FALSE /\ epoch = 0
    /\ op = NoOp /\ surfaces = NoSessions /\ memos = NoMemos
    /\ known = FALSE /\ batch = 0 /\ leases = {} /\ reading = {}
    /\ windows = {} /\ chat = <<>> /\ clicks = EmptyBag

Starting == StartBegin \/ EnsureMetadata \/ EnsureFile \/ EnsureFill \/ EnsureCheck
            \/ DockerStart \/ DockerStartFails
Stopping == Stop \/ StopFails \/ Purge \/ Crash
Reading  == ReadMessages \/ LeaseExpires \/ (\E b \in reading : OfferCard(b))
Opening  == OpenNamedSurface \/ OpenDone \/ CallFails \/ (\E b \in leases : OpenSurface(b))
Acting   == ActDone \/ ActFails \/ CloseDone
            \/ \E s \in Open :
                  \/ SnapshotSurface(s) \/ AssetExpires(s) \/ CloseSurface(s)
                  \/ \E a \in surfaces[s].actions : ActSurface(s, a)
Sending  == SendDispatch \/ SendVerified \/ SendUnverified \/ SendReturn
            \/ MessageArrives \/ (\E k \in Key : SendPrepare(k))

Next == Starting \/ Stopping \/ Reading \/ Opening \/ Acting \/ Sending

Spec == Init /\ [][Next]_vars

-----------------------------------------------------------------------------
(* What the driver must guarantee.                                         *)

\* What the holder of operationMu knows.
Operation ==
    [kind : {"none", "metadata", "machine", "fill", "check", "docker", "open", "close"}]
      \cup [kind : {"act"}, id : SurfaceId, action : Action]
      \cup [kind : {"send", "verify"}, key : Key, baseline : Nat, before : Nat]
      \cup [kind : {"sent"}, before : Nat, batch : 1 .. MaxReads]

\* The type invariant of the driver, the profile and the client.
TypeOK ==
    /\ meta \in MachineId \cup {Nil}
    /\ machineId \in MachineId \cup {Nil, "empty"}
    /\ container \in {"absent", "foreign", "stopped", "running"}
    /\ booted \subseteq MachineId \cup {Nil, "empty"}
    /\ account \in BOOLEAN /\ profile \in BOOLEAN /\ epoch \in 0 .. MaxStarts
    /\ op \in Operation
    /\ surfaces \in [SurfaceId -> Session \cup {Nil}]
    /\ memos \in [Key -> {"none", "verified", "uncertain"}]
    /\ known \in BOOLEAN /\ batch \in 0 .. MaxReads
    /\ leases \subseteq 1 .. MaxReads /\ reading \subseteq 1 .. MaxReads
    /\ windows \subseteq Window /\ chat \in Seq({"mine", "other"})
    /\ IsABag(clicks) /\ DOMAIN clicks \subseteq Cap

Once == INSTANCE OneShot WITH Cap <- Cap, uses <- clicks

\* Every action of a surface, every reference to a card, every close and every
\* idempotency key reaches the client at most once, whatever is retried,
\* answered late or lost, while the object that remembers it lives.
CapabilitiesAreOneShot == Once!Spec

\* A snapshot never brings a write back: what was dispatched in a session is
\* not offered by a frame the session stores later, under whatever action ID.
WrittenIn(s) == {c[3] : c \in {x \in DOMAIN clicks : x[1] = "act" /\ x[2] = s
                                                     /\ x[3].effect = "write"}}
NoRevival ==
    [][\A s \in Open \cap {x \in SurfaceId : surfaces'[x] # Nil} :
         \A a \in surfaces'[s].actions \ surfaces[s].actions :
            \A b \in WrittenIn(s) : ReplayOf(a) # ReplayOf(b)]_vars

\* A verified send shows a bubble that was not there before it began, although
\* only the end of the conversation is visible and others write meanwhile.
VerifiedIsNew ==
    op.kind = "sent" => CountMine(chat) > op.before

\* The client of an account has only ever run with the machine identity that
\* its profile records, wherever the creation of the profile was interrupted
\* (ProfileManager.Ensure, writeIfMissing).
StableIdentity == booted \subseteq {meta}
=============================================================================
