---------------------------- MODULE WeChatProofs ----------------------------
(***************************************************************************)
(* Proofs about WeChatClient, for every number of surfaces, windows,       *)
(* messages, keys, starts and crashes.                                     *)
(*                                                                         *)
(* Identity carries StableIdentity, Bubbles carries VerifiedIsNew.  The    *)
(* one-shot use of capabilities rests on ClientInv: an open session has    *)
(* consumed whatever was dispatched in it and has tombstoned its writes    *)
(* (Sessions), a reference to a card that was opened is neither leased nor *)
(* about to be (Cards), a dispatched key has a memo or is being verified   *)
(* (Sends).  All three hold for the epoch of the running driver only: a    *)
(* start makes new capabilities.                                           *)
(***************************************************************************)
EXTENDS WeChatClient, FiniteSetTheorems, SequenceTheorems, TLAPS

-----------------------------------------------------------------------------
(* Types and phases.                                                       *)

Preparing == {"metadata", "machine", "fill", "check", "docker"}
Working   == {"open", "close", "act", "send", "verify", "sent"}

Flags == account \in BOOLEAN /\ profile \in BOOLEAN /\ known \in BOOLEAN

\* The rest of TypeOK but the dispatched capabilities.
Locals ==
    /\ meta \in MachineId \cup {Nil}
    /\ machineId \in MachineId \cup {Nil, "empty"}
    /\ container \in {"absent", "foreign", "stopped", "running"}
    /\ booted \subseteq MachineId \cup {Nil, "empty"}
    /\ epoch \in 0 .. MaxStarts
    /\ op \in Operation
    /\ surfaces \in [SurfaceId -> Session \cup {Nil}]
    /\ memos \in [Key -> {"none", "verified", "uncertain"}]
    /\ batch \in 0 .. MaxReads
    /\ leases \subseteq 1 .. MaxReads /\ reading \subseteq 1 .. MaxReads
    /\ windows \subseteq Window /\ chat \in Seq({"mine", "other"})

\* A driver that is not started has no index; what is under way says whether it
\* is started.
Phase ==
    /\ account => epoch > 0
    /\ ~account => batch = 0 /\ leases = {} /\ reading = {}
    /\ op.kind \in Preparing => ~account /\ epoch < MaxStarts
    /\ op.kind \in Working => account
    /\ op.kind = "act" => surfaces[op.id] # Nil

LEMMA Bounds == /\ Viewport \in Nat /\ MaxChat \in Nat /\ MaxReads \in Nat
                /\ MaxActs \in Nat /\ MaxStarts \in Nat
  BY BoundsAreNatural

\* The bubbles of a conversation can be counted.
LEMMA CountType ==
    ASSUME NEW q \in Seq({"mine", "other"})
    PROVE  /\ CountMine(q) \in Nat
           /\ IsFiniteSet({i \in DOMAIN q : q[i] = "mine"})
  <1>1. DOMAIN q = 1 .. Len(q) /\ Len(q) \in Nat
    OBVIOUS
  <1>2. IsFiniteSet(1 .. Len(q))
    BY <1>1, FS_Interval
  <1>3. {i \in DOMAIN q : q[i] = "mine"} \in SUBSET (1 .. Len(q))
    BY <1>1
  <1>4. IsFiniteSet({i \in DOMAIN q : q[i] = "mine"})
    BY <1>2, <1>3, FS_Subset
  <1>5. QED
    BY <1>4, FS_CardinalityType DEF CountMine

LEMMA ShownType ==
    ASSUME NEW q \in Seq({"mine", "other"})
    PROVE  Shown(q) \in Seq({"mine", "other"})
  BY Bounds DEF Shown

LEMMA StoredType ==
    ASSUME NEW w \in Window, NEW c \in Ctx,
           NEW used \in SUBSET Action, NEW dead \in SUBSET Replay
    PROVE  Stored([win |-> w, ctx |-> c], used, dead) \in Session
  <1>1. Offers([win |-> w, ctx |-> c], used, dead) \in SUBSET Action
    BY DEF Offers, ActionsOf
  <1>2. [win |-> w, ctx |-> c] \in Frame
    BY DEF Frame
  <1>3. QED
    BY <1>1, <1>2 DEF Stored, Session

LEMMA TombstonedType ==
    ASSUME NEW x \in Session, NEW a \in Action, NEW ok \in BOOLEAN
    PROVE  /\ Tombstoned(x, a, ok) \in Session
           /\ Tombstoned(x, a, ok).win = x.win
           /\ Tombstoned(x, a, ok).ctx = x.ctx
           /\ Tombstoned(x, a, ok).actions = x.actions
           /\ Tombstoned(x, a, ok).consumed = x.consumed
           /\ x.tombstones \subseteq Tombstoned(x, a, ok).tombstones
           /\ a.effect = "write" => ReplayOf(a) \in Tombstoned(x, a, ok).tombstones
  <1>1. ReplayOf(a) \in Replay
    BY DEF Replay
  <1>2. a.effect = "write" => ShouldTombstone(a.effect, ok)
    BY DEF ShouldTombstone
  <1>3. QED
    BY <1>1, <1>2 DEF Tombstoned, Session

LEMMA ConsumeType ==
    ASSUME NEW x \in Session, NEW a \in Action
    PROVE  /\ Consume(x, a) \in Session
           /\ Consume(x, a).actions = x.actions \ {a}
           /\ Consume(x, a).consumed = x.consumed \cup {a}
           /\ Consume(x, a).tombstones = x.tombstones
  BY DEF Consume, Session

\* The facts an operation on an open session starts from.
LEMMA OpenType ==
    ASSUME Locals, NEW s \in Open
    PROVE  /\ s \in SurfaceId /\ surfaces[s] \in Session
           /\ surfaces[s].win \in Window /\ surfaces[s].ctx \in Ctx
           /\ surfaces[s].actions \subseteq Action /\ surfaces[s].consumed \subseteq Action
           /\ surfaces[s].tombstones \subseteq Replay
  BY DEF Locals, Open, Session

LEMMA OpType ==
    ASSUME op \in Operation
    PROVE  /\ op.kind \in {"none"} \cup Preparing \cup Working
           /\ op.kind = "act" => op.id \in SurfaceId /\ op.action \in Action
           /\ op.kind \in {"send", "verify"} =>
                op.key \in Key /\ op.baseline \in Nat /\ op.before \in Nat
           /\ op.kind = "sent" => op.before \in Nat /\ op.batch \in 1 .. MaxReads
  BY DEF Operation, Preparing, Working

\* A dispatched send is verified with what it was prepared with.
LEMMA VerifyType ==
    ASSUME op \in Operation, op.kind = "send", op' = [op EXCEPT !.kind = "verify"]
    PROVE  /\ op' \in Operation /\ op'.kind = "verify"
           /\ op'.key = op.key /\ op'.baseline = op.baseline /\ op'.before = op.before
  <1>1. PICK k \in Key, n \in Nat, m \in Nat :
           op = [kind |-> "send", key |-> k, baseline |-> n, before |-> m]
    BY DEF Operation
  <1>2. op' = [kind |-> "verify", key |-> k, baseline |-> n, before |-> m]
    BY <1>1
  <1>3. QED
    BY <1>1, <1>2 DEF Operation

\* The operations that carry nothing.
LEMMA PlainType ==
    ASSUME NEW k \in {"none", "metadata", "machine", "fill", "check", "docker", "open", "close"}
    PROVE  [kind |-> k] \in Operation
  BY DEF Operation

LEMMA BlankType ==
    /\ NoSessions \in [SurfaceId -> Session \cup {Nil}]
    /\ NoMemos \in [Key -> {"none", "verified", "uncertain"}]
    /\ <<>> \in Seq({"mine", "other"})
  BY DEF NoSessions, NoMemos

LEMMA LocalsInit == Init => Locals /\ Phase
  BY Bounds, PlainType, BlankType DEF Init, Locals, Phase, NoOp, Preparing, Working

LEMMA LocalsStarting ==
    ASSUME Locals, Phase, Starting
    PROVE  Locals' /\ Phase'
  <1> USE Bounds, PlainType, BlankType DEF NoOp, Preparing, Working
  <1>1. CASE StartBegin
    BY <1>1 DEF Locals, Phase, StartBegin, durable, index, client, Idle
  <1>2. CASE EnsureMetadata
    BY <1>2 DEF Locals, Phase, EnsureMetadata, index, client
  <1>3. CASE EnsureFile
    BY <1>3 DEF Locals, Phase, EnsureFile, index, client
  <1>4. CASE EnsureFill
    BY <1>4 DEF Locals, Phase, EnsureFill, index, client
  <1>5. CASE EnsureCheck
    BY <1>5 DEF Locals, Phase, EnsureCheck, durable, index, client
  <1>6. CASE DockerStart
    BY <1>6 DEF Locals, Phase, DockerStart, Boots, client
  <1>7. CASE DockerStartFails
    BY <1>7 DEF Locals, Phase, DockerStartFails, Boots, index, client
  <1>8. QED
    BY <1>1, <1>2, <1>3, <1>4, <1>5, <1>6, <1>7 DEF Starting

LEMMA LocalsStopping ==
    ASSUME Locals, Phase, Stopping \/ Reading
    PROVE  Locals' /\ Phase'
  <1> USE Bounds, PlainType, BlankType DEF NoOp, Preparing, Working
  <1>1. CASE Stop
    BY <1>1 DEF Locals, Phase, Stop, Forget, client, Idle
  <1>2. CASE StopFails
    BY <1>2 DEF Locals, Phase, StopFails, index, client
  <1>3. CASE Purge
    BY <1>3 DEF Locals, Phase, Purge, index, client
  <1>4. CASE Crash
    BY <1>4 DEF Locals, Phase, Crash, Forget, durable
  <1>5. CASE ReadMessages
    BY <1>5 DEF Locals, Phase, ReadMessages, NewBatch, durable, client
  <1>6. CASE LeaseExpires
    BY <1>6 DEF Locals, Phase, LeaseExpires, durable, client
  <1>7. ASSUME NEW b \in reading, OfferCard(b)
        PROVE  Locals' /\ Phase'
    BY <1>7 DEF Locals, Phase, OfferCard, durable, client
  <1>8. QED
    BY <1>1, <1>2, <1>3, <1>4, <1>5, <1>6, <1>7 DEF Stopping, Reading

LEMMA FlagsInit == Init => Flags
  BY Zenon DEF Init, Flags

LEMMA FlagsNext ==
    ASSUME Flags, [Next]_vars
    PROVE  Flags'
  <1>1. CASE UNCHANGED vars
    BY <1>1 DEF Flags, vars
  <1>2. CASE Starting
    BY <1>2, Zenon DEF Flags, Starting, StartBegin, EnsureMetadata, EnsureFile, EnsureFill,
                EnsureCheck, DockerStart, DockerStartFails, index
  <1>3. CASE Stopping
    BY <1>3, Zenon DEF Flags, Stopping, Stop, StopFails, Purge, Crash, Forget, index
  <1>4. CASE Reading
    BY <1>4, Zenon DEF Flags, Reading, ReadMessages, LeaseExpires, OfferCard
  <1>5. CASE Opening
    BY <1>5, Zenon DEF Flags, Opening, OpenNamedSurface, OpenDone, CallFails, OpenSurface, index
  <1>6. CASE Acting
    BY <1>6, Zenon DEF Flags, Acting, ActDone, ActFails, CloseDone, SnapshotSurface, AssetExpires,
                CloseSurface, ActSurface, index
  <1>7. CASE Sending
    BY <1>7, Zenon DEF Flags, Sending, SendDispatch, SendVerified, SendUnverified, SendReturn,
                MessageArrives, SendPrepare, index
  <1>8. QED
    BY <1>1, <1>2, <1>3, <1>4, <1>5, <1>6, <1>7 DEF Next

LEMMA LocalsOpening ==
    ASSUME Locals, Phase, Opening
    PROVE  Locals' /\ Phase'
  <1> USE Bounds, PlainType, BlankType DEF NoOp, Preparing, Working
  <1>1. CASE OpenNamedSurface
    BY <1>1 DEF Locals, Phase, OpenNamedSurface, Up, durable, index, client
  <1>2. CASE OpenDone
    <2>1. PICK w \in Window \ windows, c \in Ctx :
             /\ windows' = windows \cup {w}
             /\ \/ \E s \in SurfaceId :
                      surfaces' = [NoSessions EXCEPT ![s] = Stored([win |-> w, ctx |-> c], {}, {})]
                \/ surfaces' = NoSessions
      BY <1>2 DEF OpenDone
    <2>2. Stored([win |-> w, ctx |-> c], {}, {}) \in Session
      BY StoredType
    <2>3. surfaces' \in [SurfaceId -> Session \cup {Nil}]
      BY <2>1, <2>2
    <2>4. QED
      BY <1>2, <2>1, <2>3 DEF Locals, Phase, OpenDone, durable, index
  <1>3. CASE CallFails
    BY <1>3 DEF Locals, Phase, CallFails, durable, index
  <1>4. ASSUME NEW b \in leases, OpenSurface(b)
        PROVE  Locals' /\ Phase'
    BY <1>4 DEF Locals, Phase, OpenSurface, Up, Idle, LeaseAfter, durable
  <1>5. QED
    BY <1>1, <1>2, <1>3, <1>4 DEF Opening

LEMMA LocalsActing ==
    ASSUME Locals, Phase, Acting
    PROVE  Locals' /\ Phase'
  <1> USE Bounds, PlainType, BlankType DEF NoOp, Preparing, Working
  <1>1. CASE ActDone
    <2>1. /\ op.id \in SurfaceId /\ op.action \in Action /\ op.id \in Open
      BY <1>1, OpType DEF ActDone, Locals, Phase, Open
    <2> DEFINE x == Tombstoned(surfaces[op.id], op.action, TRUE)
    <2>2. x \in Session /\ x.win \in Window /\ x.consumed \in SUBSET Action
          /\ x.tombstones \in SUBSET Replay
      BY <2>1, OpenType, TombstonedType DEF Session
    <2> HIDE DEF x
    <2>3. PICK w \in Window :
             /\ windows' = windows \cup {w}
             /\ \/ \E c \in Ctx :
                      surfaces' = [surfaces EXCEPT ![op.id] =
                          Stored([win |-> w, ctx |-> c], x.consumed, x.tombstones)]
                \/ surfaces' = [surfaces EXCEPT ![op.id] = x]
      BY <1>1, <2>2 DEF ActDone, x
    <2>4. surfaces' \in [SurfaceId -> Session \cup {Nil}]
      <3>1. CASE surfaces' = [surfaces EXCEPT ![op.id] = x]
        BY <2>1, <2>2, <3>1 DEF Locals
      <3>2. ASSUME NEW c \in Ctx,
                   surfaces' = [surfaces EXCEPT ![op.id] =
                       Stored([win |-> w, ctx |-> c], x.consumed, x.tombstones)]
            PROVE  surfaces' \in [SurfaceId -> Session \cup {Nil}]
        <4>1. Stored([win |-> w, ctx |-> c], x.consumed, x.tombstones) \in Session
          BY <2>2, StoredType
        <4>2. QED
          BY <2>1, <3>2, <4>1 DEF Locals
      <3>3. QED
        BY <2>3, <3>1, <3>2
    <2>5. QED
      BY <1>1, <2>3, <2>4 DEF Locals, Phase, ActDone, durable, index
  <1>2. CASE ActFails
    <2>1. /\ op.id \in SurfaceId /\ op.action \in Action /\ op.id \in Open
      BY <1>2, OpType DEF ActFails, Locals, Phase, Open
    <2>2. Tombstoned(surfaces[op.id], op.action, FALSE) \in Session
      BY <2>1, OpenType, TombstonedType
    <2>3. surfaces' \in [SurfaceId -> Session \cup {Nil}]
      BY <1>2, <2>1, <2>2 DEF Locals, ActFails
    <2>4. QED
      BY <1>2, <2>3 DEF Locals, Phase, ActFails, durable, index
  <1>3. CASE CloseDone
    BY <1>3 DEF Locals, Phase, CloseDone, durable, index, client
  <1>4. ASSUME NEW s \in Open, SnapshotSurface(s)
        PROVE  Locals' /\ Phase'
    <2>1. PICK c \in Ctx :
             surfaces' = [surfaces EXCEPT ![s] = Stored([win |-> surfaces[s].win, ctx |-> c],
                                       surfaces[s].consumed, surfaces[s].tombstones)]
      BY <1>4, OpenType DEF SnapshotSurface, Locals
    <2>2. Stored([win |-> surfaces[s].win, ctx |-> c],
                  surfaces[s].consumed, surfaces[s].tombstones) \in Session
      BY <1>4, OpenType, StoredType
    <2>3. surfaces' \in [SurfaceId -> Session \cup {Nil}]
      BY <1>4, <2>1, <2>2, OpenType DEF Locals
    <2>4. QED
      BY <1>4, <2>3 DEF Locals, Phase, SnapshotSurface, Up, Idle, durable, index, client
  <1>5. ASSUME NEW s \in Open, AssetExpires(s)
        PROVE  Locals' /\ Phase'
    <2>1. surfaces[s] \in Session /\ s \in SurfaceId
      BY <1>5, OpenType
    <2>2. [surfaces[s] EXCEPT !.assets = {}] \in Session
      BY <2>1 DEF Session
    <2>3. /\ surfaces' \in [SurfaceId -> Session \cup {Nil}]
          /\ \A t \in SurfaceId : surfaces[t] # Nil => surfaces'[t] # Nil
      BY <1>5, <2>1, <2>2, NilIsNoSession DEF Locals, AssetExpires
    <2>4. QED
      BY <1>5, <2>3, OpType DEF Locals, Phase, AssetExpires, durable, index, client
  <1>6. ASSUME NEW s \in Open, CloseSurface(s)
        PROVE  Locals' /\ Phase'
    BY <1>6 DEF Locals, Phase, CloseSurface, DropSession, Up, Open, durable, index
  <1>7. ASSUME NEW s \in Open, NEW a \in surfaces[s].actions, ActSurface(s, a)
        PROVE  Locals' /\ Phase'
    <2>1. s \in SurfaceId /\ a \in Action /\ Consume(surfaces[s], a) \in Session
      BY <1>7, OpenType, ConsumeType
    <2>2. surfaces' \in [SurfaceId -> Session \cup {Nil}] /\ surfaces'[s] # Nil
      BY <1>7, <2>1, NilIsNoSession DEF Locals, ActSurface
    <2>3. op' \in Operation /\ op'.kind = "act" /\ op'.id = s
      BY <1>7, <2>1 DEF ActSurface, Operation
    <2>4. QED
      BY <1>7, <2>2, <2>3 DEF Locals, Phase, ActSurface, Up, durable, index, client
  <1>8. QED
    BY <1>1, <1>2, <1>3, <1>4, <1>5, <1>6, <1>7 DEF Acting

LEMMA AppendType ==
    ASSUME NEW q \in Seq({"mine", "other"}), NEW m \in {"mine", "other"}
    PROVE  Append(q, m) \in Seq({"mine", "other"})
  OBVIOUS

LEMMA LocalsSending ==
    ASSUME Locals, Phase, Sending
    PROVE  Locals' /\ Phase'
  <1> USE Bounds, PlainType, BlankType DEF NoOp, Preparing, Working
  <1>1. CASE SendDispatch
    <2> chat \in Seq({"mine", "other"}) /\ Append(chat, "mine") \in Seq({"mine", "other"})
      BY AppendType DEF Locals
    <2>1. chat' = chat \/ chat' = Append(chat, "mine") \/ chat' = <<>>
      BY <1>1, Zenon DEF SendDispatch
    <2>2. chat' \in Seq({"mine", "other"})
      BY <2>1
    <2>3. op' = [op EXCEPT !.kind = "verify"] \/ op' = [kind |-> "none"]
      BY <1>1 DEF SendDispatch
    <2>4. op' \in Operation /\ op'.kind \in {"verify", "none"}
      BY <1>1, <2>3, VerifyType DEF SendDispatch, Locals
    <2>5. memos' \in [Key -> {"none", "verified", "uncertain"}]
      BY <1>1, OpType DEF SendDispatch, Locals
    <2>6. account
      BY <1>1 DEF SendDispatch, Phase
    <2>7. QED
      BY <1>1, <2>2, <2>4, <2>5, <2>6 DEF Locals, Phase, SendDispatch, durable, index
  <1>2. CASE SendVerified
    <2>1. batch' \in 1 .. MaxReads /\ op' \in Operation /\ op'.kind = "sent"
      BY <1>2, OpType DEF SendVerified, NewBatch, Locals, Operation
    <2>2. QED
      BY <1>2, <2>1, OpType DEF Locals, Phase, SendVerified, NewBatch, durable, client
  <1>3. CASE SendUnverified
    BY <1>3, OpType DEF Locals, Phase, SendUnverified, durable, index
  <1>4. CASE SendReturn
    BY <1>4 DEF Locals, Phase, SendReturn, durable, index
  <1>5. CASE MessageArrives
    <2>1. chat \in Seq({"mine", "other"}) /\ \E m \in {"mine", "other"} : chat' = Append(chat, m)
      BY <1>5 DEF MessageArrives, Locals
    <2>2. chat' \in Seq({"mine", "other"})
      BY <2>1, AppendType
    <2>3. QED
      BY <1>5, <2>2 DEF Locals, Phase, MessageArrives, durable, index
  <1>6. ASSUME NEW k \in Key, SendPrepare(k)
        PROVE  Locals' /\ Phase'
    <2>1. chat' \in Seq({"mine", "other"})
      BY <1>6 DEF SendPrepare
    <2>2. CountMine(chat') \in Nat /\ CountMine(Shown(chat')) \in Nat
      BY <2>1, CountType, ShownType
    <2>3. op' \in Operation /\ op'.kind = "send"
      BY <1>6, <2>2 DEF SendPrepare, Operation
    <2>4. QED
      BY <1>6, <2>1, <2>3 DEF Locals, Phase, SendPrepare, Up, durable
  <1>7. QED
    BY <1>1, <1>2, <1>3, <1>4, <1>5, <1>6 DEF Sending

LEMMA LocalsNext ==
    ASSUME Locals, Phase, [Next]_vars
    PROVE  Locals' /\ Phase'
  <1>1. CASE UNCHANGED vars
    BY <1>1 DEF Locals, Phase, vars
  <1>2. QED
    BY <1>1, LocalsStarting, LocalsStopping, LocalsOpening, LocalsActing, LocalsSending DEF Next

-----------------------------------------------------------------------------
(* The machine identity.                                                   *)

Identity ==
    /\ booted \subseteq {meta}
    /\ meta = Nil => booted = {}
    /\ op.kind \in {"machine", "fill", "check", "docker"} => meta # Nil
    /\ op.kind = "docker" => machineId = meta

LEMMA IdentityInit == Init => Identity
  BY DEF Init, Identity, NoOp

\* The steps of a start, where the identity is made and mounted.
LEMMA IdentityStarting ==
    ASSUME Identity, Starting
    PROVE  Identity'
  <1>1. CASE StartBegin
    BY <1>1 DEF Identity, StartBegin, durable
  <1>2. CASE EnsureMetadata
    BY <1>2, NilIsNothing DEF Identity, EnsureMetadata
  <1>3. CASE EnsureFile
    BY <1>3 DEF Identity, EnsureFile
  <1>4. CASE EnsureFill
    BY <1>4 DEF Identity, EnsureFill
  <1>5. CASE EnsureCheck
    BY <1>5 DEF Identity, EnsureCheck, MachineIdMatches, durable, NoOp
  <1>6. CASE DockerStart
    BY <1>6 DEF Identity, DockerStart, Boots, Verifies, NoOp
  <1>7. CASE DockerStartFails
    BY <1>7 DEF Identity, DockerStartFails, Boots, Verifies, NoOp
  <1>8. QED
    BY <1>1, <1>2, <1>3, <1>4, <1>5, <1>6, <1>7 DEF Starting

LEMMA IdentityOthers ==
    ASSUME Locals, Identity, Stopping \/ Reading \/ Opening \/ Acting \/ Sending
    PROVE  Identity'
  <1>1. CASE Stopping
    BY <1>1 DEF Identity, Stopping, Stop, StopFails, Purge, Crash, Idle, NoOp, durable
  <1>2. CASE Reading
    BY <1>2 DEF Identity, Reading, ReadMessages, LeaseExpires, OfferCard, durable
  <1>3. CASE Opening
    <2>1. /\ UNCHANGED <<meta, machineId, booted>>
          /\ op' = op \/ op' = NoOp \/ op' = [kind |-> "open"]
      BY <1>3, Zenon DEF Opening, OpenNamedSurface, OpenDone, CallFails, OpenSurface, durable
    <2>2. QED
      BY <2>1 DEF Identity, NoOp
  <1>4. CASE Acting
    <2>1. /\ UNCHANGED <<meta, machineId, booted>>
          /\ \/ op' = op \/ op' = NoOp \/ op' = [kind |-> "close"]
             \/ \E s, a : op' = [kind |-> "act", id |-> s, action |-> a]
      BY <1>4, Zenon DEF Acting, ActDone, ActFails, CloseDone, SnapshotSurface, AssetExpires,
                  CloseSurface, ActSurface, durable
    <2>2. QED
      BY <2>1 DEF Identity, NoOp
  <1>5. CASE Sending
    <2>1. CASE SendDispatch
      <3>1. op' = [op EXCEPT !.kind = "verify"] \/ op' = NoOp
        BY <2>1, Zenon DEF SendDispatch
      <3>2. op'.kind \in {"verify", "none"}
        BY <2>1, <3>1, VerifyType DEF Locals, SendDispatch, NoOp
      <3>3. QED
        BY <2>1, <3>2 DEF Identity, SendDispatch, durable
    <2>2. CASE SendVerified \/ SendUnverified \/ SendReturn \/ MessageArrives \/ \E k \in Key : SendPrepare(k)
      BY <2>2 DEF Identity, SendVerified, SendUnverified, SendReturn, MessageArrives,
                  SendPrepare, NoOp, durable
    <2>3. QED
      BY <1>5, <2>1, <2>2 DEF Sending
  <1>6. QED
    BY <1>1, <1>2, <1>3, <1>4, <1>5

LEMMA IdentityNext ==
    ASSUME Locals, Identity, [Next]_vars
    PROVE  Identity'
  <1>1. CASE UNCHANGED vars
    BY <1>1 DEF Identity, vars
  <1>2. QED
    BY <1>1, IdentityStarting, IdentityOthers DEF Next

\* StableIdentity: whatever interrupts ProfileManager.Ensure, the container only
\* ever runs with the machine ID that profile.json records.
THEOREM StableIdentityCorrect == Spec => []StableIdentity
  <1>1. Identity => StableIdentity
    BY DEF Identity, StableIdentity
  <1>2. QED
    BY <1>1, LocalsInit, LocalsNext, IdentityInit, IdentityNext, PTL DEF Spec

-----------------------------------------------------------------------------
(* Verified sends.                                                         *)

\* A conversation that fits the window is shown whole.
LEMMA ShownWhole ==
    ASSUME NEW q \in Seq({"mine", "other"}), Len(q) <= Viewport
    PROVE  Shown(q) = q
  <1>1. (IF Len(q) > Viewport THEN Len(q) - Viewport + 1 ELSE 1) = 1
    BY Bounds
  <1>2. Shown(q) = SubSeq(q, 1, Len(q))
    BY <1>1, Zenon DEF Shown
  <1>3. QED
    BY <1>2, SubSeqFull

\* The window shows no bubble that the conversation does not have.
LEMMA ShownFewer ==
    ASSUME NEW q \in Seq({"mine", "other"})
    PROVE  CountMine(Shown(q)) <= CountMine(q)
  <1> DEFINE k == IF Len(q) > Viewport THEN Len(q) - Viewport + 1 ELSE 1
             S == {i \in DOMAIN Shown(q) : Shown(q)[i] = "mine"}
             T == {i \in DOMAIN q : q[i] = "mine"}
             f == [i \in S |-> i + k - 1]
  <1>1. Len(q) \in Nat /\ k \in Nat /\ k >= 1 /\ Viewport \in Nat
    BY Bounds
  <1>2. Shown(q) = SubSeq(q, k, Len(q))
    BY DEF Shown
  <1> HIDE DEF k
  <1>3. \A i \in S : i \in Nat /\ f[i] = i + k - 1 /\ f[i] \in T
    BY <1>1, <1>2
  <1>4. f \in Injection(S, T)
    BY <1>1, <1>3 DEF Injection, IsInjective
  <1>5. IsFiniteSet(T)
    BY CountType
  <1>6. Cardinality(S) <= Cardinality(T)
    BY <1>4, <1>5, FS_Injection
  <1>7. QED
    BY <1>6 DEF CountMine

\* The baseline of a send is the number of the bubbles there were.
Bubbles ==
    /\ op.kind \in {"send", "verify"} => op.baseline = op.before
    /\ VerifiedIsNew

LEMMA BubblesInit == Init => Bubbles
  BY DEF Init, Bubbles, VerifiedIsNew, NoOp

LEMMA BubblesSending ==
    ASSUME Locals, Bubbles, Sending
    PROVE  Bubbles'
  <1>1. CASE SendDispatch
    <2>1. CASE op' = [op EXCEPT !.kind = "verify"]
      BY <1>1, <2>1, VerifyType DEF Bubbles, Locals, SendDispatch, VerifiedIsNew
    <2>2. CASE op' = NoOp
      BY <2>2 DEF Bubbles, VerifiedIsNew, NoOp
    <2>3. QED
      BY <1>1, <2>1, <2>2 DEF SendDispatch
  <1>2. CASE SendVerified
    <2>1. /\ op.kind = "verify" /\ CountMine(Shown(chat)) > op.baseline
          /\ op'.kind = "sent" /\ op'.before = op.before /\ chat' = chat
      BY <1>2 DEF SendVerified, NewBubble, client
    <2>2. op.baseline = op.before /\ op.before \in Nat
      BY <2>1, OpType DEF Bubbles, Locals
    <2>3. /\ CountMine(Shown(chat)) <= CountMine(chat)
          /\ CountMine(Shown(chat)) \in Nat /\ CountMine(chat) \in Nat
      BY ShownFewer, CountType, ShownType DEF Locals
    <2>4. CountMine(chat) > op.before
      BY <2>1, <2>2, <2>3
    <2>5. CountMine(chat') = CountMine(chat)
      BY <2>1
    <2>6. QED
      BY <2>1, <2>4, <2>5 DEF Bubbles, VerifiedIsNew
  <1>3. CASE SendUnverified \/ SendReturn
    BY <1>3 DEF Bubbles, SendUnverified, SendReturn, VerifiedIsNew, NoOp
  <1>4. CASE MessageArrives
    BY <1>4 DEF Bubbles, MessageArrives, VerifiedIsNew
  <1>5. ASSUME NEW k \in Key, SendPrepare(k)
        PROVE  Bubbles'
    <2>1. PICK n \in 0 .. Viewport : chat' \in [1 .. n -> {"mine", "other"}]
      BY <1>5 DEF SendPrepare
    <2>2. chat' \in Seq({"mine", "other"}) /\ Len(chat') <= Viewport
      BY <2>1, Bounds
    <2>3. Shown(chat') = chat'
      BY <2>2, ShownWhole
    <2>4. QED
      BY <1>5, <2>3 DEF SendPrepare, Bubbles, VerifiedIsNew
  <1>6. QED
    BY <1>1, <1>2, <1>3, <1>4, <1>5 DEF Sending

\* Nothing else touches a send under way or the conversation it watches.
LEMMA BubblesOthers ==
    ASSUME Bubbles, Starting \/ Stopping \/ Reading \/ Opening \/ Acting
    PROVE  Bubbles'
  <1>1. CASE Starting
    BY <1>1 DEF Bubbles, VerifiedIsNew, Starting, StartBegin, EnsureMetadata, EnsureFile, EnsureFill,
                EnsureCheck, DockerStart, DockerStartFails, NoOp
  <1>2. CASE Stopping
    BY <1>2 DEF Bubbles, VerifiedIsNew, Stopping, Stop, StopFails, Purge, Crash, client, NoOp
  <1>3. CASE Reading
    BY <1>3 DEF Bubbles, VerifiedIsNew, Reading, ReadMessages, LeaseExpires, OfferCard, client
  <1>4. CASE Opening
    <2>1. \/ op' = op /\ chat' = chat
          \/ op' = NoOp \/ op' = [kind |-> "open"]
      BY <1>4, Zenon DEF Opening, OpenNamedSurface, OpenDone, CallFails, OpenSurface
    <2>2. QED
      BY <2>1 DEF Bubbles, VerifiedIsNew, NoOp
  <1>5. CASE Acting
    <2>1. \/ op' = op /\ chat' = chat
          \/ op' = NoOp \/ op' = [kind |-> "close"]
          \/ \E s, a : op' = [kind |-> "act", id |-> s, action |-> a]
      BY <1>5, Zenon DEF Acting, ActDone, ActFails, CloseDone, SnapshotSurface, AssetExpires,
                  CloseSurface, ActSurface, client
    <2>2. QED
      BY <2>1 DEF Bubbles, VerifiedIsNew, NoOp
  <1>6. QED
    BY <1>1, <1>2, <1>3, <1>4, <1>5

LEMMA BubblesNext ==
    ASSUME Locals, Bubbles, [Next]_vars
    PROVE  Bubbles'
  <1>1. CASE UNCHANGED vars
    BY <1>1 DEF Bubbles, VerifiedIsNew, vars
  <1>2. QED
    BY <1>1, BubblesSending, BubblesOthers DEF Next

\* VerifiedIsNew: a send that WaitOutgoing verified has added a bubble to the
\* conversation, for a window of any height and any number of messages.
THEOREM VerifiedIsNewCorrect == Spec => []VerifiedIsNew
  <1>1. Bubbles => VerifiedIsNew
    BY DEF Bubbles
  <1>2. QED
    BY <1>1, LocalsInit, LocalsNext, BubblesInit, BubblesNext, PTL DEF Spec

-----------------------------------------------------------------------------
(* Capabilities are used once.                                             *)

UsedOnce == DOMAIN clicks \subseteq Cap /\ clicks \in [DOMAIN clicks -> {1}]

\* An open session remembers what was dispatched in it, and offers none of it.
Sessions ==
    /\ \A s \in SurfaceId : surfaces[s] # Nil =>
          /\ surfaces[s].actions \cap surfaces[s].consumed = {}
          /\ <<"close", s>> \notin DOMAIN clicks
          /\ \A a \in Action : <<"act", s, a>> \in DOMAIN clicks =>
                /\ a \in surfaces[s].consumed
                /\ a.effect = "write" => ReplayOf(a) \in surfaces[s].tombstones
    /\ op.kind = "act" =>
          /\ op.action \in surfaces[op.id].consumed
          /\ <<"act", op.id, op.action>> \notin DOMAIN clicks

LEMMA UseFresh ==
    ASSUME UsedOnce, NEW c \in Cap, c \notin DOMAIN clicks, Use(c)
    PROVE  UsedOnce' /\ DOMAIN clicks' = DOMAIN clicks \cup {c}
  <1>1. clicks' = [e \in DOMAIN clicks \cup {c} |->
                      (IF e \in DOMAIN clicks THEN clicks[e] ELSE 0)
                    + (IF e \in {c} THEN 1 ELSE 0)]
    BY DEF Use, (+), SetToBag
  <1>2. DOMAIN clicks' = DOMAIN clicks \cup {c}
    BY <1>1
  <1>3. \A e \in DOMAIN clicks' : clicks'[e] = 1
    BY <1>1, <1>2 DEF UsedOnce
  <1>4. clicks' \in [DOMAIN clicks' -> {1}]
    BY <1>1, <1>2, <1>3
  <1>5. QED
    BY <1>2, <1>4 DEF UsedOnce

LEMMA UseDomain ==
    ASSUME NEW c, Use(c)
    PROVE  DOMAIN clicks' = DOMAIN clicks \cup {c}
  BY DEF Use, (+), SetToBag

LEMMA SessionsInit == Init => Sessions /\ UsedOnce
  BY DEF Init, Sessions, UsedOnce, NoSessions, NoOp, EmptyBag, SetToBag

\* A step that leaves the sessions alone and dispatches nothing of theirs.
LEMMA SessionsQuiet ==
    ASSUME Sessions, surfaces' = surfaces, op' = op \/ op'.kind # "act",
           \A s : <<"close", s>> \in DOMAIN clicks' => <<"close", s>> \in DOMAIN clicks,
           \A s, a : <<"act", s, a>> \in DOMAIN clicks' => <<"act", s, a>> \in DOMAIN clicks
    PROVE  Sessions'
  BY DEF Sessions

\* A step that ends all sessions.
LEMMA SessionsEnd ==
    ASSUME surfaces' = NoSessions, op'.kind # "act"
    PROVE  Sessions'
  BY DEF Sessions, NoSessions

LEMMA SessionsStarting ==
    ASSUME Sessions, Starting \/ Stopping \/ Reading
    PROVE  Sessions'
  <1>1. CASE StartBegin \/ EnsureMetadata \/ EnsureFile \/ EnsureFill \/ EnsureCheck \/ DockerStartFails
    <2>1. surfaces' = surfaces /\ clicks' = clicks /\ op'.kind # "act"
      BY <1>1 DEF StartBegin, EnsureMetadata, EnsureFile, EnsureFill, EnsureCheck, DockerStartFails,
                  client, NoOp
    <2>2. QED
      BY <2>1, SessionsQuiet
  <1>2. CASE DockerStart
    BY <1>2, SessionsEnd DEF DockerStart, NoOp
  <1>3. CASE Stop \/ Crash
    BY <1>3, SessionsEnd DEF Stop, Crash, Forget, NoOp, Idle
  <1>4. CASE StopFails \/ Purge \/ Reading
    <2>1. surfaces' = surfaces /\ clicks' = clicks /\ op' = op
      BY <1>4 DEF StopFails, Purge, Reading, ReadMessages, LeaseExpires, OfferCard, client
    <2>2. QED
      BY <2>1, SessionsQuiet
  <1>5. QED
    BY <1>1, <1>2, <1>3, <1>4 DEF Starting, Stopping

LEMMA SessionsOpening ==
    ASSUME Locals, Sessions, Opening
    PROVE  Sessions'
  <1>1. CASE OpenNamedSurface \/ CallFails
    <2>1. surfaces' = surfaces /\ clicks' = clicks /\ op'.kind # "act"
      BY <1>1 DEF OpenNamedSurface, CallFails, client, NoOp
    <2>2. QED
      BY <2>1, SessionsQuiet
  <1>2. ASSUME NEW b \in leases, OpenSurface(b)
        PROVE  Sessions'
    <2>1. surfaces' = surfaces /\ (op' = op \/ op'.kind # "act")
      BY <1>2 DEF OpenSurface
    <2>2. DOMAIN clicks' \subseteq DOMAIN clicks \cup {<<"card", epoch, b>>}
      BY <1>2, UseDomain DEF OpenSurface
    <2>3. QED
      BY <2>1, <2>2, SessionsQuiet
  <1>3. CASE OpenDone
    <2>1. CASE surfaces' = NoSessions
      BY <1>3, <2>1, SessionsEnd DEF OpenDone, NoOp
    <2>2. CASE surfaces' # NoSessions
      <3>1. PICK w \in Window, c \in Ctx, s \in SurfaceId :
               /\ \A x \in DOMAIN clicks : x[2] # s
               /\ surfaces' = [NoSessions EXCEPT ![s] = Stored([win |-> w, ctx |-> c], {}, {})]
        BY <1>3, <2>2 DEF OpenDone
      <3>2. \A a : <<"act", s, a>> \notin DOMAIN clicks
        BY <3>1
      <3>3. <<"close", s>> \notin DOMAIN clicks
        BY <3>1
      <3>4. \A t \in SurfaceId : surfaces'[t] # Nil => t = s
        BY <3>1 DEF NoSessions
      <3>5. surfaces'[s] = Stored([win |-> w, ctx |-> c], {}, {})
        BY <3>1 DEF NoSessions
      <3>6. surfaces'[s].consumed = {}
        BY <3>5 DEF Stored
      <3>7. op'.kind # "act" /\ clicks' = clicks
        BY <1>3 DEF OpenDone, NoOp
      <3>8. QED
        BY <3>2, <3>3, <3>4, <3>6, <3>7 DEF Sessions
    <2>3. QED
      BY <2>1, <2>2
  <1>4. QED
    BY <1>1, <1>2, <1>3 DEF Opening

LEMMA SessionsSending ==
    ASSUME Locals, Sessions, Sending
    PROVE  Sessions'
  <1>1. CASE SendDispatch
    <2>1. surfaces' = surfaces
      BY <1>1 DEF SendDispatch
    <2>2. op'.kind # "act"
      <3>1. op' = [op EXCEPT !.kind = "verify"] \/ op' = NoOp
        BY <1>1, Zenon DEF SendDispatch
      <3>2. QED
        BY <1>1, <3>1, VerifyType DEF Locals, SendDispatch, NoOp
    <2>3. DOMAIN clicks' = DOMAIN clicks \cup {<<"send", epoch, op.key>>}
      BY <1>1, UseDomain DEF SendDispatch
    <2>4. QED
      BY <2>1, <2>2, <2>3, SessionsQuiet
  <1>2. CASE SendVerified \/ SendUnverified \/ SendReturn \/ MessageArrives
             \/ \E k \in Key : SendPrepare(k)
    <2>1. surfaces' = surfaces /\ clicks' = clicks /\ (op' = op \/ op'.kind # "act")
      BY <1>2 DEF SendVerified, SendUnverified, SendReturn, MessageArrives, SendPrepare, client, NoOp
    <2>2. QED
      BY <2>1, SessionsQuiet
  <1>3. QED
    BY <1>1, <1>2 DEF Sending

\* A step of one open session, which may dispatch one of its actions.
LEMMA SessionMoves ==
    ASSUME Locals, Sessions, NEW s \in SurfaceId, surfaces[s] # Nil,
           NEW x, surfaces' = [surfaces EXCEPT ![s] = x],
           x.actions \cap x.consumed = {},
           surfaces[s].consumed \subseteq x.consumed,
           surfaces[s].tombstones \subseteq x.tombstones,
           \A t : <<"close", t>> \in DOMAIN clicks' => <<"close", t>> \in DOMAIN clicks,
           \A t, b : <<"act", t, b>> \in DOMAIN clicks' =>
                       \/ <<"act", t, b>> \in DOMAIN clicks
                       \/ /\ t = s /\ b \in x.consumed
                          /\ b.effect = "write" => ReplayOf(b) \in x.tombstones,
           op'.kind = "act" => /\ op'.action \in surfaces'[op'.id].consumed
                               /\ <<"act", op'.id, op'.action>> \notin DOMAIN clicks'
    PROVE  Sessions'
  <1>1. surfaces'[s] = x /\ \A t \in SurfaceId \ {s} : surfaces'[t] = surfaces[t]
    BY DEF Locals
  <1>2. ASSUME NEW t \in SurfaceId, surfaces'[t] # Nil
        PROVE  /\ surfaces'[t].actions \cap surfaces'[t].consumed = {}
               /\ <<"close", t>> \notin DOMAIN clicks'
               /\ \A a \in Action : <<"act", t, a>> \in DOMAIN clicks' =>
                    /\ a \in surfaces'[t].consumed
                    /\ a.effect = "write" => ReplayOf(a) \in surfaces'[t].tombstones
    <2>1. CASE t = s
      BY <1>1, <2>1 DEF Sessions
    <2>2. CASE t # s
      BY <1>1, <1>2, <2>2 DEF Sessions
    <2>3. QED
      BY <2>1, <2>2
  <1>3. QED
    BY <1>2 DEF Sessions

LEMMA StoredFacts ==
    ASSUME NEW f, NEW used, NEW dead
    PROVE  /\ Stored(f, used, dead).consumed = used /\ Stored(f, used, dead).tombstones = dead
           /\ Stored(f, used, dead).actions \cap used = {}
           /\ \A a \in Stored(f, used, dead).actions : ReplayOf(a) \notin dead
  <1>1. /\ Stored(f, used, dead).consumed = used /\ Stored(f, used, dead).tombstones = dead
        /\ Stored(f, used, dead).actions = Offers(f, used, dead)
    BY DEF Stored
  <1>2. QED
    BY <1>1 DEF Offers

\* How an action that the client answered, or did not, moves its session.
LEMMA ActEnds ==
    ASSUME Locals, Phase, Sessions, ActDone \/ ActFails
    PROVE  /\ op.id \in SurfaceId /\ op.action \in Action /\ surfaces[op.id] # Nil
           /\ DOMAIN clicks' = DOMAIN clicks \cup {<<"act", op.id, op.action>>}
           /\ op' = NoOp
           /\ \E x : /\ surfaces' = [surfaces EXCEPT ![op.id] = x]
                     /\ x.actions \cap x.consumed = {}
                     /\ x.consumed = surfaces[op.id].consumed
                     /\ surfaces[op.id].tombstones \subseteq x.tombstones
                     /\ op.action.effect = "write" => ReplayOf(op.action) \in x.tombstones
                     /\ \A a \in x.actions : \/ a \in surfaces[op.id].actions
                                            \/ ReplayOf(a) \notin x.tombstones
  <1>1. op.id \in SurfaceId /\ op.action \in Action /\ surfaces[op.id] # Nil /\ op.id \in Open
    BY OpType DEF ActDone, ActFails, Locals, Phase, Open
  <1>2. surfaces[op.id] \in Session /\ surfaces[op.id].actions \cap surfaces[op.id].consumed = {}
    BY <1>1, OpenType DEF Sessions
  <1>3. DOMAIN clicks' = DOMAIN clicks \cup {<<"act", op.id, op.action>>} /\ op' = NoOp
    BY UseDomain DEF ActDone, ActFails
  <1>4. CASE ActFails
    <2> DEFINE x == Tombstoned(surfaces[op.id], op.action, FALSE)
    <2>1. /\ x.actions = surfaces[op.id].actions /\ x.consumed = surfaces[op.id].consumed
          /\ surfaces[op.id].tombstones \subseteq x.tombstones
          /\ op.action.effect = "write" => ReplayOf(op.action) \in x.tombstones
      BY <1>1, <1>2, TombstonedType
    <2>2. surfaces' = [surfaces EXCEPT ![op.id] = x]
      BY <1>1, <1>4 DEF ActFails, Locals
    <2> HIDE DEF x
    <2>3. QED
      BY <1>1, <1>2, <1>3, <2>1, <2>2
  <1>5. CASE ActDone
    <2> DEFINE y == Tombstoned(surfaces[op.id], op.action, TRUE)
    <2>1. /\ y.actions = surfaces[op.id].actions /\ y.consumed = surfaces[op.id].consumed
          /\ surfaces[op.id].tombstones \subseteq y.tombstones
          /\ op.action.effect = "write" => ReplayOf(op.action) \in y.tombstones
      BY <1>1, <1>2, TombstonedType
    <2>2. \/ surfaces' = [surfaces EXCEPT ![op.id] = y]
          \/ \E f : surfaces' = [surfaces EXCEPT ![op.id] = Stored(f, y.consumed, y.tombstones)]
      BY <1>5, Zenon DEF ActDone
    <2> HIDE DEF y
    <2>3. CASE surfaces' = [surfaces EXCEPT ![op.id] = y]
      BY <1>1, <1>2, <1>3, <2>1, <2>3
    <2>4. ASSUME NEW f, surfaces' = [surfaces EXCEPT ![op.id] = Stored(f, y.consumed, y.tombstones)]
          PROVE  \E x : /\ surfaces' = [surfaces EXCEPT ![op.id] = x]
                        /\ x.actions \cap x.consumed = {}
                        /\ x.consumed = surfaces[op.id].consumed
                        /\ surfaces[op.id].tombstones \subseteq x.tombstones
                        /\ op.action.effect = "write" => ReplayOf(op.action) \in x.tombstones
                        /\ \A a \in x.actions : \/ a \in surfaces[op.id].actions
                                               \/ ReplayOf(a) \notin x.tombstones
      <3> DEFINE x == Stored(f, y.consumed, y.tombstones)
      <3>1. /\ x.consumed = y.consumed /\ x.tombstones = y.tombstones
            /\ x.actions \cap x.consumed = {}
            /\ \A a \in x.actions : ReplayOf(a) \notin x.tombstones
        BY StoredFacts
      <3>2. surfaces' = [surfaces EXCEPT ![op.id] = x]
        BY <2>4
      <3> HIDE DEF x
      <3>3. QED
        BY <2>1, <3>1, <3>2
    <2>5. QED
      BY <1>1, <1>3, <2>2, <2>3, <2>4
  <1>6. QED
    BY <1>4, <1>5

LEMMA SessionsActing ==
    ASSUME Locals, Phase, Sessions, Acting
    PROVE  Sessions'
  <1>1. CASE ActDone \/ ActFails
    <2>1. PICK x : /\ surfaces' = [surfaces EXCEPT ![op.id] = x]
                   /\ x.actions \cap x.consumed = {}
                   /\ x.consumed = surfaces[op.id].consumed
                   /\ surfaces[op.id].tombstones \subseteq x.tombstones
                   /\ op.action.effect = "write" => ReplayOf(op.action) \in x.tombstones
      BY <1>1, ActEnds
    <2>2. /\ op.id \in SurfaceId /\ op.action \in Action /\ surfaces[op.id] # Nil
          /\ DOMAIN clicks' = DOMAIN clicks \cup {<<"act", op.id, op.action>>}
          /\ op'.kind # "act"
      BY <1>1, ActEnds DEF NoOp
    <2>3. op.action \in surfaces[op.id].consumed
      BY <1>1 DEF Sessions, ActDone, ActFails
    <2>4. \A t : <<"close", t>> \in DOMAIN clicks' => <<"close", t>> \in DOMAIN clicks
      BY <2>2
    <2>5. \A t, b : <<"act", t, b>> \in DOMAIN clicks' =>
                      <<"act", t, b>> \in DOMAIN clicks \/ (t = op.id /\ b = op.action)
      BY <2>2
    <2>6. \A t, b : <<"act", t, b>> \in DOMAIN clicks' =>
                      \/ <<"act", t, b>> \in DOMAIN clicks
                      \/ /\ t = op.id /\ b \in x.consumed
                         /\ b.effect = "write" => ReplayOf(b) \in x.tombstones
      BY <2>1, <2>3, <2>5
    <2>7. QED
      BY <2>1, <2>2, <2>4, <2>6, SessionMoves
  <1>2. CASE CloseDone
    <2>1. surfaces' = surfaces /\ clicks' = clicks /\ op'.kind # "act"
      BY <1>2 DEF CloseDone, client, NoOp
    <2>2. QED
      BY <2>1, SessionsQuiet
  <1>3. ASSUME NEW s \in Open, SnapshotSurface(s)
        PROVE  Sessions'
    <2>1. s \in SurfaceId /\ surfaces[s] # Nil /\ clicks' = clicks /\ op'.kind # "act"
      BY <1>3 DEF Open, SnapshotSurface, Up, Idle, NoOp, client
    <2>2. PICK c \in Ctx : surfaces' = [surfaces EXCEPT ![s] =
                 Stored([win |-> surfaces[s].win, ctx |-> c], surfaces[s].consumed, surfaces[s].tombstones)]
      BY <1>3, <2>1 DEF SnapshotSurface, Locals
    <2> DEFINE x == Stored([win |-> surfaces[s].win, ctx |-> c], surfaces[s].consumed, surfaces[s].tombstones)
    <2>3. /\ x.actions \cap x.consumed = {}
          /\ x.consumed = surfaces[s].consumed /\ x.tombstones = surfaces[s].tombstones
      BY StoredFacts
    <2>4. surfaces' = [surfaces EXCEPT ![s] = x]
      BY <2>2
    <2> HIDE DEF x
    <2>5. QED
      BY <2>1, <2>3, <2>4, SessionMoves
  <1>4. ASSUME NEW s \in Open, AssetExpires(s)
        PROVE  Sessions'
    <2>1. s \in SurfaceId /\ surfaces[s] # Nil /\ clicks' = clicks /\ op' = op
          /\ surfaces[s] \in Session
      BY <1>4, OpenType DEF Open, AssetExpires, client
    <2> DEFINE x == [surfaces[s] EXCEPT !.assets = {}]
    <2>2. /\ x.actions = surfaces[s].actions /\ x.consumed = surfaces[s].consumed
          /\ x.tombstones = surfaces[s].tombstones
      BY <2>1 DEF Session
    <2>3. surfaces' = [surfaces EXCEPT ![s] = x]
      BY <1>4, <2>1 DEF AssetExpires, Locals
    <2> HIDE DEF x
    <2>4. x.actions \cap x.consumed = {}
      BY <2>1, <2>2 DEF Sessions
    <2>5. op'.kind = "act" => /\ op'.action \in surfaces'[op'.id].consumed
                              /\ <<"act", op'.id, op'.action>> \notin DOMAIN clicks'
      <3> SUFFICES ASSUME op.kind = "act"
                   PROVE  /\ op.action \in surfaces'[op.id].consumed
                          /\ <<"act", op.id, op.action>> \notin DOMAIN clicks
        BY <2>1
      <3>1. op.id \in SurfaceId
        BY OpType DEF Locals
      <3>2. surfaces'[op.id].consumed = surfaces[op.id].consumed
        BY <2>1, <2>2, <2>3, <3>1 DEF Locals
      <3>3. QED
        BY <3>2 DEF Sessions
    <2>6. QED
      BY <2>1, <2>2, <2>3, <2>4, <2>5, SessionMoves
  <1>5. ASSUME NEW s \in Open, CloseSurface(s)
        PROVE  Sessions'
    <2>1. /\ s \in SurfaceId /\ op'.kind # "act" /\ surfaces' = [surfaces EXCEPT ![s] = Nil]
          /\ DOMAIN clicks' = DOMAIN clicks \cup {<<"close", s>>}
      BY <1>5, UseDomain DEF Open, CloseSurface, DropSession
    <2>2. \A t \in SurfaceId : surfaces'[t] # Nil => t # s /\ surfaces'[t] = surfaces[t]
      BY <2>1 DEF Locals
    <2>3. /\ \A t : t # s => (<<"close", t>> \in DOMAIN clicks' => <<"close", t>> \in DOMAIN clicks)
          /\ \A t, b : <<"act", t, b>> \in DOMAIN clicks' => <<"act", t, b>> \in DOMAIN clicks
      BY <2>1
    <2>4. QED
      BY <2>1, <2>2, <2>3 DEF Sessions
  <1>6. ASSUME NEW s \in Open, NEW a \in surfaces[s].actions, ActSurface(s, a)
        PROVE  Sessions'
    <2>1. /\ s \in SurfaceId /\ surfaces[s] # Nil /\ surfaces[s] \in Session /\ a \in Action
          /\ clicks' = clicks
      BY <1>6, OpenType DEF Open, ActSurface, client
    <2> DEFINE x == Consume(surfaces[s], a)
    <2>2. /\ x.actions = surfaces[s].actions \ {a} /\ x.consumed = surfaces[s].consumed \cup {a}
          /\ x.tombstones = surfaces[s].tombstones
      BY <2>1, ConsumeType
    <2>3. surfaces' = [surfaces EXCEPT ![s] = x]
      BY <1>6, <2>1 DEF ActSurface, Locals
    <2>4. op'.kind = "act" /\ op'.id = s /\ op'.action = a
      BY <1>6 DEF ActSurface
    <2> HIDE DEF x
    <2>5. x.actions \cap x.consumed = {} /\ <<"act", s, a>> \notin DOMAIN clicks
      BY <1>6, <2>1, <2>2 DEF Sessions
    <2>6. surfaces'[s] = x
      BY <2>1, <2>3 DEF Locals
    <2>7. op'.kind = "act" => /\ op'.action \in surfaces'[op'.id].consumed
                              /\ <<"act", op'.id, op'.action>> \notin DOMAIN clicks'
      BY <2>1, <2>2, <2>4, <2>5, <2>6
    <2>8. QED
      BY <2>1, <2>2, <2>3, <2>5, <2>7, SessionMoves
  <1>7. QED
    BY <1>1, <1>2, <1>3, <1>4, <1>5, <1>6 DEF Acting

LEMMA SessionsNext ==
    ASSUME Locals, Phase, Sessions, [Next]_vars
    PROVE  Sessions'
  <1>1. CASE UNCHANGED vars
    BY <1>1 DEF Sessions, vars
  <1>2. QED
    BY <1>1, SessionsStarting, SessionsOpening, SessionsActing, SessionsSending DEF Next

\* The references to the card: one that was used is neither open nor about to be.
Cards ==
    /\ leases \subseteq 1 .. batch /\ reading \subseteq 1 .. batch /\ leases \cap reading = {}
    /\ \A e, b : <<"card", e, b>> \in DOMAIN clicks =>
          /\ e \in Nat /\ e <= epoch
          /\ account /\ e = epoch => b \in (1 .. batch) \ (leases \cup reading)

\* The idempotency keys: one that was dispatched has a memo, or is being verified.
Sends ==
    /\ \A e, k : <<"send", e, k>> \in DOMAIN clicks =>
          /\ e \in Nat /\ e <= epoch
          /\ account /\ e = epoch => memos[k] # "none" \/ (op.kind = "verify" /\ op.key = k)
    /\ op.kind = "send" => memos[op.key] = "none"

LEMMA CardsInit == Init => Cards /\ Sends
  BY DEF Init, Cards, Sends, NoOp, EmptyBag, SetToBag

\* A step that leaves the index and its epoch alone and dispatches no reference.
LEMMA CardsQuiet ==
    ASSUME Cards, UNCHANGED <<account, epoch, batch, leases, reading>>,
           \A e, b : <<"card", e, b>> \in DOMAIN clicks' => <<"card", e, b>> \in DOMAIN clicks
    PROVE  Cards'
  BY DEF Cards

\* A read of the messages.
LEMMA CardsRead ==
    ASSUME Locals, Cards, NewBatch, UNCHANGED <<account, epoch, clicks>>
    PROVE  Cards'
  BY Bounds DEF Locals, Cards, NewBatch

LEMMA CardsNext ==
    ASSUME Locals, Phase, Cards, [Next]_vars
    PROVE  Cards'
  <1>1. CASE UNCHANGED vars
    BY <1>1 DEF Cards, vars
  <1>2. CASE Starting
    <2>1. CASE DockerStart
      BY <2>1 DEF DockerStart, Locals, Cards, client
    <2>2. CASE ~DockerStart
      <3>1. UNCHANGED <<account, epoch, batch, leases, reading, clicks>>
        BY <1>2, <2>2 DEF Starting, StartBegin, EnsureMetadata, EnsureFile, EnsureFill, EnsureCheck,
                         DockerStartFails, index, client
      <3>2. QED
        BY <3>1, CardsQuiet
    <2>3. QED
      BY <2>1, <2>2
  <1>3. CASE Stopping
    <2>1. CASE Stop \/ Crash
      BY <2>1 DEF Stop, Crash, Forget, Cards, client
    <2>2. CASE StopFails \/ Purge
      BY <2>2, CardsQuiet DEF StopFails, Purge, index, client
    <2>3. QED
      BY <1>3, <2>1, <2>2 DEF Stopping
  <1>4. CASE Reading
    <2>1. CASE ReadMessages
      BY <2>1, CardsRead DEF ReadMessages, client
    <2>2. CASE LeaseExpires
      BY <2>2 DEF LeaseExpires, Cards, client
    <2>3. ASSUME NEW b \in reading, OfferCard(b)
          PROVE  Cards'
      BY <2>3 DEF OfferCard, Cards, client
    <2>4. QED
      BY <1>4, <2>1, <2>2, <2>3 DEF Reading
  <1>5. CASE Opening
    <2>1. CASE OpenNamedSurface \/ OpenDone \/ CallFails
      <3>1. UNCHANGED <<account, epoch, batch, leases, reading, clicks>>
        BY <2>1 DEF OpenNamedSurface, OpenDone, CallFails, index, client
      <3>2. QED
        BY <3>1, CardsQuiet
    <2>2. ASSUME NEW b \in leases, OpenSurface(b)
          PROVE  Cards'
      <3>1. /\ UNCHANGED <<account, epoch, batch, reading>> /\ leases' = leases \ {b}
            /\ DOMAIN clicks' \subseteq DOMAIN clicks \cup {<<"card", epoch, b>>}
        BY <2>2, UseDomain DEF OpenSurface, LeaseAfter
      <3>2. \A e, d : <<"card", e, d>> \in DOMAIN clicks' =>
                         <<"card", e, d>> \in DOMAIN clicks \/ (e = epoch /\ d = b)
        BY <3>1
      <3>3. b \in 1 .. batch /\ b \notin reading /\ epoch \in Nat /\ epoch <= epoch
        BY <2>2 DEF Cards, Locals
      <3>4. ASSUME NEW e, NEW d, <<"card", e, d>> \in DOMAIN clicks'
            PROVE  /\ e \in Nat /\ e <= epoch
                   /\ account /\ e = epoch => d \in (1 .. batch) \ ((leases \ {b}) \cup reading)
        <4>1. CASE e = epoch /\ d = b
          BY <3>3, <4>1
        <4>2. CASE <<"card", e, d>> \in DOMAIN clicks
          BY <4>2 DEF Cards
        <4>3. QED
          BY <3>2, <3>4, <4>1, <4>2
      <3>5. QED
        BY <3>1, <3>4 DEF Cards
    <2>3. QED
      BY <1>5, <2>1, <2>2 DEF Opening
  <1>6. CASE Acting
    <2>1. UNCHANGED <<account, epoch, batch, leases, reading>>
      BY <1>6, Zenon DEF Acting, ActDone, ActFails, CloseDone, SnapshotSurface, AssetExpires, CloseSurface,
                  ActSurface, index
    <2>2. \/ clicks' = clicks \/ (\E s : Use(<<"close", s>>)) \/ (\E s, a : Use(<<"act", s, a>>))
      BY <1>6, Zenon DEF Acting, ActDone, ActFails, CloseDone, SnapshotSurface, AssetExpires, CloseSurface,
                  ActSurface, client
    <2>3. ASSUME NEW s, Use(<<"close", s>>) PROVE Cards'
      <3>1. DOMAIN clicks' = DOMAIN clicks \cup {<<"close", s>>}
        BY <2>3, UseDomain
      <3>2. \A e, b : <<"card", e, b>> \in DOMAIN clicks' => <<"card", e, b>> \in DOMAIN clicks
        BY <3>1
      <3>3. QED
        BY <2>1, <3>2, CardsQuiet
    <2>4. ASSUME NEW s, NEW a, Use(<<"act", s, a>>) PROVE Cards'
      <3>1. DOMAIN clicks' = DOMAIN clicks \cup {<<"act", s, a>>}
        BY <2>4, UseDomain
      <3>2. \A e, b : <<"card", e, b>> \in DOMAIN clicks' => <<"card", e, b>> \in DOMAIN clicks
        BY <3>1
      <3>3. QED
        BY <2>1, <3>2, CardsQuiet
    <2>5. QED
      BY <2>1, <2>2, <2>3, <2>4, CardsQuiet
  <1>7. CASE Sending
    <2>1. CASE SendVerified
      BY <2>1, CardsRead DEF SendVerified, client
    <2>2. CASE SendDispatch
      <3>1. UNCHANGED <<account, epoch, batch, leases, reading>>
        BY <2>2 DEF SendDispatch, index
      <3>2. DOMAIN clicks' = DOMAIN clicks \cup {<<"send", epoch, op.key>>}
        BY <2>2, UseDomain DEF SendDispatch
      <3>3. \A e, b : <<"card", e, b>> \in DOMAIN clicks' => <<"card", e, b>> \in DOMAIN clicks
        BY <3>2
      <3>4. QED
        BY <3>1, <3>3, CardsQuiet
    <2>3. CASE SendUnverified \/ SendReturn \/ MessageArrives \/ \E k \in Key : SendPrepare(k)
      BY <2>3, CardsQuiet DEF SendUnverified, SendReturn, MessageArrives, SendPrepare, index
    <2>4. QED
      BY <1>7, <2>1, <2>2, <2>3 DEF Sending
  <1>8. QED
    BY <1>1, <1>2, <1>3, <1>4, <1>5, <1>6, <1>7 DEF Next

\* A step that leaves the memos and their epoch alone and dispatches no send.
LEMMA SendsQuiet ==
    ASSUME Sends, UNCHANGED <<account, epoch, memos>>,
           op.kind # "verify", op' = op \/ op'.kind # "send",
           \A e, k : <<"send", e, k>> \in DOMAIN clicks' => <<"send", e, k>> \in DOMAIN clicks
    PROVE  Sends'
  BY DEF Sends

LEMMA SendsNext ==
    ASSUME Locals, Phase, Sends, [Next]_vars
    PROVE  Sends'
  <1>1. CASE UNCHANGED vars
    BY <1>1 DEF Sends, vars
  <1>2. CASE Starting
    <2>1. CASE DockerStart
      BY <2>1 DEF DockerStart, Locals, Sends, client, NoOp
    <2>2. CASE ~DockerStart
      <3>1. UNCHANGED <<account, epoch, memos, clicks>> /\ op.kind # "verify" /\ op'.kind # "send"
        BY <1>2, <2>2 DEF Starting, StartBegin, EnsureMetadata, EnsureFile, EnsureFill, EnsureCheck,
                         DockerStartFails, client, Idle, NoOp
      <3>2. QED
        BY <3>1, SendsQuiet
    <2>3. QED
      BY <2>1, <2>2
  <1>3. CASE Stopping
    <2>1. CASE Stop \/ Crash
      BY <2>1 DEF Stop, Crash, Forget, Sends, client, Idle, NoOp
    <2>2. CASE StopFails \/ Purge
      BY <2>2 DEF StopFails, Purge, Sends, client
    <2>3. QED
      BY <1>3, <2>1, <2>2 DEF Stopping
  <1>4. CASE Reading
    BY <1>4 DEF Reading, ReadMessages, LeaseExpires, OfferCard, Sends, client
  <1>5. CASE Opening
    <2>1. CASE OpenNamedSurface \/ OpenDone \/ CallFails
      <3>1. UNCHANGED <<account, epoch, memos, clicks>> /\ op.kind # "verify" /\ op'.kind # "send"
        BY <2>1 DEF OpenNamedSurface, OpenDone, CallFails, client, Up, Idle, NoOp
      <3>2. QED
        BY <3>1, SendsQuiet
    <2>2. ASSUME NEW b \in leases, OpenSurface(b)
          PROVE  Sends'
      <3>1. UNCHANGED <<account, epoch, memos>> /\ op.kind # "verify" /\ op'.kind # "send"
        BY <2>2 DEF OpenSurface, Up, Idle, NoOp
      <3>2. DOMAIN clicks' \subseteq DOMAIN clicks \cup {<<"card", epoch, b>>}
        BY <2>2, UseDomain DEF OpenSurface
      <3>3. \A e, k : <<"send", e, k>> \in DOMAIN clicks' => <<"send", e, k>> \in DOMAIN clicks
        BY <3>2
      <3>4. QED
        BY <3>1, <3>3, SendsQuiet
    <2>3. QED
      BY <1>5, <2>1, <2>2 DEF Opening
  <1>6. CASE Acting
    <2>1. CASE \E s \in Open : AssetExpires(s)
      BY <2>1 DEF AssetExpires, Sends, client
    <2>2. CASE ActDone \/ ActFails
      <3>1. UNCHANGED <<account, epoch, memos>> /\ op.kind # "verify" /\ op'.kind # "send"
        <4>1. UNCHANGED <<account, epoch, memos>> /\ op.kind = "act" /\ op' = NoOp
          BY <2>2, Zenon DEF ActDone, ActFails
        <4>2. QED
          BY <4>1 DEF NoOp
      <3>2. DOMAIN clicks' = DOMAIN clicks \cup {<<"act", op.id, op.action>>}
        BY <2>2, UseDomain DEF ActDone, ActFails
      <3>3. \A e, k : <<"send", e, k>> \in DOMAIN clicks' => <<"send", e, k>> \in DOMAIN clicks
        BY <3>2
      <3>4. QED
        BY <3>1, <3>3, SendsQuiet
    <2>3. ASSUME NEW s \in Open, CloseSurface(s)
          PROVE  Sends'
      <3>1. UNCHANGED <<account, epoch, memos>> /\ op.kind # "verify" /\ op'.kind # "send"
        BY <2>3 DEF CloseSurface, Up, Idle, NoOp
      <3>2. DOMAIN clicks' = DOMAIN clicks \cup {<<"close", s>>}
        BY <2>3, UseDomain DEF CloseSurface
      <3>3. \A e, k : <<"send", e, k>> \in DOMAIN clicks' => <<"send", e, k>> \in DOMAIN clicks
        BY <3>2
      <3>4. QED
        BY <3>1, <3>3, SendsQuiet
    <2>4. ASSUME CloseDone \/ (\E s \in Open : SnapshotSurface(s))
                 \/ \E s \in Open : \E a \in surfaces[s].actions : ActSurface(s, a)
          PROVE  Sends'
      <3>1. UNCHANGED <<account, epoch, memos, clicks>> /\ op.kind # "verify" /\ op'.kind # "send"
        BY <2>4 DEF CloseDone, SnapshotSurface, ActSurface, Up, Idle, NoOp, client
      <3>2. QED
        BY <3>1, SendsQuiet
    <2>5. QED
      BY <1>6, <2>1, <2>2, <2>3, <2>4 DEF Acting
  <1>7. CASE Sending
    <2>1. CASE SendVerified
      <3>1. op.key \in Key /\ op.kind = "verify"
        BY <2>1, OpType DEF SendVerified, Locals
      <3>2. memos'[op.key] = "verified" /\ \A k : k # op.key => memos'[k] = memos[k]
        BY <2>1, <3>1 DEF SendVerified, Locals
      <3>3. QED
        BY <2>1, <3>1, <3>2 DEF SendVerified, Sends, client
    <2>2. CASE SendUnverified
      <3>1. op.key \in Key /\ op.kind = "verify"
        BY <2>2, OpType DEF SendUnverified, Locals
      <3>2. memos'[op.key] = "uncertain" /\ \A k : k # op.key => memos'[k] = memos[k]
        BY <2>2, <3>1 DEF SendUnverified, Locals
      <3>3. QED
        BY <2>2, <3>1, <3>2 DEF SendUnverified, Sends, NoOp
    <2>3. CASE SendDispatch
      <3>1. op.key \in Key /\ op.kind = "send" /\ UNCHANGED <<account, epoch>> /\ epoch \in Nat
        BY <2>3, OpType DEF SendDispatch, Locals
      <3>2. DOMAIN clicks' = DOMAIN clicks \cup {<<"send", epoch, op.key>>}
        BY <2>3, UseDomain DEF SendDispatch
      <3>3. \A e, k : <<"send", e, k>> \in DOMAIN clicks' =>
                         <<"send", e, k>> \in DOMAIN clicks \/ (e = epoch /\ k = op.key)
        BY <3>2
      <3>4. op'.kind # "send" /\ \/ op'.kind = "verify" /\ op'.key = op.key /\ memos' = memos
                                 \/ memos'[op.key] = "uncertain" /\ \A k : k # op.key => memos'[k] = memos[k]
        <4>1. CASE op' = [op EXCEPT !.kind = "verify"] /\ memos' = memos
          BY <3>1, <4>1, VerifyType DEF Locals
        <4>2. CASE op' = NoOp /\ memos' = [memos EXCEPT ![op.key] = "uncertain"]
          BY <3>1, <4>2 DEF Locals, NoOp
        <4>3. QED
          BY <2>3, <4>1, <4>2, Zenon DEF SendDispatch
      <3>5. QED
        BY <3>1, <3>3, <3>4 DEF Sends
    <2>4. CASE SendReturn
      BY <2>4, SendsQuiet DEF SendReturn, NoOp
    <2>5. CASE MessageArrives
      BY <2>5 DEF MessageArrives, Sends
    <2>6. ASSUME NEW k \in Key, SendPrepare(k)
          PROVE  Sends'
      BY <2>6 DEF SendPrepare, Sends, Up, Idle, NoOp
    <2>7. QED
      BY <1>7, <2>1, <2>2, <2>3, <2>4, <2>5, <2>6 DEF Sending
  <1>8. QED
    BY <1>1, <1>2, <1>3, <1>4, <1>5, <1>6, <1>7 DEF Next

ClientInv == Locals /\ Phase /\ Sessions /\ Cards /\ Sends /\ UsedOnce

\* Only these steps dispatch a capability, each a new one.
LEMMA FreshUse ==
    ASSUME ClientInv, [Next]_vars
    PROVE  clicks' = clicks \/ \E c \in Cap : c \notin DOMAIN clicks /\ Use(c)
  <1>1. CASE Starting \/ Stopping \/ Reading \/ UNCHANGED vars
    BY <1>1, Zenon DEF Starting, StartBegin, EnsureMetadata, EnsureFile, EnsureFill, EnsureCheck, DockerStart,
                DockerStartFails, Stopping, Stop, StopFails, Purge, Crash, Reading, ReadMessages,
                LeaseExpires, OfferCard, client, vars
  <1>2. CASE Opening
    <2>1. CASE OpenNamedSurface \/ OpenDone \/ CallFails
      BY <2>1, Zenon DEF OpenNamedSurface, OpenDone, CallFails, client
    <2>2. ASSUME NEW b \in leases, OpenSurface(b), clicks' # clicks
          PROVE  <<"card", epoch, b>> \in Cap \ DOMAIN clicks /\ Use(<<"card", epoch, b>>)
      <3>1. Use(<<"card", epoch, b>>) /\ account
        BY <2>2, Zenon DEF OpenSurface, Up
      <3>2. epoch \in 1 .. MaxStarts /\ b \in 1 .. MaxReads
        BY <2>2, <3>1, Bounds DEF ClientInv, Locals, Phase
      <3>3. <<"card", epoch, b>> \notin DOMAIN clicks
        BY <2>2, <3>1 DEF ClientInv, Cards
      <3>4. QED
        BY <3>1, <3>2, <3>3 DEF Cap
    <2>3. QED
      BY <1>2, <2>1, <2>2 DEF Opening
  <1>3. CASE Acting
    <2>1. CASE CloseDone \/ \E s \in Open : \/ SnapshotSurface(s) \/ AssetExpires(s)
                                           \/ \E a \in surfaces[s].actions : ActSurface(s, a)
      BY <2>1, Zenon DEF CloseDone, SnapshotSurface, AssetExpires, ActSurface, client
    <2>2. CASE ActDone \/ ActFails
      <3>1. /\ op.id \in SurfaceId /\ op.action \in Action
            /\ <<"act", op.id, op.action>> \notin DOMAIN clicks
        BY <2>2, OpType DEF ActDone, ActFails, ClientInv, Locals, Sessions
      <3>2. Use(<<"act", op.id, op.action>>)
        BY <2>2, Zenon DEF ActDone, ActFails
      <3>3. <<"act", op.id, op.action>> \in Cap
        BY <3>1 DEF Cap
      <3>4. QED
        BY <3>1, <3>2, <3>3
    <2>3. ASSUME NEW s \in Open, CloseSurface(s)
          PROVE  <<"close", s>> \in Cap \ DOMAIN clicks /\ Use(<<"close", s>>)
      BY <2>3 DEF CloseSurface, Open, ClientInv, Sessions, Cap
    <2>4. QED
      BY <1>3, <2>1, <2>2, <2>3 DEF Acting
  <1>4. CASE Sending
    <2>1. CASE SendVerified \/ SendUnverified \/ SendReturn \/ MessageArrives
               \/ \E k \in Key : SendPrepare(k)
      BY <2>1, Zenon DEF SendVerified, SendUnverified, SendReturn, MessageArrives, SendPrepare, client
    <2>2. CASE SendDispatch
      <3>1. op.kind = "send" /\ account /\ op.key \in Key
        BY <2>2, OpType DEF SendDispatch, ClientInv, Locals, Phase, Working
      <3>2. epoch \in 1 .. MaxStarts
        BY <3>1, Bounds DEF ClientInv, Locals, Phase
      <3>3. <<"send", epoch, op.key>> \notin DOMAIN clicks
        BY <3>1 DEF ClientInv, Sends
      <3>4. <<"send", epoch, op.key>> \in Cap
        BY <3>1, <3>2 DEF Cap
      <3>5. Use(<<"send", epoch, op.key>>)
        BY <2>2 DEF SendDispatch
      <3>6. QED
        BY <3>3, <3>4, <3>5
    <2>3. QED
      BY <1>4, <2>1, <2>2 DEF Sending
  <1>5. QED
    BY <1>1, <1>2, <1>3, <1>4 DEF Next

\* The inductive invariant behind OneShotCorrect and NoRevivalCorrect.
LEMMA ClientInvariant == Spec => []ClientInv
  <1>1. Init => ClientInv
    BY LocalsInit, SessionsInit, CardsInit DEF ClientInv
  <1>2. ClientInv /\ [Next]_vars => ClientInv'
    <2> SUFFICES ASSUME ClientInv, [Next]_vars
                 PROVE  ClientInv'
      OBVIOUS
    <2>1. UsedOnce'
      <3>1. CASE clicks' = clicks
        BY <3>1 DEF ClientInv, UsedOnce
      <3>2. ASSUME NEW c \in Cap, c \notin DOMAIN clicks, Use(c)
            PROVE  UsedOnce'
        BY <3>2, UseFresh DEF ClientInv
      <3>3. QED
        BY <3>1, <3>2, FreshUse
    <2>2. QED
      BY <2>1, LocalsNext, SessionsNext, CardsNext, SendsNext DEF ClientInv
  <1>3. QED
    BY <1>1, <1>2, PTL DEF Spec

\* The type invariant of the driver, its profile, its index and the client.
THEOREM ClientTypeCorrect == Spec => []TypeOK
  <1>1. ClientInv /\ Flags => TypeOK
    <2> SUFFICES ASSUME ClientInv, Flags
                 PROVE  TypeOK
      OBVIOUS
    <2>1. clicks \in [DOMAIN clicks -> {n \in Nat : n > 0}]
      BY DEF ClientInv, UsedOnce
    <2>2. IsABag(clicks) /\ DOMAIN clicks \subseteq Cap
      BY <2>1 DEF IsABag, ClientInv, UsedOnce
    <2>3. QED
      BY <2>2, Zenon DEF TypeOK, ClientInv, Flags, Locals
  <1>2. QED
    BY <1>1, ClientInvariant, FlagsInit, FlagsNext, PTL DEF Spec

\* CapabilitiesAreOneShot: the driver implements OneShot.  Every step that
\* dispatches an action, a card, a close or a send uses a new capability.
THEOREM OneShotCorrect == Spec => CapabilitiesAreOneShot
  <1>1. Init => Once!Init
    BY DEF Init, Once!Init, EmptyBag, SetToBag
  <1>2. ClientInv /\ ClientInv' /\ [Next]_vars => [Once!Use]_clicks
    <2> SUFFICES ASSUME ClientInv, ClientInv', [Next]_vars, clicks' # clicks
                 PROVE  Once!Use
      OBVIOUS
    <2>1. PICK c \in Cap : Use(c)
      BY FreshUse
    <2>2. DOMAIN clicks \subseteq DOMAIN clicks'
      BY <2>1, UseDomain
    <2>3. QED
      BY <2>2 DEF ClientInv, UsedOnce, Once!Use
  <1>3. QED
    BY <1>1, <1>2, ClientInvariant, PTL DEF Spec, CapabilitiesAreOneShot, Once!Spec

\* NoRevival: no frame that a session stores offers a write that was dispatched
\* in it, under whatever action ID (storeSurface, shouldTombstone).
THEOREM NoRevivalCorrect == Spec => NoRevival
  <1> DEFINE Kept == \A s \in Open \cap {x \in SurfaceId : surfaces'[x] # Nil} :
                        \A a \in surfaces'[s].actions \ surfaces[s].actions :
                           \A b \in WrittenIn(s) : ReplayOf(a) # ReplayOf(b)
  <1>1. ASSUME ClientInv, [Next]_vars
        PROVE  Kept
    <2> SUFFICES ASSUME NEW s \in SurfaceId, surfaces[s] # Nil, surfaces'[s] # Nil,
                        NEW a \in surfaces'[s].actions, a \notin surfaces[s].actions,
                        NEW b \in WrittenIn(s)
                 PROVE  ReplayOf(a) # ReplayOf(b)
      BY DEF Open
    <2>1. b \in Action /\ ReplayOf(b) \in surfaces[s].tombstones
      <3>1. PICK c \in DOMAIN clicks : c[1] = "act" /\ c[2] = s /\ c[3].effect = "write" /\ c[3] = b
        BY DEF WrittenIn
      <3>2. c \in Cap
        BY <1>1 DEF ClientInv, UsedOnce
      <3>3. b \in Action /\ c = <<"act", s, b>>
        BY <3>1, <3>2 DEF Cap
      <3>4. QED
        BY <1>1, <3>1, <3>3 DEF ClientInv, Sessions
    <2>2. ReplayOf(a) \notin surfaces[s].tombstones
      <3>1. CASE ActDone \/ ActFails
        <4>1. PICK x : /\ surfaces' = [surfaces EXCEPT ![op.id] = x]
                       /\ surfaces[op.id].tombstones \subseteq x.tombstones
                       /\ \A d \in x.actions : \/ d \in surfaces[op.id].actions
                                              \/ ReplayOf(d) \notin x.tombstones
          BY <1>1, <3>1, ActEnds DEF ClientInv
        <4>2. surfaces'[s] = surfaces[s] \/ (s = op.id /\ surfaces'[s] = x)
          BY <1>1, <4>1 DEF ClientInv, Locals
        <4>3. QED
          BY <4>1, <4>2
      <3>2. ASSUME NEW t \in Open, SnapshotSurface(t)
            PROVE  ReplayOf(a) \notin surfaces[s].tombstones
        <4>1. PICK f : surfaces' = [surfaces EXCEPT ![t] =
                          Stored(f, surfaces[t].consumed, surfaces[t].tombstones)]
          BY <1>1, <3>2 DEF SnapshotSurface, ClientInv, Locals, Open
        <4>2. s = t /\ surfaces'[s] = Stored(f, surfaces[s].consumed, surfaces[s].tombstones)
          BY <1>1, <4>1 DEF ClientInv, Locals
        <4>3. QED
          BY <4>2, StoredFacts
      <3>3. ASSUME NEW t \in Open, AssetExpires(t)
            PROVE  FALSE
        <4>1. surfaces[t] \in Session /\ t \in SurfaceId
          BY <1>1, <3>3, OpenType DEF ClientInv
        <4>2. [surfaces[t] EXCEPT !.assets = {}].actions = surfaces[t].actions
          BY <4>1 DEF Session
        <4>3. surfaces'[s].actions = surfaces[s].actions
          BY <1>1, <3>3, <4>1, <4>2 DEF AssetExpires, ClientInv, Locals
        <4>4. QED
          BY <4>3
      <3>4. ASSUME NEW t \in Open, CloseSurface(t)
            PROVE  FALSE
        BY <1>1, <3>4 DEF CloseSurface, DropSession, ClientInv, Locals
      <3>5. ASSUME NEW t \in Open, NEW d \in surfaces[t].actions, ActSurface(t, d)
            PROVE  FALSE
        <4>1. surfaces[t] \in Session /\ t \in SurfaceId /\ d \in Action
          BY <1>1, <3>5, OpenType DEF ClientInv
        <4>2. surfaces' = [surfaces EXCEPT ![t] = Consume(surfaces[t], d)]
          BY <1>1, <3>5, <4>1 DEF ActSurface, ClientInv, Locals
        <4>3. surfaces'[s] = surfaces[s] \/ (s = t /\ surfaces'[s] = Consume(surfaces[t], d))
          BY <1>1, <4>1, <4>2 DEF ClientInv, Locals
        <4>4. QED
          BY <4>1, <4>3, ConsumeType
      <3>6. ASSUME OpenDone
            PROVE  FALSE
        BY <3>6 DEF OpenDone, NoSessions, Open
      <3>7. ASSUME \/ surfaces' = surfaces \/ surfaces' = NoSessions
            PROVE  FALSE
        BY <3>7 DEF NoSessions
      <3>8. CASE \/ Starting \/ Stopping \/ Reading \/ Sending \/ CloseDone \/ UNCHANGED vars
                 \/ OpenNamedSurface \/ CallFails \/ \E t \in leases : OpenSurface(t)
        <4>1. surfaces' = surfaces \/ surfaces' = NoSessions
          BY <3>8, Zenon DEF Starting, StartBegin, EnsureMetadata, EnsureFile, EnsureFill, EnsureCheck,
                      DockerStart, DockerStartFails, Stopping, Stop, StopFails, Purge, Crash, Forget,
                      Reading, ReadMessages, LeaseExpires, OfferCard, Sending, SendDispatch,
                      SendVerified, SendUnverified, SendReturn, MessageArrives, SendPrepare, CloseDone,
                      OpenNamedSurface, CallFails, OpenSurface, vars
        <4>2. QED
          BY <3>7, <4>1
      <3>9. QED
        BY <1>1, <3>1, <3>2, <3>3, <3>4, <3>5, <3>6, <3>8 DEF Next, Opening, Acting
    <2>3. QED
      BY <2>1, <2>2
  <1>2. Kept => [Kept]_vars
    OBVIOUS
  <1>3. ClientInv /\ [Next]_vars => [Kept]_vars
    BY <1>1, <1>2
  <1>4. QED
    BY <1>3, ClientInvariant, PTL DEF Spec, NoRevival
=============================================================================
