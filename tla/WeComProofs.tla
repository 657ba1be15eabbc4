----------------------------- MODULE WeComProofs -----------------------------
(***************************************************************************)
(* Proofs about WeComClient, for every set of conversations, keys,         *)
(* controls and login pages and every bound.                               *)
(*                                                                         *)
(* ActInv says that a request on the wire which names the current sequence *)
(* number was decided on the screen the companion recorded under that      *)
(* number, and that only the newest request is waited for: an act meets    *)
(* the screen it was decided on, a click on the send button its            *)
(* conversation.  SentInv adds that while a send is watched no click but   *)
(* its own can still pass the guard, so that a bubble that is new since    *)
(* the baseline is its own or came into view from elsewhere meanwhile,     *)
(* and that an answered click was made.  OnceInv adds that what was        *)
(* dispatched is remembered where the next attempt looks: consumed or      *)
(* tombstoned on its surface, or in the memo of its key.                   *)
(*                                                                         *)
(* The steps are taken in four groups: those that look and ask (Asks),     *)
(* those that look and wait (Watches), those of the companion and the      *)
(* client (Reacts) and the ends of an operation or of the driver (Ends).   *)
(***************************************************************************)
EXTENDS WeComClient, TLAPS

-----------------------------------------------------------------------------
(* The inductive invariant.                                                *)

\* TypeOK but the flag armed and the capabilities performed, in parts.
ClientType ==
    /\ tree \in Screens /\ bubbles \in [Conv -> 0 .. MaxBubbles] /\ changes \in 0 .. MaxChanges
    /\ restarts \in 0 .. MaxRestarts
    /\ delivered \cup stray \subseteq [of : Key, at : 0 .. MaxRestarts, what : {"send"}]

CompanionType ==
    /\ seq \in Sequence /\ observed \in Snapshots \cup {Nil}
    /\ consumed \in Screens \cup {Nil} /\ wire \subseteq Request

OpType ==
    /\ op \in Operation(op.of, op.on)
    /\ op.kind = "idle" => op = Idle
    /\ op.kind # "idle" => op.snap # Nil
    /\ op.kind \in {"open", "snap", "act", "close"} => op.of \in Surface
    /\ op.kind = "act" => op.on \in Control
    /\ op.kind = "send" => op.of \in Key /\ op.on \in Conv

DriverType ==
    /\ surfaces \in [Surface -> Offer \cup {Nil}] /\ opened \in 0 .. MaxSurfaces
    /\ memos \in [Key -> Memo \cup {Nil}]
    /\ shown \in Snapshots \cup {Nil} /\ ops \in 0 .. MaxOps

\* The capabilities performed or on the wire.
Spent == DOMAIN uses \cup {r.cap : r \in {q \in wire : q.cap # Nil}}

\* A request that can still be performed was decided on the screen that the
\* companion recorded last.
Screened ==
    /\ tree.page = "chat" => tree.n = bubbles[tree.conv]
    /\ \A r \in wire :
          /\ r.what = "open" => r.shown = Nil
          /\ r.what # "open" =>
                /\ r.shown \in Screens /\ r.expected <= seq
                /\ r.expected = seq => observed = [seq |-> seq, tree |-> r.shown]
          /\ r.what = "type" => r.shown.page \in {"chat", "sms"}
          /\ r.what = "send" => ReadyToSend(r.shown, r.target) /\ r.cap.what = "send"

\* No click of an earlier send can meet a later send's frame: the bubbles that
\* are new since the baseline are this send's, or came from elsewhere meanwhile.
\* An answer to the click says that it was made.
Watching ==
    op.kind = "send" =>
        /\ op.snap.seq <= seq
        /\ op.pc = "acting" =>
              \A r \in wire : r.what = "send" => r.expected <= op.snap.seq
        /\ op.pc \in {"opened", "typing", "typed"} =>
              \A r \in wire : r.what = "send" => r.expected < op.snap.seq
        /\ op.pc \in {"clicking", "seen"} =>
              \A r \in wire : r.what = "send" =>
                    r.expected < op.snap.seq \/ r.cap = SendCap(op.of)
        /\ Watched(op.on) =>
              bubbles[op.on] <= op.base \/ SendCap(op.of) \in delivered \cup stray
        /\ op.pc = "seen" \/ (op.pc = "clicking" /\ op.reply = "accepted") =>
              SendCap(op.of) \in DOMAIN uses

\* The request the operation waits for is the only one that is not late.
Awaited ==
    /\ op.pc \in {"opened", "typed", "shot"} => op.reply = Nil
    /\ \A r, q \in wire : ~r.late /\ ~q.late => r = q
    /\ \A r \in wire : ~r.late =>
          /\ op.reply = Nil /\ op.pc \in {"acting", "typing", "clicking"}
          /\ op.kind = "send" /\ op.pc = "clicking" => r.cap = SendCap(op.of)

UsedOnce == uses \in [DOMAIN uses -> {1}] /\ DOMAIN uses \subseteq Cap

\* A capability is on the wire once, and then it was not performed.
Pending ==
    /\ \A r \in wire : r.cap \notin DOMAIN uses
    /\ \A r, q \in wire : r.cap # Nil /\ r.cap = q.cap => r = q

\* A key that was dispatched has a memo, or its send is still watched.
Keys ==
    /\ \A c \in Spent : c.what = "send" => c.at <= restarts
    /\ \A k \in Key : SendCap(k) \in Spent =>
          \/ memos[k] # Nil
          \/ /\ op.kind = "send" /\ op.of = k /\ op.pc \in {"clicking", "seen"}
             /\ op.reply # "refused"
    /\ op.kind = "send" => memos[op.of] = Nil

\* A surface does not offer what it has consumed or tombstoned, and it has
\* consumed or tombstoned what was dispatched on it.
Offered ==
    /\ \A s \in Surface : surfaces[s] # Nil =>
          /\ s <= opened
          /\ \A c \in surfaces[s].actions :
                c \notin surfaces[s].tombstones /\ <<surfaces[s].seq, c>> \notin surfaces[s].consumed
    /\ \A c \in Spent : c.what # "send" =>
          /\ c.of <= opened
          /\ surfaces[c.of] # Nil =>
                IF c.what = "publish" THEN c.what \in surfaces[c.of].tombstones
                                      ELSE <<c.at, c.what>> \in surfaces[c.of].consumed

\* The surface an operation is about: new while it is opened, known while it
\* is acted on, and still the page that the operation has seen.
Holding ==
    /\ op.kind = "open" =>
          /\ op.of <= opened /\ surfaces[op.of] = Nil
          /\ \A c \in Spent : c.what # "send" => c.of # op.of
    /\ op.kind = "act" \/ (op.kind = "snap" /\ op.pc = "shot") => surfaces[op.of] # Nil
    /\ op.kind \in {"snap", "act"} /\ op.pc = "shot" =>
          op.snap.tree.page = surfaces[op.of].page

-----------------------------------------------------------------------------
(* Screens, observations and requests.                                     *)

LEMMA ScreenFacts ==
    ASSUME NEW t \in Screens
    PROVE  /\ t = [page |-> t.page, conv |-> t.conv, typed |-> t.typed, n |-> t.n]
           /\ t.page = "chat" => t.conv \in Conv /\ t.n \in 0 .. MaxBubbles
  BY KnownAuthPages DEF Screens, Screen

\* What is typed into an input, or leaves it, makes another screen.
LEMMA TypedScreen ==
    ASSUME NEW t \in Screens, t.page \in {"chat", "sms"}, NEW x \in Typed
    PROVE  /\ [t EXCEPT !.typed = x] \in Screens
           /\ [t EXCEPT !.typed = x].page = t.page
           /\ [t EXCEPT !.typed = x].conv = t.conv
           /\ [t EXCEPT !.typed = x].n = t.n
  <1>1. CASE t.page = "chat"
    <2>1. PICK c \in Conv, y \in Typed, n \in 0 .. MaxBubbles : t = Screen("chat", c, y, n)
      BY <1>1, KnownAuthPages DEF Screens, Screen
    <2>2. [t EXCEPT !.typed = x] = Screen("chat", c, x, n)
      BY <2>1 DEF Screen
    <2>3. Screen("chat", c, x, n) \in Screens
      BY DEF Screens
    <2>4. QED
      BY <2>1, <2>2, <2>3 DEF Screen
  <1>2. CASE t.page = "sms"
    <2>1. PICK y \in Typed : t = Screen("sms", Nil, y, 0)
      BY <1>2, KnownAuthPages DEF Screens, Screen
    <2>2. [t EXCEPT !.typed = x] = Screen("sms", Nil, x, 0)
      BY <2>1 DEF Screen
    <2>3. Screen("sms", Nil, x, 0) \in Screens
      BY DEF Screens
    <2>4. QED
      BY <2>1, <2>2, <2>3 DEF Screen
  <1>3. QED
    BY <1>1, <1>2

\* A sent message is one more bubble in its chat.
LEMMA SentScreen ==
    ASSUME NEW t \in Screens, t.page = "chat", t.n < MaxBubbles
    PROVE  /\ Screen("chat", t.conv, "other", t.n + 1) \in Screens
           /\ Screen("chat", t.conv, "other", t.n + 1).page = "chat"
           /\ Screen("chat", t.conv, "other", t.n + 1).conv = t.conv
           /\ Screen("chat", t.conv, "other", t.n + 1).n = t.n + 1
  <1>1. t.conv \in Conv /\ t.n + 1 \in 0 .. MaxBubbles
    BY ScreenFacts, BoundsAreNat
  <1>2. Screen("chat", t.conv, "other", t.n + 1) \in Screens
    BY <1>1 DEF Screens, Typed
  <1>3. QED
    BY <1>2 DEF Screen

\* The messages of a chat scroll, or change from elsewhere.
LEMMA ScrolledScreen ==
    ASSUME NEW t \in Screens, t.page = "chat", NEW n \in 0 .. MaxBubbles
    PROVE  /\ [t EXCEPT !.n = n] \in Screens
           /\ [t EXCEPT !.n = n].page = "chat" /\ [t EXCEPT !.n = n].conv = t.conv
           /\ [t EXCEPT !.n = n].n = n
  <1>1. PICK c \in Conv, y \in Typed, m \in 0 .. MaxBubbles : t = Screen("chat", c, y, m)
    BY KnownAuthPages DEF Screens, Screen
  <1>2. [t EXCEPT !.n = n] = Screen("chat", c, y, n)
    BY <1>1 DEF Screen
  <1>3. Screen("chat", c, y, n) \in Screens
    BY DEF Screens
  <1>4. QED
    BY <1>1, <1>2, <1>3 DEF Screen

LEMMA HomeScreen ==
    /\ Screen("home", Nil, "other", 0) \in Screens
    /\ Screen("home", Nil, "other", 0).page = "home"
  BY DEF Screens, Screen

\* One look at the screen: the number does not fall, and it names what was seen.
LEMMA Look ==
    ASSUME ClientType, CompanionType, Observe(Observed)
    PROVE  /\ Observed \in Snapshots /\ Observed # Nil
           /\ Observed = [seq |-> seq', tree |-> tree]
           /\ Observed.seq = seq' /\ Observed.tree = tree
           /\ observed' = Observed
           /\ seq' \in Sequence /\ seq <= seq'
           /\ seq' = seq => (observed # Nil /\ observed.seq = seq => observed.tree = tree)
           /\ consumed' \in Screens \cup {Nil}
           /\ UNCHANGED <<tree, changes, bubbles, uses, delivered, stray, restarts>>
  <1>1. /\ Observed.seq \in Sequence /\ seq' = Observed.seq /\ observed' = Observed
        /\ UNCHANGED <<restarts, tree, changes, bubbles, uses, delivered, stray>>
        /\ consumed' \in {Nil, consumed}
    BY DEF Observe, client
  <1>2. Observed.tree = tree /\ Observed = [seq |-> seq', tree |-> tree]
    BY <1>1 DEF Observed
  <1>3. Observed \in Snapshots
    BY <1>1, <1>2 DEF Snapshots, ClientType
  <1>4. Observed # Nil
    BY <1>3, NilIsNothing
  <1>5. seq \in Nat /\ Observed.seq \in {seq, seq + 1}
    BY DEF CompanionType, Sequence, Observed
  <1>6. seq' = seq => (observed # Nil /\ observed.seq = seq => observed.tree = tree)
    BY <1>1, <1>5 DEF Observed
  <1>7. QED
    BY <1>1, <1>2, <1>3, <1>4, <1>5, <1>6 DEF CompanionType

Req(what, cap, expected, t, target) ==
    [what |-> what, cap |-> cap, expected |-> expected, shown |-> t, late |-> FALSE,
     target |-> target]

LEMMA ReqFields ==
    ASSUME NEW what, NEW cap, NEW expected, NEW t, NEW target
    PROVE  /\ Req(what, cap, expected, t, target).what = what
           /\ Req(what, cap, expected, t, target).cap = cap
           /\ Req(what, cap, expected, t, target).expected = expected
           /\ Req(what, cap, expected, t, target).shown = t
           /\ Req(what, cap, expected, t, target).target = target
           /\ ~Req(what, cap, expected, t, target).late
  BY DEF Req

LEMMA Posts ==
    ASSUME NEW what, NEW cap, NEW expected, NEW t, Post(what, cap, expected, t)
    PROVE  wire' = wire \cup {Req(what, cap, expected, t, IF what = "send" THEN op.on ELSE Nil)}
  BY DEF Post, Req

\* The request of a capability without one of its own.
LEMMA PlainRequest ==
    ASSUME NEW what \in {"open", "type", "back", "auth", "submit"},
           NEW n \in 0 .. MaxSequence, NEW t \in Screens \cup {Nil}
    PROVE  Req(what, Nil, n, t, Nil) \in Request
  BY DEF Req, Request

LEMMA CapRequest ==
    ASSUME NEW what \in {"surface", "send"}, NEW c \in Cap,
           NEW n \in Sequence, NEW t \in Screens, NEW target \in Conv \cup {Nil}
    PROVE  Req(what, c, n, t, target) \in Request
  BY DEF Req, Request

\* A new request names what the driver has just seen.
Decided(r) ==
    /\ r \in Request /\ ~r.late
    /\ r.what = "open" => r.shown = Nil
    /\ r.what # "open" => r.expected = Observed.seq /\ r.shown = tree
    /\ r.what = "type" => tree.page \in {"chat", "sms"}
    /\ r.what = "send" => ReadyToSend(tree, r.target) /\ r.cap.what = "send"

\* The steps of the driver that look at the screen.
Asks ==
    \/ \E id \in Surface : OpenSurface(id) \/ CloseSurface(id)
    \/ \E id \in Surface, c \in Control : ActSurface(id, c)
    \/ \E k \in Key, c \in Conv : Send(k, c)
    \/ ChatStable \/ ClickSend \/ PerformAuthAction \/ SubmitAuthCode \/ CodeTyped

Watches ==
    \/ \E id \in Surface : SnapshotSurface(id)
    \/ SurfaceChanged \/ SurfaceStored \/ ChatOpened \/ TextSet \/ WatchBubble
    \/ Status \/ BeginCapture("look") \/ BeginCapture("auth") \/ AuthCaptured \/ AuthSettles

\* The steps of the companion and the client.
Reacts ==
    \/ \E t \in Reachable : UiChanges(t)
    \/ \E c \in Conv, n \in 0 .. MaxBubbles : BubblesChange(c, n)
    \/ UiEvent \/ CompanionRestart
    \/ \E r \in wire : Perform(r) \/ Refuse(r)

Ends == SurfaceClosed \/ CodeSubmitted \/ Fails \/ Restart

LEMMA Steps ==
    ASSUME Next
    PROVE  Asks \/ Watches \/ Reacts \/ Ends
  BY Zenon DEF Next, Asks, Watches, Reacts, Ends

LEMMA LookSteps ==
    ASSUME Asks \/ Watches
    PROVE  Observe(Observed)
  BY Zenon DEF Asks, Watches, OpenSurface, CloseSurface, ActSurface, Send, ChatStable, ClickSend,
         PerformAuthAction, SubmitAuthCode, CodeTyped, SnapshotSurface, SurfaceChanged,
         SurfaceStored, ChatOpened, TextSet, WatchBubble, Status, BeginCapture, AuthCaptured,
         AuthSettles

LEMMA WatchesWire ==
    ASSUME Watches
    PROVE  wire' = wire
  BY Zenon DEF Watches, SnapshotSurface, SurfaceChanged, SurfaceStored, ChatOpened, TextSet, WatchBubble,
         Status, BeginCapture, AuthCaptured, AuthSettles

LEMMA SequenceFacts ==
    /\ Sequence \subseteq 0 .. MaxSequence /\ 0 \in 0 .. MaxSequence
    /\ \A n \in Sequence : n \in Nat /\ n > 0
  BY BoundsAreNat DEF Sequence

\* What the surface action of ActSurface is bound to.
LEMMA ActCap ==
    ASSUME DriverType, NEW id \in Surface, surfaces[id] # Nil, NEW c \in Control
    PROVE  [of |-> id, at |-> IF EffectOf(c) = "external_write" THEN 0 ELSE surfaces[id].seq,
            what |-> c] \in Cap
  <1>1. surfaces[id].seq \in Sequence
    BY DEF DriverType, Offer
  <1>2. CASE c = "publish"
    BY <1>2 DEF EffectOf, Cap
  <1>3. CASE c # "publish"
    <2>1. EffectOf(c) # "external_write"
      BY <1>3 DEF EffectOf
    <2>2. QED
      BY <1>1, <1>3, <2>1 DEF Cap
  <1>4. QED
    BY <1>2, <1>3

LEMMA SendCapType ==
    ASSUME ClientType, NEW k \in Key
    PROVE  SendCap(k) \in Cap
  BY DEF SendCap, Cap, ClientType

LEMMA AsksWire ==
    ASSUME ClientType, CompanionType, OpType, DriverType, Asks
    PROVE  wire' = wire \/ \E r : wire' = wire \cup {r} /\ Decided(r)
  <1>1. /\ Observed.seq \in Sequence /\ Observed.tree = tree /\ Observed.seq \in 0 .. MaxSequence
        /\ tree \in Screens /\ 0 \in 0 .. MaxSequence
    BY LookSteps, Look, SequenceFacts DEF ClientType
  <1>2. ASSUME NEW id \in Surface, OpenSurface(id)
        PROVE  wire' = wire \cup {Req("open", Nil, 0, Nil, Nil)} /\ Decided(Req("open", Nil, 0, Nil, Nil))
    BY <1>1, <1>2, Posts, PlainRequest, ReqFields DEF OpenSurface, Decided
  <1>3. ASSUME NEW id \in Surface, CloseSurface(id), wire' # wire
        PROVE  \E r : wire' = wire \cup {r} /\ Decided(r)
    <2> DEFINE r == Req("back", Nil, Observed.seq, tree, Nil)
    <2>1. wire' = wire \cup {r}
      BY <1>3, Posts DEF CloseSurface
    <2>2. Decided(r)
      BY <1>1, PlainRequest, ReqFields DEF Decided
    <2>3. QED
      BY <2>1, <2>2
  <1>4. ASSUME NEW k \in Key, NEW c \in Conv, Send(k, c)
        PROVE  wire' = wire \cup {Req("open", Nil, 0, Nil, Nil)} /\ Decided(Req("open", Nil, 0, Nil, Nil))
    BY <1>1, <1>4, Posts, PlainRequest, ReqFields DEF Send, Decided
  <1>5. ASSUME NEW id \in Surface, NEW c \in Control, ActSurface(id, c), wire' # wire
        PROVE  \E r : wire' = wire \cup {r} /\ Decided(r)
    <2> DEFINE cap == [of |-> id, at |-> IF EffectOf(c) = "external_write" THEN 0 ELSE surfaces[id].seq,
                       what |-> c]
               r == Req("surface", cap, Observed.seq, tree, Nil)
    <2>1. surfaces[id] # Nil /\ cap \in Cap
      BY <1>5, ActCap DEF ActSurface, Known
    <2>2. surfaces[id].tree = tree /\ Post("surface", cap, Observed.seq, surfaces[id].tree)
      BY <1>1, <1>5 DEF ActSurface, StillCurrent
    <2> HIDE DEF cap
    <2>3. wire' = wire \cup {r}
      BY <2>2, Posts
    <2>4. Decided(r)
      BY <1>1, <2>1, CapRequest, ReqFields DEF Decided
    <2>5. QED
      BY <2>3, <2>4
  <1>6. ASSUME ChatStable, wire' # wire
        PROVE  \E r : wire' = wire \cup {r} /\ Decided(r)
    <2> DEFINE r == Req("type", Nil, Observed.seq, tree, Nil)
    <2>1. wire' = wire \cup {r}
      BY <1>6, Posts DEF ChatStable
    <2>2. tree.page = "chat"
      BY <1>6 DEF ChatStable, ValidFrame
    <2>3. Decided(r)
      BY <1>1, <2>2, PlainRequest, ReqFields DEF Decided
    <2>4. QED
      BY <2>1, <2>3
  <1>7. ASSUME ClickSend, wire' # wire
        PROVE  \E r : wire' = wire \cup {r} /\ Decided(r)
    <2> DEFINE r == Req("send", SendCap(op.of), Observed.seq, tree, op.on)
    <2>1. wire' = wire \cup {r} /\ ReadyToSend(tree, op.on)
      BY <1>7, Posts DEF ClickSend, SendCap
    <2>2. op.of \in Key /\ op.on \in Conv
      BY <1>7 DEF ClickSend, OpType
    <2>3. SendCap(op.of) \in Cap
      BY <2>2, SendCapType
    <2>4. Decided(r)
      BY <1>1, <2>1, <2>2, <2>3, CapRequest, ReqFields DEF Decided, SendCap
    <2>5. QED
      BY <2>1, <2>4
  <1>8. ASSUME PerformAuthAction, wire' # wire
        PROVE  \E r : wire' = wire \cup {r} /\ Decided(r)
    <2> DEFINE r == Req("auth", Nil, Observed.seq, tree, Nil)
    <2>1. wire' = wire \cup {r}
      BY <1>1, <1>8, Posts DEF PerformAuthAction, BoundTo
    <2>2. Decided(r)
      BY <1>1, PlainRequest, ReqFields DEF Decided
    <2>3. QED
      BY <2>1, <2>2
  <1>9. ASSUME SubmitAuthCode \/ CodeTyped, wire' # wire
        PROVE  \E r : wire' = wire \cup {r} /\ Decided(r)
    <2>1. PICK what \in {"type", "submit"} : wire' = wire \cup {Req(what, Nil, Observed.seq, tree, Nil)}
      BY <1>9, Posts DEF SubmitAuthCode, CodeTyped
    <2>2. tree.page = "sms"
      BY <1>9 DEF SubmitAuthCode, CodeTyped, SmsScreen
    <2>3. Decided(Req(what, Nil, Observed.seq, tree, Nil))
      BY <1>1, <2>2, PlainRequest, ReqFields DEF Decided
    <2>4. QED
      BY <2>1, <2>3
  <1>10. QED
    BY <1>2, <1>3, <1>4, <1>5, <1>6, <1>7, <1>8, <1>9 DEF Asks

LEMMA RequestFacts ==
    ASSUME NEW r \in Request
    PROVE  /\ r.what \in {"open", "type", "back", "auth", "submit"} => r.cap = Nil
           /\ r.what \in {"surface", "send"} => r.cap \in Cap /\ r.expected \in Sequence
           /\ r.what \in {"open", "type", "back", "auth", "submit", "surface", "send"}
           /\ r.expected \in Nat
  BY BoundsAreNat DEF Request, Sequence

LEMMA CapFacts ==
    ASSUME NEW c \in Cap
    PROVE  /\ c.what = "send" => /\ c.of \in Key /\ c.at \in 0 .. MaxRestarts
                                 /\ c = [of |-> c.of, at |-> c.at, what |-> "send"]
           /\ c.what # "send" => c.of \in Surface /\ c.what \in Control \cup {"publish"}
  BY KnownControls DEF Cap

\* The guard: an act meets the screen it was decided on.
LEMMA GuardMeets ==
    ASSUME ClientType, CompanionType, Screened, NEW r \in wire, Guarded(r), r.what # "open"
    PROVE  r.shown = tree /\ r.expected = seq
  <1>1. r.expected = seq /\ observed = [seq |-> seq, tree |-> tree]
    BY DEF Guarded
  <1>2. observed = [seq |-> seq, tree |-> r.shown]
    BY <1>1 DEF Screened
  <1>3. r.shown = tree
    <2>1. [seq |-> seq, tree |-> tree].tree = tree /\ [seq |-> seq, tree |-> r.shown].tree = r.shown
      OBVIOUS
    <2>2. QED
      BY <1>1, <1>2, <2>1
  <1>4. QED
    BY <1>1, <1>3

\* What an act does to the screen and to the conversations.
LEMMA Effects ==
    ASSUME ClientType, CompanionType, Screened, NEW r \in wire, Guarded(r), Effect(r)
    PROVE  /\ tree' \in Screens
           /\ tree'.page = "chat" => tree'.n = bubbles'[tree'.conv]
           /\ bubbles' \in [Conv -> 0 .. MaxBubbles]
           /\ delivered' \subseteq [of : Key, at : 0 .. MaxRestarts, what : {"send"}]
           /\ \/ UNCHANGED <<bubbles, delivered>>
              \/ /\ r.what = "send" /\ tree.page = "chat" /\ tree.conv \in Conv
                 /\ bubbles' = [bubbles EXCEPT ![tree.conv] = @ + 1]
                 /\ delivered' = delivered \cup {r.cap}
  <1>1. r \in Request /\ tree \in Screens
    BY DEF CompanionType, ClientType
  <1>2. CASE r.what = "open"
    <2>1. tree' \in Reachable /\ UNCHANGED <<bubbles, delivered>>
      BY <1>2 DEF Effect
    <2>2. tree' \in Screens /\ (tree'.page = "chat" => tree'.n = bubbles[tree'.conv])
      BY <2>1 DEF Reachable
    <2>3. QED
      BY <2>1, <2>2 DEF ClientType
  <1>3. CASE r.what = "type"
    <2>1. tree' = [tree EXCEPT !.typed = "text"] /\ UNCHANGED <<bubbles, delivered>>
      BY <1>3 DEF Effect
    <2>2. tree.page \in {"chat", "sms"}
      BY <1>3, GuardMeets DEF Screened
    <2>3. tree' \in Screens /\ tree'.page = tree.page /\ tree'.conv = tree.conv /\ tree'.n = tree.n
      BY <1>1, <2>1, <2>2, TypedScreen DEF Typed
    <2>4. QED
      BY <2>1, <2>3 DEF ClientType, Screened
  <1>4. CASE r.what = "send"
    <2>1. /\ tree.page = "chat" /\ tree.conv \in Conv /\ tree.n \in 0 .. MaxBubbles
          /\ tree.n = bubbles[tree.conv] /\ r.cap.what = "send" /\ r.cap \in Cap
      BY <1>1, <1>4, GuardMeets, ScreenFacts, RequestFacts DEF Screened, ReadyToSend, ValidFrame
    <2>2. CASE /\ tree.page = "chat" /\ bubbles[tree.conv] < MaxBubbles
               /\ tree' = Screen("chat", tree.conv, "other", tree.n + 1)
               /\ bubbles' = [bubbles EXCEPT ![tree.conv] = @ + 1]
               /\ delivered' = delivered \cup {r.cap}
      <3>1. tree' \in Screens /\ tree'.page = "chat" /\ tree'.conv = tree.conv /\ tree'.n = tree.n + 1
        BY <1>1, <2>1, <2>2, SentScreen
      <3>2. bubbles'[tree.conv] = bubbles[tree.conv] + 1 /\ bubbles' \in [Conv -> 0 .. MaxBubbles]
        BY <2>1, <2>2, BoundsAreNat DEF ClientType
      <3>3. r.cap \in [of : Key, at : 0 .. MaxRestarts, what : {"send"}]
        BY <2>1, CapFacts
      <3>4. QED
        BY <1>4, <2>1, <2>2, <3>1, <3>2, <3>3 DEF ClientType
    <2>3. CASE tree' \in {tree, [tree EXCEPT !.typed = "other"]} /\ UNCHANGED <<bubbles, delivered>>
      <3>1. tree' \in Screens /\ tree'.page = tree.page /\ tree'.conv = tree.conv /\ tree'.n = tree.n
        BY <1>1, <2>1, <2>3, TypedScreen DEF Typed
      <3>2. QED
        BY <2>1, <2>3, <3>1 DEF ClientType
    <2>4. QED
      BY <1>4, <2>2, <2>3 DEF Effect
  <1>5. CASE r.what \notin {"open", "type", "send"}
    <2>1. UNCHANGED <<tree, bubbles, delivered>>
      BY <1>5 DEF Effect
    <2>2. QED
      BY <2>1 DEF ClientType, Screened
  <1>6. QED
    BY <1>2, <1>3, <1>4, <1>5

\* The bubbles of a chat change from elsewhere.
LEMMA BubblesFacts ==
    ASSUME ClientType, CompanionType, OpType, Screened, NEW c \in Conv, NEW n \in 0 .. MaxBubbles,
           BubblesChange(c, n)
    PROVE  /\ ClientType' /\ CompanionType' /\ Screened'
           /\ bubbles'[c] = n /\ \A d \in Conv : d # c => bubbles'[d] = bubbles[d]
           /\ op' = op /\ delivered' = delivered /\ stray \subseteq stray'
           /\ Watched(c) /\ n > op.base => SendCap(op.of) \in stray'
  <1>1. /\ bubbles' = [bubbles EXCEPT ![c] = n] /\ changes' = changes + 1 /\ changes < MaxChanges
        /\ tree' = IF tree.page = "chat" /\ tree.conv = c THEN [tree EXCEPT !.n = n] ELSE tree
        /\ stray' = IF Watched(c) /\ n > op.base THEN stray \cup {SendCap(op.of)} ELSE stray
        /\ UNCHANGED <<seq, observed, consumed, wire, op, restarts, delivered>>
    BY DEF BubblesChange, companion, driver
  <1>2. /\ bubbles' \in [Conv -> 0 .. MaxBubbles] /\ changes' \in 0 .. MaxChanges
        /\ bubbles'[c] = n /\ \A d \in Conv : d # c => bubbles'[d] = bubbles[d]
    BY <1>1, BoundsAreNat DEF ClientType
  <1>3. Watched(c) => SendCap(op.of) \in [of : Key, at : 0 .. MaxRestarts, what : {"send"}]
    BY DEF Watched, OpType, SendCap, ClientType
  <1>4. /\ tree' \in Screens /\ tree'.page = tree.page /\ tree'.conv = tree.conv
        /\ tree'.page = "chat" => tree'.n = bubbles'[tree'.conv]
    <2>1. CASE tree.page = "chat" /\ tree.conv = c
      BY <1>1, <1>2, <2>1, ScrolledScreen DEF ClientType
    <2>2. CASE ~(tree.page = "chat" /\ tree.conv = c)
      BY <1>1, <1>2, <2>2, ScreenFacts DEF ClientType, Screened
    <2>3. QED
      BY <2>1, <2>2
  <1>5. ClientType' /\ CompanionType' /\ Screened'
    BY <1>1, <1>2, <1>3, <1>4 DEF ClientType, CompanionType, Screened
  <1>6. QED
    BY <1>1, <1>2, <1>5

LEMMA ReactsType ==
    ASSUME ClientType, CompanionType, OpType, Screened, Reacts
    PROVE  ClientType' /\ CompanionType' /\ Screened'
  <1> USE BoundsAreNat
  <1>1. ASSUME NEW t \in Reachable, UiChanges(t)
        PROVE  ClientType' /\ CompanionType' /\ Screened'
    <2>1. tree' \in Screens /\ (tree'.page = "chat" => tree'.n = bubbles[tree'.conv])
      BY <1>1 DEF UiChanges, Reachable
    <2>2. changes' \in 0 .. MaxChanges
      BY <1>1 DEF UiChanges, ClientType
    <2>3. UNCHANGED <<seq, observed, consumed, wire, restarts, bubbles, delivered, stray>>
      BY <1>1 DEF UiChanges, companion
    <2>4. QED
      BY <2>1, <2>2, <2>3 DEF ClientType, CompanionType, Screened
  <1>2. CASE UiEvent \/ CompanionRestart
    <2>1. seq' = seq + 1 /\ seq' \in Sequence /\ seq \in Nat
      BY <1>2 DEF UiEvent, CompanionRestart, CompanionType, Sequence
    <2>2. UNCHANGED <<tree, changes, bubbles, delivered, stray, restarts>> /\ wire' \subseteq wire
      BY <1>2 DEF UiEvent, CompanionRestart, client
    <2>3. ClientType'
      BY <2>2 DEF ClientType
    <2>4. CompanionType'
      BY <1>2, <2>1, <2>2 DEF CompanionType, UiEvent, CompanionRestart
    <2>5. ASSUME NEW r \in wire'
          PROVE  r.expected \in Nat
      BY <2>2, <2>5, RequestFacts DEF CompanionType
    <2>6. Screened'
      BY <2>1, <2>2, <2>5 DEF Screened
    <2>7. QED
      BY <2>3, <2>4, <2>6
  <1>3. ASSUME NEW r \in wire, Perform(r)
        PROVE  ClientType' /\ CompanionType' /\ Screened'
    <2>1. Guarded(r) /\ Effect(r) /\ UNCHANGED <<seq, observed, restarts, changes, stray>>
          /\ wire' = wire \ {r} /\ consumed' \in {consumed, tree}
      BY <1>3 DEF Perform
    <2>2. /\ tree' \in Screens
          /\ tree'.page = "chat" => tree'.n = bubbles'[tree'.conv]
          /\ bubbles' \in [Conv -> 0 .. MaxBubbles]
          /\ delivered' \subseteq [of : Key, at : 0 .. MaxRestarts, what : {"send"}]
      BY <2>1, Effects
    <2>3. QED
      BY <2>1, <2>2 DEF ClientType, CompanionType, Screened
  <1>4. ASSUME NEW r \in wire, Refuse(r)
        PROVE  ClientType' /\ CompanionType' /\ Screened'
    <2>1. UNCHANGED <<seq, observed, restarts, tree, changes, bubbles, delivered, stray>>
          /\ wire' = wire \ {r} /\ consumed' \in {consumed, tree}
      BY <1>4 DEF Refuse, client
    <2>2. QED
      BY <2>1 DEF ClientType, CompanionType, Screened
  <1>5. QED
    BY <1>1, <1>2, <1>3, <1>4, BubblesFacts DEF Reacts

\* A look leaves the requests that can still be performed bound to the screen.
LEMMA LookScreened ==
    ASSUME ClientType, CompanionType, Screened, Observe(Observed),
           wire' = wire \/ \E r : wire' = wire \cup {r} /\ Decided(r)
    PROVE  ClientType' /\ CompanionType' /\ Screened'
  <1>1. /\ Observed = [seq |-> seq', tree |-> tree] /\ observed' = Observed /\ Observed \in Snapshots
        /\ Observed.seq = seq' /\ Observed.tree = tree
        /\ seq' \in Sequence /\ seq <= seq'
        /\ seq' = seq => (observed # Nil /\ observed.seq = seq => observed.tree = tree)
        /\ consumed' \in Screens \cup {Nil}
        /\ UNCHANGED <<tree, changes, bubbles, delivered, stray, restarts>>
    BY Look
  <1>2. wire' \subseteq Request
    BY DEF CompanionType, Decided
  <1>3. ClientType' /\ CompanionType'
    BY <1>1, <1>2 DEF ClientType, CompanionType
  <1>4. ASSUME NEW r \in wire'
        PROVE  /\ r.what = "open" => r.shown = Nil
               /\ r.what # "open" =>
                    /\ r.shown \in Screens /\ r.expected <= seq'
                    /\ r.expected = seq' => observed' = [seq |-> seq', tree |-> r.shown]
               /\ r.what = "type" => r.shown.page \in {"chat", "sms"}
               /\ r.what = "send" => ReadyToSend(r.shown, r.target) /\ r.cap.what = "send"
    <2>1. CASE r \in wire
      <3>1. r.expected \in Nat /\ seq \in Nat /\ seq' \in Nat
        BY <1>1, <2>1, RequestFacts, SequenceFacts DEF CompanionType
      <3>2. ASSUME r.what # "open", r.expected = seq'
            PROVE  observed' = [seq |-> seq', tree |-> r.shown]
        <4>1. seq' = seq /\ observed = [seq |-> seq, tree |-> r.shown]
          BY <1>1, <2>1, <3>1, <3>2 DEF Screened
        <4>2. observed # Nil
          <5>1. r.shown \in Screens
            BY <2>1, <3>2 DEF Screened
          <5>2. observed \in Snapshots
            BY <4>1, <5>1 DEF CompanionType, Snapshots
          <5>3. QED
            BY <5>2, NilIsNothing
        <4>3. observed.seq = seq /\ observed.tree = r.shown
          BY <4>1
        <4>4. r.shown = tree
          BY <1>1, <4>1, <4>2, <4>3
        <4>5. QED
          BY <1>1, <4>4
      <3>3. QED
        BY <1>1, <2>1, <3>1, <3>2 DEF Screened
    <2>2. CASE Decided(r)
      <3>1. seq' \in Nat
        BY <1>1, SequenceFacts
      <3>2. QED
        BY <1>1, <2>2, <3>1 DEF Decided, ClientType
    <2>3. QED
      BY <1>4, <2>1, <2>2
  <1>5. Screened'
    <2>1. tree'.page = "chat" => tree'.n = bubbles'[tree'.conv]
      BY <1>1 DEF Screened
    <2>2. QED
      BY <1>4, <2>1 DEF Screened, ReadyToSend, ValidFrame
  <1>6. QED
    BY <1>3, <1>5

-----------------------------------------------------------------------------
(* The operation of the driver.                                            *)

\* op, step by step: what an operation keeps and what it changes.
OpAt(kind, pc, reply, of, on, s, b) ==
    [kind |-> kind, pc |-> pc, reply |-> reply, of |-> of, on |-> on, snap |-> s, base |-> b]

LEMMA OpFields ==
    ASSUME NEW kind, NEW pc, NEW reply, NEW of, NEW on, NEW s, NEW b
    PROVE  /\ OpAt(kind, pc, reply, of, on, s, b).kind = kind
           /\ OpAt(kind, pc, reply, of, on, s, b).pc = pc
           /\ OpAt(kind, pc, reply, of, on, s, b).reply = reply
           /\ OpAt(kind, pc, reply, of, on, s, b).of = of
           /\ OpAt(kind, pc, reply, of, on, s, b).on = on
           /\ OpAt(kind, pc, reply, of, on, s, b).snap = s
           /\ OpAt(kind, pc, reply, of, on, s, b).base = b
  BY DEF OpAt

LEMMA OpIs ==
    ASSUME OpType
    PROVE  /\ op = OpAt(op.kind, op.pc, op.reply, op.of, op.on, op.snap, op.base)
           /\ op.snap \in Snapshots \cup {Nil} /\ op.base \in 0 .. MaxBubbles
           /\ op.reply \in {Nil, "accepted", "refused"}
  BY DEF OpType, Operation, OpAt

LEMMA ContinueIs ==
    ASSUME OpType, NEW pc, NEW s, Continue(pc, s)
    PROVE  op' = OpAt(op.kind, pc, Nil, op.of, op.on, s, op.base)
  <1>1. op = OpAt(op.kind, op.pc, op.reply, op.of, op.on, op.snap, op.base)
    BY OpIs
  <1>2. QED
    BY <1>1 DEF Continue, OpAt

LEMMA PcIs ==
    ASSUME OpType, NEW pc, op' = [op EXCEPT !.pc = pc]
    PROVE  op' = OpAt(op.kind, pc, op.reply, op.of, op.on, op.snap, op.base)
  BY OpIs DEF OpAt

LEMMA ReplyIs ==
    ASSUME OpType, NEW y, op' = [op EXCEPT !.reply = y]
    PROVE  op' = OpAt(op.kind, op.pc, y, op.of, op.on, op.snap, op.base)
  BY OpIs DEF OpAt

LEMMA BaseIs ==
    ASSUME OpType, NEW s, NEW b, op' = [op EXCEPT !.pc = "typing", !.snap = s, !.base = b]
    PROVE  op' = OpAt(op.kind, "typing", op.reply, op.of, op.on, s, b)
  <1>1. op = OpAt(op.kind, op.pc, op.reply, op.of, op.on, op.snap, op.base)
    BY OpIs
  <1>2. QED
    BY <1>1 DEF OpAt

LEMMA EnterIs ==
    ASSUME NEW kind, NEW pc, NEW of, NEW on, NEW s, Enter(kind, pc, of, on, s)
    PROVE  op' = OpAt(kind, pc, Nil, of, on, s, 0)
  BY DEF Enter, OpAt

LEMMA IdleFields ==
    /\ Idle.kind = "idle" /\ Idle.pc = "idle" /\ Idle.reply = Nil /\ Idle.snap = Nil
    /\ Idle.base = 0 /\ 0 \in 0 .. MaxBubbles
  BY BoundsAreNat DEF Idle

LEMMA IdleType ==
    ASSUME op' = Idle
    PROVE  OpType'
  <1>1. op'.kind = "idle" /\ op' \in Operation(op'.of, op'.on)
    BY BoundsAreNat DEF Operation, Idle
  <1>2. QED
    BY <1>1 DEF OpType

Kinds == {"open", "snap", "act", "close", "send", "look", "auth", "code"}
Pcs == {"acting", "shot", "opened", "typing", "typed", "clicking", "seen", "settle"}

LEMMA OpAtType ==
    ASSUME NEW kind \in Kinds, NEW pc \in Pcs, NEW reply \in {Nil, "accepted", "refused"},
           NEW of, NEW on, NEW s \in Snapshots, NEW b \in 0 .. MaxBubbles,
           kind \in {"open", "snap", "act", "close"} => of \in Surface,
           kind = "act" => on \in Control,
           kind = "send" => of \in Key /\ on \in Conv,
           op' = OpAt(kind, pc, reply, of, on, s, b)
    PROVE  OpType'
  <1>1. /\ op'.kind = kind /\ op'.of = of /\ op'.on = on /\ op'.snap = s
    BY OpFields
  <1>2. op' \in Operation(op'.of, op'.on)
    BY <1>1 DEF OpAt, Operation, Kinds, Pcs
  <1>3. s # Nil
    BY NilIsNothing
  <1>4. QED
    BY <1>1, <1>2, <1>3 DEF OpType, Kinds

\* An operation under way goes on to another place, with another observation.
LEMMA OpGoesOn ==
    ASSUME OpType, op.kind # "idle", NEW pc \in Pcs, NEW y \in {Nil, "accepted", "refused"},
           NEW s \in Snapshots, NEW b \in 0 .. MaxBubbles,
           op' = OpAt(op.kind, pc, y, op.of, op.on, s, b)
    PROVE  OpType'
  <1>1. op.kind \in Kinds
    BY DEF OpType, Operation, Kinds
  <1>2. /\ op.kind \in {"open", "snap", "act", "close"} => op.of \in Surface
        /\ op.kind = "act" => op.on \in Control
        /\ op.kind = "send" => op.of \in Key /\ op.on \in Conv
    BY DEF OpType
  <1>3. QED
    BY <1>1, <1>2, OpAtType

LEMMA OpSnap ==
    ASSUME OpType, op.kind # "idle"
    PROVE  op.snap \in Snapshots /\ op.base \in 0 .. MaxBubbles
           /\ op.reply \in {Nil, "accepted", "refused"}
  BY OpIs DEF OpType

LEMMA AsksOp ==
    ASSUME ClientType, CompanionType, OpType, DriverType, Asks
    PROVE  OpType'
  <1> USE DEF Kinds, Pcs
  <1>1. Observed \in Snapshots /\ Observed.tree = tree /\ 0 \in 0 .. MaxBubbles
    BY LookSteps, Look, IdleFields
  <1>2. ASSUME NEW id \in Surface, OpenSurface(id)
        PROVE  OpType'
    BY <1>1, <1>2, EnterIs, OpAtType DEF OpenSurface
  <1>3. ASSUME NEW id \in Surface, CloseSurface(id)
        PROVE  OpType'
    <2>1. op' = Idle \/ op' = OpAt("close", "acting", Nil, id, Nil, Observed, 0)
      BY <1>3, EnterIs DEF CloseSurface, Begins
    <2>2. QED
      BY <1>1, <2>1, IdleType, OpAtType
  <1>4. ASSUME NEW k \in Key, NEW c \in Conv, Send(k, c)
        PROVE  OpType'
    BY <1>1, <1>4, EnterIs, OpAtType DEF Send
  <1>5. ASSUME NEW id \in Surface, NEW c \in Control, ActSurface(id, c)
        PROVE  OpType'
    <2>1. op' = Idle \/ op' = OpAt("act", "acting", Nil, id, c, Observed, 0)
      BY <1>5, EnterIs DEF ActSurface, Begins
    <2>2. QED
      BY <1>1, <2>1, IdleType, OpAtType
  <1>6. CASE ChatStable
    <2>1. CASE op' = Idle
      BY <2>1, IdleType
    <2>2. CASE op' # Idle
      <3>1. op' = OpAt(op.kind, "typing", op.reply, op.of, op.on, Observed, tree.n) /\ tree.page = "chat"
        BY <1>6, <2>2, BaseIs DEF ChatStable, End, ValidFrame
      <3>2. tree.n \in 0 .. MaxBubbles
        BY <3>1, ScreenFacts DEF ClientType
      <3>3. QED
        BY <1>1, <1>6, <3>1, <3>2, OpSnap, OpGoesOn DEF ChatStable
    <2>3. QED
      BY <2>1, <2>2
  <1>7. CASE ClickSend \/ PerformAuthAction \/ CodeTyped
    <2>1. op.kind # "idle" /\ \/ op' = Idle
                              \/ Continue("clicking", Observed) \/ Continue("acting", Observed)
      BY <1>7 DEF ClickSend, PerformAuthAction, CodeTyped, Accepted, End
    <2>2. \/ op' = Idle
          \/ \E pc \in {"clicking", "acting"} : op' = OpAt(op.kind, pc, Nil, op.of, op.on, Observed, op.base)
      BY <2>1, ContinueIs
    <2>3. QED
      BY <1>1, <2>1, <2>2, IdleType, OpSnap, OpGoesOn
  <1>8. CASE SubmitAuthCode
    <2>1. op' = Idle \/ op' = OpAt("code", "typing", Nil, Nil, Nil, Observed, 0)
      BY <1>8, EnterIs DEF SubmitAuthCode, Begins
    <2>2. QED
      BY <1>1, <2>1, IdleType, OpAtType
  <1>9. QED
    BY <1>2, <1>3, <1>4, <1>5, <1>6, <1>7, <1>8 DEF Asks

LEMMA WatchesOp ==
    ASSUME ClientType, CompanionType, OpType, DriverType, Watches
    PROVE  OpType'
  <1> USE DEF Kinds, Pcs
  <1>1. Observed \in Snapshots /\ Observed.tree = tree /\ 0 \in 0 .. MaxBubbles
    BY LookSteps, Look, IdleFields
  <1>2. ASSUME NEW id \in Surface, SnapshotSurface(id)
        PROVE  OpType'
    <2>1. op' = Idle \/ op' = OpAt("snap", "shot", Nil, id, Nil, Observed, 0)
      BY <1>2, EnterIs DEF SnapshotSurface, Begins
    <2>2. QED
      BY <1>1, <2>1, IdleType, OpAtType
  <1>3. CASE SurfaceChanged \/ ChatOpened \/ TextSet
    <2>1. op.kind # "idle" /\ \/ op' = Idle
                              \/ \E pc \in {"shot", "opened", "typed"} : Continue(pc, Observed)
      BY <1>3 DEF SurfaceChanged, ChatOpened, TextSet, Accepted, End
    <2>2. \/ op' = Idle
          \/ \E pc \in {"shot", "opened", "typed"} : op' = OpAt(op.kind, pc, Nil, op.of, op.on, Observed, op.base)
      BY <2>1, ContinueIs
    <2>3. QED
      BY <1>1, <2>1, <2>2, IdleType, OpSnap, OpGoesOn
  <1>4. CASE SurfaceStored \/ AuthCaptured
    BY <1>4, IdleType DEF SurfaceStored, AuthCaptured, End
  <1>5. CASE Status
    BY <1>5 DEF Status, driver, OpType
  <1>6. CASE WatchBubble \/ AuthSettles
    <2>1. op.kind # "idle" /\ \/ op' = Idle
                              \/ \E pc \in {"clicking", "seen", "acting", "settle"} : op' = [op EXCEPT !.pc = pc]
      BY <1>6 DEF WatchBubble, AuthSettles, Accepted, End
    <2>2. \/ op' = Idle
          \/ \E pc \in {"clicking", "seen", "acting", "settle"} :
                op' = OpAt(op.kind, pc, op.reply, op.of, op.on, op.snap, op.base)
      BY <2>1, PcIs
    <2>3. QED
      BY <2>1, <2>2, IdleType, OpSnap, OpGoesOn
  <1>7. ASSUME NEW kind \in {"look", "auth"}, BeginCapture(kind)
        PROVE  OpType'
    <2>1. op' = Idle \/ \E on : op' = OpAt(kind, "shot", Nil, Nil, on, Observed, 0)
      BY <1>7, EnterIs DEF BeginCapture, Begins
    <2>2. QED
      BY <1>1, <1>7, <2>1, IdleType, OpAtType
  <1>8. QED
    BY <1>2, <1>3, <1>4, <1>5, <1>6, <1>7 DEF Watches

LEMMA ReactsOp ==
    ASSUME OpType, Awaited, Reacts
    PROVE  OpType'
  <1>1. CASE op' = op
    BY <1>1 DEF OpType
  <1>2. ASSUME NEW r \in wire, ~r.late, NEW y \in {"accepted", "refused"}, op' = [op EXCEPT !.reply = y]
        PROVE  OpType'
    <2>1. op.pc \in {"acting", "typing", "clicking"}
      BY <1>2 DEF Awaited
    <2>2. op.kind # "idle"
      BY <2>1, IdleFields DEF OpType
    <2>3. op' = OpAt(op.kind, op.pc, y, op.of, op.on, op.snap, op.base)
      BY <1>2, ReplyIs
    <2>4. QED
      BY <2>1, <2>2, <2>3, OpSnap, OpGoesOn DEF Pcs
  <1>3. QED
    BY <1>1, <1>2, Zenon DEF Reacts, UiChanges, BubblesChange, UiEvent, CompanionRestart, Perform, Refuse, Answered, driver

-----------------------------------------------------------------------------
(* The surfaces and the memos.                                             *)

Table == [Surface -> Offer \cup {Nil}]

LEMMA OfferFacts ==
    ASSUME NEW x \in Offer
    PROVE  /\ x # Nil /\ x.page \in {"home", "article", "chat"} /\ x.seq \in Sequence /\ x.tree \in Screens
           /\ x.actions \subseteq Control /\ x.tombstones \subseteq Control
           /\ x.consumed \subseteq Sequence \X Control
  BY NilIsNothing DEF Offer

LEMMA TombstonedFacts ==
    ASSUME NEW f \in Table, NEW s \in Surface, NEW c \in Control, f[s] # Nil
    PROVE  /\ Tombstoned(f, s, c) \in Table
           /\ \A t \in Surface : t # s => Tombstoned(f, s, c)[t] = f[t]
           /\ Tombstoned(f, s, c)[s] # Nil
           /\ Tombstoned(f, s, c)[s].page = f[s].page
           /\ Tombstoned(f, s, c)[s].seq = f[s].seq
           /\ Tombstoned(f, s, c)[s].consumed = f[s].consumed
           /\ Tombstoned(f, s, c)[s].tombstones = f[s].tombstones \cup {c}
           /\ Tombstoned(f, s, c)[s].actions = f[s].actions \ {c}
  <1>1. f[s] \in Offer
    BY DEF Table
  <1> DEFINE x == [f[s] EXCEPT !.tombstones = @ \cup {c}, !.actions = @ \ {c}]
  <1>2. /\ x \in Offer /\ x.page = f[s].page /\ x.seq = f[s].seq /\ x.consumed = f[s].consumed
        /\ x.tombstones = f[s].tombstones \cup {c} /\ x.actions = f[s].actions \ {c}
    BY <1>1 DEF Offer
  <1>3. Tombstoned(f, s, c) = [f EXCEPT ![s] = x]
    BY <1>1 DEF Tombstoned, Table, Offer
  <1> HIDE DEF x
  <1>4. QED
    BY <1>2, <1>3, OfferFacts DEF Table

LEMMA ConsumedFacts ==
    ASSUME NEW f \in Table, NEW s \in Surface, NEW c \in Control, f[s] # Nil
    PROVE  /\ Consumed(f, s, c) \in Table
           /\ \A t \in Surface : t # s => Consumed(f, s, c)[t] = f[t]
           /\ Consumed(f, s, c)[s] # Nil
           /\ Consumed(f, s, c)[s].page = f[s].page
           /\ Consumed(f, s, c)[s].seq = f[s].seq
           /\ Consumed(f, s, c)[s].consumed = f[s].consumed \cup {<<f[s].seq, c>>}
           /\ Consumed(f, s, c)[s].tombstones = f[s].tombstones
           /\ Consumed(f, s, c)[s].actions = f[s].actions \ {c}
  <1>1. f[s] \in Offer /\ f[s].seq \in Sequence
    BY OfferFacts DEF Table
  <1> DEFINE p == <<f[s].seq, c>>
             x == [f[s] EXCEPT !.actions = @ \ {c}, !.consumed = @ \cup {p}]
  <1>2. Consumed(f, s, c) = [f EXCEPT ![s] = x]
    BY <1>1 DEF Consumed, Table, Offer
  <1>3. p \in Sequence \X Control
    BY <1>1
  <1> HIDE DEF p
  <1>4. /\ x \in Offer /\ x.page = f[s].page /\ x.seq = f[s].seq
        /\ x.consumed = f[s].consumed \cup {p}
        /\ x.tombstones = f[s].tombstones /\ x.actions = f[s].actions \ {c}
    BY <1>1, <1>3 DEF Offer
  <1> HIDE DEF x
  <1>5. QED
    BY <1>4, <1>2, OfferFacts DEF Table, p

LEMMA UpdatedFacts ==
    ASSUME DriverType, NEW id \in Surface, NEW s \in Snapshots, ValidSurface(s.tree)
    PROVE  /\ Updated(id, s) \in Offer
           /\ Updated(id, s).page = s.tree.page /\ Updated(id, s).seq = s.seq
           /\ \A c \in Updated(id, s).actions :
                 c \notin Updated(id, s).tombstones /\ <<s.seq, c>> \notin Updated(id, s).consumed
           /\ surfaces[id] # Nil /\ surfaces[id].page = s.tree.page =>
                 /\ Updated(id, s).consumed = surfaces[id].consumed
                 /\ Updated(id, s).tombstones = surfaces[id].tombstones
  <1> DEFINE kept == surfaces[id] # Nil /\ surfaces[id].page = s.tree.page
             gone == IF kept THEN surfaces[id].consumed ELSE {}
             dead == IF kept THEN surfaces[id].tombstones ELSE {}
             acts == {c \in Controls(s.tree) \ dead : <<s.seq, c>> \notin gone}
  <1>1. Updated(id, s) = [page |-> s.tree.page, seq |-> s.seq, tree |-> s.tree,
                          actions |-> acts, consumed |-> gone, tombstones |-> dead]
    BY DEF Updated
  <1>2. gone \in SUBSET (Sequence \X Control) /\ dead \in SUBSET Control
    BY OfferFacts DEF DriverType
  <1>3. acts \in SUBSET Control
    BY DEF Controls
  <1>4. s.seq \in Sequence /\ s.tree \in Screens /\ s.tree.page \in {"home", "article", "chat"}
    BY DEF Snapshots, ValidSurface
  <1>5. kept => gone = surfaces[id].consumed /\ dead = surfaces[id].tombstones
    OBVIOUS
  <1>6. \A c \in acts : c \notin dead /\ <<s.seq, c>> \notin gone
    OBVIOUS
  <1> HIDE DEF gone, dead, acts
  <1>7. Updated(id, s) \in Offer
    BY <1>1, <1>2, <1>3, <1>4 DEF Offer
  <1>8. /\ Updated(id, s).page = s.tree.page /\ Updated(id, s).seq = s.seq
        /\ Updated(id, s).actions = acts /\ Updated(id, s).consumed = gone
        /\ Updated(id, s).tombstones = dead
    BY <1>1
  <1>9. QED
    BY <1>5, <1>6, <1>7, <1>8

\* The surfaces after the error path of an operation.
LEMMA FailedActFacts ==
    ASSUME OpType, DriverType
    PROVE  /\ FailedAct \in Table
           /\ \A t \in Surface :
                 /\ FailedAct[t] = Nil <=> surfaces[t] = Nil
                 /\ surfaces[t] # Nil =>
                      /\ FailedAct[t].page = surfaces[t].page /\ FailedAct[t].seq = surfaces[t].seq
                      /\ FailedAct[t].consumed = surfaces[t].consumed
                      /\ surfaces[t].tombstones \subseteq FailedAct[t].tombstones
                      /\ \A c \in FailedAct[t].actions :
                           c \in surfaces[t].actions /\ (c \in FailedAct[t].tombstones => c \in surfaces[t].tombstones)
  <1>1. surfaces \in Table
    BY DEF DriverType, Table
  <1>2. CASE FailedAct = surfaces
    BY <1>1, <1>2
  <1>3. CASE FailedAct # surfaces
    <2>1. op.of \in Surface /\ op.on \in Control /\ FailedAct = Tombstoned(surfaces, op.of, op.on)
      BY <1>3 DEF FailedAct, OpType
    <2>2. surfaces[op.of] # Nil
      BY <1>3, <2>1 DEF Tombstoned
    <2> DEFINE g == Tombstoned(surfaces, op.of, op.on)
    <2>3. /\ g \in Table
          /\ \A t \in Surface : t # op.of => g[t] = surfaces[t]
          /\ g[op.of] # Nil /\ g[op.of].page = surfaces[op.of].page
          /\ g[op.of].seq = surfaces[op.of].seq /\ g[op.of].consumed = surfaces[op.of].consumed
          /\ g[op.of].tombstones = surfaces[op.of].tombstones \cup {op.on}
          /\ g[op.of].actions = surfaces[op.of].actions \ {op.on}
      BY <1>1, <2>1, <2>2, TombstonedFacts
    <2> HIDE DEF g
    <2>4. FailedAct = g
      BY <2>1 DEF g
    <2>5. QED
      BY <2>2, <2>3, <2>4
  <1>4. QED
    BY <1>2, <1>3

\* The steps that change the surfaces.
LEMMA SurfaceSteps ==
    ASSUME Next, surfaces' # surfaces
    PROVE  \/ \E id \in Surface, c \in Control : ActSurface(id, c)
           \/ SurfaceChanged \/ SurfaceStored \/ SurfaceClosed \/ Fails \/ Restart
  BY Zenon DEF Next, UiChanges, BubblesChange, UiEvent, Perform, Refuse, CompanionRestart, OpenSurface, SnapshotSurface,
         CloseSurface, Send, ChatOpened, ChatStable, TextSet, ClickSend, WatchBubble, Status,
         BeginCapture, AuthCaptured, PerformAuthAction, AuthSettles, SubmitAuthCode, CodeTyped,
         CodeSubmitted, driver

\* An action is used up, and a write tombstoned, before it is sent.
LEMMA ActSurfaceFacts ==
    ASSUME DriverType, NEW id \in Surface, NEW c \in Control, ActSurface(id, c), surfaces' # surfaces
    PROVE  /\ surfaces' \in Table /\ surfaces[id] # Nil /\ c \in surfaces[id].actions
           /\ \A t \in Surface : t # id => surfaces'[t] = surfaces[t]
           /\ surfaces'[id] # Nil
           /\ surfaces'[id].page = surfaces[id].page /\ surfaces'[id].seq = surfaces[id].seq
           /\ surfaces'[id].consumed = surfaces[id].consumed \cup {<<surfaces[id].seq, c>>}
           /\ surfaces[id].tombstones \subseteq surfaces'[id].tombstones
           /\ surfaces'[id].tombstones \subseteq surfaces[id].tombstones \cup {c}
           /\ c = "publish" => c \in surfaces'[id].tombstones
           /\ surfaces'[id].actions = surfaces[id].actions \ {c}
  <1>1. surfaces \in Table /\ surfaces[id] # Nil /\ c \in surfaces[id].actions
    BY DEF DriverType, Table, ActSurface, Known
  <1> DEFINE f == Consumed(surfaces, id, c)
  <1>2. /\ f \in Table /\ \A t \in Surface : t # id => f[t] = surfaces[t]
        /\ f[id] # Nil /\ f[id].page = surfaces[id].page /\ f[id].seq = surfaces[id].seq
        /\ f[id].consumed = surfaces[id].consumed \cup {<<surfaces[id].seq, c>>}
        /\ f[id].tombstones = surfaces[id].tombstones /\ f[id].actions = surfaces[id].actions \ {c}
    BY <1>1, ConsumedFacts
  <1>3. surfaces' = IF ShouldTombstone(c, TRUE) THEN Tombstoned(f, id, c) ELSE f
    BY DEF ActSurface
  <1>4. c = "publish" => ShouldTombstone(c, TRUE)
    BY DEF ShouldTombstone, EffectOf
  <1> HIDE DEF f
  <1>5. CASE ShouldTombstone(c, TRUE)
    <2> DEFINE g == Tombstoned(f, id, c)
    <2>1. /\ g \in Table /\ \A t \in Surface : t # id => g[t] = f[t]
          /\ g[id] # Nil /\ g[id].page = f[id].page /\ g[id].seq = f[id].seq
          /\ g[id].consumed = f[id].consumed
          /\ g[id].tombstones = f[id].tombstones \cup {c} /\ g[id].actions = f[id].actions \ {c}
      BY <1>2, TombstonedFacts
    <2>2. surfaces' = g
      BY <1>3, <1>5
    <2> HIDE DEF g
    <2>3. QED
      BY <1>1, <1>2, <2>1, <2>2
  <1>6. CASE ~ShouldTombstone(c, TRUE)
    <2>1. surfaces' = f /\ c # "publish"
      BY <1>3, <1>4, <1>6
    <2>2. QED
      BY <1>1, <1>2, <2>1
  <1>7. QED
    BY <1>5, <1>6

\* The surface that SurfaceStored stores.
LEMMA StoredFacts ==
    ASSUME ClientType, CompanionType, OpType, DriverType, SurfaceStored
    PROVE  /\ op.of \in Surface /\ Observed \in Snapshots
           /\ \/ surfaces' = FailedAct
              \/ /\ ValidSurface(tree) /\ op.snap.tree.page = tree.page
                 /\ surfaces' = [surfaces EXCEPT ![op.of] = Updated(op.of, Observed)]
                 /\ Updated(op.of, Observed) \in Offer
                 /\ Updated(op.of, Observed).page = tree.page
                 /\ Updated(op.of, Observed).seq = Observed.seq
                 /\ \A c \in Updated(op.of, Observed).actions :
                       /\ c \notin Updated(op.of, Observed).tombstones
                       /\ <<Updated(op.of, Observed).seq, c>> \notin Updated(op.of, Observed).consumed
                 /\ surfaces[op.of] # Nil /\ surfaces[op.of].page = tree.page =>
                       /\ Updated(op.of, Observed).consumed = surfaces[op.of].consumed
                       /\ Updated(op.of, Observed).tombstones = surfaces[op.of].tombstones
  <1>1. op.of \in Surface /\ Observe(Observed)
    BY DEF SurfaceStored, OpType
  <1>2. Observed \in Snapshots /\ Observed.tree = tree
    BY <1>1, Look
  <1>3. \/ surfaces' = FailedAct
        \/ /\ ValidSurface(tree) /\ SameObservation(op.snap, Observed)
           /\ surfaces' = [surfaces EXCEPT ![op.of] = Updated(op.of, Observed)]
    BY DEF SurfaceStored
  <1>4. SameObservation(op.snap, Observed) => op.snap.tree.page = tree.page
    BY <1>2 DEF SameObservation
  <1>5. ASSUME ValidSurface(tree)
        PROVE  /\ Updated(op.of, Observed) \in Offer
               /\ Updated(op.of, Observed).page = tree.page
               /\ Updated(op.of, Observed).seq = Observed.seq
               /\ \A c \in Updated(op.of, Observed).actions :
                     /\ c \notin Updated(op.of, Observed).tombstones
                     /\ <<Observed.seq, c>> \notin Updated(op.of, Observed).consumed
               /\ surfaces[op.of] # Nil /\ surfaces[op.of].page = tree.page =>
                     /\ Updated(op.of, Observed).consumed = surfaces[op.of].consumed
                     /\ Updated(op.of, Observed).tombstones = surfaces[op.of].tombstones
    BY <1>1, <1>2, <1>5, UpdatedFacts
  <1>6. QED
    BY <1>1, <1>2, <1>3, <1>4, <1>5

LEMMA SurfacesType ==
    ASSUME ClientType, CompanionType, OpType, DriverType, [Next]_vars
    PROVE  surfaces' \in Table
  <1>1. surfaces \in Table /\ FailedAct \in Table
    BY FailedActFacts DEF DriverType, Table
  <1>2. CASE surfaces' = surfaces
    BY <1>1, <1>2
  <1>3. ASSUME NEW id \in Surface, NEW c \in Control, ActSurface(id, c), surfaces' # surfaces
        PROVE  surfaces' \in Table
    BY <1>3, ActSurfaceFacts
  <1>4. CASE SurfaceChanged \/ Fails
    BY <1>1, <1>4 DEF SurfaceChanged, Fails
  <1>5. CASE SurfaceStored
    BY <1>1, <1>5, StoredFacts DEF Table
  <1>6. CASE SurfaceClosed
    BY <1>1, <1>6 DEF SurfaceClosed, Accepted, OpType, Table
  <1>7. CASE Restart
    BY <1>7 DEF Restart, Table
  <1>8. QED
    BY <1>2, <1>3, <1>4, <1>5, <1>6, <1>7, SurfaceSteps DEF vars

LEMMA RememberedType ==
    ASSUME OpType, DriverType, op.kind = "send", NEW res \in {"verified", "uncertain"}
    PROVE  /\ Remembered(res) \in [Key -> Memo \cup {Nil}]
           /\ op.of \in Key
           /\ Remembered(res)[op.of] # Nil /\ Remembered(res)[op.of].result = res
           /\ \A k \in Key : k # op.of => Remembered(res)[k] = memos[k]
  <1> DEFINE m == [conv |-> op.on, result |-> res]
  <1>1. m \in Memo /\ m.result = res /\ op.of \in Key
    BY DEF Memo, OpType
  <1>2. m # Nil
    BY <1>1, NilIsNothing
  <1>3. Remembered(res) = [memos EXCEPT ![op.of] = m]
    BY DEF Remembered
  <1> HIDE DEF m
  <1>4. QED
    BY <1>1, <1>2, <1>3 DEF DriverType

\* The steps that change the memos: a send ends, or the driver does.
LEMMA MemoSteps ==
    ASSUME Next, memos' # memos
    PROVE  WatchBubble \/ Fails \/ Restart
  BY Zenon DEF Next, UiChanges, BubblesChange, UiEvent, Perform, Refuse, CompanionRestart, OpenSurface, SnapshotSurface,
         CloseSurface, ActSurface, SurfaceChanged, SurfaceStored, SurfaceClosed, Send, ChatOpened,
         ChatStable, TextSet, ClickSend, Status, BeginCapture, AuthCaptured, PerformAuthAction,
         AuthSettles, SubmitAuthCode, CodeTyped, CodeSubmitted, driver

LEMMA MemosType ==
    ASSUME OpType, DriverType, [Next]_vars
    PROVE  memos' \in [Key -> Memo \cup {Nil}]
  <1>1. CASE memos' = memos
    BY <1>1 DEF DriverType
  <1>2. CASE Restart
    BY <1>2 DEF Restart
  <1>3. CASE (WatchBubble \/ Fails) /\ memos' # memos
    <2>1. op.kind = "send" /\ \E res \in {"verified", "uncertain"} : memos' = Remembered(res)
      BY <1>3 DEF WatchBubble, Fails, Accepted
    <2>2. QED
      BY <2>1, RememberedType
  <1>4. QED
    BY <1>1, <1>2, <1>3, MemoSteps DEF vars

LEMMA CountersType ==
    ASSUME ClientType, CompanionType, DriverType, [Next]_vars
    PROVE  opened' \in 0 .. MaxSurfaces /\ shown' \in Snapshots \cup {Nil} /\ ops' \in 0 .. MaxOps
  <1>1. opened' = opened \/ \E id \in Surface : opened' = id
    BY Zenon DEF Next, UiChanges, BubblesChange, UiEvent, Perform, Refuse, CompanionRestart, OpenSurface, SnapshotSurface,
         CloseSurface, ActSurface, SurfaceChanged, SurfaceStored, SurfaceClosed, Send, ChatOpened,
         ChatStable, TextSet, ClickSend, WatchBubble, Status, BeginCapture, AuthCaptured,
         PerformAuthAction, AuthSettles, SubmitAuthCode, CodeTyped, CodeSubmitted, Fails, Restart,
         driver, vars
  <1>2. shown' = shown \/ (AuthCaptured /\ shown' = Observed)
    BY Zenon DEF Next, UiChanges, BubblesChange, UiEvent, Perform, Refuse, CompanionRestart, OpenSurface, SnapshotSurface,
         CloseSurface, ActSurface, SurfaceChanged, SurfaceStored, SurfaceClosed, Send, ChatOpened,
         ChatStable, TextSet, ClickSend, WatchBubble, Status, BeginCapture, AuthCaptured,
         PerformAuthAction, AuthSettles, SubmitAuthCode, CodeTyped, CodeSubmitted, Fails, Restart,
         driver, vars
  <1>3. ops' = ops \/ (ops < MaxOps /\ ops' = ops + 1)
    BY Zenon DEF Next, UiChanges, BubblesChange, UiEvent, Perform, Refuse, CompanionRestart, OpenSurface, SnapshotSurface,
         CloseSurface, ActSurface, SurfaceChanged, SurfaceStored, SurfaceClosed, Send, ChatOpened,
         ChatStable, TextSet, ClickSend, WatchBubble, Status, BeginCapture, AuthCaptured,
         PerformAuthAction, AuthSettles, SubmitAuthCode, CodeTyped, CodeSubmitted, Fails, Restart,
         driver, vars, Begins
  <1>4. AuthCaptured => Observed \in Snapshots
    BY Look DEF AuthCaptured
  <1>5. QED
    BY <1>1, <1>2, <1>3, <1>4, BoundsAreNat DEF DriverType, Surface

LEMMA DriverTypeNext ==
    ASSUME ClientType, CompanionType, OpType, DriverType, [Next]_vars
    PROVE  DriverType'
  BY SurfacesType, MemosType, CountersType DEF DriverType, Table

\* A request that was given up keeps everything but its lateness.
LEMMA LateRequest ==
    ASSUME NEW r \in Request
    PROVE  /\ [r EXCEPT !.late = TRUE] \in Request /\ [r EXCEPT !.late = TRUE].late
           /\ [r EXCEPT !.late = TRUE].what = r.what /\ [r EXCEPT !.late = TRUE].cap = r.cap
           /\ [r EXCEPT !.late = TRUE].expected = r.expected
           /\ [r EXCEPT !.late = TRUE].shown = r.shown /\ [r EXCEPT !.late = TRUE].target = r.target
  BY DEF Request

LEMMA LateWire ==
    ASSUME CompanionType, Fails
    PROVE  /\ \A q \in wire' : \E r \in wire :
                 /\ q = [r EXCEPT !.late = TRUE] /\ q \in Request /\ q.late
                 /\ q.what = r.what /\ q.cap = r.cap /\ q.expected = r.expected
                 /\ q.shown = r.shown /\ q.target = r.target
           /\ \A r \in wire : [r EXCEPT !.late = TRUE] \in wire'
  <1>1. wire' = {[r EXCEPT !.late = TRUE] : r \in wire}
    BY DEF Fails
  <1>2. ASSUME NEW r \in wire
        PROVE  /\ [r EXCEPT !.late = TRUE] \in Request /\ [r EXCEPT !.late = TRUE].late
               /\ [r EXCEPT !.late = TRUE].what = r.what /\ [r EXCEPT !.late = TRUE].cap = r.cap
               /\ [r EXCEPT !.late = TRUE].expected = r.expected
               /\ [r EXCEPT !.late = TRUE].shown = r.shown /\ [r EXCEPT !.late = TRUE].target = r.target
    <2>1. r \in Request
      BY DEF CompanionType
    <2>2. QED
      BY <2>1, LateRequest, Zenon
  <1>3. ASSUME NEW q \in wire'
        PROVE  \E r \in wire :
                 /\ q = [r EXCEPT !.late = TRUE] /\ q \in Request /\ q.late
                 /\ q.what = r.what /\ q.cap = r.cap /\ q.expected = r.expected
                 /\ q.shown = r.shown /\ q.target = r.target
    <2>1. PICK r \in wire : q = [r EXCEPT !.late = TRUE]
      BY <1>1, <1>3, Zenon
    <2>2. QED
      BY <1>2, <2>1, Zenon
  <1>4. \A r \in wire : [r EXCEPT !.late = TRUE] \in wire'
    BY <1>1, Zenon
  <1>5. QED
    BY <1>3, <1>4, Zenon

LEMMA EndsType ==
    ASSUME ClientType, CompanionType, Screened, OpType, DriverType, Ends
    PROVE  ClientType' /\ CompanionType' /\ Screened' /\ OpType'
  <1>1. CASE SurfaceClosed \/ CodeSubmitted
    <2>1. op' = Idle /\ UNCHANGED <<seq, observed, armed, consumed, wire, restarts, tree, changes, bubbles, delivered, stray>>
      BY <1>1 DEF SurfaceClosed, CodeSubmitted, End, companion, client
    <2>2. QED
      BY <2>1, IdleType DEF ClientType, CompanionType, Screened
  <1>2. CASE Fails
    <2>1. op' = Idle /\ UNCHANGED <<seq, observed, consumed, restarts, tree, changes, bubbles, delivered, stray>>
      BY <1>2 DEF Fails, End, companion, client
    <2>2. wire' \subseteq Request
      BY <1>2, LateWire
    <2>3. ClientType' /\ CompanionType'
      BY <2>1, <2>2 DEF ClientType, CompanionType
    <2>4. ASSUME NEW q \in wire'
          PROVE  /\ q.what = "open" => q.shown = Nil
                 /\ q.what # "open" =>
                      /\ q.shown \in Screens /\ q.expected <= seq
                      /\ q.expected = seq => observed = [seq |-> seq, tree |-> q.shown]
                 /\ q.what = "type" => q.shown.page \in {"chat", "sms"}
                 /\ q.what = "send" => ReadyToSend(q.shown, q.target) /\ q.cap.what = "send"
      <3>1. PICK r \in wire : /\ q.what = r.what /\ q.cap = r.cap /\ q.expected = r.expected
                              /\ q.shown = r.shown /\ q.target = r.target
        BY <1>2, <2>4, LateWire
      <3>2. QED
        BY <3>1 DEF Screened
    <2>5. tree.page = "chat" => tree.n = bubbles[tree.conv]
      BY DEF Screened
    <2>6. Screened'
      BY <2>1, <2>4, <2>5 DEF Screened
    <2>7. QED
      BY <2>1, <2>3, <2>6, IdleType
  <1>3. CASE Restart
    <2>1. /\ tree' = Screen("home", Nil, "other", 0) /\ wire' = {} /\ op' = op /\ observed' = Nil /\ consumed' = Nil
          /\ UNCHANGED <<changes, bubbles, delivered, stray>>
      BY <1>3 DEF Restart
    <2>2. seq' \in Sequence /\ restarts' \in 0 .. MaxRestarts
      BY <1>3, BoundsAreNat DEF Restart, Sequence, CompanionType, ClientType
    <2>3. ClientType' /\ CompanionType'
      BY <2>1, <2>2, HomeScreen DEF ClientType, CompanionType
    <2>4. Screened'
      BY <2>1, HomeScreen DEF Screened
    <2>5. OpType'
      BY <2>1 DEF OpType
    <2>6. QED
      BY <2>3, <2>4, <2>5
  <1>4. QED
    BY <1>1, <1>2, <1>3 DEF Ends

-----------------------------------------------------------------------------
(* What the driver waits for.                                              *)

\* A step that asks leaves one request that the operation now waits for.
Asked(r) ==
    /\ wire' = wire \cup {r} /\ Decided(r)
    /\ op.reply = "accepted" \/ op.pc \in {"idle", "opened", "typed", "shot"}
    /\ op'.reply = Nil /\ op'.pc \in {"acting", "typing", "clicking"}

AsksPlain(r) ==
    /\ r.cap = Nil /\ op'.kind \notin {"send", "act", "snap"} /\ op.kind # "send" /\ surfaces' = surfaces
    /\ op'.kind = "open" => op'.of = opened + 1 /\ opened' = op'.of

AsksChat(r) ==
    /\ r.cap = Nil /\ r.what # "send" /\ op'.kind = "send" /\ op'.pc = "acting" /\ surfaces' = surfaces
    /\ op.kind # "send" /\ memos[op'.of] = Nil /\ op'.snap.seq = seq'

AsksText(r) ==
    /\ r.cap = Nil /\ r.what # "send" /\ op.kind = "send" /\ op.pc = "opened" /\ surfaces' = surfaces
    /\ op'.kind = "send" /\ op'.pc = "typing" /\ op'.of = op.of /\ op'.on = op.on
    /\ op'.snap.seq = op.snap.seq /\ ValidFrame(tree, op.on) /\ op'.base = tree.n

AsksClick(r) ==
    /\ r.cap = SendCap(op.of) /\ op.kind = "send" /\ op.pc = "typed" /\ surfaces' = surfaces
    /\ op'.kind = "send" /\ op'.pc = "clicking" /\ op'.of = op.of /\ op'.on = op.on
    /\ op'.snap.seq = op.snap.seq /\ op'.base = op.base

AsksAct(r) ==
    /\ r.what = "surface" /\ op'.kind = "act" /\ op'.pc = "acting" /\ op'.of \in Surface /\ op.kind = "idle"
    /\ op'.on \in Control /\ ActSurface(op'.of, op'.on) /\ surfaces' # surfaces
    /\ r.cap = [of |-> op'.of,
                at |-> IF EffectOf(op'.on) = "external_write" THEN 0 ELSE surfaces[op'.of].seq,
                what |-> op'.on]

\* An action that is offered is not offered once it is used.
LEMMA ActUses ==
    ASSUME DriverType, NEW id \in Surface, NEW c \in Control, ActSurface(id, c), op' # Idle
    PROVE  surfaces' # surfaces
  <1>1. surfaces \in Table /\ surfaces[id] # Nil /\ c \in surfaces[id].actions
    BY DEF DriverType, Table, ActSurface, Known
  <1> DEFINE f == Consumed(surfaces, id, c)
  <1>2. f \in Table /\ f[id] # Nil /\ c \notin f[id].actions
    BY <1>1, ConsumedFacts
  <1>3. surfaces' = IF ShouldTombstone(c, TRUE) THEN Tombstoned(f, id, c) ELSE f
    BY DEF ActSurface, Begins
  <1> HIDE DEF f
  <1>4. c \notin surfaces'[id].actions
    <2>1. CASE ShouldTombstone(c, TRUE)
      <3>1. Tombstoned(f, id, c)[id].actions = f[id].actions \ {c}
        BY <1>2, TombstonedFacts
      <3>2. surfaces' = Tombstoned(f, id, c)
        BY <1>3, <2>1
      <3>3. QED
        BY <3>1, <3>2
    <2>2. CASE ~ShouldTombstone(c, TRUE)
      BY <1>2, <1>3, <2>2
    <2>3. QED
      BY <2>1, <2>2
  <1>5. QED
    BY <1>1, <1>4

LEMMA AsksShape ==
    ASSUME ClientType, CompanionType, OpType, DriverType, Awaited, Asks
    PROVE  \/ wire' = wire /\ op' = Idle /\ surfaces' = surfaces
           \/ \E r : Asked(r) /\ \/ AsksPlain(r) \/ AsksChat(r) \/ AsksText(r)
                                 \/ AsksClick(r) \/ AsksAct(r)
  <1>1. Observed.seq = seq' /\ Observed.tree = tree /\ seq' \in Sequence /\ seq' \in 0 .. MaxSequence
        /\ tree \in Screens /\ 0 \in 0 .. MaxSequence
    BY LookSteps, Look, SequenceFacts DEF ClientType
  <1>2. op = Idle => op.kind = "idle" /\ op.pc = "idle"
    BY IdleFields
  <1>3. ASSUME NEW id \in Surface, OpenSurface(id)
        PROVE  Asked(Req("open", Nil, 0, Nil, Nil)) /\ AsksPlain(Req("open", Nil, 0, Nil, Nil))
    <2>1. op' = OpAt("open", "acting", Nil, id, Nil, Observed, 0) /\ op = Idle
      BY <1>3, EnterIs DEF OpenSurface, Begins
    <2>2. /\ op'.kind = "open" /\ op'.pc = "acting" /\ op'.reply = Nil /\ op'.of = id
      BY <2>1, OpFields
    <2>3. wire' = wire \cup {Req("open", Nil, 0, Nil, Nil)} /\ Decided(Req("open", Nil, 0, Nil, Nil))
      BY <1>1, <1>3, Posts, PlainRequest, ReqFields DEF OpenSurface, Decided
    <2>4. id = opened + 1 /\ opened' = id /\ surfaces' = surfaces
      BY <1>3 DEF OpenSurface
    <2>5. QED
      BY <1>2, <2>1, <2>2, <2>3, <2>4, ReqFields DEF Asked, AsksPlain
  <1>4. ASSUME NEW id \in Surface, CloseSurface(id), op' # Idle
        PROVE  \E r : Asked(r) /\ AsksPlain(r)
    <2> DEFINE r == Req("back", Nil, Observed.seq, tree, Nil)
    <2>1. wire' = wire \cup {r} /\ Decided(r) /\ r.cap = Nil
      BY <1>1, <1>4, Posts, PlainRequest, ReqFields DEF CloseSurface, Begins, Decided
    <2>2. op' = OpAt("close", "acting", Nil, id, Nil, Observed, 0) /\ op = Idle
      BY <1>4, EnterIs DEF CloseSurface, Begins
    <2>3. op'.kind = "close" /\ op'.pc = "acting" /\ op'.reply = Nil
      BY <2>2, OpFields
    <2>4. surfaces' = surfaces
      BY <1>4 DEF CloseSurface
    <2>5. QED
      BY <1>2, <2>1, <2>2, <2>3, <2>4 DEF Asked, AsksPlain
  <1>5. ASSUME NEW k \in Key, NEW c \in Conv, Send(k, c)
        PROVE  \E r : Asked(r) /\ AsksChat(r)
    <2> DEFINE r == Req("open", Nil, 0, Nil, Nil)
    <2>1. wire' = wire \cup {r} /\ Decided(r) /\ r.cap = Nil /\ r.what = "open"
      BY <1>1, <1>5, Posts, PlainRequest, ReqFields DEF Send, Decided
    <2>2. op' = OpAt("send", "acting", Nil, k, c, Observed, 0) /\ op = Idle
      BY <1>5, EnterIs DEF Send, Begins
    <2>3. op'.kind = "send" /\ op'.pc = "acting" /\ op'.reply = Nil /\ op'.of = k /\ op'.snap = Observed
      BY <2>2, OpFields
    <2>4. memos[k] = Nil /\ surfaces' = surfaces
      BY <1>5 DEF Send
    <2>5. QED
      BY <1>1, <1>2, <2>1, <2>2, <2>3, <2>4 DEF Asked, AsksChat
  <1>6. ASSUME NEW id \in Surface, NEW c \in Control, ActSurface(id, c), op' # Idle
        PROVE  \E r : Asked(r) /\ AsksAct(r)
    <2> DEFINE cap == [of |-> id, at |-> IF EffectOf(c) = "external_write" THEN 0 ELSE surfaces[id].seq,
                       what |-> c]
               r == Req("surface", cap, Observed.seq, tree, Nil)
    <2>1. surfaces[id] # Nil /\ cap \in Cap
      BY <1>6, ActCap DEF ActSurface, Known
    <2>2. surfaces[id].tree = tree /\ Post("surface", cap, Observed.seq, surfaces[id].tree)
      BY <1>1, <1>6 DEF ActSurface, StillCurrent, Begins
    <2>3. op' = OpAt("act", "acting", Nil, id, c, Observed, 0) /\ op = Idle
      BY <1>6, EnterIs DEF ActSurface, Begins
    <2>4. op'.kind = "act" /\ op'.pc = "acting" /\ op'.reply = Nil /\ op'.of = id /\ op'.on = c
      BY <2>3, OpFields
    <2>5. surfaces' # surfaces
      BY <1>6, ActUses
    <2> HIDE DEF cap
    <2>6. wire' = wire \cup {r}
      BY <2>2, Posts
    <2>7. Decided(r) /\ r.what = "surface" /\ r.cap = cap
      BY <1>1, <2>1, CapRequest, ReqFields DEF Decided
    <2>8. Asked(r)
      BY <1>2, <2>3, <2>4, <2>6, <2>7 DEF Asked
    <2>9. AsksAct(r)
      BY <1>2, <1>6, <2>3, <2>4, <2>5, <2>7 DEF AsksAct, cap
    <2>10. QED
      BY <2>8, <2>9
  <1>7. ASSUME ChatStable, op' # Idle
        PROVE  \E r : Asked(r) /\ AsksText(r)
    <2> DEFINE r == Req("type", Nil, Observed.seq, tree, Nil)
    <2>1. /\ wire' = wire \cup {r} /\ ValidFrame(tree, op.on) /\ SameFrame(op.snap, Observed)
          /\ op.kind = "send" /\ op.pc = "opened" /\ surfaces' = surfaces
      BY <1>7, Posts DEF ChatStable, End
    <2>2. Decided(r) /\ r.cap = Nil /\ r.what = "type"
      BY <1>1, <2>1, PlainRequest, ReqFields DEF Decided, ValidFrame
    <2>3. op' = OpAt(op.kind, "typing", op.reply, op.of, op.on, Observed, tree.n)
      BY <1>7, BaseIs DEF ChatStable, End
    <2>4. /\ op'.kind = "send" /\ op'.pc = "typing" /\ op'.reply = op.reply /\ op'.of = op.of
          /\ op'.on = op.on /\ op'.snap = Observed /\ op'.base = tree.n
      BY <2>1, <2>3, OpFields
    <2>5. op.reply = Nil
      BY <2>1 DEF Awaited
    <2>6. QED
      BY <2>1, <2>2, <2>4, <2>5 DEF Asked, AsksText, SameFrame
  <1>8. ASSUME ClickSend, op' # Idle
        PROVE  \E r : Asked(r) /\ AsksClick(r)
    <2> DEFINE r == Req("send", SendCap(op.of), Observed.seq, tree, op.on)
    <2>1. /\ wire' = wire \cup {r} /\ ReadyToSend(tree, op.on) /\ SameFrame(op.snap, Observed)
          /\ op.kind = "send" /\ op.pc = "typed" /\ surfaces' = surfaces
      BY <1>8, Posts DEF ClickSend, SendCap, End
    <2>2. op.of \in Key /\ op.on \in Conv /\ SendCap(op.of) \in Cap /\ SendCap(op.of).what = "send"
      BY <2>1, SendCapType DEF OpType, SendCap
    <2>3. Decided(r) /\ r.cap = SendCap(op.of)
      BY <1>1, <2>1, <2>2, CapRequest, ReqFields DEF Decided
    <2>4. op' = OpAt(op.kind, "clicking", Nil, op.of, op.on, Observed, op.base)
      BY <1>8, ContinueIs DEF ClickSend, End
    <2>5. /\ op'.kind = "send" /\ op'.pc = "clicking" /\ op'.reply = Nil /\ op'.of = op.of
          /\ op'.on = op.on /\ op'.snap = Observed /\ op'.base = op.base
      BY <2>1, <2>4, OpFields
    <2>6. QED
      BY <2>1, <2>3, <2>5 DEF Asked, AsksClick, SameFrame
  <1>9. ASSUME PerformAuthAction \/ CodeTyped, op' # Idle
        PROVE  \E r : Asked(r) /\ AsksPlain(r)
    <2>1. PICK what \in {"auth", "submit"} : wire' = wire \cup {Req(what, Nil, Observed.seq, tree, Nil)}
      BY <1>1, <1>9, Posts DEF PerformAuthAction, CodeTyped, BoundTo, End
    <2> DEFINE r == Req(what, Nil, Observed.seq, tree, Nil)
    <2>2. Decided(r) /\ r.cap = Nil
      BY <1>1, PlainRequest, ReqFields DEF Decided
    <2>3. /\ op' = OpAt(op.kind, "acting", Nil, op.of, op.on, Observed, op.base)
          /\ op.kind \in {"auth", "code"} /\ (op.reply = "accepted" \/ op.pc = "shot") /\ surfaces' = surfaces
      BY <1>9, ContinueIs DEF PerformAuthAction, CodeTyped, Accepted, End
    <2>4. op'.kind = op.kind /\ op'.pc = "acting" /\ op'.reply = Nil
      BY <2>3, OpFields
    <2>5. QED
      BY <2>1, <2>2, <2>3, <2>4 DEF Asked, AsksPlain
  <1>10. ASSUME SubmitAuthCode, op' # Idle
        PROVE  \E r : Asked(r) /\ AsksPlain(r)
    <2> DEFINE r == Req("type", Nil, Observed.seq, tree, Nil)
    <2>1. wire' = wire \cup {r} /\ tree.page = "sms"
      BY <1>10, Posts DEF SubmitAuthCode, SmsScreen, Begins
    <2>2. Decided(r) /\ r.cap = Nil
      BY <1>1, <2>1, PlainRequest, ReqFields DEF Decided
    <2>3. /\ op' = OpAt("code", "typing", Nil, Nil, Nil, Observed, 0) /\ op = Idle /\ surfaces' = surfaces
      BY <1>10, EnterIs DEF SubmitAuthCode, Begins
    <2>4. op'.kind = "code" /\ op'.pc = "typing" /\ op'.reply = Nil
      BY <2>3, OpFields
    <2>5. QED
      BY <1>2, <2>1, <2>2, <2>3, <2>4 DEF Asked, AsksPlain
  <1>11. ASSUME op' = Idle, Asks
         PROVE  wire' = wire /\ surfaces' = surfaces
    <2>1. op'.kind = "idle" /\ op'.pc = "idle"
      BY <1>11, IdleFields
    <2>2. ASSUME NEW kind, NEW pc \in Pcs, NEW y, NEW of, NEW on, NEW s, NEW b
          PROVE  op' # OpAt(kind, pc, y, of, on, s, b)
      BY <2>1, OpFields DEF Pcs
    <2>3. /\ \A kind, of, on, s : \A pc \in Pcs : ~Enter(kind, pc, of, on, s)
          /\ \A s : \A pc \in Pcs : ~Continue(pc, s)
      BY <2>2, EnterIs, ContinueIs
    <2>4. \A s, b : op' # [op EXCEPT !.pc = "typing", !.snap = s, !.base = b]
      <3>1. ASSUME NEW s, NEW b, op' = [op EXCEPT !.pc = "typing", !.snap = s, !.base = b]
            PROVE  FALSE
        <4>1. op' = OpAt(op.kind, "typing", op.reply, op.of, op.on, s, b)
          BY <3>1, BaseIs
        <4>2. op'.pc = "typing"
          BY <4>1, OpFields
        <4>3. QED
          BY <2>1, <4>2
      <3>2. QED
        BY <3>1, Zenon
    <2>5. QED
      BY <1>11, <2>3, <2>4, Zenon DEF Asks, OpenSurface, CloseSurface, ActSurface, Send, ChatStable, ClickSend,
         PerformAuthAction, SubmitAuthCode, CodeTyped, Pcs
  <1>12. QED
    BY <1>3, <1>4, <1>5, <1>6, <1>7, <1>8, <1>9, <1>10, <1>11 DEF Asks

\* A step that watches waits for nothing: the act was answered, or there was none.
Answerless == op = Idle \/ op.reply = "accepted" \/ op.pc \in {"opened", "typed", "shot"}

WatchEnds ==
    /\ op' = Idle
    /\ op.kind = "send" /\ op.pc \in {"clicking", "seen"} =>
          \E res \in {"verified", "uncertain"} : memos' = Remembered(res)

WatchEnters ==
    /\ op = Idle /\ op'.kind \in {"snap", "look", "auth"} /\ op'.pc = "shot" /\ op'.reply = Nil
    /\ op'.kind = "snap" => surfaces[op'.of] # Nil /\ op'.snap.tree.page = surfaces[op'.of].page
    /\ surfaces' = surfaces

WatchShoots ==
    /\ op.kind \in {"open", "act"} /\ op.reply = "accepted" /\ surfaces' = surfaces
    /\ op'.kind = op.kind /\ op'.of = op.of /\ op'.pc = "shot" /\ op'.reply = Nil
    /\ op.kind = "act" => op'.snap.tree.page = surfaces[op.of].page

WatchFrames ==
    /\ op.kind = "send" /\ op.reply = "accepted" /\ surfaces' = surfaces
    /\ <<op.pc, op'.pc>> \in {<<"acting", "opened">>, <<"typing", "typed">>}
    /\ op'.kind = op.kind /\ op'.of = op.of /\ op'.on = op.on /\ op'.base = op.base
    /\ op'.reply = Nil /\ op'.snap.seq = seq' /\ seq' > op.snap.seq

WatchBubbles ==
    /\ op.kind = "send" /\ op.reply = "accepted" /\ surfaces' = surfaces
    /\ op.pc \in {"clicking", "seen"} /\ op'.pc \in {"clicking", "seen"}
    /\ op'.kind = op.kind /\ op'.of = op.of /\ op'.on = op.on /\ op'.base = op.base
    /\ op'.reply = op.reply /\ op'.snap = op.snap

WatchSettles ==
    /\ op.kind = "auth" /\ op'.kind = "auth" /\ op'.pc \in {"acting", "settle"} /\ surfaces' = surfaces

LEMMA WatchesShape ==
    ASSUME ClientType, CompanionType, OpType, DriverType, Watches
    PROVE  /\ Answerless /\ wire' = wire
           /\ \/ WatchEnds \/ WatchEnters \/ WatchShoots
              \/ WatchFrames \/ WatchBubbles \/ WatchSettles
  <1>1. Observed.seq = seq' /\ Observed.tree = tree
    BY LookSteps, Look
  <1>2. Answerless
    BY Zenon DEF Watches, Answerless, SnapshotSurface, SurfaceChanged, SurfaceStored, ChatOpened, TextSet,
         WatchBubble, Status, BeginCapture, AuthCaptured, AuthSettles, Begins, Accepted
  <1> SUFFICES WatchEnds \/ WatchEnters \/ WatchShoots \/ WatchFrames \/ WatchBubbles \/ WatchSettles
    BY <1>2, WatchesWire
  <1>3. op = Idle => op.kind = "idle"
    BY IdleFields
  <1>4. ASSUME NEW id \in Surface, SnapshotSurface(id)
        PROVE  WatchEnds \/ WatchEnters
    <2>1. CASE op' = op
      BY <1>3, <1>4, <2>1 DEF SnapshotSurface, Begins, WatchEnds
    <2>2. CASE op' # op
      <3>1. /\ op' = OpAt("snap", "shot", Nil, id, Nil, Observed, 0) /\ op = Idle /\ surfaces' = surfaces
            /\ surfaces[id] # Nil /\ tree.page = surfaces[id].page
        BY <1>4, <2>2, EnterIs DEF SnapshotSurface, Begins, Known
      <3>2. op'.kind = "snap" /\ op'.pc = "shot" /\ op'.reply = Nil /\ op'.of = id /\ op'.snap = Observed
        BY <3>1, OpFields
      <3>3. QED
        BY <1>1, <3>1, <3>2 DEF WatchEnters
    <2>3. QED
      BY <2>1, <2>2
  <1>5. ASSUME NEW kind \in {"look", "auth"}, BeginCapture(kind)
        PROVE  WatchEnds \/ WatchEnters
    <2>1. CASE op' = op
      BY <1>3, <1>5, <2>1 DEF BeginCapture, Begins, WatchEnds
    <2>2. CASE op' # op
      <3>1. /\ \E on : op' = OpAt(kind, "shot", Nil, Nil, on, Observed, 0)
            /\ op = Idle /\ surfaces' = surfaces
        BY <1>5, <2>2, EnterIs DEF BeginCapture, Begins
      <3>2. op'.kind = kind /\ op'.pc = "shot" /\ op'.reply = Nil
        BY <3>1, OpFields
      <3>3. QED
        BY <3>1, <3>2 DEF WatchEnters
    <2>3. QED
      BY <2>1, <2>2
  <1>6. CASE SurfaceChanged
    <2>1. op.kind \in {"open", "act"} /\ op.reply = "accepted"
      BY <1>6 DEF SurfaceChanged, Accepted
    <2>2. CASE op' = Idle
      BY <2>1, <2>2 DEF WatchEnds
    <2>3. CASE op' # Idle
      <3>1. /\ op' = OpAt(op.kind, "shot", Nil, op.of, op.on, Observed, op.base) /\ surfaces' = surfaces
            /\ op.kind = "act" => tree.page = surfaces[op.of].page
        BY <1>6, <2>3, ContinueIs DEF SurfaceChanged, End
      <3>2. op'.kind = op.kind /\ op'.pc = "shot" /\ op'.reply = Nil /\ op'.of = op.of /\ op'.snap = Observed
        BY <3>1, OpFields
      <3>3. QED
        BY <1>1, <2>1, <3>1, <3>2 DEF WatchShoots
    <2>4. QED
      BY <2>2, <2>3
  <1>7. CASE SurfaceStored \/ AuthCaptured
    BY <1>7 DEF SurfaceStored, AuthCaptured, End, WatchEnds
  <1>8. CASE ChatOpened \/ TextSet
    <2>1. op.kind = "send" /\ op.reply = "accepted" /\ op.pc \in {"acting", "typing"} /\ surfaces' = surfaces
          /\ Observed.seq > op.snap.seq
      BY <1>8 DEF ChatOpened, TextSet, Accepted
    <2>2. CASE op' = Idle
      BY <2>1, <2>2 DEF WatchEnds
    <2>3. CASE op' # Idle
      <3>1. PICK pc \in {"opened", "typed"} :
                    /\ Continue(pc, Observed)
                    /\ <<op.pc, pc>> \in {<<"acting", "opened">>, <<"typing", "typed">>}
        BY <1>8, <2>3 DEF ChatOpened, TextSet, Accepted, End
      <3>2. op' = OpAt(op.kind, pc, Nil, op.of, op.on, Observed, op.base)
        BY <3>1, ContinueIs
      <3>3. /\ op'.kind = op.kind /\ op'.pc = pc /\ op'.reply = Nil /\ op'.of = op.of /\ op'.on = op.on
            /\ op'.snap = Observed /\ op'.base = op.base
        BY <3>2, OpFields
      <3>4. QED
        BY <1>1, <2>1, <3>1, <3>3 DEF WatchFrames
    <2>4. QED
      BY <2>2, <2>3
  <1>9. CASE WatchBubble
    <2>1. op.kind = "send" /\ op.reply = "accepted" /\ op.pc \in {"clicking", "seen"} /\ surfaces' = surfaces
      BY <1>9 DEF WatchBubble, Accepted
    <2>2. \/ op' = Idle /\ \E res \in {"verified", "uncertain"} : memos' = Remembered(res)
          \/ \E pc \in {"clicking", "seen"} : op' = [op EXCEPT !.pc = pc]
      BY <1>9 DEF WatchBubble, End
    <2>3. CASE op' = Idle /\ \E res \in {"verified", "uncertain"} : memos' = Remembered(res)
      BY <2>3 DEF WatchEnds
    <2>4. ASSUME NEW pc \in {"clicking", "seen"}, op' = [op EXCEPT !.pc = pc]
          PROVE  WatchBubbles
      <3>1. op' = OpAt(op.kind, pc, op.reply, op.of, op.on, op.snap, op.base)
        BY <2>4, PcIs
      <3>2. /\ op'.kind = op.kind /\ op'.pc = pc /\ op'.reply = op.reply /\ op'.of = op.of /\ op'.on = op.on
            /\ op'.snap = op.snap /\ op'.base = op.base
        BY <3>1, OpFields
      <3>3. QED
        BY <2>1, <3>2 DEF WatchBubbles
    <2>5. QED
      BY <2>2, <2>3, <2>4
  <1>10. CASE Status
    BY <1>3, <1>10 DEF Status, driver, WatchEnds
  <1>11. CASE AuthSettles
    <2>1. op.kind = "auth" /\ surfaces' = surfaces
          /\ (op' = Idle \/ \E pc \in {"acting", "settle"} : op' = [op EXCEPT !.pc = pc])
      BY <1>11 DEF AuthSettles, Accepted, End
    <2>2. op' = Idle \/ \E pc \in {"acting", "settle"} : op' = OpAt(op.kind, pc, op.reply, op.of, op.on, op.snap, op.base)
      BY <2>1, PcIs
    <2>3. op' = Idle \/ (op'.kind = "auth" /\ op'.pc \in {"acting", "settle"})
      BY <2>1, <2>2, OpFields
    <2>4. QED
      BY <2>1, <2>3 DEF WatchEnds, WatchSettles
  <1>12. QED
    BY <1>2, <1>4, <1>5, <1>6, <1>7, <1>8, <1>9, <1>10, <1>11 DEF Watches

\* An answer changes the operation's reply alone.
LEMMA ReactsShape ==
    ASSUME OpType, Awaited, Reacts
    PROVE  /\ wire' \subseteq wire /\ UNCHANGED <<surfaces, memos, opened, restarts>>
           /\ op'.kind = op.kind /\ op'.pc = op.pc /\ op'.of = op.of /\ op'.on = op.on
           /\ op'.snap = op.snap /\ op'.base = op.base
           /\ \/ op' = op
              \/ \E r \in wire, y \in {"accepted", "refused"} :
                   /\ ~r.late /\ wire' = wire \ {r} /\ op'.reply = y
                   /\ y = "refused" => Refuse(r)
                   /\ y = "accepted" => Perform(r)
  <1>1. /\ wire' \subseteq wire /\ UNCHANGED <<surfaces, memos, opened, restarts>>
        /\ \/ op' = op
           \/ \E r \in wire, y \in {"accepted", "refused"} :
                /\ ~r.late /\ wire' = wire \ {r} /\ op' = [op EXCEPT !.reply = y]
                /\ y = "refused" => Refuse(r)
                /\ y = "accepted" => Perform(r)
    BY DEF Reacts, UiChanges, BubblesChange, UiEvent, CompanionRestart, Perform, Refuse, Answered, driver
  <1>2. CASE op' = op
    BY <1>1, <1>2
  <1>3. ASSUME NEW r \in wire, NEW y \in {"accepted", "refused"}, op' = [op EXCEPT !.reply = y]
        PROVE  /\ op'.kind = op.kind /\ op'.pc = op.pc /\ op'.of = op.of /\ op'.on = op.on
               /\ op'.snap = op.snap /\ op'.base = op.base /\ op'.reply = y
    <2>1. op' = OpAt(op.kind, op.pc, y, op.of, op.on, op.snap, op.base)
      BY <1>3, ReplyIs
    <2>2. QED
      BY <2>1, OpFields
  <1>4. QED
    BY <1>1, <1>2, <1>3

LEMMA NoAnswerTwice ==
    Nil # "accepted" /\ Nil # "refused"
  BY NilIsNothing

LEMMA AsksAnswerless ==
    ASSUME Asks
    PROVE  Answerless
  BY Zenon DEF Asks, Answerless, OpenSurface, CloseSurface, ActSurface, Send, ChatStable, ClickSend,
         PerformAuthAction, SubmitAuthCode, CodeTyped, Begins, Accepted

LEMMA AwaitedNext ==
    ASSUME ClientType, CompanionType, OpType, DriverType, Awaited, Next
    PROVE  Awaited'
  <1>1. CASE Asks
    <2>1. CASE wire' = wire /\ op' = Idle /\ surfaces' = surfaces
      <3>1. op'.pc = "idle"
        BY <2>1, IdleFields
      <3>2. ASSUME NEW r \in wire PROVE r.late
        BY <1>1, AsksAnswerless, NoAnswerTwice, IdleFields DEF Awaited, Answerless
      <3>3. QED
        BY <2>1, <3>1, <3>2 DEF Awaited
    <2>2. ASSUME NEW r, Asked(r), AsksPlain(r) \/ AsksChat(r) \/ AsksText(r) \/ AsksClick(r) \/ AsksAct(r)
          PROVE  Awaited'
      <3>1. ASSUME NEW q \in wire PROVE q.late
        BY <2>2, NoAnswerTwice DEF Awaited, Asked
      <3>2. /\ wire' = wire \cup {r} /\ op'.reply = Nil /\ op'.pc \in {"acting", "typing", "clicking"}
        BY <2>2 DEF Asked
      <3>3. op'.kind = "send" /\ op'.pc = "clicking" => AsksClick(r)
        BY <2>2 DEF AsksPlain, AsksChat, AsksText, AsksAct
      <3>4. op'.kind = "send" /\ op'.pc = "clicking" => r.cap = SendCap(op'.of)
        BY <3>3 DEF AsksClick
      <3>5. SendCap(op'.of) = SendCap(op.of)'
        BY <1>1, LookSteps, Look DEF SendCap
      <3>6. QED
        BY <3>1, <3>2, <3>4, <3>5 DEF Awaited
    <2>3. QED
      BY <1>1, <2>1, <2>2, AsksShape
  <1>2. CASE Watches
    <2>1. ASSUME NEW r \in wire PROVE r.late
      BY <1>2, WatchesShape, NoAnswerTwice, IdleFields DEF Awaited, Answerless
    <2>2. wire' = wire
      BY <1>2, WatchesShape
    <2>3. op'.pc \in {"opened", "typed", "shot"} => op'.reply = Nil
      BY <1>2, WatchesShape, IdleFields DEF WatchEnds, WatchEnters, WatchShoots, WatchFrames, WatchBubbles,
         WatchSettles
    <2>4. QED
      BY <2>1, <2>2, <2>3 DEF Awaited
  <1>3. CASE Reacts
    <2>1. /\ wire' \subseteq wire /\ op'.pc = op.pc /\ op'.kind = op.kind /\ op'.of = op.of /\ restarts' = restarts
      BY <1>3, ReactsShape
    <2>2. CASE op' = op
      BY <2>1, <2>2 DEF Awaited, SendCap
    <2>3. ASSUME NEW r \in wire, ~r.late, wire' = wire \ {r}
          PROVE  Awaited'
      <3>1. ASSUME NEW q \in wire' PROVE q.late
        BY <2>3 DEF Awaited
      <3>2. op'.pc \notin {"opened", "typed", "shot"}
        BY <2>1, <2>3 DEF Awaited
      <3>3. QED
        BY <3>1, <3>2 DEF Awaited
    <2>4. QED
      BY <1>3, <2>2, <2>3, ReactsShape
  <1>4. CASE SurfaceClosed \/ CodeSubmitted
    <2>1. op.reply = "accepted" /\ op' = Idle /\ wire' = wire
      BY <1>4 DEF SurfaceClosed, CodeSubmitted, Accepted, End
    <2>2. ASSUME NEW r \in wire PROVE r.late
      BY <2>1, NoAnswerTwice DEF Awaited
    <2>3. QED
      BY <2>1, <2>2, IdleFields DEF Awaited
  <1>5. CASE Fails
    <2>1. \A q \in wire' : q.late
      BY <1>5, LateWire
    <2>2. op' = Idle
      BY <1>5 DEF Fails, End
    <2>3. QED
      BY <2>1, <2>2, IdleFields DEF Awaited
  <1>6. CASE Restart
    <2>1. wire' = {} /\ op' = Idle
      BY <1>6 DEF Restart
    <2>2. QED
      BY <2>1, IdleFields DEF Awaited
  <1>7. QED
    BY <1>1, <1>2, <1>3, <1>4, <1>5, <1>6, Steps DEF Ends

-----------------------------------------------------------------------------
(* Acts meet the screen they were decided on.                              *)

ActInv == ClientType /\ CompanionType /\ OpType /\ DriverType /\ Screened /\ Awaited

LEMMA ActInvInit == Init => ActInv
  <1> SUFFICES ASSUME Init
               PROVE  ActInv
    OBVIOUS
  <1>1. seq = 1 /\ 1 \in Sequence
    BY BoundsAreNat DEF Init, Sequence
  <1>2. ClientType /\ Screened
    BY <1>1, HomeScreen, BoundsAreNat DEF Init, ClientType, Screened
  <1>3. CompanionType /\ DriverType
    BY <1>1, BoundsAreNat DEF Init, CompanionType, DriverType
  <1>4. OpType
    BY BoundsAreNat DEF Init, OpType, Operation, Idle
  <1>5. Awaited
    BY IdleFields DEF Init, Awaited
  <1>6. QED
    BY <1>2, <1>3, <1>4, <1>5 DEF ActInv

LEMMA ActInvNext ==
    ASSUME ActInv, [Next]_vars
    PROVE  ActInv'
  <1>1. CASE UNCHANGED vars
    BY <1>1, DriverTypeNext DEF ActInv, vars, ClientType, CompanionType, OpType, Screened, Awaited, SendCap
  <1>2. CASE Next
    <2>1. DriverType' /\ Awaited'
      BY <1>2, DriverTypeNext, AwaitedNext DEF ActInv
    <2>2. CASE Asks
      BY <2>1, <2>2, LookSteps, AsksWire, LookScreened, AsksOp DEF ActInv
    <2>3. CASE Watches
      BY <2>1, <2>3, LookSteps, WatchesWire, LookScreened, WatchesOp DEF ActInv
    <2>4. CASE Reacts
      BY <2>1, <2>4, ReactsType, ReactsOp DEF ActInv
    <2>5. CASE Ends
      BY <2>1, <2>5, EndsType DEF ActInv
    <2>6. QED
      BY <1>2, <2>2, <2>3, <2>4, <2>5, Steps
  <1>3. QED
    BY <1>1, <1>2

LEMMA ActInvariant == Spec => []ActInv
  <1>1. ActInv /\ [Next]_vars => ActInv'
    BY ActInvNext
  <1>2. QED
    BY <1>1, ActInvInit, PTL DEF Spec

\* ActsOnWhatWasShown: whatever is late, lost or restarted, the companion
\* performs an act only on the very screen the driver decided it on
\* (ExpectedSequence of every CompanionAction, SemanticSnapshotGuard).
THEOREM ActsCorrect == Spec => ActsOnWhatWasShown
  <1> DEFINE Meets == \A r \in wire : Perform(r) /\ r.shown # Nil => r.shown = tree
  <1>1. ActInv => Meets
    <2> SUFFICES ASSUME ActInv, NEW r \in wire, Perform(r), r.shown # Nil
                 PROVE  r.shown = tree
      OBVIOUS
    <2>1. Guarded(r)
      BY DEF Perform
    <2>2. r.what # "open"
      BY DEF ActInv, Screened
    <2>3. QED
      BY <2>1, <2>2, GuardMeets DEF ActInv
  <1>2. ActInv => [Meets]_vars
    BY <1>1
  <1> HIDE DEF Meets
  <1>3. Spec => [][Meets]_vars
    BY <1>2, ActInvariant, PTL
  <1>4. QED
    BY <1>3 DEF ActsOnWhatWasShown, Meets

\* SendsHitTheirTarget: a click on the send button that reaches the client
\* meets the chat of the conversation it was requested for, with the
\* requested text in the input (validateChatFrame before the click).
THEOREM TargetsCorrect == Spec => SendsHitTheirTarget
  <1> DEFINE Hits == \A r \in wire : Perform(r) /\ r.what = "send" =>
                        tree.page = "chat" /\ tree.conv = r.target /\ tree.typed = "text"
  <1>1. ActInv => Hits
    <2> SUFFICES ASSUME ActInv, NEW r \in wire, Perform(r), r.what = "send"
                 PROVE  tree.page = "chat" /\ tree.conv = r.target /\ tree.typed = "text"
      OBVIOUS
    <2>1. Guarded(r)
      BY DEF Perform
    <2>2. r.shown = tree
      BY <2>1, GuardMeets DEF ActInv
    <2>3. ReadyToSend(r.shown, r.target)
      BY DEF ActInv, Screened
    <2>4. QED
      BY <2>2, <2>3 DEF ReadyToSend, ValidFrame
  <1>2. ActInv => [Hits]_vars
    BY <1>1
  <1> HIDE DEF Hits
  <1>3. Spec => [][Hits]_vars
    BY <1>2, ActInvariant, PTL
  <1>4. QED
    BY <1>3 DEF SendsHitTheirTarget, Hits

-----------------------------------------------------------------------------
(* A verified send was made.                                               *)

\* The numbers that the requests and the operation carry.
LEMMA Numbers ==
    ASSUME CompanionType, OpType
    PROVE  /\ seq \in Nat
           /\ \A r \in wire : r.expected \in Nat
           /\ op.kind # "idle" => op.snap.seq \in Nat /\ op.base \in Nat
  <1>1. seq \in Nat
    BY SequenceFacts DEF CompanionType
  <1>2. ASSUME NEW r \in wire PROVE r.expected \in Nat
    BY RequestFacts DEF CompanionType
  <1>3. op.kind # "idle" => op.snap.seq \in Nat /\ op.base \in Nat
    <2>1. ASSUME op.kind # "idle"
          PROVE  op.snap \in Snapshots /\ op.base \in 0 .. MaxBubbles
      BY <2>1, OpSnap, Zenon
    <2>2. \A s \in Snapshots : s.seq \in Nat
      BY SequenceFacts DEF Snapshots
    <2>3. \A n \in 0 .. MaxBubbles : n \in Nat
      BY BoundsAreNat
    <2>4. QED
      BY <2>1, <2>2, <2>3, Zenon
  <1>4. QED
    BY <1>1, <1>2, <1>3

\* What a performed click on the send button can change while a send is watched.
LEMMA ClickMeets ==
    ASSUME ActInv, Watching, op.kind = "send", NEW r \in wire, r.what = "send", Guarded(r)
    PROVE  /\ op.pc \notin {"opened", "typing", "typed"}
           /\ op.pc \in {"clicking", "seen"} => r.cap = SendCap(op.of)
  <1>1. r.expected = seq
    BY GuardMeets DEF ActInv
  <1>2. seq \in Nat /\ op.snap.seq \in Nat /\ op.snap.seq <= seq
    BY Numbers DEF ActInv, Watching
  <1>3. ~(r.expected < op.snap.seq)
    BY <1>1, <1>2
  <1>4. QED
    BY <1>3 DEF Watching

LEMMA UseDomain ==
    ASSUME NEW c, uses' = uses (+) SetToBag({c})
    PROVE  DOMAIN uses' = DOMAIN uses \cup {c}
  BY DEF (+), SetToBag

\* Only the companion performs a capability, and it takes it off the wire.
LEMMA UseSteps ==
    ASSUME [Next]_vars, uses' # uses
    PROVE  \E r \in wire : /\ Perform(r) /\ r.cap # Nil /\ wire' = wire \ {r}
                           /\ uses' = uses (+) SetToBag({r.cap})
  <1>1. UNCHANGED vars => uses' = uses
    BY DEF vars
  <1>2. Asks \/ Watches => uses' = uses
    BY LookSteps DEF Observe, client
  <1>3. Ends => uses' = uses
    BY DEF Ends, SurfaceClosed, CodeSubmitted, Fails, Restart, client
  <1>4. Reacts => \/ uses' = uses
                  \/ \E r \in wire : /\ Perform(r) /\ r.cap # Nil /\ wire' = wire \ {r}
                                     /\ uses' = uses (+) SetToBag({r.cap})
    BY Zenon DEF Reacts, UiChanges, BubblesChange, UiEvent, CompanionRestart, Refuse, Perform, client
  <1>5. QED
    BY <1>1, <1>2, <1>3, <1>4, Steps

\* Nothing that was performed or delivered is undone.
LEMMA Grows ==
    ASSUME ActInv, [Next]_vars
    PROVE  /\ delivered \subseteq delivered' /\ stray \subseteq stray' /\ DOMAIN uses \subseteq DOMAIN uses'
           /\ restarts' = restarts \/ Restart
  <1>1. DOMAIN uses \subseteq DOMAIN uses'
    BY UseSteps, UseDomain
  <1>2. CASE UNCHANGED vars
    BY <1>1, <1>2 DEF vars
  <1>3. CASE Asks \/ Watches
    BY <1>1, <1>3, LookSteps, Look DEF ActInv
  <1>4. CASE Reacts
    <2>1. restarts' = restarts
      BY <1>4, ReactsShape DEF ActInv
    <2>2. ASSUME NEW r \in wire, Perform(r)
          PROVE  delivered \subseteq delivered' /\ stray' = stray
      BY <2>2, Effects DEF ActInv, Perform
    <2>3. ASSUME NEW c \in Conv, NEW n \in 0 .. MaxBubbles, BubblesChange(c, n)
          PROVE  delivered \subseteq delivered' /\ stray \subseteq stray'
      BY <2>3, BubblesFacts DEF ActInv
    <2>4. QED
      BY <1>1, <1>4, <2>1, <2>2, <2>3 DEF Reacts, UiChanges, UiEvent, CompanionRestart, Refuse, client
  <1>5. CASE Ends
    BY <1>1, <1>5 DEF Ends, SurfaceClosed, CodeSubmitted, Fails, Restart, client
  <1>6. QED
    BY <1>2, <1>3, <1>4, <1>5, Steps

LEMMA BubblesNat ==
    ASSUME ClientType, NEW c \in Conv
    PROVE  bubbles[c] \in Nat
  BY BoundsAreNat DEF ClientType

LEMMA WatchingNext ==
    ASSUME ActInv, Watching, Next
    PROVE  Watching'
  <1>1. CASE op'.kind # "send"
    BY <1>1 DEF Watching
  <1>2. CASE Asks /\ op'.kind = "send"
    <2>1. /\ seq' \in Nat /\ seq <= seq' /\ UNCHANGED <<bubbles, uses, delivered, stray, restarts>>
      BY <1>2, LookSteps, Look, SequenceFacts DEF ActInv
    <2>2. seq \in Nat /\ \A q \in wire : q.expected \in Nat
      BY Numbers DEF ActInv
    <2>3. ASSUME NEW q \in wire, q.what = "send"
          PROVE  q.expected <= seq
      BY <2>3 DEF ActInv, Screened
    <2>4. ASSUME NEW r, Asked(r), AsksChat(r)
          PROVE  Watching'
      <3>1. /\ wire' = wire \cup {r} /\ r.what # "send" /\ op'.pc = "acting" /\ op'.snap.seq = seq'
        BY <2>4 DEF Asked, AsksChat
      <3>2. \A q \in wire' : q.what = "send" => q.expected <= op'.snap.seq
        BY <2>1, <2>2, <2>3, <3>1
      <3>3. QED
        BY <2>1, <3>1, <3>2 DEF Watching, Watched
    <2>5. ASSUME NEW r, Asked(r), AsksText(r)
          PROVE  Watching'
      <3>1. /\ wire' = wire \cup {r} /\ r.what # "send" /\ op'.pc = "typing" /\ op'.snap.seq = op.snap.seq
            /\ op.kind = "send" /\ op.pc = "opened" /\ op'.on = op.on
            /\ op'.base = tree.n /\ tree.page = "chat" /\ tree.conv = op.on
        BY <2>5 DEF Asked, AsksText, ValidFrame
      <3>2. bubbles[op.on] = tree.n
        BY <3>1 DEF ActInv, Screened
      <3>3. op.snap.seq \in Nat /\ op.snap.seq <= seq
        BY <3>1, Numbers DEF ActInv, Watching
      <3>4. \A q \in wire' : q.what = "send" => q.expected < op'.snap.seq
        BY <3>1 DEF Watching
      <3>5. op'.snap.seq <= seq' /\ bubbles'[op'.on] <= op'.base
        <4>1. bubbles[op.on] \in Nat
          BY <3>1, BubblesNat DEF ActInv, OpType
        <4>2. QED
          BY <2>1, <2>2, <3>1, <3>2, <3>3, <4>1
      <3>6. QED
        BY <3>1, <3>4, <3>5 DEF Watching
    <2>6. ASSUME NEW r, Asked(r), AsksClick(r)
          PROVE  Watching'
      <3>1. /\ wire' = wire \cup {r} /\ r.cap = SendCap(op.of) /\ op'.pc = "clicking"
            /\ op'.snap.seq = op.snap.seq /\ op.kind = "send" /\ op.pc = "typed"
            /\ op'.of = op.of /\ op'.on = op.on /\ op'.base = op.base
        BY <2>6 DEF Asked, AsksClick
      <3>2. op.snap.seq \in Nat /\ op.snap.seq <= seq
        BY <3>1, Numbers DEF ActInv, Watching
      <3>3. /\ op'.snap.seq <= seq' /\ op'.reply = Nil
            /\ bubbles'[op'.on] <= op'.base \/ SendCap(op.of) \in delivered' \cup stray'
        BY <2>1, <2>2, <2>6, <3>1, <3>2 DEF Watching, Watched, Asked
      <3>4. \A q \in wire' : q.what = "send" => q.expected < op'.snap.seq \/ q.cap = SendCap(op.of)
        BY <3>1 DEF Watching
      <3>5. SendCap(op.of) = SendCap(op.of)'
        BY <2>1, <3>1 DEF SendCap
      <3>6. QED
        BY <3>1, <3>3, <3>4, <3>5, NoAnswerTwice DEF Watching
    <2>7. QED
      BY <1>2, <2>4, <2>5, <2>6, AsksShape, IdleFields DEF ActInv, AsksPlain, AsksAct
  <1>3. CASE Watches /\ op'.kind = "send"
    <2>1. /\ seq' \in Nat /\ seq <= seq' /\ UNCHANGED <<bubbles, uses, delivered, stray, restarts>> /\ wire' = wire
      BY <1>3, LookSteps, Look, SequenceFacts, WatchesShape DEF ActInv
    <2>2. seq \in Nat /\ \A q \in wire : q.expected \in Nat
      BY Numbers DEF ActInv
    <2>3. CASE WatchFrames
      <3>1. /\ op.kind = "send" /\ op'.on = op.on /\ op'.base = op.base /\ op'.of = op.of
            /\ op'.snap.seq = seq' /\ seq' > op.snap.seq
            /\ \/ op.pc = "acting" /\ op'.pc = "opened"
               \/ op.pc = "typing" /\ op'.pc = "typed"
        BY <2>3 DEF WatchFrames
      <3>2. op.snap.seq \in Nat
        BY <3>1, Numbers DEF ActInv
      <3>3. \A q \in wire' : q.what = "send" => q.expected < op'.snap.seq
        BY <2>1, <2>2, <3>1, <3>2 DEF Watching
      <3>4. SendCap(op.of) = SendCap(op.of)'
        BY <2>1, <3>1 DEF SendCap
      <3>5. op'.pc = "typed" =>
              bubbles'[op'.on] <= op'.base \/ SendCap(op.of) \in delivered' \cup stray'
        BY <2>1, <3>1 DEF Watching, Watched
      <3>6. QED
        BY <2>1, <3>1, <3>3, <3>4, <3>5 DEF Watching, Watched
    <2>4. CASE WatchBubbles
      <3>1. /\ op.kind = "send" /\ op'.on = op.on /\ op'.base = op.base /\ op'.of = op.of
            /\ op'.snap = op.snap /\ op.pc \in {"clicking", "seen"} /\ op'.pc \in {"clicking", "seen"}
            /\ op.reply = "accepted"
        BY <2>4 DEF WatchBubbles
      <3>2. op.snap.seq \in Nat /\ op.snap.seq <= seq
        BY <3>1, Numbers DEF ActInv, Watching
      <3>3. op'.snap.seq <= seq'
        BY <2>1, <2>2, <3>1, <3>2
      <3>4. SendCap(op.of) = SendCap(op.of)'
        BY <2>1, <3>1 DEF SendCap
      <3>5. QED
        BY <2>1, <3>1, <3>3, <3>4 DEF Watching, Watched
    <2>5. QED
      BY <1>3, <2>3, <2>4, WatchesShape, IdleFields
         DEF ActInv, WatchEnds, WatchEnters, WatchShoots, WatchSettles
  <1>4. CASE Reacts /\ op'.kind = "send"
    <2>1. /\ wire' \subseteq wire /\ restarts' = restarts /\ op.kind = "send"
          /\ op'.pc = op.pc /\ op'.of = op.of /\ op'.on = op.on
          /\ op'.snap = op.snap /\ op'.base = op.base
      BY <1>4, ReactsShape DEF ActInv
    <2>2. seq' \in Nat /\ seq <= seq' /\ seq \in Nat
      <3>1. seq' = seq \/ seq' = seq + 1
        BY <1>4, Zenon DEF Reacts, UiChanges, BubblesChange, UiEvent, CompanionRestart, Perform, Refuse, companion
      <3>2. QED
        BY <3>1, Numbers DEF ActInv
    <2>3. op.snap.seq \in Nat /\ op'.snap.seq <= seq'
      BY <2>1, <2>2, Numbers DEF ActInv, Watching
    <2>4. SendCap(op.of) = SendCap(op.of)'
      BY <2>1 DEF SendCap
    <2>5. /\ delivered \subseteq delivered' /\ stray \subseteq stray' /\ DOMAIN uses \subseteq DOMAIN uses'
      BY Grows
    <2>6. /\ Watched(op.on) =>
                bubbles'[op.on] <= op.base \/ SendCap(op.of) \in delivered' \cup stray'
      <3>1. CASE bubbles' = bubbles
        BY <2>1, <2>5, <3>1 DEF Watching
      <3>2. ASSUME NEW c \in Conv, NEW n \in 0 .. MaxBubbles, BubblesChange(c, n), Watched(op.on)
            PROVE  bubbles'[op.on] <= op.base \/ SendCap(op.of) \in delivered' \cup stray'
        <4>1. op.on \in Conv /\ op.base \in Nat /\ n \in Nat
          BY <3>2, Numbers, BoundsAreNat DEF ActInv, OpType, Watched
        <4>2. CASE c = op.on
          BY <3>2, <4>1, <4>2, BubblesFacts DEF ActInv
        <4>3. CASE c # op.on
          BY <2>1, <2>5, <3>2, <4>1, <4>3, BubblesFacts DEF ActInv, Watching
        <4>4. QED
          BY <4>2, <4>3
      <3>3. ASSUME NEW r \in wire, Perform(r), bubbles' # bubbles, Watched(op.on)
            PROVE  SendCap(op.of) \in delivered'
        <4>1. Guarded(r) /\ Effect(r)
          BY <3>3 DEF Perform
        <4>2. r.what = "send" /\ delivered' = delivered \cup {r.cap}
          BY <3>3, <4>1, Effects DEF ActInv
        <4>3. r.cap = SendCap(op.of)
          BY <2>1, <3>3, <4>1, <4>2, ClickMeets DEF Watched
        <4>4. QED
          BY <4>2, <4>3
      <3>4. QED
        BY <1>4, <3>1, <3>2, <3>3 DEF Reacts, UiChanges, UiEvent, CompanionRestart, Refuse, client
    <2>7. op'.pc = "seen" \/ (op'.pc = "clicking" /\ op'.reply = "accepted") =>
                SendCap(op.of) \in DOMAIN uses'
      <3>1. CASE op.pc = "seen" \/ op' = op
        BY <2>1, <2>5, <3>1 DEF Watching
      <3>2. ASSUME NEW r \in wire, ~r.late, Perform(r), op.pc = "clicking"
            PROVE  SendCap(op.of) \in DOMAIN uses'
        <4>1. r.cap = SendCap(op.of) /\ op.of \in Key
          BY <2>1, <3>2 DEF ActInv, Awaited, OpType
        <4>2. r.cap # Nil
          BY <4>1, SendCapType, NilIsNothing DEF ActInv
        <4>3. uses' = uses (+) SetToBag({r.cap})
          BY <3>2, <4>2 DEF Perform
        <4>4. QED
          BY <4>1, <4>3, UseDomain
      <3>3. QED
        BY <1>4, <2>1, <3>1, <3>2, ReactsShape DEF ActInv
    <2>8. Watched(op.on)' = Watched(op.on)
      BY <2>1, <1>4 DEF Watched
    <2>9. \A q \in wire' : op.pc \in {"clicking", "seen"} /\ q.what = "send" =>
                q.expected < op.snap.seq \/ q.cap = SendCap(op.of)
      BY <2>1 DEF Watching
    <2>10. QED
      BY <2>1, <2>3, <2>4, <2>6, <2>7, <2>8, <2>9 DEF Watching
  <1>5. CASE Ends
    <2>1. op' = Idle
      BY <1>5 DEF Ends, SurfaceClosed, CodeSubmitted, Fails, Restart, End
    <2>2. QED
      BY <1>1, <2>1, IdleFields
  <1>6. QED
    BY <1>1, <1>2, <1>3, <1>4, <1>5, Steps

LEMMA VerifiedNext ==
    ASSUME ActInv, Watching, VerifiedIsSent, [Next]_vars
    PROVE  VerifiedIsSent'
  <1>1. /\ delivered \subseteq delivered' /\ stray \subseteq stray' /\ DOMAIN uses \subseteq DOMAIN uses'
        /\ restarts' = restarts \/ Restart
    BY Grows
  <1> USE DEF Verified, SendCap
  <1>2. CASE Restart
    BY <1>2 DEF Restart, VerifiedIsSent
  <1>3. CASE memos' = memos /\ restarts' = restarts
    BY <1>1, <1>3 DEF VerifiedIsSent
  <1>4. ASSUME op.kind = "send", restarts' = restarts, memos' = Remembered("uncertain")
        PROVE  VerifiedIsSent'
    <2>1. /\ memos'[op.of].result = "uncertain"
          /\ \A k \in Key : k # op.of => memos'[k] = memos[k]
      BY <1>4, RememberedType DEF ActInv
    <2>2. QED
      BY <1>1, <1>4, <2>1 DEF VerifiedIsSent
  <1>5. ASSUME WatchBubble, restarts' = restarts, memos' = Remembered("verified"), memos' # Remembered("uncertain")
        PROVE  VerifiedIsSent'
    <2>1. /\ op.kind = "send" /\ op.pc \in {"clicking", "seen"}
          /\ ValidFrame(tree, op.on) /\ (NewBubble(Observed) \/ memos' = memos)
      BY <1>5 DEF WatchBubble, Accepted
    <2>2. CASE memos' = memos
      BY <1>3, <1>5, <2>2
    <2>3. CASE NewBubble(Observed)
      <3>1. tree.n = op.base + 1 /\ tree.page = "chat" /\ tree.conv = op.on
        BY <2>1, <2>3 DEF NewBubble, Observed, ValidFrame
      <3>2. bubbles[op.on] = op.base + 1 /\ op.base \in Nat
        BY <2>1, <3>1, Numbers DEF ActInv, Screened
      <3>3. SendCap(op.of) \in delivered \cup stray /\ SendCap(op.of) \in DOMAIN uses
        <4>1. op.reply = "accepted"
          BY <1>5 DEF WatchBubble, Accepted
        <4>2. Watched(op.on)
          BY <2>1 DEF Watched
        <4>3. QED
          BY <2>1, <3>2, <4>1, <4>2 DEF Watching
      <3>4. \A k \in Key : k # op.of => memos'[k] = memos[k]
        BY <1>5, <2>1, RememberedType DEF ActInv
      <3>5. QED
        BY <1>1, <1>5, <3>3, <3>4 DEF VerifiedIsSent, SendCap
    <2>4. QED
      BY <2>1, <2>2, <2>3
  <1>6. CASE (WatchBubble \/ Fails) /\ memos' # memos /\ restarts' = restarts
    <2>1. /\ op.kind = "send"
          /\ \/ memos' = Remembered("uncertain")
             \/ WatchBubble /\ memos' = Remembered("verified")
      BY <1>6 DEF WatchBubble, Fails, Accepted
    <2>2. QED
      BY <1>4, <1>5, <1>6, <2>1
  <1>7. QED
    BY <1>1, <1>2, <1>3, <1>6, MemoSteps DEF vars

SentInv == ActInv /\ Watching /\ VerifiedIsSent

LEMMA SentInvariant == Spec => []SentInv
  <1>1. Init => SentInv
    <2>1. Init => Watching /\ VerifiedIsSent
      BY IdleFields DEF Init, Watching, VerifiedIsSent, Verified
    <2>2. QED
      BY <2>1, ActInvInit DEF SentInv
  <1>2. SentInv /\ [Next]_vars => SentInv'
    <2> SUFFICES ASSUME SentInv, [Next]_vars
                 PROVE  SentInv'
      OBVIOUS
    <2>1. ActInv' /\ VerifiedIsSent'
      BY ActInvNext, VerifiedNext DEF SentInv
    <2>2. Watching'
      <3>1. CASE UNCHANGED vars
        BY <3>1 DEF SentInv, Watching, Watched, vars, SendCap
      <3>2. QED
        BY <3>1, WatchingNext DEF SentInv
    <2>3. QED
      BY <2>1, <2>2 DEF SentInv
  <1>3. QED
    BY <1>1, <1>2, PTL DEF Spec

\* VerifiedIsSent: for a send that is reported verified the send button was
\* clicked in this run of the driver, and the client made the send, unless a
\* bubble of the same text came into view from elsewhere while it was watched;
\* no older bubble, no late click of an earlier send and, but for that case, no
\* swallowed click is taken for it (waitForDirectionalOutgoingBubble).
THEOREM VerifiedCorrect == Spec => []VerifiedIsSent
  <1>1. SentInv => VerifiedIsSent
    BY DEF SentInv
  <1>2. QED
    BY <1>1, SentInvariant, PTL

-----------------------------------------------------------------------------
(* A capability is performed at most once.                                 *)

LEMMA SpentType ==
    ASSUME CompanionType, UsedOnce
    PROVE  Spent \subseteq Cap
  <1>1. ASSUME NEW r \in wire, r.cap # Nil
        PROVE  r.cap \in Cap
    BY <1>1, RequestFacts DEF CompanionType
  <1>2. QED
    BY <1>1 DEF Spent, UsedOnce

LEMMA UseFresh ==
    ASSUME UsedOnce, NEW c \in Cap, c \notin DOMAIN uses, uses' = uses (+) SetToBag({c})
    PROVE  UsedOnce'
  <1>1. uses' = [e \in DOMAIN uses \cup {c} |->
                    (IF e \in DOMAIN uses THEN uses[e] ELSE 0)
                  + (IF e \in {c} THEN 1 ELSE 0)]
    BY DEF (+), SetToBag
  <1>2. DOMAIN uses' = DOMAIN uses \cup {c}
    BY <1>1
  <1>3. \A e \in DOMAIN uses' : uses'[e] = 1
    BY <1>1, <1>2 DEF UsedOnce
  <1>4. uses' \in [DOMAIN uses' -> {1}]
    BY <1>1, <1>2, <1>3
  <1>5. QED
    BY <1>2, <1>4 DEF UsedOnce

\* A performed request was spent when it was sent, a refused one is not any more.
LEMMA ReactsSpend ==
    ASSUME ActInv, Reacts, [Next]_vars
    PROVE  Spent' \subseteq Spent
  <1>1. wire' \subseteq wire
    BY ReactsShape DEF ActInv
  <1>2. CASE uses' = uses
    BY <1>1, <1>2 DEF Spent
  <1>3. CASE uses' # uses
    <2>1. PICK r \in wire : r.cap # Nil /\ uses' = uses (+) SetToBag({r.cap})
      BY <1>3, UseSteps
    <2>2. DOMAIN uses' = DOMAIN uses \cup {r.cap}
      BY <2>1, UseDomain
    <2>3. QED
      BY <1>1, <2>1, <2>2 DEF Spent
  <1>4. QED
    BY <1>2, <1>3

\* What was spent stays so until it is refused, and only an act on a surface or
\* a click on the send button spends.
LEMMA SpentSteps ==
    ASSUME ActInv, UsedOnce, Pending, [Next]_vars
    PROVE  \/ Spent' \subseteq Spent
           \/ \E r : Asked(r) /\ (AsksClick(r) \/ AsksAct(r)) /\ Spent' = Spent \cup {r.cap}
  <1>1. CASE UNCHANGED vars \/ Watches
    <2>1. uses' = uses /\ wire' = wire
      BY <1>1, WatchesWire, LookSteps DEF vars, Observe, client
    <2>2. QED
      BY <2>1 DEF Spent
  <1>2. CASE Asks
    <2>1. uses' = uses
      BY <1>2, LookSteps DEF Observe, client
    <2>2. CASE wire' = wire
      BY <2>1, <2>2 DEF Spent
    <2>3. ASSUME NEW r, wire' = wire \cup {r}, r.cap = Nil
          PROVE  Spent' \subseteq Spent
      BY <2>1, <2>3 DEF Spent
    <2>4. ASSUME NEW r, wire' = wire \cup {r}, r.cap # Nil
          PROVE  Spent' = Spent \cup {r.cap}
      BY <2>1, <2>4 DEF Spent
    <2>5. ASSUME NEW r, Asked(r), AsksClick(r) \/ AsksAct(r)
          PROVE  Spent' = Spent \cup {r.cap}
      <3>1. wire' = wire \cup {r}
        BY <2>5 DEF Asked
      <3>2. r.cap # Nil
        <4>1. r \in Request
          BY <2>5 DEF Asked, Decided
        <4>2. CASE AsksAct(r)
          BY <4>1, <4>2, RequestFacts, NilIsNothing DEF AsksAct
        <4>3. CASE AsksClick(r)
          <5>1. SendCap(op.of) \in Cap
            BY <4>3, SendCapType DEF ActInv, OpType, AsksClick
          <5>2. QED
            BY <4>3, <5>1, NilIsNothing DEF AsksClick
        <4>4. QED
          BY <2>5, <4>2, <4>3
      <3>3. QED
        BY <2>4, <3>1, <3>2
    <2>6. QED
      BY <1>2, <2>2, <2>3, <2>5, AsksShape DEF ActInv, Asked, AsksPlain, AsksChat, AsksText
  <1>3. CASE Reacts
    BY <1>3, ReactsSpend
  <1>4. CASE Ends
    <2>1. uses' = uses
      BY <1>4 DEF Ends, SurfaceClosed, CodeSubmitted, Fails, Restart, client
    <2>2. CASE Fails
      <3>1. \A q \in wire' : \E r \in wire : q.cap = r.cap
        BY <2>2, LateWire DEF ActInv
      <3>2. QED
        BY <2>1, <3>1 DEF Spent
    <2>3. CASE ~Fails
      <3>1. wire' \subseteq wire
        BY <1>4, <2>3 DEF Ends, SurfaceClosed, CodeSubmitted, Restart
      <3>2. QED
        BY <2>1, <3>1 DEF Spent
    <2>4. QED
      BY <2>2, <2>3
  <1>5. QED
    BY <1>1, <1>2, <1>3, <1>4, Steps

\* What is spent is new.
LEMMA FreshCap ==
    ASSUME ActInv, UsedOnce, Keys, Offered, NEW r, Asked(r), AsksClick(r) \/ AsksAct(r)
    PROVE  r.cap \in Cap /\ r.cap \notin Spent
  <1>1. CASE AsksClick(r)
    <2>1. r.cap = SendCap(op.of) /\ op.kind = "send" /\ op.pc = "typed" /\ op.of \in Key
      BY <1>1 DEF AsksClick, ActInv, OpType
    <2>2. SendCap(op.of) \in Cap
      BY <2>1, SendCapType DEF ActInv
    <2>3. SendCap(op.of) \notin Spent
      BY <2>1 DEF Keys
    <2>4. QED
      BY <2>1, <2>2, <2>3
  <1>2. CASE AsksAct(r)
    <2> DEFINE id == op'.of
               c == op'.on
               at == IF EffectOf(c) = "external_write" THEN 0 ELSE surfaces[id].seq
    <2>1. /\ id \in Surface /\ c \in Control /\ surfaces[id] # Nil /\ c \in surfaces[id].actions
          /\ r.cap = [of |-> id, at |-> at, what |-> c]
      BY <1>2 DEF AsksAct, ActSurface, Known
    <2>2. r.cap \in Cap
      BY <2>1, ActCap DEF ActInv
    <2>3. /\ r.cap.of = id /\ r.cap.what = c /\ r.cap.at = at
      BY <2>1
    <2>4. c # "send" /\ (c # "publish" => at = surfaces[id].seq)
      BY <2>1, KnownControls DEF EffectOf
    <2> HIDE DEF id, c, at
    <2>5. ASSUME r.cap \in Spent
          PROVE  FALSE
      <3>1. IF c = "publish" THEN c \in surfaces[id].tombstones ELSE <<at, c>> \in surfaces[id].consumed
        BY <2>1, <2>3, <2>4, <2>5 DEF Offered
      <3>2. c \notin surfaces[id].tombstones /\ <<surfaces[id].seq, c>> \notin surfaces[id].consumed
        BY <2>1 DEF Offered
      <3>3. QED
        BY <2>4, <3>1, <3>2
    <2>6. QED
      BY <2>2, <2>5
  <1>3. QED
    BY <1>1, <1>2

LEMMA NilIsNoCap ==
    ASSUME UsedOnce
    PROVE  Nil \notin DOMAIN uses
  BY NilIsNothing DEF UsedOnce

LEMMA PendingNext ==
    ASSUME ActInv, UsedOnce, Pending, Keys, Offered, [Next]_vars
    PROVE  Pending' /\ UsedOnce'
  <1>1. CASE uses' = uses /\ wire' \subseteq wire
    BY <1>1 DEF Pending, UsedOnce
  <1>2. CASE uses' # uses
    <2>1. PICK r \in wire : r.cap # Nil /\ wire' = wire \ {r} /\ uses' = uses (+) SetToBag({r.cap})
      BY <1>2, UseSteps
    <2>2. r.cap \in Cap /\ r.cap \notin DOMAIN uses
      <3>1. r.cap \in Spent
        BY <2>1 DEF Spent
      <3>2. QED
        BY <3>1, SpentType DEF ActInv, Pending
    <2>3. UsedOnce' /\ DOMAIN uses' = DOMAIN uses \cup {r.cap}
      BY <2>1, <2>2, UseFresh, UseDomain
    <2>4. QED
      BY <2>1, <2>3 DEF Pending
  <1>3. CASE uses' = uses /\ Fails
    <2>1. ASSUME NEW q \in wire'
          PROVE  \E r \in wire : q = [r EXCEPT !.late = TRUE] /\ q.cap = r.cap
      BY <1>3, <2>1, LateWire DEF ActInv
    <2>2. QED
      BY <1>3, <2>1 DEF Pending, UsedOnce
  <1>4. ASSUME uses' = uses, NEW r, Asked(r), r.cap = Nil
        PROVE  Pending' /\ UsedOnce'
    BY <1>4, NilIsNoCap DEF Asked, Pending, UsedOnce
  <1>5. ASSUME uses' = uses, NEW r, Asked(r), AsksClick(r) \/ AsksAct(r)
        PROVE  Pending' /\ UsedOnce'
    <2>1. r.cap \notin Spent /\ wire' = wire \cup {r}
      BY <1>5, FreshCap DEF Asked
    <2>2. r.cap \notin DOMAIN uses /\ \A q \in wire : q.cap # Nil => q.cap # r.cap
      BY <2>1 DEF Spent
    <2>3. QED
      BY <1>5, <2>1, <2>2 DEF Pending, UsedOnce
  <1>6. CASE Asks
    <2>1. uses' = uses
      BY <1>6, LookSteps DEF Observe, client
    <2>2. QED
      BY <1>1, <1>4, <1>5, <1>6, <2>1, AsksShape DEF ActInv, AsksPlain, AsksChat, AsksText
  <1>7. CASE UNCHANGED vars
    BY <1>1, <1>7 DEF vars
  <1>8. CASE Watches
    BY <1>1, <1>2, <1>8, WatchesWire
  <1>9. CASE Reacts
    BY <1>1, <1>2, <1>9, ReactsShape DEF ActInv
  <1>10. CASE Ends /\ ~Fails
    BY <1>1, <1>2, <1>10 DEF Ends, SurfaceClosed, CodeSubmitted, Restart
  <1>11. QED
    BY <1>2, <1>3, <1>6, <1>7, <1>8, <1>9, <1>10, Steps

LEMMA SendCapFields ==
    ASSUME NEW k
    PROVE  SendCap(k).of = k /\ SendCap(k).at = restarts /\ SendCap(k).what = "send"
  BY DEF SendCap

LEMMA AsksMemos ==
    ASSUME Asks
    PROVE  memos' = memos
  BY Zenon DEF Asks, OpenSurface, CloseSurface, ActSurface, Send, ChatStable, ClickSend,
         PerformAuthAction, SubmitAuthCode, CodeTyped

LEMMA WatchesMemos ==
    ASSUME Watches
    PROVE  \/ memos' = memos
           \/ op' = Idle /\ op.kind = "send" /\ op.pc \in {"clicking", "seen"}
  BY Zenon DEF Watches, SnapshotSurface, SurfaceChanged, SurfaceStored, ChatOpened, TextSet, WatchBubble,
         Status, BeginCapture, AuthCaptured, AuthSettles, driver, End, Accepted

\* The send that is watched, or was refused.
Clicked == op.kind = "send" /\ op.pc \in {"clicking", "seen"} /\ op.reply # "refused"

\* A step that ends the operation, or is not about a send.
LEMMA KeysEnd ==
    ASSUME Keys, restarts' = restarts, Spent' \subseteq Spent, op'.kind # "send",
           \A k \in Key : memos[k] # Nil => memos'[k] # Nil,
           Clicked => memos'[op.of] # Nil
    PROVE  Keys'
  <1>1. ASSUME NEW k
        PROVE  SendCap(k)' = SendCap(k)
    BY DEF SendCap
  <1>2. ASSUME NEW k \in Key, SendCap(k)' \in Spent'
        PROVE  memos'[k] # Nil
    BY <1>1, <1>2 DEF Keys, Clicked
  <1>3. QED
    BY <1>2 DEF Keys

\* A step of a send that goes on.
LEMMA KeysGoOn ==
    ASSUME Keys, restarts \in Nat, restarts' = restarts, op'.kind = "send", memos' = memos,
           memos[op'.of] = Nil,
           Clicked => op'.of = op.of /\ Clicked',
           \A c \in Spent' : c \in Spent \/ (c = SendCap(op'.of) /\ Clicked')
    PROVE  Keys'
  <1>1. ASSUME NEW k
        PROVE  SendCap(k)' = SendCap(k) /\ SendCap(k).at = restarts /\ SendCap(k).of = k
    BY DEF SendCap
  <1>2. \A c \in Spent' : c.what = "send" => c.at <= restarts'
    <2>1. SendCap(op'.of).at <= restarts
      BY DEF SendCap
    <2>2. QED
      BY <1>1, <2>1 DEF Keys
  <1>3. ASSUME NEW k \in Key, SendCap(k)' \in Spent'
        PROVE  \/ memos'[k] # Nil
               \/ /\ op'.kind = "send" /\ op'.of = k /\ op'.pc \in {"clicking", "seen"}
                  /\ op'.reply # "refused"
    <2>1. CASE SendCap(k) \in Spent
      BY <2>1 DEF Keys, Clicked
    <2>2. CASE SendCap(k) = SendCap(op'.of) /\ Clicked'
      <3>1. k = op'.of
        BY <1>1, <2>2
      <3>2. QED
        BY <2>2, <3>1 DEF Clicked
    <2>3. QED
      BY <1>1, <1>3, <2>1, <2>2
  <1>4. QED
    BY <1>2, <1>3 DEF Keys

\* No key that was dispatched in this run of the driver can be sent again.
LEMMA KeysNext ==
    ASSUME ActInv, UsedOnce, Pending, Keys, [Next]_vars
    PROVE  Keys'
  <1>1. restarts \in Nat /\ Spent \subseteq Cap
    BY SpentType, BoundsAreNat DEF ActInv, ClientType
  <1>2. CASE Restart
    <2>1. Spent' \subseteq Spent
      BY <1>2 DEF Restart, Spent
    <2>2. restarts' = restarts + 1 /\ op' = Idle
      BY <1>2 DEF Restart
    <2>3. ASSUME NEW c \in Spent', c.what = "send"
          PROVE  c.at <= restarts /\ c.at \in Nat
      BY <1>1, <2>1, <2>3, CapFacts, BoundsAreNat DEF Keys
    <2>4. \A c \in Spent' : c.what = "send" => c.at <= restarts'
      BY <1>1, <2>2, <2>3
    <2>5. ASSUME NEW k \in Key, SendCap(k)' \in Spent'
          PROVE  FALSE
      <3>1. SendCap(k)'.at = restarts' /\ SendCap(k)'.what = "send"
        BY DEF SendCap
      <3>2. QED
        BY <1>1, <2>2, <2>3, <2>5, <3>1
    <2>6. QED
      BY <2>2, <2>4, <2>5, IdleFields DEF Keys
  <1>3. CASE UNCHANGED vars
    BY <1>3 DEF vars, Keys, Spent, SendCap
  <1>4. CASE Asks
    <2>1. restarts' = restarts /\ memos' = memos /\ uses' = uses
      BY <1>4, LookSteps, Look, AsksMemos DEF ActInv
    <2>2. ~Clicked
      <3>1. op = Idle \/ op.pc \in {"opened", "typed", "shot"} \/ op.kind = "code"
        BY <1>4, Zenon DEF Asks, OpenSurface, CloseSurface, ActSurface, Send, ChatStable,
         ClickSend, PerformAuthAction, SubmitAuthCode, CodeTyped, Begins, Accepted
      <3>2. QED
        BY <3>1, IdleFields DEF Clicked
    <2>3. CASE wire' = wire /\ op' = Idle
      <3>1. Spent' \subseteq Spent
        BY <2>1, <2>3 DEF Spent
      <3>2. QED
        BY <2>1, <2>2, <2>3, <3>1, KeysEnd, IdleFields
    <2>4. ASSUME NEW r, Asked(r), r.cap = Nil
          PROVE  Spent' \subseteq Spent
      BY <2>1, <2>4 DEF Asked, Spent
    <2>5. ASSUME NEW r, Asked(r), AsksPlain(r)
          PROVE  Keys'
      BY <2>1, <2>2, <2>4, <2>5, KeysEnd DEF AsksPlain
    <2>6. ASSUME NEW r, Asked(r), AsksChat(r)
          PROVE  Keys'
      BY <1>1, <2>1, <2>2, <2>4, <2>6, KeysGoOn DEF AsksChat
    <2>7. ASSUME NEW r, Asked(r), AsksText(r)
          PROVE  Keys'
      <3>1. memos[op'.of] = Nil /\ op'.kind = "send"
        BY <2>7 DEF AsksText, Keys
      <3>2. r.cap = Nil
        BY <2>7 DEF AsksText
      <3>3. QED
        BY <1>1, <2>1, <2>2, <2>4, <2>7, <3>1, <3>2, KeysGoOn
    <2>8. ASSUME NEW r, Asked(r), AsksClick(r)
          PROVE  Keys'
      <3>1. memos[op'.of] = Nil /\ op'.kind = "send" /\ r.cap = SendCap(op'.of)
        BY <2>8 DEF AsksClick, Keys
      <3>2. Clicked'
        BY <2>8, NoAnswerTwice DEF AsksClick, Asked, Clicked
      <3>3. \A c \in Spent' : c \in Spent \/ c = r.cap
        BY <2>1, <2>8 DEF Asked, Spent
      <3>4. QED
        BY <1>1, <2>1, <2>2, <3>1, <3>2, <3>3, KeysGoOn
    <2>9. ASSUME NEW r, Asked(r), AsksAct(r)
          PROVE  Keys'
      <3>1. op'.kind = "act" /\ r.cap.what # "send"
        BY <2>9, KnownControls DEF AsksAct
      <3>2. \A c \in Spent' : c \in Spent \/ c = r.cap
        BY <2>1, <2>9 DEF Asked, Spent
      <3>3. ASSUME NEW k
            PROVE  SendCap(k)' = SendCap(k) /\ SendCap(k).what = "send"
        BY <2>1 DEF SendCap
      <3>4. \A c \in Spent' : c.what = "send" => c.at <= restarts'
        BY <2>1, <3>1, <3>2 DEF Keys
      <3>5. ASSUME NEW k \in Key, SendCap(k)' \in Spent'
            PROVE  memos'[k] # Nil
        <4>1. SendCap(k) \in Spent
          BY <3>1, <3>2, <3>3, <3>5
        <4>2. QED
          BY <2>1, <2>2, <4>1 DEF Keys, Clicked
      <3>6. QED
        BY <3>1, <3>4, <3>5 DEF Keys
    <2>10. QED
      BY <1>4, <2>3, <2>5, <2>6, <2>7, <2>8, <2>9, AsksShape DEF ActInv
  <1>5. CASE Watches
    <2>1. restarts' = restarts /\ uses' = uses /\ wire' = wire
      BY <1>5, LookSteps, Look, WatchesWire DEF ActInv
    <2>2. Spent' = Spent
      BY <2>1 DEF Spent
    <2>3. CASE WatchEnds
      <3>1. op'.kind # "send" /\ op'.kind = "idle"
        BY <2>3, IdleFields DEF WatchEnds
      <3>2. CASE op.kind = "send" /\ op.pc \in {"clicking", "seen"}
        <4>1. PICK res \in {"verified", "uncertain"} : memos' = Remembered(res)
          BY <2>3, <3>2 DEF WatchEnds
        <4>2. memos'[op.of] # Nil /\ \A k \in Key : memos[k] # Nil => memos'[k] # Nil
          BY <3>2, <4>1, RememberedType DEF ActInv
        <4>3. QED
          BY <2>1, <2>2, <3>1, <4>2, KeysEnd
      <3>3. CASE ~(op.kind = "send" /\ op.pc \in {"clicking", "seen"})
        <4>1. memos' = memos /\ ~Clicked
          BY <1>5, <3>3, WatchesMemos DEF Clicked
        <4>2. QED
          BY <2>1, <2>2, <3>1, <4>1, KeysEnd
      <3>4. QED
        BY <3>2, <3>3
    <2>4. CASE op' # Idle /\ (WatchEnters \/ WatchShoots \/ WatchSettles)
      <3>1. memos' = memos
        BY <1>5, <2>4, WatchesMemos
      <3>2. op.kind # "send" /\ op'.kind # "send"
        BY <2>4, IdleFields DEF WatchEnters, WatchShoots, WatchSettles
      <3>3. QED
        BY <2>1, <2>2, <3>1, <3>2, KeysEnd DEF Clicked
    <2>5. CASE WatchFrames \/ WatchBubbles
      <3>1. op'.kind = "send" /\ op.kind = "send" /\ op'.of = op.of /\ (Clicked => Clicked')
        BY <2>5 DEF WatchFrames, WatchBubbles, Clicked
      <3>2. memos' = memos
        BY <1>5, <3>1, WatchesMemos, IdleFields
      <3>3. memos[op'.of] = Nil
        BY <3>1 DEF Keys
      <3>4. QED
        BY <1>1, <2>1, <2>2, <3>1, <3>2, <3>3, KeysGoOn
    <2>6. QED
      BY <1>5, <2>3, <2>4, <2>5, WatchesShape, IdleFields DEF ActInv, WatchEnters, WatchShoots, WatchSettles
  <1>6. CASE Reacts
    <2>1. /\ restarts' = restarts /\ memos' = memos /\ op'.kind = op.kind /\ op'.of = op.of /\ op'.pc = op.pc
      BY <1>6, ReactsShape DEF ActInv
    <2>2. Spent' \subseteq Spent
      BY <1>6, ReactsSpend
    <2>3. CASE op.kind # "send"
      BY <2>1, <2>2, <2>3, KeysEnd DEF Clicked
    <2>4. CASE op.kind = "send" /\ op'.reply # "refused"
      <3>1. Clicked => Clicked'
        BY <2>1, <2>4 DEF Clicked
      <3>2. memos[op'.of] = Nil
        BY <2>1, <2>4 DEF Keys
      <3>3. QED
        BY <1>1, <2>1, <2>2, <2>4, <3>1, <3>2, KeysGoOn
    <2>5. CASE op.kind = "send" /\ op' = op
      <3>1. Clicked => Clicked'
        BY <2>5 DEF Clicked
      <3>2. memos[op'.of] = Nil
        BY <2>1, <2>5 DEF Keys
      <3>3. QED
        BY <1>1, <2>1, <2>2, <2>5, <3>1, <3>2, KeysGoOn
    <2>6. ASSUME op.kind = "send", NEW r \in wire, ~r.late, wire' = wire \ {r}, Refuse(r)
          PROVE  Keys'
      <3>1. uses' = uses
        BY <2>6 DEF Refuse, client
      <3>2. op.pc = "clicking" => r.cap = SendCap(op.of)
        BY <2>6 DEF ActInv, Awaited
      <3>3. op.pc # "seen"
        BY <2>6 DEF ActInv, Awaited
      <3>4. ASSUME r.cap # Nil
            PROVE  r.cap \notin Spent'
        BY <2>6, <3>1, <3>4 DEF Pending, Spent
      <3>5. SendCap(op.of) # Nil
        <4>1. SendCap(op.of) \in Cap
          BY <2>6, SendCapType DEF ActInv, OpType
        <4>2. QED
          BY <4>1, NilIsNothing
      <3>6. ASSUME NEW k
            PROVE  SendCap(k)' = SendCap(k)
        BY <2>1 DEF SendCap
      <3>7. ASSUME NEW k \in Key, SendCap(k)' \in Spent'
            PROVE  memos'[k] # Nil
        <4>1. SendCap(k) \in Spent /\ SendCap(k) \in Spent'
          BY <2>2, <3>6, <3>7
        <4>2. CASE k = op.of /\ op.pc = "clicking"
          BY <3>2, <3>4, <3>5, <4>1, <4>2
        <4>3. CASE ~(k = op.of /\ op.pc = "clicking")
          BY <2>1, <3>3, <4>1, <4>3 DEF Keys
        <4>4. QED
          BY <4>2, <4>3
      <3>8. \A c \in Spent' : c.what = "send" => c.at <= restarts'
        BY <2>1, <2>2 DEF Keys
      <3>9. op'.kind = "send" => memos'[op'.of] = Nil
        BY <2>1 DEF Keys
      <3>10. QED
        BY <3>7, <3>8, <3>9 DEF Keys
    <2>7. QED
      BY <1>6, <2>3, <2>4, <2>5, <2>6, ReactsShape DEF ActInv
  <1>7. CASE Fails
    <2>1. restarts' = restarts /\ uses' = uses /\ op'.kind = "idle"
      BY <1>7, IdleFields DEF Fails, client, End
    <2>2. Spent' \subseteq Spent
      <3>1. \A q \in wire' : \E r \in wire : q.cap = r.cap
        BY <1>7, LateWire DEF ActInv
      <3>2. QED
        BY <2>1, <3>1 DEF Spent
    <2>3. CASE Clicked
      <3>1. memos' = Remembered("uncertain")
        BY <1>7, <2>3 DEF Fails, Clicked
      <3>2. memos'[op.of] # Nil /\ \A k \in Key : memos[k] # Nil => memos'[k] # Nil
        BY <2>3, <3>1, RememberedType DEF ActInv, Clicked
      <3>3. QED
        BY <2>1, <2>2, <3>2, KeysEnd
    <2>4. CASE ~Clicked
      <3>1. memos' = memos
        BY <1>7, <2>4 DEF Fails, Clicked
      <3>2. QED
        BY <2>1, <2>2, <2>4, <3>1, KeysEnd
    <2>5. QED
      BY <2>3, <2>4
  <1>8. CASE SurfaceClosed \/ CodeSubmitted
    <2>1. /\ restarts' = restarts /\ uses' = uses /\ wire' = wire /\ memos' = memos
          /\ op.kind \in {"close", "code"} /\ op'.kind = "idle"
      BY <1>8, IdleFields DEF SurfaceClosed, CodeSubmitted, Accepted, client, End
    <2>2. Spent' = Spent
      BY <2>1 DEF Spent
    <2>3. QED
      BY <2>1, <2>2, KeysEnd DEF Clicked
  <1>9. QED
    BY <1>2, <1>3, <1>4, <1>5, <1>6, <1>7, <1>8, Steps DEF Ends

LEMMA OpenedSteps ==
    ASSUME [Next]_vars, opened' # opened
    PROVE  \E id \in Surface : OpenSurface(id)
  BY Zenon DEF Next, UiChanges, BubblesChange, UiEvent, Perform, Refuse, CompanionRestart, SnapshotSurface,
         CloseSurface, ActSurface, SurfaceChanged, SurfaceStored, SurfaceClosed, Send, ChatOpened,
         ChatStable, TextSet, ClickSend, WatchBubble, Status, BeginCapture, AuthCaptured,
         PerformAuthAction, AuthSettles, SubmitAuthCode, CodeTyped, CodeSubmitted, Fails, Restart,
         driver, vars

LEMMA OpenedGrows ==
    ASSUME DriverType, [Next]_vars
    PROVE  opened \in Nat /\ opened' \in Nat /\ opened <= opened'
  <1>1. opened \in Nat
    BY BoundsAreNat DEF DriverType
  <1>2. opened' = opened \/ opened' = opened + 1
    BY OpenedSteps DEF OpenSurface
  <1>3. QED
    BY <1>1, <1>2

\* A table of surfaces that forgets nothing of the one before it.
LEMMA OfferedKeeps ==
    ASSUME ActInv, UsedOnce, Offered, [Next]_vars,
           \A c \in Spent' : c.what # "send" => c \in Spent,
           \A t \in Surface : surfaces'[t] # Nil =>
              /\ t <= opened
              /\ \A c \in surfaces'[t].actions :
                    /\ c \notin surfaces'[t].tombstones
                    /\ <<surfaces'[t].seq, c>> \notin surfaces'[t].consumed
              /\ \/ /\ surfaces[t] # Nil
                    /\ surfaces[t].consumed \subseteq surfaces'[t].consumed
                    /\ surfaces[t].tombstones \subseteq surfaces'[t].tombstones
                 \/ \A c \in Spent : c.what # "send" => c.of # t
    PROVE  Offered'
  <1>1. opened \in Nat /\ opened' \in Nat /\ opened <= opened'
    BY OpenedGrows DEF ActInv
  <1>2. Spent \subseteq Cap
    BY SpentType DEF ActInv
  <1>3. ASSUME NEW s \in Surface, surfaces'[s] # Nil
        PROVE  /\ s <= opened'
               /\ \A c \in surfaces'[s].actions :
                     /\ c \notin surfaces'[s].tombstones
                     /\ <<surfaces'[s].seq, c>> \notin surfaces'[s].consumed
    BY <1>1, <1>3 DEF Surface
  <1>4. ASSUME NEW c \in Spent', c.what # "send"
        PROVE  /\ c.of <= opened'
               /\ surfaces'[c.of] # Nil =>
                     IF c.what = "publish" THEN c.what \in surfaces'[c.of].tombstones
                                           ELSE <<c.at, c.what>> \in surfaces'[c.of].consumed
    <2>1. c \in Spent /\ c.of \in Surface
      BY <1>2, <1>4, CapFacts
    <2>2. /\ c.of <= opened
          /\ surfaces[c.of] # Nil =>
                IF c.what = "publish" THEN c.what \in surfaces[c.of].tombstones
                                      ELSE <<c.at, c.what>> \in surfaces[c.of].consumed
      BY <1>4, <2>1 DEF Offered
    <2>3. c.of <= opened'
      BY <1>1, <2>1, <2>2 DEF Surface
    <2>4. ASSUME surfaces'[c.of] # Nil
          PROVE  IF c.what = "publish" THEN c.what \in surfaces'[c.of].tombstones
                                       ELSE <<c.at, c.what>> \in surfaces'[c.of].consumed
      <3>1. /\ surfaces[c.of] # Nil
            /\ surfaces[c.of].consumed \subseteq surfaces'[c.of].consumed
            /\ surfaces[c.of].tombstones \subseteq surfaces'[c.of].tombstones
        BY <1>4, <2>1, <2>4
      <3>2. QED
        BY <2>2, <3>1
    <2>5. QED
      BY <2>3, <2>4
  <1>5. QED
    BY <1>3, <1>4 DEF Offered

\* The error path forgets nothing.
LEMMA OfferedFails ==
    ASSUME ActInv, UsedOnce, Offered, [Next]_vars, surfaces' = FailedAct,
           \A c \in Spent' : c.what # "send" => c \in Spent
    PROVE  Offered'
  <1>1. ASSUME NEW t \in Surface, surfaces'[t] # Nil
        PROVE  /\ t <= opened
               /\ \A c \in surfaces'[t].actions :
                     /\ c \notin surfaces'[t].tombstones
                     /\ <<surfaces'[t].seq, c>> \notin surfaces'[t].consumed
               /\ surfaces[t] # Nil
               /\ surfaces[t].consumed \subseteq surfaces'[t].consumed
               /\ surfaces[t].tombstones \subseteq surfaces'[t].tombstones
    <2>1. /\ surfaces[t] # Nil
          /\ surfaces'[t].seq = surfaces[t].seq /\ surfaces'[t].consumed = surfaces[t].consumed
          /\ surfaces[t].tombstones \subseteq surfaces'[t].tombstones
          /\ \A c \in surfaces'[t].actions :
               c \in surfaces[t].actions /\ (c \in surfaces'[t].tombstones => c \in surfaces[t].tombstones)
      BY <1>1, FailedActFacts DEF ActInv
    <2>2. QED
      BY <2>1 DEF Offered
  <1>2. QED
    BY <1>1, OfferedKeeps

LEMMA OfferedAct ==
    ASSUME ActInv, UsedOnce, Offered, [Next]_vars, NEW r, Asked(r), AsksAct(r), Spent' = Spent \cup {r.cap}
    PROVE  Offered'
  <1> DEFINE id == op'.of
             c == op'.on
             at == IF EffectOf(c) = "external_write" THEN 0 ELSE surfaces[id].seq
  <1>1. /\ id \in Surface /\ c \in Control /\ ActSurface(id, c) /\ surfaces' # surfaces
        /\ r.cap = [of |-> id, at |-> at, what |-> c]
    BY DEF AsksAct
  <1>2. /\ surfaces[id] # Nil /\ c \in surfaces[id].actions
        /\ \A t \in Surface : t # id => surfaces'[t] = surfaces[t]
        /\ surfaces'[id] # Nil /\ surfaces'[id].seq = surfaces[id].seq
        /\ surfaces'[id].consumed = surfaces[id].consumed \cup {<<surfaces[id].seq, c>>}
        /\ surfaces[id].tombstones \subseteq surfaces'[id].tombstones
        /\ surfaces'[id].tombstones \subseteq surfaces[id].tombstones \cup {c}
        /\ c = "publish" => c \in surfaces'[id].tombstones
        /\ surfaces'[id].actions = surfaces[id].actions \ {c}
    BY <1>1, ActSurfaceFacts DEF ActInv
  <1>3. c # "publish" => at = surfaces[id].seq
    BY <1>1, KnownControls DEF EffectOf
  <1>4. r.cap.of = id /\ r.cap.what = c /\ r.cap.at = at
    BY <1>1
  <1>5. Spent \subseteq Cap
    BY SpentType DEF ActInv
  <1>6. opened' = opened
    <2>1. ASSUME NEW s \in Surface, OpenSurface(s)
          PROVE  FALSE
      BY <1>1, <2>1 DEF OpenSurface
    <2>2. QED
      BY <2>1, OpenedSteps
  <1> HIDE DEF id, c, at
  <1>7. ASSUME NEW s \in Surface, surfaces'[s] # Nil
        PROVE  /\ s <= opened
               /\ \A d \in surfaces'[s].actions :
                     /\ d \notin surfaces'[s].tombstones
                     /\ <<surfaces'[s].seq, d>> \notin surfaces'[s].consumed
    <2>1. CASE s # id
      BY <1>2, <1>7, <2>1 DEF Offered
    <2>2. CASE s = id
      <3>1. id <= opened
        BY <1>1, <1>2 DEF Offered
      <3>2. ASSUME NEW d \in surfaces'[id].actions
            PROVE  d \notin surfaces'[id].tombstones /\ <<surfaces'[id].seq, d>> \notin surfaces'[id].consumed
        <4>1. d \in surfaces[id].actions /\ d # c
          BY <1>2, <3>2
        <4>2. d \notin surfaces[id].tombstones /\ <<surfaces[id].seq, d>> \notin surfaces[id].consumed
          BY <1>1, <1>2, <4>1 DEF Offered
        <4>3. <<surfaces[id].seq, d>> # <<surfaces[id].seq, c>>
          BY <4>1
        <4>4. QED
          BY <1>2, <4>1, <4>2, <4>3
      <3>3. QED
        BY <2>2, <3>1, <3>2
    <2>3. QED
      BY <2>1, <2>2
  <1>8. ASSUME NEW e \in Spent', e.what # "send"
        PROVE  /\ e.of <= opened
               /\ surfaces'[e.of] # Nil =>
                     IF e.what = "publish" THEN e.what \in surfaces'[e.of].tombstones
                                           ELSE <<e.at, e.what>> \in surfaces'[e.of].consumed
    <2>1. CASE e = r.cap
      BY <1>1, <1>2, <1>3, <1>4, <2>1 DEF Offered
    <2>2. CASE e \in Spent
      <3>1. e.of \in Surface
        BY <1>5, <1>8, <2>2, CapFacts
      <3>2. /\ e.of <= opened
            /\ surfaces[e.of] # Nil =>
                  IF e.what = "publish" THEN e.what \in surfaces[e.of].tombstones
                                        ELSE <<e.at, e.what>> \in surfaces[e.of].consumed
        BY <1>8, <2>2 DEF Offered
      <3>3. CASE e.of # id
        BY <1>2, <3>1, <3>2, <3>3
      <3>4. CASE e.of = id
        BY <1>2, <3>2, <3>4
      <3>5. QED
        BY <3>3, <3>4
    <2>3. QED
      BY <1>8, <2>1, <2>2
  <1>9. QED
    BY <1>6, <1>7, <1>8 DEF Offered

LEMMA ActSpends ==
    ASSUME ActInv, NEW r, Asked(r), AsksAct(r)
    PROVE  Spent' = Spent \cup {r.cap}
  <1>1. uses' = uses
    BY DEF AsksAct, ActSurface, Observe, client
  <1>2. wire' = wire \cup {r} /\ r \in Request /\ r.what = "surface"
    BY DEF Asked, Decided, AsksAct
  <1>3. r.cap # Nil
    BY <1>2, RequestFacts, NilIsNothing
  <1>4. QED
    BY <1>1, <1>2, <1>3 DEF Spent

LEMMA OfferedNext ==
    ASSUME ActInv, UsedOnce, Pending, Offered, Holding, [Next]_vars
    PROVE  Offered'
  <1>1. CASE \E r : Asked(r) /\ AsksAct(r)
    BY <1>1, ActSpends, OfferedAct
  <1>2. CASE /\ \A c \in Spent' : c.what # "send" => c \in Spent
             /\ ~\E r : Asked(r) /\ AsksAct(r)
    <2>1. CASE surfaces' = surfaces
      <3>1. ASSUME NEW t \in Surface, surfaces'[t] # Nil
            PROVE  /\ t <= opened
                   /\ \A c \in surfaces'[t].actions :
                         /\ c \notin surfaces'[t].tombstones
                         /\ <<surfaces'[t].seq, c>> \notin surfaces'[t].consumed
        BY <2>1, <3>1 DEF Offered
      <3>2. QED
        BY <1>2, <2>1, <3>1, OfferedKeeps
    <2>2. CASE surfaces' = FailedAct
      BY <1>2, <2>2, OfferedFails
    <2>3. CASE SurfaceStored
      <3>1. CASE surfaces' = FailedAct
        BY <2>2, <3>1
      <3>2. CASE surfaces' # FailedAct
        <4> DEFINE x == Updated(op.of, Observed)
        <4>1. /\ op.of \in Surface /\ op.snap.tree.page = tree.page
              /\ surfaces' = [surfaces EXCEPT ![op.of] = x]
              /\ x \in Offer
              /\ \A c \in x.actions : c \notin x.tombstones /\ <<x.seq, c>> \notin x.consumed
              /\ surfaces[op.of] # Nil /\ surfaces[op.of].page = tree.page =>
                    x.consumed = surfaces[op.of].consumed /\ x.tombstones = surfaces[op.of].tombstones
          BY <2>3, <3>2, StoredFacts DEF ActInv
        <4>2. op.kind \in {"open", "snap", "act"} /\ op.pc = "shot"
          BY <2>3 DEF SurfaceStored
        <4> HIDE DEF x
        <4>3. \/ /\ surfaces[op.of] # Nil
                 /\ x.consumed = surfaces[op.of].consumed /\ x.tombstones = surfaces[op.of].tombstones
              \/ \A c \in Spent : c.what # "send" => c.of # op.of
          BY <4>1, <4>2 DEF Holding
        <4>4. op.of <= opened
          BY <4>1, <4>2 DEF Holding, Offered
        <4>5. surfaces'[op.of] = x /\ \A t \in Surface : t # op.of => surfaces'[t] = surfaces[t]
          BY <4>1 DEF ActInv, DriverType
        <4>6. ASSUME NEW t \in Surface, surfaces'[t] # Nil
              PROVE  /\ t <= opened
                     /\ \A c \in surfaces'[t].actions :
                           /\ c \notin surfaces'[t].tombstones
                           /\ <<surfaces'[t].seq, c>> \notin surfaces'[t].consumed
                     /\ \/ /\ surfaces[t] # Nil
                           /\ surfaces[t].consumed \subseteq surfaces'[t].consumed
                           /\ surfaces[t].tombstones \subseteq surfaces'[t].tombstones
                        \/ \A c \in Spent : c.what # "send" => c.of # t
          <5>1. CASE t = op.of
            BY <4>1, <4>3, <4>4, <4>5, <5>1
          <5>2. CASE t # op.of
            BY <4>5, <4>6, <5>2 DEF Offered
          <5>3. QED
            BY <5>1, <5>2
        <4>7. QED
          BY <1>2, <4>6, OfferedKeeps
      <3>3. QED
        BY <3>1, <3>2
    <2>4. CASE SurfaceClosed \/ Restart
      <3>1. ASSUME NEW t \in Surface, surfaces'[t] # Nil
            PROVE  surfaces'[t] = surfaces[t]
        BY <2>4, <3>1 DEF SurfaceClosed, Restart, Accepted, ActInv, DriverType, OpType
      <3>2. ASSUME NEW t \in Surface, surfaces'[t] # Nil
            PROVE  /\ t <= opened
                   /\ \A c \in surfaces'[t].actions :
                         /\ c \notin surfaces'[t].tombstones
                         /\ <<surfaces'[t].seq, c>> \notin surfaces'[t].consumed
                   /\ surfaces[t] # Nil
                   /\ surfaces[t].consumed \subseteq surfaces'[t].consumed
                   /\ surfaces[t].tombstones \subseteq surfaces'[t].tombstones
        BY <3>1, <3>2 DEF Offered
      <3>3. QED
        BY <1>2, <3>2, OfferedKeeps
    <2>5. ASSUME NEW id \in Surface, NEW c \in Control, ActSurface(id, c), surfaces' # surfaces
          PROVE  FALSE
      <3>1. Asks
        BY <2>5 DEF Asks
      <3>2. QED
        BY <1>2, <2>5, <3>1, AsksShape DEF ActInv, AsksPlain, AsksChat, AsksText, AsksClick
    <2>6. CASE SurfaceChanged \/ Fails
      BY <2>1, <2>2, <2>6 DEF SurfaceChanged, Fails
    <2>7. QED
      BY <2>1, <2>3, <2>4, <2>5, <2>6, SurfaceSteps DEF vars
  <1>3. ASSUME NEW r, AsksClick(r), Spent' = Spent \cup {r.cap}
        PROVE  \A c \in Spent' : c.what # "send" => c \in Spent
    BY <1>3, SendCapFields DEF AsksClick
  <1>4. QED
    BY <1>1, <1>2, <1>3, SpentSteps

LEMMA HoldingNext ==
    ASSUME ActInv, UsedOnce, Pending, Offered, Holding, Next
    PROVE  Holding'
  <1>1. CASE op'.kind \notin {"open", "snap", "act"}
    BY <1>1 DEF Holding
  <1>2. opened \in Nat /\ opened' \in Nat /\ opened <= opened'
    BY OpenedGrows DEF ActInv
  <1>3. CASE Asks /\ op'.kind \in {"open", "snap", "act"}
    <2>1. uses' = uses
      BY <1>3, LookSteps DEF Observe, client
    <2>2. ASSUME NEW r, Asked(r), AsksPlain(r)
          PROVE  Holding'
      <3>1. /\ op'.kind = "open" /\ op'.of = opened + 1 /\ opened' = op'.of /\ surfaces' = surfaces
            /\ wire' = wire \cup {r} /\ r.cap = Nil
        BY <1>3, <2>2 DEF AsksPlain, Asked
      <3>2. Spent' = Spent
        BY <2>1, <3>1 DEF Spent
      <3>3. op'.of \in Surface
        <4>1. OpType'
          BY ActInvNext DEF ActInv
        <4>2. QED
          BY <3>1, <4>1 DEF OpType
      <3>4. surfaces[op'.of] = Nil
        BY <1>2, <3>1, <3>3 DEF Offered
      <3>5. ASSUME NEW c \in Spent, c.what # "send"
            PROVE  c.of # op'.of
        <4>1. c.of \in Surface /\ c.of <= opened
          BY <3>5, SpentType, CapFacts DEF Offered, ActInv
        <4>2. QED
          BY <1>2, <3>1, <4>1 DEF Surface
      <3>6. op'.of <= opened'
        BY <1>2, <3>1
      <3>7. QED
        BY <3>1, <3>2, <3>4, <3>5, <3>6 DEF Holding
    <2>3. ASSUME NEW r, Asked(r), AsksAct(r)
          PROVE  Holding'
      <3>1. /\ op'.kind = "act" /\ op'.pc = "acting"
            /\ op'.of \in Surface /\ op'.on \in Control /\ ActSurface(op'.of, op'.on) /\ surfaces' # surfaces
        BY <2>3 DEF AsksAct
      <3>2. surfaces'[op'.of] # Nil
        BY <3>1, ActSurfaceFacts DEF ActInv
      <3>3. QED
        BY <3>1, <3>2 DEF Holding
    <2>4. QED
      BY <1>3, <2>2, <2>3, AsksShape, IdleFields DEF ActInv, AsksChat, AsksText, AsksClick
  <1>4. CASE Watches /\ op'.kind \in {"open", "snap", "act"}
    <2>1. uses' = uses /\ wire' = wire
      BY <1>4, LookSteps, WatchesWire DEF Observe, client
    <2>2. Spent' = Spent
      BY <2>1 DEF Spent
    <2>3. CASE WatchEnters
      BY <1>4, <2>3 DEF WatchEnters, Holding
    <2>4. CASE WatchShoots
      <3>1. CASE op.kind = "open"
        <4>1. op'.kind = "open" /\ op'.of = op.of /\ surfaces' = surfaces /\ op.of \in Surface
          BY <2>4, <3>1 DEF WatchShoots, ActInv, OpType
        <4>2. op.of <= opened'
          BY <1>2, <3>1, <4>1 DEF Holding, Surface
        <4>3. QED
          BY <2>2, <3>1, <4>1, <4>2 DEF Holding
      <3>2. CASE op.kind = "act"
        BY <2>4, <3>2 DEF WatchShoots, Holding
      <3>3. QED
        BY <2>4, <3>1, <3>2 DEF WatchShoots
    <2>5. QED
      BY <1>4, <2>3, <2>4, WatchesShape, IdleFields DEF ActInv, WatchEnds, WatchFrames, WatchBubbles, WatchSettles
  <1>5. CASE Reacts
    <2>1. /\ UNCHANGED <<surfaces, opened>> /\ op'.kind = op.kind /\ op'.pc = op.pc /\ op'.of = op.of
          /\ op'.snap = op.snap
      BY <1>5, ReactsShape DEF ActInv
    <2>2. Spent' \subseteq Spent
      BY <1>5, ReactsSpend
    <2>3. QED
      BY <2>1, <2>2 DEF Holding
  <1>6. CASE Ends
    <2>1. op' = Idle
      BY <1>6 DEF Ends, SurfaceClosed, CodeSubmitted, Fails, Restart, End
    <2>2. QED
      BY <1>1, <2>1, IdleFields
  <1>7. QED
    BY <1>1, <1>3, <1>4, <1>5, <1>6, Steps

OnceInv == ActInv /\ UsedOnce /\ Pending /\ Keys /\ Offered /\ Holding

LEMMA OnceInvInit == Init => OnceInv
  <1> SUFFICES ASSUME Init
               PROVE  OnceInv
    OBVIOUS
  <1>1. wire = {} /\ DOMAIN uses = {} /\ uses = [c \in {} |-> 1]
    BY DEF Init, EmptyBag, SetToBag
  <1>2. UsedOnce /\ Pending
    BY <1>1 DEF UsedOnce, Pending
  <1>3. Spent = {}
    BY <1>1 DEF Spent
  <1>4. Keys /\ Offered /\ Holding
    BY <1>3, IdleFields DEF Init, Keys, Offered, Holding
  <1>5. QED
    BY <1>2, <1>4, ActInvInit DEF OnceInv

LEMMA OnceInvariant == Spec => []OnceInv
  <1>1. OnceInv /\ [Next]_vars => OnceInv'
    <2> SUFFICES ASSUME OnceInv, [Next]_vars
                 PROVE  OnceInv'
      OBVIOUS
    <2>1. ActInv' /\ UsedOnce' /\ Pending' /\ Keys' /\ Offered'
      BY ActInvNext, PendingNext, KeysNext, OfferedNext DEF OnceInv
    <2>2. Holding'
      <3>1. CASE UNCHANGED vars
        BY <3>1 DEF OnceInv, Holding, Spent, vars
      <3>2. QED
        BY <3>1, HoldingNext DEF OnceInv
    <2>3. QED
      BY <2>1, <2>2 DEF OnceInv
  <1>2. QED
    BY <1>1, OnceInvInit, PTL DEF Spec

\* CapabilitiesAreOneShot: the driver and the companion implement OneShot.
\* Every write of a surface, every other advertised action and every send
\* reaches the client at most once in a run of the driver
\* (consumeSurfaceAction, tombstoneSurfaceReplay, rememberSend).
THEOREM OneShotCorrect == Spec => CapabilitiesAreOneShot
  <1>1. Init => Once!Init
    BY DEF Init, Once!Init, EmptyBag, SetToBag
  <1>2. OnceInv /\ OnceInv' /\ [Next]_vars => [Once!Use]_uses
    <2> SUFFICES ASSUME OnceInv, OnceInv', [Next]_vars, uses' # uses
                 PROVE  Once!Use
      OBVIOUS
    <2>1. DOMAIN uses \subseteq DOMAIN uses'
      BY UseSteps, UseDomain
    <2>2. QED
      BY <2>1 DEF OnceInv, UsedOnce, Once!Use
  <1>3. QED
    BY <1>1, <1>2, OnceInvariant, PTL DEF Spec, CapabilitiesAreOneShot, Once!Spec

LEMMA ArmedNext ==
    ASSUME armed \in BOOLEAN, [Next]_vars
    PROVE  armed' \in BOOLEAN
  BY Zenon DEF Next, UiChanges, BubblesChange, UiEvent, Perform, Refuse, CompanionRestart, OpenSurface, SnapshotSurface,
         CloseSurface, ActSurface, SurfaceChanged, SurfaceStored, SurfaceClosed, Send, ChatOpened,
         ChatStable, TextSet, ClickSend, WatchBubble, Status, BeginCapture, AuthCaptured,
         PerformAuthAction, AuthSettles, SubmitAuthCode, CodeTyped, CodeSubmitted, Fails, Restart,
         Observe, Arms, companion, vars

\* The type invariant of the driver, the companion and the client.
THEOREM ClientTypeCorrect == Spec => []TypeOK
  <1>1. Init => armed \in BOOLEAN
    BY DEF Init
  <1>2. armed \in BOOLEAN /\ [Next]_vars => (armed \in BOOLEAN)'
    BY ArmedNext
  <1>3. OnceInv /\ armed \in BOOLEAN => TypeOK
    <2> SUFFICES ASSUME OnceInv, armed \in BOOLEAN
                 PROVE  TypeOK
      OBVIOUS
    <2>1. uses \in [DOMAIN uses -> {n \in Nat : n > 0}] /\ DOMAIN uses \subseteq Cap
      BY DEF OnceInv, UsedOnce
    <2>2. IsABag(uses)
      BY <2>1 DEF IsABag
    <2>3. QED
      BY <2>1, <2>2, Zenon DEF TypeOK, OnceInv, ActInv, ClientType, CompanionType, OpType, DriverType
  <1>4. QED
    BY <1>1, <1>2, <1>3, OnceInvariant, PTL DEF Spec
=============================================================================
