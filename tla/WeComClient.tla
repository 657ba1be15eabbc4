----------------------------- MODULE WeComClient -----------------------------
(***************************************************************************)
(* What the WeCom driver does to the official client: surfaces, sends and  *)
(* the login screens (internal/driver/wecom/driver.go, send_guard.go,      *)
(* companion.go), through the accessibility companion.                     *)
(*                                                                         *)
(* The driver runs one operation at a time (operationMu), but every look   *)
(* at the screen and every act is a request of its own: the client's       *)
(* screen changes between any two of them, an act may be answered, refused *)
(* or lost, and an act the driver has given up on may still be performed   *)
(* later.  What must hold all the same is that an act meets the screen it  *)
(* was decided on, that a write happens once, that a message goes to the   *)
(* conversation it was meant for, and that a send called verified was made.*)
(*                                                                         *)
(* The semantic tree is abstracted to the page it shows (its window), the  *)
(* conversation, the text in the input and a content number.  The surface  *)
(* actions are those of a web page ("article"): an external write, a       *)
(* navigation, a search input.  A chat opened as a surface offers none, and *)
(* a security challenge is one more page that every guard refuses.         *)
(***************************************************************************)
EXTENDS Naturals, FiniteSets, Bags

CONSTANTS
    Conv,          \* conversations (a conversation is told by its title)
    Key,           \* idempotency keys
    Control,       \* controls of a web page, by what a click on them does
    AuthPages,     \* the frames on which an authentication action is offered
    Nil,           \* no value (external: nil)
    MaxOps,        \* bound: operations of the driver
    MaxChanges,    \* bound: changes of the screen that no act caused
    MaxSequence,   \* bound: UI changes the companion numbers
    MaxSurfaces,   \* bound: surfaces opened
    MaxRestarts,   \* bound: stops and starts of the driver
    MaxBubbles,    \* bound: bubbles of one text that a chat shows
    MaxLate        \* bound: acts the driver has given up on, still on the wire

ASSUME KnownControls == Control \subseteq {"publish", "next", "find"}
ASSUME KnownAuthPages == AuthPages \subseteq {"privacy", "terms", "method"}
ASSUME BoundsAreNat ==
    /\ MaxOps \in Nat /\ MaxChanges \in Nat /\ MaxSequence \in Nat \ {0} /\ MaxSurfaces \in Nat /\ MaxRestarts \in Nat
    /\ MaxBubbles \in Nat /\ MaxLate \in Nat

VARIABLES
    tree,       \* the screen of the official client
    seq,        \* CompanionRuntime.sequence
    observed,   \* SemanticSnapshotGuard.lastObserved
    armed,      \* actionable is lastObserved (TRUE) or null
    consumed,   \* consumedFingerprint
    wire,       \* POST /v1/actions requests not handled yet
    op,         \* the driver operation that holds operationMu
    surfaces,   \* Driver.surfaces
    opened,     \* how many surface identifiers were given out
    memos,      \* Driver.sendMemos
    shown,      \* the authentication frame last returned to the user
    changes,    \* how often the screen changed by itself
    ops,        \* how many operations were begun
    restarts,   \* how often the driver was stopped and started
    bubbles,    \* outgoing bubbles with the requested text that each chat shows
    uses,       \* the capabilities performed on the client, as a bag
    delivered,  \* the sends the client really made
    stray       \* the sends that were watched while a bubble of another origin
                \* came into view

companion == <<seq, observed, armed, consumed>>
driver == <<op, ops, surfaces, opened, memos, shown>>
client == <<tree, changes, bubbles, uses, delivered, stray>>
vars == <<tree, changes, seq, observed, armed, consumed, wire, op, ops,
          surfaces, opened, memos, shown, restarts, bubbles, uses, delivered, stray>>

Surface == 1 .. MaxSurfaces
Sequence == 1 .. MaxSequence
\* The input holds the requested text or another one (or none).
Typed == {"other", "text"}

Screen(page, c, typed, n) == [page |-> page, conv |-> c, typed |-> typed, n |-> n]

Screens ==
    {Screen(p, Nil, "other", 0) : p \in AuthPages \cup {"home"}}
      \cup {Screen("article", Nil, "other", n) : n \in 0 .. 1}
      \cup {Screen("sms", Nil, t, 0) : t \in Typed}
      \cup {Screen("chat", c, t, n) : c \in Conv, t \in Typed, n \in 0 .. MaxBubbles}

\* Screens the client may turn to: a chat as it was left, but for its input (no
\* draft is kept).
Reachable == {t \in Screens : t.typed = "other" /\ (t.page = "chat" => t.n = bubbles[t.conv])}

Snapshots == [seq : Sequence, tree : Screens]

\* A capability: a write of a surface, another action of one observation of
\* a surface, or a send.
Cap ==
    [of : Surface, at : {0}, what : {"publish"}]
      \cup [of : Surface, at : Sequence, what : Control \ {"publish"}]
      \cup [of : Key, at : 0 .. MaxRestarts, what : {"send"}]

Request ==
    [what : {"open", "type", "back", "auth", "submit"}, cap : {Nil},
     expected : 0 .. MaxSequence, shown : Screens \cup {Nil}, target : {Nil}, late : BOOLEAN]
      \cup [what : {"surface", "send"}, cap : Cap, expected : Sequence,
            shown : Screens, target : Conv \cup {Nil}, late : BOOLEAN]

\* No operation.  pc is the request or the look the operation is at, reply the
\* answer to its last act, of and on what it is about (a surface and a control,
\* a key and a conversation).
Idle == [kind |-> "idle", pc |-> "idle", reply |-> Nil, of |-> Nil, on |-> Nil,
         snap |-> Nil, base |-> 0]

Offer == [page : {"home", "article", "chat"}, seq : Sequence, tree : Screens,
          actions : SUBSET Control, consumed : SUBSET (Sequence \X Control),
          tombstones : SUBSET Control]

Memo == [conv : Conv, result : {"verified", "uncertain"}]

\* What the holder of operationMu knows.
Operation(of, on) ==
    [kind : {"idle", "open", "snap", "act", "close", "send", "look", "auth", "code"},
     pc : {"idle", "acting", "shot", "opened", "typing", "typed", "clicking", "seen", "settle"},
     reply : {Nil, "accepted", "refused"}, of : {of}, on : {on},
     snap : Snapshots \cup {Nil}, base : 0 .. MaxBubbles]

ASSUME NilIsNothing ==
    Nil \notin Conv \cup {"accepted", "refused"} \cup Cap \cup Screens \cup Snapshots
              \cup Memo \cup Offer

TypeOK ==
    /\ tree \in Screens /\ seq \in Sequence
    /\ observed \in Snapshots \cup {Nil} /\ armed \in BOOLEAN
    /\ consumed \in Screens \cup {Nil}
    /\ wire \subseteq Request
    /\ op \in Operation(op.of, op.on)
    /\ op.kind = "idle" => op = Idle
    /\ op.kind # "idle" => op.snap # Nil
    /\ op.kind \in {"open", "snap", "act", "close"} => op.of \in Surface
    /\ op.kind = "act" => op.on \in Control
    /\ op.kind = "send" => op.of \in Key /\ op.on \in Conv
    /\ surfaces \in [Surface -> Offer \cup {Nil}] /\ opened \in 0 .. MaxSurfaces
    /\ memos \in [Key -> Memo \cup {Nil}]
    /\ shown \in Snapshots \cup {Nil}
    /\ restarts \in 0 .. MaxRestarts /\ ops \in 0 .. MaxOps
    /\ changes \in 0 .. MaxChanges
    /\ bubbles \in [Conv -> 0 .. MaxBubbles]
    /\ IsABag(uses) /\ DOMAIN uses \subseteq Cap
    /\ {delivered, stray} \subseteq SUBSET [of : Key, at : 0 .. MaxRestarts, what : {"send"}]

Init ==
    /\ tree = Screen("home", Nil, "other", 0)
    /\ seq = 1 /\ observed = Nil /\ armed = FALSE /\ consumed = Nil
    /\ wire = {} /\ op = Idle /\ ops = 0
    /\ surfaces = [s \in Surface |-> Nil] /\ opened = 0 /\ memos = [k \in Key |-> Nil] /\ shown = Nil
    /\ restarts = 0 /\ changes = 0 /\ bubbles = [c \in Conv |-> 0]
    /\ uses = EmptyBag /\ delivered = {} /\ stray = {}

(***************************************************************************)
(* The official client and the companion.                                  *)
(***************************************************************************)
\* The screen changes by itself (the user, the network); its accessibility
\* event follows.
UiChanges(t) ==
    /\ t # tree /\ tree' = t
    /\ changes < MaxChanges /\ changes' = changes + 1
    /\ UNCHANGED <<companion, wire, driver, restarts, bubbles, uses, delivered, stray>>

SendCap(k) == [of |-> k, at |-> restarts, what |-> "send"]

\* Between the count of the baseline and the answer.
Watched(c) == op.kind = "send" /\ op.on = c /\ op.pc \in {"typing", "typed", "clicking", "seen"}

\* The bubbles of a chat change without the driver: the same text is sent or
\* recalled from another device, or the messages scroll.
BubblesChange(c, n) ==
    /\ n # bubbles[c] /\ bubbles' = [bubbles EXCEPT ![c] = n]
    /\ tree' = IF tree.page = "chat" /\ tree.conv = c THEN [tree EXCEPT !.n = n] ELSE tree
    /\ stray' = IF Watched(c) /\ n > op.base THEN stray \cup {SendCap(op.of)} ELSE stray
    /\ changes < MaxChanges /\ changes' = changes + 1
    /\ UNCHANGED <<companion, wire, driver, restarts, uses, delivered>>

UiEvent ==
    /\ seq < MaxSequence /\ seq' = seq + 1
    /\ UNCHANGED <<observed, armed, consumed, wire, driver, restarts, client>>

\* buildSnapshot: a tree that differs under the same number takes a new one.
Observed ==
    [seq |-> IF observed # Nil /\ observed.seq = seq /\ observed.tree # tree
                THEN seq + 1 ELSE seq,
     tree |-> tree]

\* record: the tree an act was performed on cannot be acted on again before
\* another one is seen.
Arms(s) == s.tree # consumed

Observe(s) ==
    /\ s = Observed /\ s.seq \in Sequence
    /\ seq' = s.seq /\ observed' = s
    /\ armed' = Arms(s)
    /\ consumed' = IF Arms(s) THEN Nil ELSE consumed
    /\ UNCHANGED <<restarts, client>>

\* matches and consume: the request names the current number, and the screen
\* is the one recorded under it.  open_notification is not guarded.
Guarded(r) ==
    \/ r.what = "open"
    \/ armed /\ r.expected = seq /\ observed = [seq |-> seq, tree |-> tree]

\* A request the driver still waits for is answered, unless the answer is
\* lost.
Answered(r, reply) ==
    \/ ~r.late /\ op' = [op EXCEPT !.reply = reply]
    \/ op' = op

\* What the client does with an act: an input takes the text, the send button
\* sends (or swallows the click), a notification opens some screen.
Effect(r) ==
    CASE r.what = "open" -> /\ tree' \in Reachable
                            /\ UNCHANGED <<bubbles, delivered>>
      [] r.what = "type" -> /\ tree' = [tree EXCEPT !.typed = "text"]
                            /\ UNCHANGED <<bubbles, delivered>>
      [] r.what = "send" -> \/ /\ tree.page = "chat" /\ bubbles[tree.conv] < MaxBubbles
                               /\ tree' = Screen("chat", tree.conv, "other", tree.n + 1)
                               /\ bubbles' = [bubbles EXCEPT ![tree.conv] = @ + 1]
                               /\ delivered' = delivered \cup {r.cap}
                            \/ /\ tree' \in {tree, [tree EXCEPT !.typed = "other"]}
                               /\ UNCHANGED <<bubbles, delivered>>
      [] OTHER -> UNCHANGED <<tree, bubbles, delivered>>

\* performConstrainedActionOnMainThread, from the guard to invokeAction.
Perform(r) ==
    /\ Guarded(r)
    /\ Effect(r)
    /\ wire' = wire \ {r}
    /\ uses' = IF r.cap = Nil THEN uses ELSE uses (+) SetToBag({r.cap})
    /\ IF r.what = "open" THEN UNCHANGED <<armed, consumed>>
                          ELSE armed' = FALSE /\ consumed' = tree
    /\ Answered(r, "accepted")
    /\ UNCHANGED <<seq, observed, ops, surfaces, opened, memos, shown, restarts, changes, stray>>

\* Refused: by the guard, by the node after the guard consumed the snapshot,
\* or never written to the connection.
Refuse(r) ==
    /\ wire' = wire \ {r}
    /\ IF Guarded(r) /\ r.what # "open"
          THEN \/ armed' = FALSE /\ consumed' = tree
               \/ UNCHANGED <<armed, consumed>>
          ELSE UNCHANGED <<armed, consumed>>
    /\ Answered(r, "refused")
    /\ UNCHANGED <<seq, observed, ops, surfaces, opened, memos, shown, restarts, client>>

\* The companion's process dies and is started again: the guard is empty, the
\* number restarts above the old one, connections are cut.
CompanionRestart ==
    /\ seq < MaxSequence /\ seq' = seq + 1
    /\ observed' = Nil /\ armed' = FALSE /\ consumed' = Nil /\ wire' = {}
    /\ UNCHANGED <<driver, restarts, client>>

(***************************************************************************)
(* The driver's helpers.                                                   *)
(***************************************************************************)
\* prepareSurfaceSnapshot, validateSurfaceSnapshot
ValidSurface(t) == t.page \in {"home", "article", "chat"}

\* sameSurfaceObservation: sequence and window
SameObservation(a, b) == a.seq = b.seq /\ a.tree.page = b.tree.page

\* Mutant of ValidFrame: the title in the header is not compared.
AnyChat(t, c) == t.page = "chat" /\ c \in Conv

\* The frame of validateChatFrame: the conversation's Activity with its title
\* in the header.  The send button exists while the input holds text.
ValidFrame(t, c) == t.page = "chat" /\ t.conv = c
ReadyToSend(t, c) == ValidFrame(t, c) /\ t.typed = "text"

\* Mutant of NewBubble: the bubbles that were there before count.
AnyBubble(s) == s.seq > op.snap.seq /\ s.tree.typed # "text" /\ s.tree.n >= op.base

\* waitForDirectionalOutgoingBubble, one observation
NewBubble(s) == s.seq > op.snap.seq /\ s.tree.typed # "text" /\ s.tree.n = op.base + 1

\* The login frames with an action, and the one with an input for a code.
PrivacyConsent(t) == t.page = "privacy"
LoginMethod(t) == t.page \in {"terms", "method"}
OffersAuthAction(t) == PrivacyConsent(t) \/ LoginMethod(t)
SmsScreen(t) == t.page = "sms"

\* bindAuthActionID: the action is bound to the account, the frame and its image.
BoundTo(frame, s) == frame = s

\* surfaceContextDigest, in Send's comparison of two observations
SameFrame(a, b) == a.seq = b.seq /\ a.tree = b.tree

\* The controls of a page, and the effect of each (classifySurfaceAction)
Controls(t) == IF t.page = "article" THEN Control ELSE {}
EffectOf(c) == CASE c = "publish" -> "external_write"
                 [] c = "next" -> "navigate"
                 [] OTHER -> "search_input"

\* Mutant of ShouldTombstone: only a failed act is tombstoned.
TombstoneFailures(c, succeeded) == EffectOf(c) # "search_input" /\ ~succeeded

ShouldTombstone(c, succeeded) ==
    CASE EffectOf(c) = "search_input" -> FALSE
      [] EffectOf(c) = "navigate" -> ~succeeded
      [] OTHER -> TRUE

\* tombstoneSurfaceReplay
Tombstoned(f, s, c) ==
    IF f[s] = Nil THEN f
    ELSE [f EXCEPT ![s].tombstones = @ \cup {c}, ![s].actions = @ \ {c}]

\* consumeSurfaceAction
Consumed(f, s, c) ==
    [f EXCEPT ![s].actions = @ \ {c}, ![s].consumed = @ \cup {<<f[s].seq, c>>}]

\* The tail of updateSurface: what was used or tombstoned is not offered.
Updated(id, s) ==
    LET old == surfaces[id]
        kept == old # Nil /\ old.page = s.tree.page
        gone == IF kept THEN old.consumed ELSE {}
        dead == IF kept THEN old.tombstones ELSE {}
    IN  [page |-> s.tree.page, seq |-> s.seq, tree |-> s.tree,
         actions |-> {c \in Controls(s.tree) \ dead : <<s.seq, c>> \notin gone},
         consumed |-> gone, tombstones |-> dead]

\* Mutant of StillCurrent: the window is compared, not what it shows.
SameWindow(state, s) == ValidSurface(s.tree) /\ s.tree.page = state.page

\* validateSurfaceActionState and the checks before it: the action is
\* performed on the observation it was offered in.
StillCurrent(state, s) ==
    /\ ValidSurface(s.tree) /\ s.tree.page = state.page
    /\ s.seq = state.seq /\ s.tree = state.tree

Post(what, cap, expected, t) ==
    /\ Cardinality(wire) <= MaxLate
    /\ wire' = wire \cup {[what |-> what, cap |-> cap, expected |-> expected,
                           shown |-> t, late |-> FALSE,
                           target |-> IF what = "send" THEN op.on ELSE Nil]}

Enter(kind, pc, of, on, s) ==
    op' = [kind |-> kind, pc |-> pc, reply |-> Nil, of |-> of, on |-> on,
           snap |-> s, base |-> 0]

Continue(pc, s) == op' = [op EXCEPT !.pc = pc, !.reply = Nil, !.snap = s]
Accepted(kind, pc) == op.kind = kind /\ op.pc = pc /\ op.reply = "accepted"
End == op' = Idle

\* operationMu is taken.
Begins == op = Idle /\ ops < MaxOps /\ ops' = ops + 1
Known(s) == surfaces[s] # Nil

(***************************************************************************)
(* Surfaces.                                                               *)
(***************************************************************************)
\* OpenSurface: resolve the notification, look, open it.
OpenSurface(id) ==
    /\ Begins /\ id = opened + 1 /\ opened' = id
    /\ Observe(Observed)
    /\ Post("open", Nil, 0, Nil)
    /\ Enter("open", "acting", id, Nil, Observed)
    /\ UNCHANGED <<surfaces, memos, shown>>

SnapshotSurface(id) ==
    /\ Begins /\ Known(id)
    /\ Observe(Observed)
    /\ IF ValidSurface(tree) /\ tree.page = surfaces[id].page
          THEN Enter("snap", "shot", id, Nil, Observed) ELSE op' = op
    /\ UNCHANGED <<wire, surfaces, opened, memos, shown>>

\* ActSurface up to the request: the action is used up, and a write
\* tombstoned, before it is sent.
ActSurface(id, c) ==
    /\ Begins /\ Known(id) /\ c \in surfaces[id].actions
    /\ Observe(Observed)
    /\ IF StillCurrent(surfaces[id], Observed)
          THEN LET used == Consumed(surfaces, id, c)
                   write == ShouldTombstone(c, TRUE)
               IN /\ Post("surface",
                          [of |-> id, at |-> IF EffectOf(c) = "external_write" THEN 0 ELSE surfaces[id].seq,
                           what |-> c], Observed.seq, surfaces[id].tree)
                  /\ surfaces' = IF write THEN Tombstoned(used, id, c) ELSE used
                  /\ Enter("act", "acting", id, c, Observed)
          ELSE UNCHANGED <<op, wire, surfaces>>
    /\ UNCHANGED <<opened, memos, shown>>

\* An error after the act tombstones everything but a search.
FailedAct == IF op.kind = "act" /\ ShouldTombstone(op.on, FALSE)
                THEN Tombstoned(surfaces, op.of, op.on) ELSE surfaces

\* waitForSnapshotChange, then the first half of updateSurface.
SurfaceChanged ==
    /\ Accepted("open", "acting") \/ Accepted("act", "acting")
    /\ Observe(Observed) /\ Observed.seq > op.snap.seq
    /\ IF ValidSurface(tree) /\ (op.kind = "act" => tree.page = surfaces[op.of].page)
          THEN Continue("shot", Observed) /\ UNCHANGED surfaces
          ELSE End /\ surfaces' = FailedAct
    /\ UNCHANGED <<ops, wire, opened, memos, shown>>

\* After the screenshot: the surface is stored when nothing has moved.
SurfaceStored ==
    /\ op.kind \in {"open", "snap", "act"} /\ op.pc = "shot"
    /\ Observe(Observed) /\ End
    /\ surfaces' = IF ValidSurface(tree) /\ SameObservation(op.snap, Observed)
                      THEN [surfaces EXCEPT ![op.of] = Updated(op.of, Observed)]
                      ELSE FailedAct
    /\ UNCHANGED <<ops, wire, opened, memos, shown>>

CloseSurface(id) ==
    /\ Begins /\ Known(id)
    /\ Observe(Observed)
    /\ IF /\ ValidSurface(tree) /\ tree.page = surfaces[id].page
          /\ Observed.seq = surfaces[id].seq
          THEN /\ Post("back", Nil, Observed.seq, tree)
               /\ Enter("close", "acting", id, Nil, Observed)
          ELSE UNCHANGED <<op, wire>>
    /\ UNCHANGED <<surfaces, opened, memos, shown>>

SurfaceClosed ==
    /\ Accepted("close", "acting") /\ End
    /\ surfaces' = [surfaces EXCEPT ![op.of] = Nil]
    /\ UNCHANGED <<ops, companion, wire, opened, memos, shown, restarts, client>>

(***************************************************************************)
(* Sends.                                                                  *)
(***************************************************************************)
\* A key with a memo is answered from it; otherwise the conversation's last
\* notification is opened.
Send(k, c) ==
    /\ Begins /\ memos[k] = Nil
    /\ Observe(Observed)
    /\ Post("open", Nil, 0, Nil)
    /\ Enter("send", "acting", k, c, Observed)
    /\ UNCHANGED <<surfaces, opened, memos, shown>>

\* openNotificationConversation: the frame is seen once ...
ChatOpened ==
    /\ Accepted("send", "acting")
    /\ Observe(Observed) /\ Observed.seq > op.snap.seq
    /\ IF ValidFrame(tree, op.on) THEN Continue("opened", Observed) ELSE End
    /\ UNCHANGED <<ops, wire, surfaces, opened, memos, shown>>

\* ... and again, unchanged; the baseline is counted and the text set.
ChatStable ==
    /\ op.kind = "send" /\ op.pc = "opened"
    /\ Observe(Observed)
    /\ IF ValidFrame(tree, op.on) /\ SameFrame(op.snap, Observed)
          THEN /\ Post("type", Nil, Observed.seq, tree)
               /\ op' = [op EXCEPT !.pc = "typing", !.snap = Observed, !.base = tree.n]
          ELSE End /\ UNCHANGED wire
    /\ UNCHANGED <<ops, surfaces, opened, memos, shown>>

\* The input holds the text in the same frame ...
TextSet ==
    /\ Accepted("send", "typing")
    /\ Observe(Observed) /\ Observed.seq > op.snap.seq
    /\ IF ReadyToSend(tree, op.on) THEN Continue("typed", Observed) ELSE End
    /\ UNCHANGED <<ops, wire, surfaces, opened, memos, shown>>

\* ... and once more immediately before the click.
ClickSend ==
    /\ op.kind = "send" /\ op.pc = "typed"
    /\ Observe(Observed)
    /\ IF ReadyToSend(tree, op.on) /\ SameFrame(op.snap, Observed)
          THEN /\ Post("send", SendCap(op.of), Observed.seq, tree)
               /\ Continue("clicking", Observed)
          ELSE End /\ UNCHANGED wire
    /\ UNCHANGED <<ops, surfaces, opened, memos, shown>>

\* rememberSend
Remembered(result) == [memos EXCEPT ![op.of] = [conv |-> op.on, result |-> result]]

\* waitForDirectionalOutgoingBubble: verified after two observations of the
\* new bubble in a row, uncertain when the frame is lost.
WatchBubble ==
    /\ Accepted("send", "clicking") \/ Accepted("send", "seen")
    /\ Observe(Observed)
    /\ IF ~ValidFrame(tree, op.on) THEN End /\ memos' = Remembered("uncertain")
       ELSE IF ~NewBubble(Observed) THEN op' = [op EXCEPT !.pc = "clicking"] /\ UNCHANGED memos
       ELSE IF op.pc = "clicking" THEN op' = [op EXCEPT !.pc = "seen"] /\ UNCHANGED memos
       ELSE End /\ memos' = Remembered("verified")
    /\ UNCHANGED <<ops, wire, surfaces, opened, shown>>

(***************************************************************************)
(* The login screens and Status.                                           *)
(***************************************************************************)
\* Status looks at the screen and classifies it.
Status ==
    /\ op = Idle /\ Observe(Observed)
    /\ UNCHANGED <<wire, driver>>

\* captureAuthSnapshot: an observation before the screenshot ...
BeginCapture(kind) ==
    /\ Begins
    /\ Observe(Observed)
    /\ IF OffersAuthAction(tree)
          THEN Enter(kind, "shot", Nil, IF kind = "auth" THEN shown ELSE Nil, Observed) ELSE op' = op
    /\ UNCHANGED <<wire, surfaces, opened, memos, shown>>

\* ... and the same one after it: AuthSnapshot returns the frame,
AuthCaptured ==
    /\ op.kind = "look" /\ op.pc = "shot"
    /\ Observe(Observed) /\ End
    /\ shown' = IF SameFrame(op.snap, Observed) THEN Observed ELSE shown
    /\ UNCHANGED <<ops, wire, surfaces, opened, memos>>

\* PerformAuthAction clicks when it is the frame the action was bound to.
PerformAuthAction ==
    /\ op.kind = "auth" /\ op.pc = "shot"
    /\ Observe(Observed)
    /\ IF SameFrame(op.snap, Observed) /\ BoundTo(op.on, Observed)
          THEN /\ Post("auth", Nil, Observed.seq, op.on.tree)
               /\ Continue("acting", Observed)
          ELSE End /\ UNCHANGED wire
    /\ UNCHANGED <<ops, surfaces, opened, memos, shown>>

\* waitForPrivacyConsentDismissal, ...TermsAccepted, ...MethodDismissal: look
\* until two observations in a row show the result.
AuthSettles ==
    /\ Accepted("auth", "acting") \/ Accepted("auth", "settle")
    /\ Observe(Observed)
    /\ IF Observed.seq = op.snap.seq \/ tree.page = op.snap.tree.page
          THEN op' = [op EXCEPT !.pc = "acting"]
          ELSE IF op.pc = "acting"
                  THEN op' = [op EXCEPT !.pc = "settle"] ELSE End
    /\ UNCHANGED <<ops, wire, surfaces, opened, memos, shown>>

\* SubmitAuthCode: the code is typed into the one input of the SMS screen
SubmitAuthCode ==
    /\ Begins
    /\ Observe(Observed)
    /\ IF SmsScreen(tree)
          THEN /\ Post("type", Nil, Observed.seq, tree)
               /\ Enter("code", "typing", Nil, Nil, Observed)
          ELSE UNCHANGED <<op, wire>>
    /\ UNCHANGED <<surfaces, opened, memos, shown>>

\* and submitted when the screen has changed and is still that screen.
CodeTyped ==
    /\ Accepted("code", "typing")
    /\ Observe(Observed) /\ Observed.seq > op.snap.seq
    /\ IF SmsScreen(tree)
          THEN Post("submit", Nil, Observed.seq, tree) /\ Continue("acting", Observed)
          ELSE End /\ UNCHANGED wire
    /\ UNCHANGED <<ops, surfaces, opened, memos, shown>>

CodeSubmitted ==
    /\ Accepted("code", "acting") /\ End
    /\ UNCHANGED <<ops, companion, wire, surfaces, opened, memos, shown, restarts, client>>

(***************************************************************************)
(* Failures.                                                               *)
(***************************************************************************)
\* The operation ends with an error: a look fails, an act is refused, not
\* answered or answered too late, a wait runs out, the caller is gone.  A
\* click on the send button that may have been made leaves an uncertain memo,
\* an act on a surface its tombstone; the request itself may still arrive.
Fails ==
    /\ op # Idle /\ End
    /\ wire' = {[r EXCEPT !.late = TRUE] : r \in wire}
    /\ surfaces' = FailedAct
    /\ memos' = IF op.kind = "send" /\ op.pc \in {"clicking", "seen"} /\ op.reply # "refused"
                   THEN Remembered("uncertain") ELSE memos
    /\ UNCHANGED <<ops, companion, opened, shown, restarts, client>>

\* Stop and Start: the maps are new, the container is another process.
Restart ==
    /\ op = Idle /\ restarts < MaxRestarts /\ seq < MaxSequence
    /\ restarts' = restarts + 1
    /\ surfaces' = [s \in Surface |-> Nil]
    /\ memos' = [k \in Key |-> Nil]
    /\ tree' = Screen("home", Nil, "other", 0) /\ seq' = seq + 1
    /\ observed' = Nil /\ armed' = FALSE /\ consumed' = Nil /\ wire' = {}
    /\ UNCHANGED <<op, ops, opened, shown, changes, bubbles, uses, delivered, stray>>

Next ==
    \/ \E t \in Reachable : UiChanges(t)
    \/ \E c \in Conv, n \in 0 .. MaxBubbles : BubblesChange(c, n)
    \/ UiEvent
    \/ \E r \in wire : Perform(r) \/ Refuse(r)
    \/ CompanionRestart
    \/ \E id \in Surface : OpenSurface(id) \/ SnapshotSurface(id) \/ CloseSurface(id)
    \/ \E id \in Surface, c \in Control : ActSurface(id, c)
    \/ SurfaceChanged \/ SurfaceStored \/ SurfaceClosed
    \/ \E k \in Key, c \in Conv : Send(k, c)
    \/ ChatOpened \/ ChatStable \/ TextSet \/ ClickSend \/ WatchBubble
    \/ Status \/ BeginCapture("look") \/ AuthCaptured
    \/ shown # Nil /\ BeginCapture("auth")
    \/ PerformAuthAction \/ AuthSettles
    \/ SubmitAuthCode \/ CodeTyped \/ CodeSubmitted
    \/ Fails \/ Restart

Spec == Init /\ [][Next]_vars

(***************************************************************************)
(* Properties.                                                             *)
(***************************************************************************)
\* Every write of a surface, every other advertised action and every send
\* reaches the client at most once, although acts are retried, answers lost
\* and requests late (consumeSurfaceAction, tombstoneSurfaceReplay,
\* rememberSend).
Once == INSTANCE OneShot WITH Cap <- Cap, uses <- uses
CapabilitiesAreOneShot == Once!Spec

\* An act lands on the very screen it was decided on: the observation the
\* surface action was offered in, the image the user confirmed for a login
\* action, the frame a send or a code was prepared in (validateSurfaceActionState,
\* bindAuthActionID, ExpectedSequence of every CompanionAction).
ActsOnWhatWasShown ==
    [][\A r \in wire : Perform(r) /\ r.shown # Nil => r.shown = tree]_vars

\* A message is only ever sent from the conversation it was requested for,
\* with the requested text in the input (validateChatFrame before the click).
SendsHitTheirTarget ==
    [][\A r \in wire : Perform(r) /\ r.what = "send" =>
          tree.page = "chat" /\ tree.conv = r.target /\ tree.typed = "text"]_vars

Verified(k) == memos[k] # Nil /\ memos[k].result = "verified"

\* A send reported verified was clicked for its key in this run of the driver, and
\* the client made it rather than swallow the click, unless a bubble of the same text
\* came into view from elsewhere just while the send was watched, which
\* waitForDirectionalOutgoingBubble cannot tell from it.  No bubble that was there
\* before, and no late click of another send, is mistaken for the message.
VerifiedIsSent ==
    \A k \in Key : Verified(k) =>
        SendCap(k) \in DOMAIN uses /\ SendCap(k) \in delivered \cup stray
=============================================================================
