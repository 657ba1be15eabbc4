--------------------------- MODULE AuthChallenge ---------------------------
(***************************************************************************)
(* The login challenge of internal/auth/manager.go: a one-time web page    *)
(* per login attempt.  Each challenge has a monitor goroutine that probes  *)
(* the official client every second, and a server whose handlers run       *)
(* concurrently: the page, its state, its image, a verification code, a    *)
(* confirmed onboarding action.  A handler looks at the challenge under    *)
(* its mutex, asks the driver for a snapshot without it, and takes it      *)
(* again to apply what it saw: every such section is an action here.       *)
(*                                                                         *)
(* What the client shows is up to the client: a snapshot is any member of  *)
(* Screens, or an error, whenever it was taken.  It is therefore chosen in *)
(* the step that applies it, however stale it may be by then.  Time is     *)
(* counted per challenge, in ticks.                                        *)
(***************************************************************************)
EXTENDS Naturals, FiniteSets

CONSTANTS
    Account, Challenge, Handler,
    Id,             \* generation-bound IDs of onboarding actions
    ReplayKey,      \* the logical operations they stand for
    Screens,        \* what a snapshot may show
    Requests,       \* the page's request kinds exercised
    TTL,            \* challengeTTL
    Window,         \* onlineStabilityWindow
    MinObs,         \* minimumStableOnlineObservations
    Retention,      \* completedRetention
    MaxCodes,       \* the eight attempts of submitCode
    MaxPerAction,   \* maxAuthActionAttemptsPerAction
    MaxActions,     \* maxAuthActionAttemptsPerChallenge
    Nil

Advert == [id : Id, key : ReplayKey]

Snapshot == [state : {"ONLINE", "AUTH_REQUIRED", "STARTING"}, sms : BOOLEAN,
             actions : SUBSET Advert]

ASSUME LimitsAreNatural ==
    {TTL, Window, MinObs, Retention, MaxCodes, MaxPerAction, MaxActions} \subseteq Nat

ASSUME ScreensAreSnapshots == Screens \subseteq Snapshot

ASSUME NilIsNothing == Nil \notin Account \cup Challenge \cup Id \cup ReplayKey \cup Nat

VARIABLES
    \* the manager
    daemon,     \* "up" or "closed" (CloseAll has run)
    listed,     \* challenges in m.entries
    closing,    \* challenges with a pending `go existing.close()`
    files,      \* challenges whose directory with the QR code exists
    \* the entries
    phase,      \* "none", "failed" (in Begin), "open" or "closed"
    owner,      \* the account
    age,        \* ticks since it began, up to TTL + 1
    completedAt,\* its age when it completed, or Nil
    kept,       \* ticks since then, up to Retention
    shown,      \* public.State
    cand,       \* ticks since onlineCandidateSince, up to Window, or Nil
    obs,        \* onlineObservations, up to MinObs
    codeAttempts, codeInFlight, codeSubmitted,
    actionAttempts, totalActionAttempts, actionInFlight,
    performedActions, performedReplayKeys,
    \* the monitors
    mon,
    \* the handlers
    pc, chal, id, key,
    res,        \* what it is about to answer
    reply,      \* its last answer
    \* history
    hits,       \* hits[c][k]: dispatches of operation k that may have had an effect
    accepted    \* accepted[c]: verification codes the driver accepted

managerVars == <<daemon, listed, closing, files>>
lifeVars    == <<phase, owner, age>>
viewVars    == <<completedAt, kept, shown, cand, obs>>
codeVars    == <<codeAttempts, codeInFlight, codeSubmitted>>
actionVars  == <<actionAttempts, totalActionAttempts, actionInFlight,
                 performedActions, performedReplayKeys>>
handlerVars == <<pc, chal, id, key, res, reply>>
history     == <<hits, accepted>>

vars == <<managerVars, lifeVars, viewVars, codeVars, actionVars, mon,
          handlerVars, history>>

\* The smaller of two numbers: counters are only ever compared with a limit.
AtMost(n, limit) == IF n > limit THEN limit ELSE n

NoReply == [chal |-> Nil, code |-> "none", offer |-> {}]

Served(c)    == phase[c] \in {"open", "closed"}
Closed(c)    == phase[c] = "closed"
Completed(c) == completedAt[c] # Nil
Expired(c)   == age[c] > TTL
Over(c)      == Closed(c) \/ Expired(c) \/ Completed(c)

-----------------------------------------------------------------------------
(* Completion.                                                             *)

\* markCompletedLocked: the first call sets the time, every call the state.
MarkCompleted(c) ==
    /\ shown' = [shown EXCEPT ![c] = "ONLINE"]
    /\ completedAt' = [completedAt EXCEPT ![c] = IF @ = Nil THEN age[c] ELSE @]
    /\ kept' = IF completedAt[c] = Nil THEN [kept EXCEPT ![c] = 0] ELSE kept

\* A snapshot that does not show the main window ends the candidacy.
ObserveOther(c, state) ==
    /\ state # "ONLINE"
    /\ cand' = [cand EXCEPT ![c] = Nil]
    /\ obs' = [obs EXCEPT ![c] = 0]
    /\ shown' = [shown EXCEPT ![c] = state]
    /\ UNCHANGED <<completedAt, kept>>

\* observeAuthSnapshotLocked: ONLINE is a candidate until it has been seen
\* MinObs times over at least Window.
ObserveAuthSnapshot(c, state) ==
    \/ ObserveOther(c, state)
    \/ LET since == IF cand[c] = Nil THEN 0 ELSE cand[c]
           n     == AtMost(IF cand[c] = Nil THEN 1 ELSE obs[c] + 1, MinObs)
       IN  /\ state = "ONLINE"
           /\ cand' = [cand EXCEPT ![c] = since]
           /\ obs' = [obs EXCEPT ![c] = n]
           /\ \/ n >= MinObs /\ since >= Window /\ MarkCompleted(c)
              \/ /\ n < MinObs \/ since < Window
                 /\ shown' = [shown EXCEPT ![c] = "STARTING"]
                 /\ UNCHANGED <<completedAt, kept>>

-----------------------------------------------------------------------------
(* The manager: one listed challenge per account.                          *)

\* Begin: the link's QR code is written, the client is probed once (an error
\* counts as a screen that is not the main window), and the new entry takes
\* the place of the account's earlier ones, which are closed on the side.
Begin(c, a, state) ==
    LET replaced == {d \in listed : owner[d] = a}
    IN  /\ phase[c] = "none"
        /\ phase' = [phase EXCEPT ![c] = "open"]
        /\ owner' = [owner EXCEPT ![c] = a]
        /\ files' = files \cup {c}
        /\ listed' = (listed \ replaced) \cup {c}
        /\ closing' = closing \cup replaced
        /\ ObserveAuthSnapshot(c, state)
        /\ mon' = [mon EXCEPT ![c] = "tick"]
        /\ UNCHANGED <<daemon, age, codeVars, actionVars, handlerVars, history>>

\* Begin fails when the QR code cannot be written; its directory stays.
BeginFails(c) ==
    /\ phase[c] = "none"
    /\ phase' = [phase EXCEPT ![c] = "failed"]
    /\ files' = files \cup {c}
    /\ UNCHANGED <<daemon, listed, closing, owner, age, viewVars, codeVars, actionVars,
                   mon, handlerVars, history>>

\* entry.close: only the first call has an effect.
CloseEntry(c) ==
    /\ c \in closing
    /\ closing' = closing \ {c}
    /\ phase' = [phase EXCEPT ![c] = "closed"]
    /\ UNCHANGED <<daemon, listed, files, owner, age, viewVars, codeVars, actionVars,
                   mon, handlerVars, history>>

\* CloseAll holds m.mu from the first entry to the last: the handlers of one
\* entry do not see another, so the whole call is one step.  It does not
\* wait for the monitors.
CloseAll ==
    /\ daemon = "up"
    /\ daemon' = "closed"
    /\ phase' = [c \in Challenge |-> IF c \in listed THEN "closed" ELSE phase[c]]
    /\ listed' = {}
    /\ UNCHANGED <<closing, files, owner, age, viewVars, codeVars, actionVars, mon,
                   handlerVars, history>>

\* Time passes for every challenge at once.
Tick ==
    /\ age' = [c \in Challenge |->
                  IF Served(c) THEN AtMost(age[c] + 1, TTL + 1) ELSE 0]
    /\ kept' = [c \in Challenge |->
                   IF Completed(c) THEN AtMost(kept[c] + 1, Retention) ELSE 0]
    /\ cand' = [c \in Challenge |->
                   IF cand[c] = Nil THEN Nil ELSE AtMost(cand[c] + 1, Window)]
    /\ UNCHANGED <<managerVars, phase, owner, completedAt, shown, obs, codeVars,
                   actionVars, mon, handlerVars, history>>

-----------------------------------------------------------------------------
(* The monitor goroutine of a challenge.                                   *)

MonGoto(c, l) == mon' = [mon EXCEPT ![c] = l]

\* What the monitor does once it has the mutex, before and after its probe:
\* it ends for a closed or expired challenge, and keeps a completed one for
\* its retention.
MonitorLeaves(c) ==
    \/ /\ Closed(c)
       /\ MonGoto(c, "unlist")
       /\ UNCHANGED viewVars
    \/ /\ ~Closed(c) /\ Completed(c)
       /\ MarkCompleted(c)
       /\ MonGoto(c, "retain")
       /\ UNCHANGED <<cand, obs>>
    \/ /\ ~Closed(c) /\ ~Completed(c) /\ Expired(c)
       /\ shown' = [shown EXCEPT ![c] = "OFFLINE"]
       /\ MonGoto(c, "unlist")
       /\ UNCHANGED <<completedAt, kept, cand, obs>>

MonUnchanged == UNCHANGED <<managerVars, lifeVars, codeVars, actionVars, handlerVars, history>>

\* Mutant: expiry is looked at only after a probe that succeeded.
MonitorTickNoExpiry(c) ==
    /\ mon[c] = "tick"
    /\ \/ (Closed(c) \/ Completed(c)) /\ MonitorLeaves(c)
       \/ ~Closed(c) /\ ~Completed(c) /\ MonGoto(c, "probe") /\ UNCHANGED viewVars
    /\ MonUnchanged

\* Every second, or at once when the challenge is closed; then the client is
\* probed.
MonitorTick(c) ==
    /\ mon[c] = "tick"
    /\ \/ MonitorLeaves(c)
       \/ ~Over(c) /\ MonGoto(c, "probe") /\ UNCHANGED viewVars
    /\ MonUnchanged

\* Mutant: the challenge is given up at once instead of being retained.
MonitorProbeNoRetention(c) ==
    /\ mon[c] = "probe"
    /\ \/ MonGoto(c, "tick") /\ UNCHANGED viewVars
       \/ MonitorLeaves(c)
       \/ /\ ~Over(c)
          /\ \E s \in Screens : ObserveAuthSnapshot(c, s.state)
          /\ MonGoto(c, IF completedAt'[c] # Nil THEN "unlist" ELSE "tick")
    /\ MonUnchanged

\* A failed probe is skipped, another one applied to the challenge as it is
\* by then.
MonitorProbe(c) ==
    /\ mon[c] = "probe"
    /\ \/ MonGoto(c, "tick") /\ UNCHANGED viewVars
       \/ MonitorLeaves(c)
       \/ /\ ~Over(c)
          /\ \E s \in Screens : ObserveAuthSnapshot(c, s.state)
          /\ MonGoto(c, IF completedAt'[c] # Nil THEN "retain" ELSE "tick")
    /\ MonUnchanged

\* waitForCompletedRetention.
MonitorRetain(c) ==
    /\ mon[c] = "retain"
    /\ Closed(c) \/ kept[c] >= Retention
    /\ MonGoto(c, "unlist")
    /\ MonUnchanged /\ UNCHANGED viewVars

\* The deferred end: the entry is unlisted, closed, and its QR code removed.
MonitorUnlist(c) ==
    /\ mon[c] = "unlist"
    /\ listed' = listed \ {c}
    /\ MonGoto(c, "close")
    /\ UNCHANGED <<daemon, closing, files, lifeVars, viewVars, codeVars, actionVars,
                   handlerVars, history>>

MonitorClose(c) ==
    /\ mon[c] = "close"
    /\ phase' = [phase EXCEPT ![c] = "closed"]
    /\ files' = files \ {c}
    /\ MonGoto(c, "none")
    /\ UNCHANGED <<daemon, listed, closing, owner, age, viewVars, codeVars, actionVars,
                   handlerVars, history>>

Monitor(c) ==
    \/ MonitorTick(c) \/ MonitorProbe(c) \/ MonitorRetain(c)
    \/ MonitorUnlist(c) \/ MonitorClose(c)

-----------------------------------------------------------------------------
(* The handlers.  An entry's server takes requests until it is closed; the *)
(* handlers that are running then go on.                                   *)

Goto(h, l) == pc' = [pc EXCEPT ![h] = l]

\* The request of kind o reaches challenge c.
Arrives(h, o, c) ==
    /\ o \in Requests
    /\ pc[h] = "idle" /\ Served(c)
    /\ chal' = [chal EXCEPT ![h] = c]

\* A handler that answers forgets what it held.
RespondWith(h, r) ==
    /\ reply' = [reply EXCEPT ![h] = r]
    /\ pc' = [pc EXCEPT ![h] = "done"]
    /\ id' = [id EXCEPT ![h] = Nil]
    /\ key' = [key EXCEPT ![h] = Nil]
    /\ res' = [res EXCEPT ![h] = "none"]

Respond(h, c, code) == RespondWith(h, [chal |-> c, code |-> code, offer |-> {}])

Continue(h, l) ==
    /\ Goto(h, l)
    /\ UNCHANGED <<id, key, res, reply>>

\* The answer is delivered and the handler is free for another request.
Deliver(h) ==
    /\ pc[h] = "done"
    /\ Goto(h, "idle")
    /\ chal' = [chal EXCEPT ![h] = Nil]
    /\ reply' = [reply EXCEPT ![h] = NoReply]
    /\ UNCHANGED <<managerVars, lifeVars, viewVars, codeVars, actionVars, mon,
                   id, key, res, history>>

\* Mutant: a completed challenge answers the state that was recorded last.
AnsweredAsRecorded(h, c) ==
    /\ Over(c)
    /\ Respond(h, c, IF ~Closed(c) /\ Completed(c) THEN shown[c] ELSE "gone")
    /\ UNCHANGED viewVars

\* What every view of the challenge answers first: a completed challenge is
\* ONLINE for as long as it is there.
Answered(h, c) ==
    \/ /\ Closed(c)
       /\ Respond(h, c, "gone")
       /\ UNCHANGED viewVars
    \/ /\ ~Closed(c) /\ Completed(c)
       /\ MarkCompleted(c)
       /\ Respond(h, c, "ONLINE")
       /\ UNCHANGED <<cand, obs>>
    \/ /\ ~Closed(c) /\ ~Completed(c) /\ Expired(c)
       /\ Respond(h, c, "gone")
       /\ UNCHANGED viewVars

PageUnchanged == UNCHANGED <<managerVars, lifeVars, codeVars, actionVars, mon, hits, accepted>>

\* handlePage, and Manager.Status for a listed challenge.
Page(h, c) ==
    /\ Arrives(h, "page", c)
    /\ \/ Answered(h, c)
       \/ ~Over(c) /\ Respond(h, c, shown[c]) /\ UNCHANGED viewVars
    /\ PageUnchanged

\* handleState does not disturb an action that is being performed.
StateAnswered(h, c) ==
    \/ Answered(h, c)
    \/ /\ ~Over(c) /\ c \in actionInFlight
       /\ Respond(h, c, shown[c])
       /\ UNCHANGED viewVars

StateBegin(h, c) ==
    /\ Arrives(h, "state", c)
    /\ \/ StateAnswered(h, c)
       \/ ~Over(c) /\ c \notin actionInFlight /\ Continue(h, "st_apply") /\ UNCHANGED viewVars
    /\ PageUnchanged

\* The snapshot cannot be taken.
Unavailable(h) == Respond(h, chal[h], "unavailable") /\ UNCHANGED viewVars

\* The actions of a snapshot that are the only one with their ID and the
\* only one with their replay key.
Unique(actions) ==
    {x \in actions : \A y \in actions \ {x} : y.id # x.id /\ y.key # x.key}

\* Mutant: only the generation's own ID counts as performed.
AvailableByIdOnly(c, s) ==
    {x \in Unique(s.actions) :
        /\ s.state = "AUTH_REQUIRED" /\ totalActionAttempts[c] < MaxActions
        /\ x.id \notin performedActions[c]
        /\ actionAttempts[c][x.id] < MaxPerAction}

\* availableAuthActionsLocked.
AvailableAuthActions(c, s) ==
    {x \in Unique(s.actions) :
        /\ s.state = "AUTH_REQUIRED" /\ totalActionAttempts[c] < MaxActions
        /\ x.id \notin performedActions[c] /\ x.key \notin performedReplayKeys[c]
        /\ actionAttempts[c][x.id] < MaxPerAction}

StateApply(h) ==
    LET c == chal[h]
    IN  /\ pc[h] = "st_apply"
        /\ \/ Unavailable(h) \/ StateAnswered(h, c)
           \/ \E s \in Screens :
                 /\ ~Over(c) /\ c \notin actionInFlight
                 /\ ObserveAuthSnapshot(c, s.state)
                 /\ RespondWith(h, [chal |-> c, code |-> shown'[c],
                                    offer |-> IF completedAt'[c] # Nil THEN {}
                                              ELSE AvailableAuthActions(c, s)])
        /\ PageUnchanged /\ UNCHANGED chal

\* handleImage, for the whole screen or for the image bound to action i.
ImageBegin(h, c, i) ==
    /\ Arrives(h, "image", c)
    /\ \/ Over(c) /\ Respond(h, c, "gone")
       \/ /\ ~Over(c)
          /\ Goto(h, "im_apply")
          /\ id' = [id EXCEPT ![h] = i]
          /\ UNCHANGED <<key, res, reply>>
    /\ PageUnchanged /\ UNCHANGED viewVars

\* The snapshot is applied whatever became of the challenge meanwhile; only
\* then is it looked at again.
ImageApply(h) ==
    LET c == chal[h]
    IN  /\ pc[h] = "im_apply"
        /\ \/ Unavailable(h)
           \/ \E s \in Screens :
                 LET gone == Closed(c) \/ Expired(c) \/ completedAt'[c] # Nil \/ s.state = "ONLINE"
                     bound == {x \in Unique(s.actions) : s.state = "AUTH_REQUIRED" /\ x.id = id[h]}
                 IN  /\ ObserveAuthSnapshot(c, s.state)
                     /\ \/ gone /\ Respond(h, c, "gone")
                        \/ ~gone /\ id[h] = Nil /\ Respond(h, c, "image")
                        \/ ~gone /\ id[h] # Nil /\ bound = {} /\ Respond(h, c, "conflict")
                        \/ /\ ~gone
                           /\ \E x \in bound : key' = [key EXCEPT ![h] = x.key]
                           /\ Goto(h, "im_bind")
                           /\ UNCHANGED <<id, res, reply>>
        /\ PageUnchanged /\ UNCHANGED chal

\* An image bound to an action is served while the action can be performed.
ImageBind(h) ==
    LET c    == chal[h]
        used == \/ c \in actionInFlight \/ id[h] \in performedActions[c]
                \/ key[h] \in performedReplayKeys[c]
    IN  /\ pc[h] = "im_bind"
        /\ Respond(h, c, IF used THEN "conflict" ELSE "image")
        /\ PageUnchanged /\ UNCHANGED <<chal, viewVars>>

-----------------------------------------------------------------------------
(* submitCode.                                                             *)

CodeUnchanged == UNCHANGED <<managerVars, lifeVars, viewVars, actionVars, mon, hits>>

\* One submission at a time, none after an accepted one, MaxCodes in all.
CodeBegin(h, c) ==
    LET n == AtMost(codeAttempts[c] + 1, MaxCodes + 1)
    IN  /\ Arrives(h, "code", c)
        /\ \/ /\ Over(c) \/ c \in codeInFlight \/ c \in codeSubmitted
              /\ Respond(h, c, IF Over(c) THEN "gone" ELSE "conflict")
              /\ UNCHANGED codeVars
           \/ /\ ~Over(c) /\ c \notin codeInFlight /\ c \notin codeSubmitted
              /\ codeAttempts' = [codeAttempts EXCEPT ![c] = n]
              /\ \/ n > MaxCodes /\ Respond(h, c, "limit") /\ UNCHANGED codeInFlight
                 \/ /\ n <= MaxCodes
                    /\ codeInFlight' = codeInFlight \cup {c}
                    /\ Continue(h, "cd_submit")
              /\ UNCHANGED codeSubmitted
        /\ CodeUnchanged /\ UNCHANGED accepted

\* The handler's result, for its deferred function to look at.
Conclude(h, l, r) ==
    /\ Goto(h, l)
    /\ res' = [res EXCEPT ![h] = r]
    /\ UNCHANGED <<chal, id, reply>>

\* The code reaches the driver if the screen asks for one; the driver accepts
\* it or fails.
CodeSubmit(h) ==
    /\ pc[h] = "cd_submit"
    /\ \/ Conclude(h, "cd_leave", "failed") /\ UNCHANGED accepted
       \/ /\ \E s \in Screens : s.state = "AUTH_REQUIRED" /\ s.sms
          /\ Conclude(h, "cd_leave", "accepted")
          /\ accepted' = [accepted EXCEPT ![chal[h]] = AtMost(@ + 1, 2)]
    /\ CodeUnchanged /\ UNCHANGED <<codeVars, key>>

\* Mutant: an accepted submission is not remembered.
CodeLeaveForgets(h) ==
    LET c == chal[h]
    IN  /\ pc[h] = "cd_leave"
        /\ codeInFlight' = codeInFlight \ {c}
        /\ Respond(h, c, res[h])
        /\ CodeUnchanged /\ UNCHANGED <<codeAttempts, codeSubmitted, chal, accepted>>

CodeLeave(h) ==
    LET c == chal[h]
    IN  /\ pc[h] = "cd_leave"
        /\ codeInFlight' = codeInFlight \ {c}
        /\ codeSubmitted' = codeSubmitted \cup (IF res[h] = "accepted" THEN {c} ELSE {})
        /\ Respond(h, c, res[h])
        /\ CodeUnchanged /\ UNCHANGED <<codeAttempts, chal, accepted>>

-----------------------------------------------------------------------------
(* performAuthAction.                                                      *)

ActUnchanged == UNCHANGED <<managerVars, lifeVars, viewVars, codeVars, mon, accepted>>

\* One action at a time.  A request that is not confirmed ends here too.
ActBegin(h, c, i) ==
    /\ Arrives(h, "action", c)
    /\ \/ /\ Over(c) \/ c \in actionInFlight \/ i \in performedActions[c]
          /\ Respond(h, c, IF Over(c) THEN "gone" ELSE "conflict")
          /\ UNCHANGED actionVars
       \/ /\ ~Over(c) /\ c \notin actionInFlight /\ i \notin performedActions[c]
          /\ \/ Respond(h, c, "unconfirmed") /\ UNCHANGED actionInFlight
             \/ /\ actionInFlight' = actionInFlight \cup {c}
                /\ Goto(h, "ac_reserve")
                /\ id' = [id EXCEPT ![h] = i]
                /\ UNCHANGED <<key, res, reply>>
          /\ UNCHANGED <<actionAttempts, totalActionAttempts, performedActions,
                         performedReplayKeys>>
    /\ ActUnchanged /\ UNCHANGED hits

\* Mutant: the limit is checked after the attempt it should refuse.
MayPerformOnceMore(c, i, k) ==
    /\ ~Over(c)
    /\ i \notin performedActions[c] /\ k \notin performedReplayKeys[c]
    /\ actionAttempts[c][i] <= MaxPerAction /\ totalActionAttempts[c] <= MaxActions

\* The limits and tombstones allow action i with replay key k.
MayPerform(c, i, k) ==
    /\ ~Over(c)
    /\ i \notin performedActions[c] /\ k \notin performedReplayKeys[c]
    /\ actionAttempts[c][i] < MaxPerAction /\ totalActionAttempts[c] < MaxActions

\* A fresh snapshot must advertise the action, unambiguously.  Both the
\* generation and the operation are then consumed before the driver is asked.
ActReserve(h) ==
    LET c == chal[h]
        i == id[h]
    IN  /\ pc[h] = "ac_reserve"
        /\ \/ /\ Conclude(h, "ac_leave", "unavailable")
              /\ UNCHANGED <<key, actionVars>>
           \/ \E s \in Screens : \E x \in Unique(s.actions) :
                 /\ s.state = "AUTH_REQUIRED" /\ x.id = i
                 /\ \/ /\ ~MayPerform(c, i, x.key)
                       /\ Conclude(h, "ac_leave", "conflict")
                       /\ UNCHANGED <<key, actionVars>>
                    \/ /\ MayPerform(c, i, x.key)
                       /\ actionAttempts' = [actionAttempts EXCEPT ![c][i] = @ + 1]
                       /\ totalActionAttempts' = [totalActionAttempts EXCEPT ![c] = @ + 1]
                       /\ performedActions' = [performedActions EXCEPT ![c] = @ \cup {i}]
                       /\ performedReplayKeys' =
                             [performedReplayKeys EXCEPT ![c] = @ \cup {x.key}]
                       /\ key' = [key EXCEPT ![h] = x.key]
                       /\ Conclude(h, "ac_dispatch", "none")
                       /\ UNCHANGED actionInFlight
        /\ ActUnchanged /\ UNCHANGED hits

\* An error of PerformAuthAction: its class, and whether it is marked as
\* consumed.  "retry" and "fixed" are the classes that can prove that
\* nothing was dispatched, answered as retryable and as final.
ActionError == [class : {"retry", "fixed", "unclassified"}, consumed : BOOLEAN]

\* Mutant: every error that is not marked releases the operation.
RejectedUnlessConsumed(e) == ~e.consumed

\* authActionDefinitivelyRejected.
DefinitivelyRejected(e) == ~e.consumed /\ e.class \in {"retry", "fixed"}

\* writeClassifiedAuthActionFailure.
Advice(e) == IF e.class = "retry" THEN "retry" ELSE "final"

\* The driver performs the action, or fails.  It promises that an error
\* that is classified and not marked consumed had no effect; any other one
\* may have had it.
ActDispatch(h) ==
    LET c == chal[h]
        hit == [hits EXCEPT ![c][key[h]] = AtMost(@ + 1, 2)]
    IN  /\ pc[h] = "ac_dispatch"
        /\ \/ Conclude(h, "ac_leave", "accepted") /\ hits' = hit
           \/ \E e \in ActionError :
                 /\ hits' \in (IF ~e.consumed /\ e.class # "unclassified" THEN {hits}
                               ELSE {hits, hit})
                 /\ Conclude(h, IF DefinitivelyRejected(e) THEN "ac_release" ELSE "ac_leave",
                             Advice(e))
        /\ ActUnchanged /\ UNCHANGED <<actionVars, key>>

\* A definitive rejection makes the action available again; its attempts
\* stay counted.
ActRelease(h) ==
    LET c == chal[h]
    IN  /\ pc[h] = "ac_release"
        /\ performedActions' = [performedActions EXCEPT ![c] = @ \ {id[h]}]
        /\ performedReplayKeys' = [performedReplayKeys EXCEPT ![c] = @ \ {key[h]}]
        /\ Conclude(h, "ac_leave", res[h])
        /\ ActUnchanged
        /\ UNCHANGED <<actionAttempts, totalActionAttempts, actionInFlight, key, hits>>

ActLeave(h) ==
    LET c == chal[h]
    IN  /\ pc[h] = "ac_leave"
        /\ actionInFlight' = actionInFlight \ {c}
        /\ Respond(h, c, res[h])
        /\ ActUnchanged
        /\ UNCHANGED <<actionAttempts, totalActionAttempts, performedActions,
                       performedReplayKeys, chal, hits>>

-----------------------------------------------------------------------------
(* The specification.                                                      *)

Request(h) ==
    \E c \in Challenge :
        \/ Page(h, c) \/ StateBegin(h, c) \/ CodeBegin(h, c)
        \/ \E i \in Id \cup {Nil} : ImageBegin(h, c, i)
        \/ \E i \in Id : ActBegin(h, c, i)

Views(h) == StateApply(h) \/ ImageApply(h) \/ ImageBind(h)

Submits(h) == CodeSubmit(h) \/ CodeLeave(h)

Performs(h) == ActReserve(h) \/ ActDispatch(h) \/ ActRelease(h) \/ ActLeave(h)

Handles(h) == Views(h) \/ Submits(h) \/ Performs(h) \/ Deliver(h)

Manager ==
    \/ \E c \in Challenge :
         \/ BeginFails(c) \/ CloseEntry(c)
         \/ \E a \in Account : \E s \in Screens : Begin(c, a, s.state)
    \/ CloseAll

Next ==
    \/ Manager \/ Tick
    \/ \E c \in Challenge : Monitor(c)
    \/ \E h \in Handler : Request(h) \/ Handles(h)

Init ==
    /\ daemon = "up" /\ listed = {} /\ closing = {} /\ files = {}
    /\ phase = [c \in Challenge |-> "none"]
    /\ owner = [c \in Challenge |-> Nil]
    /\ age = [c \in Challenge |-> 0]
    /\ completedAt = [c \in Challenge |-> Nil]
    /\ kept = [c \in Challenge |-> 0]
    /\ shown = [c \in Challenge |-> "STARTING"]
    /\ cand = [c \in Challenge |-> Nil]
    /\ obs = [c \in Challenge |-> 0]
    /\ codeAttempts = [c \in Challenge |-> 0]
    /\ codeInFlight = {} /\ codeSubmitted = {}
    /\ actionAttempts = [c \in Challenge |-> [i \in Id |-> 0]]
    /\ totalActionAttempts = [c \in Challenge |-> 0]
    /\ actionInFlight = {}
    /\ performedActions = [c \in Challenge |-> {}]
    /\ performedReplayKeys = [c \in Challenge |-> {}]
    /\ mon = [c \in Challenge |-> "none"]
    /\ pc = [h \in Handler |-> "idle"]
    /\ chal = [h \in Handler |-> Nil]
    /\ id = [h \in Handler |-> Nil]
    /\ key = [h \in Handler |-> Nil]
    /\ res = [h \in Handler |-> "none"]
    /\ reply = [h \in Handler |-> NoReply]
    /\ hits = [c \in Challenge |-> [k \in ReplayKey |-> 0]]
    /\ accepted = [c \in Challenge |-> 0]

Spec == Init /\ [][Next]_vars

-----------------------------------------------------------------------------
(* What a challenge guarantees.                                            *)

Label == {"idle", "done", "st_apply", "im_apply", "im_bind", "cd_submit", "cd_leave",
          "ac_reserve", "ac_dispatch", "ac_release", "ac_leave"}

Result == {"none", "failed", "accepted", "unavailable", "conflict", "retry", "final"}

State == {"ONLINE", "AUTH_REQUIRED", "STARTING", "OFFLINE"}

Answer == [chal : Challenge \cup {Nil}, offer : SUBSET Advert,
           code : Result \cup State \cup {"gone", "limit", "unconfirmed", "image"}]

\* Every variable has its shape, and the counters respect the limits.
TypeOK ==
    /\ daemon \in {"up", "closed"}
    /\ listed \subseteq Challenge /\ closing \subseteq Challenge /\ files \subseteq Challenge
    /\ phase \in [Challenge -> {"none", "failed", "open", "closed"}]
    /\ owner \in [Challenge -> Account \cup {Nil}]
    /\ age \in [Challenge -> 0 .. TTL + 1]
    /\ completedAt \in [Challenge -> 0 .. TTL + 1 \cup {Nil}]
    /\ kept \in [Challenge -> 0 .. Retention]
    /\ shown \in [Challenge -> State]
    /\ cand \in [Challenge -> 0 .. Window \cup {Nil}]
    /\ obs \in [Challenge -> 0 .. MinObs]
    /\ codeAttempts \in [Challenge -> 0 .. MaxCodes + 1]
    /\ codeInFlight \subseteq Challenge /\ codeSubmitted \subseteq Challenge
    /\ actionAttempts \in [Challenge -> [Id -> 0 .. MaxPerAction]]
    /\ totalActionAttempts \in [Challenge -> 0 .. MaxActions]
    /\ actionInFlight \subseteq Challenge
    /\ performedActions \in [Challenge -> SUBSET Id]
    /\ performedReplayKeys \in [Challenge -> SUBSET ReplayKey]
    /\ mon \in [Challenge -> {"none", "tick", "probe", "retain", "unlist", "close"}]
    /\ pc \in [Handler -> Label]
    /\ chal \in [Handler -> Challenge \cup {Nil}]
    /\ id \in [Handler -> Id \cup {Nil}]
    /\ key \in [Handler -> ReplayKey \cup {Nil}]
    /\ res \in [Handler -> Result]
    /\ reply \in [Handler -> Answer]
    /\ hits \in [Challenge -> [ReplayKey -> 0 .. 2]]
    /\ accepted \in [Challenge -> 0 .. 2]

\* An operation that may have reached the client is never dispatched again in
\* its challenge, under any generation's ID: at most one effect, and no
\* handler about to cause another.
NoReplay ==
    \A c \in Challenge : \A k \in ReplayKey :
        /\ hits[c][k] <= 1
        /\ \A h \in Handler :
             pc[h] = "ac_dispatch" /\ chal[h] = c /\ key[h] = k => hits[c][k] = 0

\* The driver accepts one verification code per challenge, however many
\* pages submit one at once.
CodeOnce == \A c \in Challenge : accepted[c] <= 1

\* Once a challenge has completed, nobody is told otherwise, although a late
\* image request may overwrite the recorded state.
OnlineIsFinal ==
    [][\A h \in Handler :
          pc[h] # "done" /\ pc'[h] = "done" /\ Completed(reply'[h].chal) =>
              reply'[h].code \notin {"AUTH_REQUIRED", "STARTING", "OFFLINE"}]_vars

\* The page never offers an operation that may already have had its effect,
\* even from a snapshot taken before the operation.
OffersAreFresh ==
    [][\A h \in Handler :
          pc[h] # "done" /\ pc'[h] = "done" =>
              \A x \in reply'[h].offer : hits[reply'[h].chal][x.key] = 0]_vars

\* A login that succeeded in time stays visible for the retention, unless the
\* account's next challenge replaces it or the daemon shuts down.
SuccessStaysVisible ==
    [][\A c \in listed \ listed' :
          Completed(c) /\ completedAt[c] <= TTL =>
              \/ kept[c] >= Retention
              \/ daemon' # "up"
              \/ \E d \in listed' \ listed : owner'[d] = owner[c]]_vars

\* The monitors and closers run, and time passes.
FairSpec ==
    /\ Spec /\ WF_vars(Tick)
    /\ \A c \in Challenge : WF_vars(Monitor(c)) /\ WF_vars(CloseEntry(c))

\* Every challenge ends: closed, not listed, its QR code removed, whatever
\* the client shows and however often it cannot be probed.
ChallengesEnd ==
    \A c \in Challenge :
        phase[c] = "open" ~> phase[c] = "closed" /\ c \notin listed /\ c \notin files
=============================================================================
