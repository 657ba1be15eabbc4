----------------------------- MODULE AuthProofs -----------------------------
(***************************************************************************)
(* A login challenge never repeats an onboarding operation that may have   *)
(* reached the client, accepts one code, and answers from what it          *)
(* recorded, for any number of pages, generations, operations, screens     *)
(* and limits.                                                             *)
(*                                                                         *)
(* The argument: a handler that performs an action has the challenge's     *)
(* actionInFlight to itself, so between its reservation and its release    *)
(* nobody else touches the tombstones; it reserves an operation only if it *)
(* has no tombstone, and releases one only if the driver proved that       *)
(* nothing was dispatched.  Hence an operation with a possible effect has  *)
(* a tombstone for good (ReplayInv).  codeInFlight does the same for the   *)
(* code (CodeInv).  On these and the types (LoginInv) rest the answers:    *)
(* each is computed under the mutex from the record, which only moves      *)
(* forward.  Listing says why a challenge that is listed stays so.         *)
(***************************************************************************)
EXTENDS AuthChallenge, TLAPS

\* The labels of performAuthAction, and those at which its tombstone is its own.
ActLabel      == {"ac_reserve", "ac_dispatch", "ac_release", "ac_leave"}
ReservedLabel == {"ac_dispatch", "ac_release"}

ReplayType ==
    /\ pc \in [Handler -> Label]
    /\ chal \in [Handler -> Challenge \cup {Nil}]
    /\ key \in [Handler -> ReplayKey \cup {Nil}]
    /\ actionInFlight \subseteq Challenge
    /\ performedReplayKeys \in [Challenge -> SUBSET ReplayKey]
    /\ hits \in [Challenge -> [ReplayKey -> Nat]]

\* One handler at a time performs an action of a challenge.
Exclusive ==
    /\ \A h \in Handler : pc[h] \in ActLabel => chal[h] \in actionInFlight
    /\ \A h, g \in Handler :
         pc[h] \in ActLabel /\ pc[g] \in ActLabel /\ chal[h] = chal[g] => h = g

\* What it has reserved has its tombstone, and had no effect yet.
Reserved ==
    \A h \in Handler :
        pc[h] \in ReservedLabel =>
            /\ key[h] \in ReplayKey
            /\ key[h] \in performedReplayKeys[chal[h]]
            /\ hits[chal[h]][key[h]] = 0

\* What may have had an effect had it once, and keeps its tombstone.
Spent ==
    \A c \in Challenge : \A k \in ReplayKey :
        /\ hits[c][k] <= 1
        /\ hits[c][k] # 0 => k \in performedReplayKeys[c]

ReplayInv == ReplayType /\ Exclusive /\ Reserved /\ Spent

\* A step that is not one of performAuthAction's.
Aside ==
    /\ UNCHANGED <<actionInFlight, performedReplayKeys, hits>>
    /\ \A h \in Handler :
         pc'[h] \in ActLabel => pc'[h] = pc[h] /\ chal'[h] = chal[h] /\ key'[h] = key[h]

\* The handler's own variables after a step.
HandlerType ==
    /\ pc \in [Handler -> Label]
    /\ chal \in [Handler -> Challenge \cup {Nil}]
    /\ key \in [Handler -> ReplayKey \cup {Nil}]

\* A step aside keeps the invariant.
LEMMA AsideInv ==
    ASSUME ReplayInv, Aside, HandlerType'
    PROVE  ReplayInv'
<1>1. ReplayType'
  BY DEF ReplayInv, ReplayType, Aside, HandlerType
<1>2. Exclusive'
  BY DEF ReplayInv, Exclusive, Aside
<1>3. Reserved'
  BY DEF ReplayInv, Reserved, Aside, ReservedLabel, ActLabel
<1>4. Spent'
  BY DEF ReplayInv, Spent, Aside
<1> QED
  BY <1>1, <1>2, <1>3, <1>4 DEF ReplayInv

\* A handler that answers is at none of the labels any more.
LEMMA RespondAside ==
    ASSUME ReplayInv, NEW h \in Handler, NEW c, NEW r, RespondWith(h, r),
           chal' = chal \/ (c \in Challenge /\ chal' = [chal EXCEPT ![h] = c]),
           UNCHANGED <<actionInFlight, performedReplayKeys, hits>>
    PROVE  ReplayInv'
<1>1. HandlerType'
  BY DEF ReplayInv, ReplayType, RespondWith, HandlerType, Label
<1>2. Aside
  BY DEF ReplayInv, ReplayType, RespondWith, Aside, ActLabel
<1> QED
  BY <1>1, <1>2, AsideInv

\* A step that leaves the handlers and the tombstones alone.
LEMMA Untouched ==
    ASSUME ReplayInv, UNCHANGED <<handlerVars, actionInFlight, performedReplayKeys, hits>>
    PROVE  ReplayInv'
<1>1. HandlerType' /\ Aside
  BY DEF ReplayInv, ReplayType, HandlerType, Aside, handlerVars
<1> QED
  BY <1>1, AsideInv

-----------------------------------------------------------------------------
(* performAuthAction.                                                      *)

\* A handler that concludes moves itself only.
LEMMA ConcludeMoves ==
    ASSUME HandlerType, NEW h \in Handler, NEW l \in Label, NEW r, Conclude(h, l, r)
    PROVE  /\ pc' \in [Handler -> Label] /\ chal' = chal
           /\ pc'[h] = l /\ \A g \in Handler \ {h} : pc'[g] = pc[g]
  BY DEF HandlerType, Conclude, Goto

\* Claiming actionInFlight: nobody else is performing an action there.
LEMMA ActBeginInv ==
    ASSUME ReplayInv, NEW h \in Handler, NEW c \in Challenge, NEW i \in Id, ActBegin(h, c, i)
    PROVE  ReplayInv'
<1>1. ASSUME NEW code, Respond(h, c, code), UNCHANGED <<actionInFlight, performedReplayKeys>>
      PROVE  ReplayInv'
  BY <1>1, RespondAside DEF ActBegin, Arrives, Respond
<1>2. CASE /\ c \notin actionInFlight /\ actionInFlight' = actionInFlight \cup {c}
           /\ Goto(h, "ac_reserve") /\ key' = key
           /\ UNCHANGED performedReplayKeys
  <2>1. /\ pc' = [pc EXCEPT ![h] = "ac_reserve"] /\ chal' = [chal EXCEPT ![h] = c]
        /\ UNCHANGED <<key, performedReplayKeys, hits>>
    BY <1>2 DEF ActBegin, Arrives, Goto
  <2>2. ReplayType'
    BY <1>2, <2>1 DEF ReplayInv, ReplayType, Label
  <2>3. Exclusive'
    BY <1>2, <2>1 DEF ReplayInv, ReplayType, Exclusive
  <2>4. Reserved'
    BY <2>1 DEF ReplayInv, ReplayType, Reserved, ReservedLabel
  <2>5. Spent'
    BY <2>1 DEF ReplayInv, Spent
  <2> QED
    BY <2>2, <2>3, <2>4, <2>5 DEF ReplayInv
<1> QED
  BY <1>1, <1>2 DEF ActBegin, actionVars

\* The reservation: only an operation without a tombstone, which therefore had
\* no effect.
LEMMA ActReserveInv ==
    ASSUME ReplayInv, NEW h \in Handler, ActReserve(h)
    PROVE  ReplayInv'
<1> DEFINE c == chal[h]
<1>0. /\ pc[h] = "ac_reserve" /\ c \in Challenge /\ HandlerType
      /\ \A g \in Handler : pc[g] \in ActLabel /\ chal[g] = c => g = h
  BY DEF ActReserve, ReplayInv, ReplayType, Exclusive, ActLabel, HandlerType
<1>1. ASSUME NEW r, Conclude(h, "ac_leave", r), UNCHANGED <<key, actionVars, hits>>
      PROVE  ReplayInv'
  <2>1. /\ pc' \in [Handler -> Label] /\ chal' = chal
        /\ pc'[h] = "ac_leave" /\ \A g \in Handler \ {h} : pc'[g] = pc[g]
    BY <1>0, <1>1, ConcludeMoves DEF Label
  <2>2. ReplayType' /\ Spent'
    BY <1>1, <2>1 DEF ReplayInv, ReplayType, Spent, actionVars
  <2>3. Exclusive'
    BY <1>0, <1>1, <2>1 DEF ReplayInv, Exclusive, ActLabel, actionVars
  <2>4. Reserved'
    BY <1>1, <2>1 DEF ReplayInv, Reserved, ReservedLabel, actionVars
  <2> QED
    BY <2>2, <2>3, <2>4 DEF ReplayInv
<1>2. ASSUME NEW s \in Screens, NEW x \in Unique(s.actions), MayPerform(c, id[h], x.key),
             performedReplayKeys' = [performedReplayKeys EXCEPT ![c] = @ \cup {x.key}],
             key' = [key EXCEPT ![h] = x.key],
             Conclude(h, "ac_dispatch", "none"), UNCHANGED <<actionInFlight, hits>>
      PROVE  ReplayInv'
  <2> DEFINE k == x.key
  <2>1. k \in ReplayKey
    BY ScreensAreSnapshots DEF Unique, Snapshot, Advert
  <2>2. /\ pc' \in [Handler -> Label] /\ chal' = chal
        /\ pc'[h] = "ac_dispatch" /\ \A g \in Handler \ {h} : pc'[g] = pc[g]
    BY <1>0, <1>2, ConcludeMoves DEF Label
  <2>3. k \notin performedReplayKeys[c] /\ hits[c][k] = 0
    BY <1>0, <1>2, <2>1 DEF MayPerform, ReplayInv, Spent
  <2>4. ReplayType'
    BY <1>0, <1>2, <2>1, <2>2 DEF ReplayInv, ReplayType
  <2>5. Exclusive'
    BY <1>0, <1>2, <2>2 DEF ReplayInv, Exclusive, ActLabel
  <2>6. Reserved'
    <3> SUFFICES ASSUME NEW g \in Handler, pc'[g] \in ReservedLabel
                 PROVE  /\ key'[g] \in ReplayKey
                        /\ key'[g] \in performedReplayKeys'[chal'[g]]
                        /\ hits'[chal'[g]][key'[g]] = 0
      BY DEF Reserved
    <3>1. CASE g = h
      BY <3>1, <1>0, <1>2, <2>1, <2>2, <2>3 DEF ReplayInv, ReplayType
    <3>2. CASE g # h
      <4>1. /\ pc[g] \in ReservedLabel /\ key'[g] = key[g] /\ chal'[g] = chal[g]
            /\ chal[g] \in Challenge /\ chal[g] # c
        BY <3>2, <1>0, <1>2, <2>2 DEF ReplayInv, ReplayType, Exclusive, ReservedLabel, ActLabel
      <4>2. performedReplayKeys'[chal[g]] = performedReplayKeys[chal[g]]
        BY <4>1, <1>2 DEF ReplayInv, ReplayType
      <4> QED
        BY <4>1, <4>2, <1>2 DEF ReplayInv, Reserved
    <3> QED
      BY <3>1, <3>2
  <2>7. Spent'
    BY <1>0, <1>2 DEF ReplayInv, ReplayType, Spent
  <2> QED
    BY <2>4, <2>5, <2>6, <2>7 DEF ReplayInv
<1> QED
  BY <1>1, <1>2 DEF ActReserve

\* The dispatch: a possible effect is the first of its operation, and leads
\* to the release only if the driver proved that there was none.
LEMMA ActDispatchInv ==
    ASSUME ReplayInv, NEW h \in Handler, ActDispatch(h)
    PROVE  ReplayInv'
<1> DEFINE c == chal[h]
           k == key[h]
           hit == [hits EXCEPT ![c][k] = AtMost(@ + 1, 2)]
<1>0. /\ pc[h] = "ac_dispatch" /\ c \in Challenge /\ HandlerType
      /\ k \in ReplayKey /\ k \in performedReplayKeys[c] /\ hits[c][k] = 0
      /\ \A g \in Handler : pc[g] \in ActLabel /\ chal[g] = c => g = h
      /\ UNCHANGED <<key, actionInFlight, performedReplayKeys>>
  BY DEF ActDispatch, actionVars, ReplayInv, ReplayType, Exclusive, Reserved, ActLabel,
         ReservedLabel, HandlerType
<1>1. /\ hits' \in {hits, hit}
      /\ \/ hits' = hits /\ \E r : Conclude(h, "ac_release", r)
         \/ \E r : Conclude(h, "ac_leave", r)
  <2>1. CASE Conclude(h, "ac_leave", "accepted") /\ hits' = hit
    BY <2>1
  <2>2. CASE \E e \in ActionError :
                 /\ hits' \in (IF ~e.consumed /\ e.class # "unclassified" THEN {hits}
                               ELSE {hits, hit})
                 /\ Conclude(h, IF DefinitivelyRejected(e) THEN "ac_release" ELSE "ac_leave",
                             Advice(e))
    <3>1. PICK e \in ActionError :
                 /\ hits' \in (IF ~e.consumed /\ e.class # "unclassified" THEN {hits}
                               ELSE {hits, hit})
                 /\ Conclude(h, IF DefinitivelyRejected(e) THEN "ac_release" ELSE "ac_leave",
                             Advice(e))
      BY <2>2
    <3>2. DefinitivelyRejected(e) => ~e.consumed /\ e.class # "unclassified"
      BY DEF DefinitivelyRejected
    <3>3. CASE DefinitivelyRejected(e)
      BY <3>1, <3>2, <3>3
    <3>4. CASE ~DefinitivelyRejected(e)
      BY <3>1, <3>4
    <3> QED
      BY <3>3, <3>4
  <2> QED
    BY <2>1, <2>2 DEF ActDispatch
<1>2. /\ pc' \in [Handler -> Label] /\ chal' = chal
      /\ pc'[h] \in {"ac_release", "ac_leave"} /\ \A g \in Handler \ {h} : pc'[g] = pc[g]
      /\ pc'[h] = "ac_release" => hits' = hits
  <2>1. ASSUME NEW l \in {"ac_release", "ac_leave"}, NEW r, Conclude(h, l, r)
        PROVE  /\ pc' \in [Handler -> Label] /\ chal' = chal
               /\ pc'[h] = l /\ \A g \in Handler \ {h} : pc'[g] = pc[g]
    BY <1>0, <2>1, ConcludeMoves DEF Label
  <2> QED
    BY <1>1, <2>1
<1>3. /\ hits' \in [Challenge -> [ReplayKey -> Nat]]
      /\ hits'[c][k] \in {0, 1}
      /\ \A d \in Challenge : \A j \in ReplayKey : d # c \/ j # k => hits'[d][j] = hits[d][j]
  <2>1. CASE hits' = hits
    BY <2>1, <1>0 DEF ReplayInv, ReplayType
  <2>2. CASE hits' = hit
    BY <2>2, <1>0 DEF ReplayInv, ReplayType, AtMost
  <2> QED
    BY <1>1, <2>1, <2>2
<1>4. ReplayType'
  BY <1>0, <1>2, <1>3 DEF ReplayInv, ReplayType, HandlerType
<1>5. Exclusive'
  BY <1>0, <1>2 DEF ReplayInv, Exclusive, ActLabel
<1>6. Reserved'
  <2> SUFFICES ASSUME NEW g \in Handler, pc'[g] \in ReservedLabel
               PROVE  /\ key'[g] \in ReplayKey
                      /\ key'[g] \in performedReplayKeys'[chal'[g]]
                      /\ hits'[chal'[g]][key'[g]] = 0
    BY DEF Reserved
  <2>1. CASE g = h
    BY <2>1, <1>0, <1>2 DEF ReservedLabel
  <2>2. CASE g # h
    <3>1. /\ pc[g] \in ReservedLabel /\ chal[g] \in Challenge /\ chal[g] # c
          /\ key[g] \in ReplayKey
      BY <2>2, <1>0, <1>2 DEF ReplayInv, ReplayType, Exclusive, Reserved, ReservedLabel, ActLabel
    <3> QED
      BY <3>1, <1>0, <1>2, <1>3 DEF ReplayInv, Reserved
  <2> QED
    BY <2>1, <2>2
<1>7. Spent'
  <2> SUFFICES ASSUME NEW d \in Challenge, NEW j \in ReplayKey
               PROVE  hits'[d][j] <= 1 /\ (hits'[d][j] # 0 => j \in performedReplayKeys'[d])
    BY DEF Spent
  <2>1. CASE d = c /\ j = k
    BY <2>1, <1>0, <1>3
  <2>2. CASE d # c \/ j # k
    BY <2>2, <1>0, <1>3 DEF ReplayInv, Spent
  <2> QED
    BY <2>1, <2>2
<1> QED
  BY <1>4, <1>5, <1>6, <1>7 DEF ReplayInv

\* The release takes away the tombstone of an operation that had no effect.
LEMMA ActReleaseInv ==
    ASSUME ReplayInv, NEW h \in Handler, ActRelease(h)
    PROVE  ReplayInv'
<1> DEFINE c == chal[h]
<1>0. /\ pc[h] = "ac_release" /\ c \in Challenge /\ HandlerType
      /\ key[h] \in ReplayKey /\ hits[c][key[h]] = 0
      /\ \A g \in Handler : pc[g] \in ActLabel /\ chal[g] = c => g = h
      /\ performedReplayKeys' = [performedReplayKeys EXCEPT ![c] = @ \ {key[h]}]
      /\ UNCHANGED <<key, actionInFlight, hits>>
  BY DEF ActRelease, ReplayInv, ReplayType, Exclusive, Reserved, ActLabel, ReservedLabel,
         HandlerType
<1>1. /\ pc' \in [Handler -> Label] /\ chal' = chal
      /\ pc'[h] = "ac_leave" /\ \A g \in Handler \ {h} : pc'[g] = pc[g]
  BY <1>0, ConcludeMoves DEF ActRelease, Label
<1>2. ReplayType'
  BY <1>0, <1>1 DEF ReplayInv, ReplayType
<1>3. Exclusive'
  BY <1>0, <1>1 DEF ReplayInv, Exclusive, ActLabel
<1>4. Reserved'
  <2> SUFFICES ASSUME NEW g \in Handler, pc'[g] \in ReservedLabel
               PROVE  /\ key'[g] \in ReplayKey
                      /\ key'[g] \in performedReplayKeys'[chal'[g]]
                      /\ hits'[chal'[g]][key'[g]] = 0
    BY DEF Reserved
  <2>1. /\ g # h /\ pc[g] \in ReservedLabel /\ chal[g] \in Challenge /\ chal[g] # c
    BY <1>0, <1>1 DEF ReplayInv, ReplayType, Exclusive, ReservedLabel, ActLabel
  <2>2. performedReplayKeys'[chal[g]] = performedReplayKeys[chal[g]]
    BY <2>1, <1>0 DEF ReplayInv, ReplayType
  <2> QED
    BY <2>1, <2>2, <1>0, <1>1 DEF ReplayInv, Reserved
<1>5. Spent'
  BY <1>0 DEF ReplayInv, ReplayType, Spent
<1> QED
  BY <1>2, <1>3, <1>4, <1>5 DEF ReplayInv

\* Giving actionInFlight up: nobody else was performing an action there.
LEMMA ActLeaveInv ==
    ASSUME ReplayInv, NEW h \in Handler, ActLeave(h)
    PROVE  ReplayInv'
<1> DEFINE c == chal[h]
<1>0. /\ pc[h] = "ac_leave" /\ HandlerType
      /\ \A g \in Handler : pc[g] \in ActLabel /\ chal[g] = c => g = h
      /\ actionInFlight' = actionInFlight \ {c}
      /\ UNCHANGED <<chal, performedReplayKeys, hits>>
      /\ pc' = [pc EXCEPT ![h] = "done"] /\ key' = [key EXCEPT ![h] = Nil]
  BY DEF ActLeave, Respond, RespondWith, ReplayInv, ReplayType, Exclusive, ActLabel, HandlerType
<1>1. ReplayType'
  BY <1>0 DEF ReplayInv, ReplayType, Label
<1>2. Exclusive'
  BY <1>0 DEF ReplayInv, ReplayType, Exclusive, ActLabel
<1>3. Reserved'
  BY <1>0 DEF ReplayInv, ReplayType, Reserved, ReservedLabel
<1>4. Spent'
  BY <1>0 DEF ReplayInv, Spent
<1> QED
  BY <1>1, <1>2, <1>3, <1>4 DEF ReplayInv

-----------------------------------------------------------------------------
(* The other steps.                                                        *)

\* A handler outside performAuthAction that moves to a label outside it.
LEMMA MoveAside ==
    ASSUME ReplayInv, NEW h \in Handler, NEW l \in Label \ ActLabel, Goto(h, l),
           NEW c, chal' = chal \/ (c \in Challenge \cup {Nil} /\ chal' = [chal EXCEPT ![h] = c]),
           NEW k, key' = key \/ (k \in ReplayKey /\ key' = [key EXCEPT ![h] = k]),
           UNCHANGED <<actionInFlight, performedReplayKeys, hits>>
    PROVE  ReplayInv'
<1>1. HandlerType'
  BY DEF ReplayInv, ReplayType, Goto, HandlerType
<1>2. Aside
  BY DEF ReplayInv, ReplayType, Goto, Aside
<1> QED
  BY <1>1, <1>2, AsideInv

\* Views of the page, its state and its image.
LEMMA ViewsInv ==
    ASSUME ReplayInv, NEW h \in Handler, Views(h)
    PROVE  ReplayInv'
<1>0. UNCHANGED <<chal, actionInFlight, performedReplayKeys, hits>>
  BY DEF Views, StateApply, ImageApply, ImageBind, PageUnchanged, actionVars
<1>1. ASSUME NEW r, RespondWith(h, r) PROVE ReplayInv'
  BY <1>0, <1>1, RespondAside
<1>2. CASE StateApply(h)
  <2>1. \E r : RespondWith(h, r)
    BY <1>2 DEF StateApply, Unavailable, StateAnswered, Answered, Respond
  <2> QED
    BY <2>1, <1>1
<1>3. CASE ImageApply(h)
  <2>1. \/ \E r : RespondWith(h, r)
        \/ \E s \in Screens : \E x \in Unique(s.actions) :
              key' = [key EXCEPT ![h] = x.key] /\ Goto(h, "im_bind")
    BY <1>3 DEF ImageApply, Unavailable, Respond
  <2>2. ASSUME NEW s \in Screens, NEW x \in Unique(s.actions),
               key' = [key EXCEPT ![h] = x.key], Goto(h, "im_bind")
        PROVE  ReplayInv'
    <3>1. x.key \in ReplayKey /\ "im_bind" \in Label \ ActLabel
      BY ScreensAreSnapshots DEF Unique, Snapshot, Advert, Label, ActLabel
    <3> QED
      BY <1>0, <2>2, <3>1, MoveAside
  <2> QED
    BY <2>1, <2>2, <1>1
<1>4. CASE ImageBind(h)
  <2>1. \E r : RespondWith(h, r)
    BY <1>4 DEF ImageBind, Respond
  <2> QED
    BY <2>1, <1>1
<1> QED
  BY <1>2, <1>3, <1>4 DEF Views

\* Verification codes.
LEMMA SubmitsInv ==
    ASSUME ReplayInv, NEW h \in Handler, Submits(h)
    PROVE  ReplayInv'
<1>0. UNCHANGED <<chal, actionInFlight, performedReplayKeys, hits>>
  BY DEF Submits, CodeSubmit, CodeLeave, CodeUnchanged, Conclude, actionVars
<1>1. CASE CodeSubmit(h)
  <2>1. Goto(h, "cd_leave") /\ key' = key /\ "cd_leave" \in Label \ ActLabel
    BY <1>1 DEF CodeSubmit, Conclude, Label, ActLabel
  <2> QED
    BY <1>0, <2>1, MoveAside
<1>2. CASE CodeLeave(h)
  <2>1. \E r : RespondWith(h, r)
    BY <1>2 DEF CodeLeave, Respond
  <2> QED
    BY <1>0, <2>1, RespondAside
<1> QED
  BY <1>1, <1>2 DEF Submits

\* Delivering an answer.
LEMMA DeliverInv ==
    ASSUME ReplayInv, NEW h \in Handler, Deliver(h)
    PROVE  ReplayInv'
<1>1. /\ Goto(h, "idle") /\ chal' = [chal EXCEPT ![h] = Nil] /\ key' = key
      /\ UNCHANGED <<actionInFlight, performedReplayKeys, hits>>
      /\ "idle" \in Label \ ActLabel
  BY DEF Deliver, actionVars, history, Label, ActLabel
<1> QED
  BY <1>1, MoveAside

\* A request that arrives.
LEMMA RequestReplayInv ==
    ASSUME ReplayInv, NEW h \in Handler, Request(h)
    PROVE  ReplayInv'
<1>1. PICK c \in Challenge :
        \/ Page(h, c) \/ StateBegin(h, c) \/ CodeBegin(h, c)
        \/ \E i \in Id \cup {Nil} : ImageBegin(h, c, i)
        \/ \E i \in Id : ActBegin(h, c, i)
  BY DEF Request
<1>2. CASE \E i \in Id : ActBegin(h, c, i)
  BY <1>2, ActBeginInv
<1>3. CASE \/ Page(h, c) \/ StateBegin(h, c) \/ CodeBegin(h, c)
           \/ \E i \in Id \cup {Nil} : ImageBegin(h, c, i)
  <2>1. /\ chal' = [chal EXCEPT ![h] = c]
        /\ UNCHANGED <<actionInFlight, performedReplayKeys, hits>>
    BY <1>3 DEF Page, StateBegin, CodeBegin, ImageBegin, Arrives, PageUnchanged, CodeUnchanged,
                actionVars
  <2>2. \/ \E r : RespondWith(h, r)
        \/ \E l \in {"st_apply", "cd_submit", "im_apply"} : Goto(h, l) /\ key' = key
    BY <1>3 DEF Page, StateBegin, CodeBegin, ImageBegin, StateAnswered, Answered, Respond,
                Continue
  <2>3. {"st_apply", "cd_submit", "im_apply"} \subseteq Label \ ActLabel
    BY DEF Label, ActLabel
  <2> QED
    BY <2>1, <2>2, <2>3, RespondAside, MoveAside
<1> QED
  BY <1>1, <1>2, <1>3

\* Initially nothing was performed.
LEMMA InitReplayInv == Init => ReplayInv
<1> SUFFICES ASSUME Init PROVE ReplayInv
  OBVIOUS
<1>1. ReplayType
  BY DEF Init, ReplayType, Label
<1>2. Exclusive /\ Reserved /\ Spent
  BY DEF Init, Exclusive, Reserved, Spent, ActLabel, ReservedLabel
<1> QED
  BY <1>1, <1>2 DEF ReplayInv

\* Every step keeps the invariant.
LEMMA NextReplayInv == ReplayInv /\ [Next]_vars => ReplayInv'
<1> SUFFICES ASSUME ReplayInv, [Next]_vars PROVE ReplayInv'
  OBVIOUS
<1>1. CASE Manager \/ Tick \/ \E c \in Challenge : Monitor(c)
  <2>1. UNCHANGED <<handlerVars, actionInFlight, performedReplayKeys, hits>>
    <3>1. CASE Manager
      BY <3>1 DEF Manager, Begin, BeginFails, CloseEntry, CloseAll, actionVars, history
    <3>2. CASE Tick
      BY <3>2 DEF Tick, actionVars, history
    <3>3. CASE \E c \in Challenge : Monitor(c)
      BY <3>3 DEF Monitor, MonitorTick, MonitorProbe, MonitorRetain, MonitorUnlist,
                  MonitorClose, MonUnchanged, actionVars, history
    <3> QED
      BY <1>1, <3>1, <3>2, <3>3
  <2> QED
    BY <2>1, Untouched
<1>2. ASSUME NEW h \in Handler, Request(h) \/ Handles(h) PROVE ReplayInv'
  BY <1>2, RequestReplayInv, ViewsInv, SubmitsInv, DeliverInv, ActReserveInv, ActDispatchInv,
     ActReleaseInv, ActLeaveInv DEF Handles, Performs
<1>3. CASE UNCHANGED vars
  BY <1>3, Untouched DEF vars, actionVars, history
<1> QED
  BY <1>1, <1>2, <1>3 DEF Next

\* An operation that may have reached the official client is never dispatched
\* again in its challenge: performAuthAction's tombstones are enough, however
\* its handlers, the views, the monitor and the manager interleave.
THEOREM NoReplayCorrect == Spec => []NoReplay
<1>1. ReplayInv => NoReplay
  BY DEF ReplayInv, ReplayType, Reserved, Spent, NoReplay, ReservedLabel
<1> QED
  BY <1>1, InitReplayInv, NextReplayInv, PTL DEF Spec

-----------------------------------------------------------------------------
(* Verification codes: the same argument with codeInFlight and             *)
(* codeSubmitted.                                                          *)

CodeLabel == {"cd_submit", "cd_leave"}

CodeVarsType ==
    /\ codeAttempts \in [Challenge -> 0 .. MaxCodes + 1]
    /\ codeInFlight \subseteq Challenge /\ codeSubmitted \subseteq Challenge
    /\ accepted \in [Challenge -> 0 .. 2]
    /\ res \in [Handler -> Result]

\* One handler at a time submits a code, for a challenge that accepted none:
\* an accepted one is remembered before the next handler may submit.
CodeOwner ==
    /\ \A h \in Handler : pc[h] \in CodeLabel =>
         /\ chal[h] \in codeInFlight /\ chal[h] \notin codeSubmitted
         /\ pc[h] = "cd_submit" \/ res[h] # "accepted" => accepted[chal[h]] = 0
         /\ accepted[chal[h]] <= 1
         /\ \A g \in Handler : pc[g] \in CodeLabel /\ chal[g] = chal[h] => g = h
    /\ \A c \in Challenge :
         /\ c \notin codeInFlight /\ c \notin codeSubmitted => accepted[c] = 0
         /\ accepted[c] <= 1

CodeInv == ReplayInv /\ CodeVarsType /\ CodeOwner

\* A step that is not one of submitCode's.
LEMMA CodeAside ==
    ASSUME CodeInv, ReplayInv', UNCHANGED <<codeVars, accepted>>, res' \in [Handler -> Result],
           \A g \in Handler : pc'[g] \in CodeLabel =>
               pc'[g] = pc[g] /\ chal'[g] = chal[g] /\ res'[g] = res[g]
    PROVE  CodeInv'
<1>1. CodeVarsType'
  BY DEF CodeInv, CodeVarsType, codeVars
<1>2. CodeOwner'
  BY DEF CodeInv, CodeOwner, codeVars
<1> QED
  BY <1>1, <1>2 DEF CodeInv

LEMMA CodeBeginInv ==
    ASSUME CodeInv, ReplayInv', NEW h \in Handler, NEW c \in Challenge, CodeBegin(h, c)
    PROVE  CodeInv'
<1>0. pc[h] = "idle" /\ chal' = [chal EXCEPT ![h] = c] /\ UNCHANGED accepted
  BY DEF CodeBegin, Arrives
<1>1. ASSUME NEW r, RespondWith(h, r), UNCHANGED <<codeInFlight, codeSubmitted>>,
             codeAttempts' \in [Challenge -> 0 .. MaxCodes + 1]
      PROVE  CodeInv'
  <2>1. /\ res' \in [Handler -> Result] /\ pc'[h] = "done"
        /\ \A g \in Handler \ {h} : pc'[g] = pc[g] /\ chal'[g] = chal[g] /\ res'[g] = res[g]
    BY <1>0, <1>1 DEF RespondWith, CodeInv, CodeVarsType, Result, ReplayInv, ReplayType
  <2>2. CodeVarsType'
    BY <1>0, <1>1, <2>1 DEF CodeInv, CodeVarsType
  <2>3. CodeOwner'
    BY <1>0, <1>1, <2>1 DEF CodeInv, CodeOwner, CodeLabel
  <2> QED
    BY <2>2, <2>3 DEF CodeInv
<1>2. codeAttempts' \in [Challenge -> 0 .. MaxCodes + 1]
  BY LimitsAreNatural DEF CodeBegin, CodeInv, CodeVarsType, AtMost, codeVars
<1>3. CASE /\ c \notin codeInFlight /\ c \notin codeSubmitted
           /\ codeInFlight' = codeInFlight \cup {c} /\ Continue(h, "cd_submit")
           /\ UNCHANGED codeSubmitted
  <2>1. /\ res' = res /\ pc'[h] = "cd_submit" /\ chal'[h] = c
        /\ \A g \in Handler \ {h} : pc'[g] = pc[g] /\ chal'[g] = chal[g]
    BY <1>0, <1>3 DEF Continue, Goto, CodeInv, ReplayInv, ReplayType
  <2>2. CodeVarsType'
    BY <1>0, <1>2, <1>3, <2>1 DEF CodeInv, CodeVarsType
  <2>3. CodeOwner'
    BY <1>0, <1>3, <2>1 DEF CodeInv, CodeOwner, CodeLabel
  <2> QED
    BY <2>2, <2>3 DEF CodeInv
<1> QED
  BY <1>1, <1>2, <1>3 DEF CodeBegin, Respond, codeVars

LEMMA CodeSubmitInv ==
    ASSUME CodeInv, ReplayInv', NEW h \in Handler, CodeSubmit(h)
    PROVE  CodeInv'
<1> DEFINE c == chal[h]
<1>1. /\ pc[h] = "cd_submit" /\ c \in codeInFlight /\ c \in Challenge /\ accepted[c] = 0
      /\ c \notin codeSubmitted /\ UNCHANGED <<codeVars, chal>>
      /\ \A g \in Handler : pc[g] \in CodeLabel /\ chal[g] = c => g = h
  BY DEF CodeSubmit, Conclude, CodeInv, CodeOwner, CodeVarsType, CodeLabel
<1>2. PICK r \in {"failed", "accepted"} :
        /\ pc' = [pc EXCEPT ![h] = "cd_leave"] /\ res' = [res EXCEPT ![h] = r]
        /\ \/ r = "failed" /\ accepted' = accepted
           \/ r = "accepted" /\ accepted' = [accepted EXCEPT ![c] = AtMost(@ + 1, 2)]
  BY DEF CodeSubmit, Conclude, Goto
<1>3. /\ accepted' \in [Challenge -> 0 .. 2]
      /\ accepted'[c] <= 1 /\ (r # "accepted" => accepted'[c] = 0)
      /\ \A d \in Challenge \ {c} : accepted'[d] = accepted[d]
  BY <1>1, <1>2 DEF CodeInv, CodeVarsType, AtMost
<1>4. /\ res' \in [Handler -> Result] /\ res'[h] = r /\ pc'[h] = "cd_leave"
      /\ \A g \in Handler \ {h} : pc'[g] = pc[g] /\ res'[g] = res[g]
  BY <1>2 DEF CodeInv, CodeVarsType, Result, ReplayInv, ReplayType
<1>5. CodeVarsType'
  BY <1>1, <1>3, <1>4 DEF CodeInv, CodeVarsType, codeVars
<1>6. CodeOwner'
  BY <1>1, <1>3, <1>4 DEF CodeInv, CodeOwner, CodeVarsType, CodeLabel, codeVars
<1> QED
  BY <1>5, <1>6 DEF CodeInv

LEMMA CodeLeaveInv ==
    ASSUME CodeInv, ReplayInv', NEW h \in Handler, CodeLeave(h)
    PROVE  CodeInv'
<1> DEFINE c == chal[h]
<1>1. /\ pc[h] = "cd_leave" /\ c \in Challenge /\ (res[h] # "accepted" => accepted[c] = 0)
      /\ \A g \in Handler : pc[g] \in CodeLabel /\ chal[g] = c => g = h
      /\ codeInFlight' = codeInFlight \ {c}
      /\ codeSubmitted' = codeSubmitted \cup (IF res[h] = "accepted" THEN {c} ELSE {})
      /\ UNCHANGED <<codeAttempts, chal, accepted>>
  BY DEF CodeLeave, CodeInv, CodeOwner, CodeVarsType, CodeLabel
<1>2. /\ res' \in [Handler -> Result] /\ pc'[h] = "done"
      /\ \A g \in Handler \ {h} : pc'[g] = pc[g] /\ res'[g] = res[g]
  BY DEF CodeLeave, Respond, RespondWith, CodeInv, CodeVarsType, Result, ReplayInv, ReplayType
<1>3. CodeVarsType'
  BY <1>1, <1>2 DEF CodeInv, CodeVarsType
<1>4. CodeOwner'
  BY <1>1, <1>2 DEF CodeInv, CodeOwner, CodeLabel
<1> QED
  BY <1>3, <1>4 DEF CodeInv

\* A handler that moves, and is not at a label of submitCode afterwards.
LEMMA CodeMoves ==
    ASSUME CodeInv, ReplayInv', NEW h \in Handler, NEW l \in Label \ CodeLabel, NEW r \in Result,
           pc' = [pc EXCEPT ![h] = l], res' = [res EXCEPT ![h] = r] \/ res' = res,
           NEW c, chal' = chal \/ chal' = [chal EXCEPT ![h] = c],
           UNCHANGED <<codeVars, accepted>>
    PROVE  CodeInv'
<1>1. /\ res' \in [Handler -> Result] /\ pc'[h] \notin CodeLabel
      /\ \A g \in Handler \ {h} : pc'[g] = pc[g] /\ chal'[g] = chal[g] /\ res'[g] = res[g]
  BY DEF CodeInv, CodeVarsType, ReplayInv, ReplayType
<1> QED
  BY <1>1, CodeAside

LEMMA NextCodeInv == CodeInv /\ [Next]_vars => CodeInv'
<1> SUFFICES ASSUME CodeInv, [Next]_vars PROVE CodeInv'
  OBVIOUS
<1>0. ReplayInv'
  BY NextReplayInv DEF CodeInv
<1>1. CASE UNCHANGED <<pc, chal, res, codeVars, accepted>>
  BY <1>0, <1>1, CodeAside DEF CodeInv, CodeVarsType
<1>2. CASE UNCHANGED vars \/ Manager \/ Tick \/ \E c \in Challenge : Monitor(c)
  <2>1. UNCHANGED <<pc, chal, res, codeVars, accepted>>
    <3>1. CASE Manager
      BY <3>1 DEF Manager, Begin, BeginFails, CloseEntry, CloseAll, handlerVars, history
    <3>2. CASE Tick
      BY <3>2 DEF Tick, handlerVars, history
    <3>3. CASE \E c \in Challenge : Monitor(c)
      BY <3>3 DEF Monitor, MonitorTick, MonitorProbe, MonitorRetain, MonitorUnlist,
                  MonitorClose, MonUnchanged, handlerVars, history
    <3>4. CASE UNCHANGED vars
      BY <3>4 DEF vars, handlerVars, history
    <3> QED
      BY <1>2, <3>1, <3>2, <3>3, <3>4
  <2> QED
    BY <1>1, <2>1
<1>3. ASSUME NEW h \in Handler, NEW l \in Label \ CodeLabel, NEW r \in Result,
             pc' = [pc EXCEPT ![h] = l], res' = [res EXCEPT ![h] = r] \/ res' = res,
             NEW c, chal' = chal \/ chal' = [chal EXCEPT ![h] = c],
             UNCHANGED <<codeVars, accepted>>
      PROVE  CodeInv'
  BY <1>0, <1>3, CodeMoves
<1>4. ASSUME NEW h \in Handler, NEW c \in Challenge,
             \/ Page(h, c) \/ StateBegin(h, c)
             \/ \E i \in Id \cup {Nil} : ImageBegin(h, c, i)
             \/ \E i \in Id : ActBegin(h, c, i)
      PROVE  CodeInv'
  <2>1. chal' = [chal EXCEPT ![h] = c] /\ UNCHANGED <<codeVars, accepted>>
    BY <1>4 DEF Page, StateBegin, ImageBegin, ActBegin, Arrives, PageUnchanged, ActUnchanged
  <2>2. \E l \in {"done", "st_apply", "im_apply", "ac_reserve"} :
           pc' = [pc EXCEPT ![h] = l] /\ (res' = [res EXCEPT ![h] = "none"] \/ res' = res)
    BY <1>4 DEF Page, StateBegin, ImageBegin, ActBegin, StateAnswered, Answered, Respond,
                RespondWith, Continue, Goto
  <2>3. {"done", "st_apply", "im_apply", "ac_reserve"} \subseteq Label \ CodeLabel /\ "none" \in Result
    BY DEF Label, CodeLabel, Result
  <2> QED
    BY <1>3, <2>1, <2>2, <2>3
<1>5. ASSUME NEW h \in Handler, Views(h) \/ Deliver(h) PROVE CodeInv'
  <2>1. /\ chal' = chal \/ chal' = [chal EXCEPT ![h] = Nil]
        /\ UNCHANGED <<codeVars, accepted>>
    BY <1>5 DEF Views, StateApply, ImageApply, ImageBind, PageUnchanged, Deliver, history
  <2>2. \E l \in {"done", "idle", "im_bind"} :
           pc' = [pc EXCEPT ![h] = l] /\ (res' = [res EXCEPT ![h] = "none"] \/ res' = res)
    BY <1>5 DEF Views, StateApply, ImageApply, ImageBind, Unavailable, StateAnswered, Answered,
                Respond, RespondWith, Deliver, Goto
  <2>3. {"done", "idle", "im_bind"} \subseteq Label \ CodeLabel /\ "none" \in Result
    BY DEF Label, CodeLabel, Result
  <2> QED
    BY <1>3, <2>1, <2>2, <2>3
<1>6. ASSUME NEW h \in Handler, Performs(h) PROVE CodeInv'
  <2>1. chal' = chal /\ UNCHANGED <<codeVars, accepted>>
    BY <1>6 DEF Performs, ActReserve, ActDispatch, ActRelease, ActLeave, ActUnchanged, Conclude
  <2>2. \E l \in {"done", "ac_dispatch", "ac_release", "ac_leave"} : \E r \in Result :
           pc' = [pc EXCEPT ![h] = l] /\ res' = [res EXCEPT ![h] = r]
    <3>1. CASE ActReserve(h)
      BY <3>1 DEF ActReserve, Conclude, Goto, Result
    <3>2. CASE ActDispatch(h)
      BY <3>2 DEF ActDispatch, Conclude, Goto, Result, Advice
    <3>3. CASE ActRelease(h)
      BY <3>3 DEF ActRelease, Conclude, Goto, CodeInv, CodeVarsType
    <3>4. CASE ActLeave(h)
      BY <3>4 DEF ActLeave, Respond, RespondWith, Result
    <3> QED
      BY <1>6, <3>1, <3>2, <3>3, <3>4 DEF Performs
  <2>3. {"done", "ac_dispatch", "ac_release", "ac_leave"} \subseteq Label \ CodeLabel
    BY DEF Label, CodeLabel
  <2> QED
    BY <1>3, <2>1, <2>2, <2>3
<1> QED
  BY <1>0, <1>2, <1>4, <1>5, <1>6, CodeBeginInv, CodeSubmitInv, CodeLeaveInv
     DEF Next, Request, Handles, Submits

LEMMA InitCodeInv == Init => CodeInv
<1> SUFFICES ASSUME Init PROVE CodeInv
  OBVIOUS
<1>1. CodeVarsType
  BY LimitsAreNatural DEF Init, CodeVarsType, Result
<1>2. CodeOwner
  BY DEF Init, CodeOwner, CodeLabel
<1> QED
  BY <1>1, <1>2, InitReplayInv DEF CodeInv

THEOREM CodeInvariant == Spec => []CodeInv
  BY InitCodeInv, NextCodeInv, PTL DEF Spec

\* The driver accepts at most one verification code per challenge, however
\* many pages submit one at once and however submissions fail.
THEOREM CodeOnceCorrect == Spec => []CodeOnce
<1>1. CodeInv => CodeOnce
  BY DEF CodeInv, CodeOwner, CodeOnce
<1> QED
  BY <1>1, CodeInvariant, PTL

-----------------------------------------------------------------------------
(* Types.                                                                  *)

ManagerType ==
    /\ daemon \in {"up", "closed"}
    /\ listed \subseteq Challenge /\ closing \subseteq Challenge /\ files \subseteq Challenge
    /\ phase \in [Challenge -> {"none", "failed", "open", "closed"}]
    /\ owner \in [Challenge -> Account \cup {Nil}]
    /\ age \in [Challenge -> 0 .. TTL + 1]
    /\ mon \in [Challenge -> {"none", "tick", "probe", "retain", "unlist", "close"}]

ViewType ==
    /\ completedAt \in [Challenge -> 0 .. TTL + 1 \cup {Nil}]
    /\ kept \in [Challenge -> 0 .. Retention]
    /\ shown \in [Challenge -> State]
    /\ cand \in [Challenge -> 0 .. Window \cup {Nil}]
    /\ obs \in [Challenge -> 0 .. MinObs]

ActionType ==
    /\ actionAttempts \in [Challenge -> [Id -> 0 .. MaxPerAction]]
    /\ totalActionAttempts \in [Challenge -> 0 .. MaxActions]
    /\ performedActions \in [Challenge -> SUBSET Id]
    /\ id \in [Handler -> Id \cup {Nil}]

\* A handler that is not idle serves a challenge.
Busy == \A h \in Handler : pc[h] # "idle" => chal[h] \in Challenge

AnswerType == reply \in [Handler -> Answer]

LoginInv == CodeInv /\ ManagerType /\ ViewType /\ ActionType /\ Busy /\ AnswerType

USE LimitsAreNatural, NilIsNothing

LEMMA NatLimits ==
    /\ TTL \in Nat /\ Window \in Nat /\ MinObs \in Nat /\ Retention \in Nat
    /\ MaxCodes \in Nat /\ MaxPerAction \in Nat /\ MaxActions \in Nat
  OBVIOUS

\* markCompletedLocked and observeAuthSnapshotLocked.
LEMMA MarkTyped ==
    ASSUME ViewType, ManagerType, NEW c \in Challenge, MarkCompleted(c)
    PROVE  /\ completedAt' \in [Challenge -> 0 .. TTL + 1 \cup {Nil}]
           /\ kept' \in [Challenge -> 0 .. Retention]
           /\ shown' \in [Challenge -> State]
  BY NatLimits DEF ViewType, ManagerType, MarkCompleted, State

LEMMA ObserveTyped ==
    ASSUME ViewType, ManagerType, NEW c \in Challenge,
           NEW st \in {"ONLINE", "AUTH_REQUIRED", "STARTING"}, ObserveAuthSnapshot(c, st)
    PROVE  ViewType'
<1>1. CASE ObserveOther(c, st)
  BY <1>1, NatLimits DEF ObserveOther, ViewType, State
<1>2. CASE ~ObserveOther(c, st)
  <2> DEFINE since == IF cand[c] = Nil THEN 0 ELSE cand[c]
             n == AtMost(IF cand[c] = Nil THEN 1 ELSE obs[c] + 1, MinObs)
  <2>1. since \in 0 .. Window /\ n \in 0 .. MinObs
    BY NatLimits DEF ViewType, AtMost
  <2>2. cand' = [cand EXCEPT ![c] = since] /\ obs' = [obs EXCEPT ![c] = n]
    BY <1>2 DEF ObserveAuthSnapshot
  <2>3. MarkCompleted(c) \/ (shown' = [shown EXCEPT ![c] = "STARTING"] /\ UNCHANGED <<completedAt, kept>>)
    BY <1>2 DEF ObserveAuthSnapshot
  <2> HIDE DEF since, n
  <2>4. cand' \in [Challenge -> 0 .. Window \cup {Nil}] /\ obs' \in [Challenge -> 0 .. MinObs]
    BY <2>1, <2>2 DEF ViewType
  <2>5. /\ completedAt' \in [Challenge -> 0 .. TTL + 1 \cup {Nil}]
        /\ kept' \in [Challenge -> 0 .. Retention]
        /\ shown' \in [Challenge -> State]
    BY <2>3, MarkTyped DEF ViewType, State
  <2> QED
    BY <2>4, <2>5 DEF ViewType
<1> QED
  BY <1>1, <1>2

LEMMA ScreenFacts ==
    ASSUME NEW s \in Screens
    PROVE  /\ s.state \in {"ONLINE", "AUTH_REQUIRED", "STARTING"}
           /\ Unique(s.actions) \subseteq Advert
           /\ \A x \in Unique(s.actions) : x.id \in Id /\ x.key \in ReplayKey
  BY ScreensAreSnapshots DEF Snapshot, Unique, Advert

\* The manager, the clock and the monitors.
LEMMA ManagerTyped ==
    ASSUME LoginInv, [Next]_vars
    PROVE  ManagerType'
<1> USE DEF LoginInv
<1>1. CASE Manager
  <2>1. ASSUME NEW c \in Challenge, NEW a \in Account, NEW s \in Screens, Begin(c, a, s.state)
        PROVE  ManagerType'
    BY <2>1 DEF Begin, ManagerType
  <2> QED
    BY <1>1, <2>1 DEF Manager, BeginFails, CloseEntry, CloseAll, ManagerType
<1>2. CASE Tick
  BY <1>2, NatLimits DEF Tick, ManagerType, managerVars, AtMost, Served
<1>3. ASSUME NEW c \in Challenge, Monitor(c) PROVE ManagerType'
  <2>1. mon' \in [Challenge -> {"none", "tick", "probe", "retain", "unlist", "close"}]
    BY <1>3 DEF Monitor, MonitorTick, MonitorProbe, MonitorRetain, MonitorUnlist, MonitorClose,
                MonitorLeaves, MonGoto, ManagerType
  <2> QED
    BY <1>3, <2>1 DEF Monitor, MonitorTick, MonitorProbe, MonitorRetain, MonitorUnlist, MonitorClose,
                MonUnchanged, managerVars, lifeVars, ManagerType
<1>4. ASSUME NEW h \in Handler, Request(h) \/ Handles(h) PROVE ManagerType'
  <2>1. UNCHANGED <<managerVars, lifeVars, mon>>
    <3>1. CASE Request(h)
      BY <3>1 DEF Request, Page, StateBegin, CodeBegin, ImageBegin, ActBegin, PageUnchanged,
                  CodeUnchanged, ActUnchanged
    <3>2. CASE Handles(h)
      BY <3>2 DEF Handles, Views, Submits, Performs, StateApply, ImageApply, ImageBind, CodeSubmit,
                  CodeLeave, ActReserve, ActDispatch, ActRelease, ActLeave, Deliver, PageUnchanged,
                  CodeUnchanged, ActUnchanged
    <3> QED
      BY <1>4, <3>1, <3>2
  <2> QED
    BY <2>1 DEF ManagerType, managerVars, lifeVars
<1>5. CASE UNCHANGED vars
  BY <1>5 DEF vars, ManagerType, managerVars, lifeVars
<1> QED
  BY <1>1, <1>2, <1>3, <1>4, <1>5 DEF Next

LEMMA ViewTyped ==
    ASSUME LoginInv, [Next]_vars
    PROVE  ViewType'
<1> USE DEF LoginInv
<1>0. CASE UNCHANGED viewVars
  BY <1>0 DEF viewVars, ViewType
<1>1. ASSUME NEW c \in Challenge, NEW s \in Screens, ObserveAuthSnapshot(c, s.state)
      PROVE  ViewType'
  BY <1>1, ObserveTyped, ScreenFacts
<1>2. ASSUME NEW c \in Challenge, MarkCompleted(c), UNCHANGED <<cand, obs>>
      PROVE  ViewType'
  BY <1>2, MarkTyped DEF ViewType
<1>3. CASE Manager
  BY <1>0, <1>1, <1>3 DEF Manager, Begin, BeginFails, CloseEntry, CloseAll
<1>4. CASE Tick
  BY <1>4, NatLimits DEF Tick, ViewType, AtMost, Completed
<1>5. ASSUME NEW c \in Challenge, MonitorLeaves(c) PROVE ViewType'
  <2>1. CASE shown' = [shown EXCEPT ![c] = "OFFLINE"] /\ UNCHANGED <<completedAt, kept, cand, obs>>
    BY <2>1 DEF ViewType, State
  <2> QED
    BY <1>0, <1>2, <1>5, <2>1 DEF MonitorLeaves
<1>6. ASSUME NEW c \in Challenge, Monitor(c) PROVE ViewType'
  BY <1>0, <1>1, <1>5, <1>6
     DEF Monitor, MonitorTick, MonitorProbe, MonitorRetain, MonitorUnlist, MonitorClose
<1>7. ASSUME NEW h \in Handler, NEW c \in Challenge, Answered(h, c) PROVE ViewType'
  BY <1>0, <1>2, <1>7 DEF Answered
<1>8. ASSUME NEW h \in Handler, Request(h) PROVE ViewType'
  BY <1>0, <1>7, <1>8 DEF Request, Page, StateBegin, StateAnswered, CodeBegin, ImageBegin,
                          ActBegin, CodeUnchanged, ActUnchanged
<1>9. ASSUME NEW h \in Handler, Views(h) PROVE ViewType'
  <2>1. pc[h] # "idle" => chal[h] \in Challenge
    BY DEF Busy
  <2> QED
    BY <1>0, <1>1, <1>7, <1>9, <2>1
       DEF Views, StateApply, ImageApply, ImageBind, Unavailable, StateAnswered
<1>10. ASSUME NEW h \in Handler, Submits(h) \/ Performs(h) \/ Deliver(h) PROVE ViewType'
  BY <1>0, <1>10 DEF Submits, Performs, CodeSubmit, CodeLeave, ActReserve, ActDispatch, ActRelease,
                     ActLeave, Deliver, CodeUnchanged, ActUnchanged
<1> QED
  BY <1>0, <1>3, <1>4, <1>6, <1>8, <1>9, <1>10 DEF Next, Handles, vars

LEMMA ActionTyped ==
    ASSUME LoginInv, [Next]_vars
    PROVE  ActionType'
<1> USE DEF LoginInv
<1>0. CASE UNCHANGED <<actionAttempts, totalActionAttempts, performedActions, id>>
  BY <1>0 DEF ActionType
<1>1. CASE UNCHANGED vars \/ Manager \/ Tick \/ \E c \in Challenge : Monitor(c)
  <2>1. UNCHANGED <<actionVars, handlerVars>>
    BY <1>1 DEF Manager, Begin, BeginFails, CloseEntry, CloseAll, Tick, Monitor, MonitorTick,
                MonitorProbe, MonitorRetain, MonitorUnlist, MonitorClose, MonUnchanged, vars
  <2> QED
    BY <1>0, <2>1 DEF actionVars, handlerVars
<1>2. ASSUME NEW h \in Handler, NEW i \in Id \cup {Nil},
             id' = id \/ id' = [id EXCEPT ![h] = i],
             UNCHANGED <<actionAttempts, totalActionAttempts, performedActions>>
      PROVE  ActionType'
  BY <1>2 DEF ActionType
<1>3. ASSUME NEW h \in Handler, Request(h) PROVE ActionType'
  <2>1. UNCHANGED <<actionAttempts, totalActionAttempts, performedActions>>
    BY <1>3 DEF Request, Page, StateBegin, CodeBegin, ImageBegin, ActBegin, PageUnchanged,
                CodeUnchanged, actionVars
  <2>2. \E i \in Id \cup {Nil} : id' = id \/ id' = [id EXCEPT ![h] = i]
    BY <1>3 DEF Request, Page, StateBegin, CodeBegin, ImageBegin, ActBegin, StateAnswered, Answered,
                Respond, RespondWith, Continue
  <2> QED
    BY <1>2, <2>1, <2>2
<1>4. ASSUME NEW h \in Handler, Views(h) \/ Submits(h) \/ Deliver(h) PROVE ActionType'
  <2>1. UNCHANGED <<actionAttempts, totalActionAttempts, performedActions>>
    BY <1>4 DEF Views, StateApply, ImageApply, ImageBind, Submits, CodeSubmit, CodeLeave, Deliver,
                PageUnchanged, CodeUnchanged, actionVars
  <2>2. \E i \in Id \cup {Nil} : id' = id \/ id' = [id EXCEPT ![h] = i]
    BY <1>4 DEF Views, StateApply, ImageApply, ImageBind, Submits, CodeSubmit, CodeLeave, Deliver,
                Unavailable, StateAnswered, Answered, Respond, RespondWith, Conclude
  <2> QED
    BY <1>2, <2>1, <2>2
<1>5. ASSUME NEW h \in Handler, ActReserve(h) PROVE ActionType'
  <2> DEFINE c == chal[h]
             i == id[h]
  <2>1. c \in Challenge /\ id' = id
    BY <1>5 DEF ActReserve, Conclude, Busy
  <2>2. ASSUME NEW s \in Screens, NEW x \in Unique(s.actions), x.id = i, MayPerform(c, i, x.key),
               actionAttempts' = [actionAttempts EXCEPT ![c][i] = @ + 1],
               totalActionAttempts' = [totalActionAttempts EXCEPT ![c] = @ + 1],
               performedActions' = [performedActions EXCEPT ![c] = @ \cup {i}]
        PROVE  ActionType'
    <3>1. i \in Id
      BY <2>2, ScreenFacts
    <3>2. /\ actionAttempts[c][i] + 1 \in 0 .. MaxPerAction
          /\ totalActionAttempts[c] + 1 \in 0 .. MaxActions
      BY <2>1, <2>2, <3>1, NatLimits DEF MayPerform, ActionType
    <3>3. actionAttempts' \in [Challenge -> [Id -> 0 .. MaxPerAction]]
      BY <2>1, <2>2, <3>1, <3>2 DEF ActionType
    <3>4. totalActionAttempts' \in [Challenge -> 0 .. MaxActions]
      BY <2>1, <2>2, <3>2 DEF ActionType
    <3>5. performedActions' \in [Challenge -> SUBSET Id]
      BY <2>1, <2>2, <3>1 DEF ActionType
    <3> QED
      BY <2>1, <3>3, <3>4, <3>5 DEF ActionType
  <2> QED
    BY <1>0, <1>5, <2>1, <2>2 DEF ActReserve, actionVars
<1>6. ASSUME NEW h \in Handler, ActRelease(h) PROVE ActionType'
  BY <1>6 DEF ActRelease, Conclude, ActionType
<1>7. ASSUME NEW h \in Handler, ActDispatch(h) \/ ActLeave(h) PROVE ActionType'
  <2>1. UNCHANGED <<actionAttempts, totalActionAttempts, performedActions>>
    BY <1>7 DEF ActDispatch, ActLeave, actionVars
  <2>2. \E i \in Id \cup {Nil} : id' = id \/ id' = [id EXCEPT ![h] = i]
    BY <1>7 DEF ActDispatch, ActLeave, Respond, RespondWith, Conclude
  <2> QED
    BY <1>2, <2>1, <2>2
<1> QED
  BY <1>1, <1>3, <1>4, <1>5, <1>6, <1>7 DEF Next, Handles, Performs

\* A handler's step: it answers, or goes on within its request.
Answers(h) == \E r \in Answer : RespondWith(h, r)

GoesOn(h) == \E l \in Label \ {"idle", "done"} : pc' = [pc EXCEPT ![h] = l] /\ reply' = reply

LEMMA HandlerMoves ==
    ASSUME LoginInv, NEW h \in Handler, Request(h) \/ Handles(h)
    PROVE  /\ Answers(h) \/ GoesOn(h) \/ Deliver(h)
           /\ \/ Deliver(h)
              \/ pc[h] # "idle" /\ chal' = chal
              \/ \E c \in Challenge : chal' = [chal EXCEPT ![h] = c]
<1> USE DEF LoginInv
<1> DEFINE Code == Result \cup State \cup {"gone", "limit", "unconfirmed", "image"}
<1>0. ViewType'
  <2>1. Next
    BY DEF Next
  <2> QED
    BY <2>1, ViewTyped
<1>1. ASSUME NEW c \in Challenge, NEW code \in Code, NEW o \in SUBSET Advert
      PROVE  [chal |-> c, code |-> code, offer |-> o] \in Answer
  BY DEF Answer
<1>2. ASSUME NEW c \in Challenge, NEW code \in Code, Respond(h, c, code)
      PROVE  Answers(h)
  BY <1>1, <1>2 DEF Respond, Answers
<1>3. ASSUME NEW c \in Challenge, Answered(h, c) PROVE Answers(h)
  BY <1>2, <1>3 DEF Answered, State
<1>4. ASSUME NEW c \in Challenge, StateAnswered(h, c) PROVE Answers(h)
  <2>1. shown[c] \in State
    BY DEF ViewType
  <2> QED
    BY <1>2, <1>3, <1>4, <2>1 DEF StateAnswered
<1>5. ASSUME NEW l \in Label \ {"idle", "done"}, Goto(h, l), reply' = reply PROVE GoesOn(h)
  BY <1>5 DEF Goto, GoesOn
<1>6. {"st_apply", "im_apply", "im_bind", "cd_submit", "cd_leave", "ac_reserve", "ac_dispatch",
       "ac_release", "ac_leave"} \subseteq Label \ {"idle", "done"}
  BY DEF Label
<1>7. {"gone", "conflict", "limit", "unconfirmed", "image", "unavailable"} \subseteq Code
  BY DEF Result
<1>8. CASE Request(h)
  <2>1. PICK c \in Challenge :
          \/ Page(h, c) \/ StateBegin(h, c) \/ CodeBegin(h, c)
          \/ \E i \in Id \cup {Nil} : ImageBegin(h, c, i)
          \/ \E i \in Id : ActBegin(h, c, i)
    BY <1>8 DEF Request
  <2>2. chal' = [chal EXCEPT ![h] = c]
    BY <2>1 DEF Page, StateBegin, CodeBegin, ImageBegin, ActBegin, Arrives
  <2>3. CASE Page(h, c)
    <3>1. shown[c] \in Code
      BY DEF ViewType
    <3> QED
      BY <1>2, <1>3, <2>2, <2>3, <3>1 DEF Page
  <2>4. CASE StateBegin(h, c)
    BY <1>4, <1>5, <1>6, <2>2, <2>4 DEF StateBegin, Continue
  <2>5. CASE CodeBegin(h, c)
    BY <1>2, <1>5, <1>6, <1>7, <2>2, <2>5 DEF CodeBegin, Continue
  <2>6. CASE \E i \in Id \cup {Nil} : ImageBegin(h, c, i)
    BY <1>2, <1>5, <1>6, <1>7, <2>2, <2>6 DEF ImageBegin
  <2>7. CASE \E i \in Id : ActBegin(h, c, i)
    BY <1>2, <1>5, <1>6, <1>7, <2>2, <2>7 DEF ActBegin
  <2> QED
    BY <2>1, <2>3, <2>4, <2>5, <2>6, <2>7
<1>9. CASE Views(h)
  <2>1. /\ pc[h] # "idle" /\ chal' = chal /\ chal[h] \in Challenge
    BY <1>9 DEF Views, StateApply, ImageApply, ImageBind, Busy
  <2>2. CASE StateApply(h)
    <3>1. ASSUME NEW s \in Screens,
                 RespondWith(h, [chal |-> chal[h], code |-> shown'[chal[h]],
                                 offer |-> IF completedAt'[chal[h]] # Nil THEN {}
                                           ELSE AvailableAuthActions(chal[h], s)])
          PROVE  Answers(h)
      <4>1. shown'[chal[h]] \in Code
        BY <1>0, <2>1 DEF ViewType
      <4>2. (IF completedAt'[chal[h]] # Nil THEN {} ELSE AvailableAuthActions(chal[h], s))
               \in SUBSET Advert
        BY ScreenFacts DEF AvailableAuthActions
      <4> QED
        BY <1>1, <2>1, <3>1, <4>1, <4>2 DEF Answers
    <3> QED
      BY <1>2, <1>4, <1>7, <2>1, <2>2, <3>1 DEF StateApply, Unavailable
  <2>3. CASE ImageApply(h)
    BY <1>2, <1>5, <1>6, <1>7, <2>1, <2>3 DEF ImageApply, Unavailable
  <2>4. CASE ImageBind(h)
    BY <1>2, <1>7, <2>1, <2>4 DEF ImageBind
  <2> QED
    BY <1>9, <2>1, <2>2, <2>3, <2>4 DEF Views
<1>10. CASE Submits(h) \/ Performs(h)
  <2>1. /\ pc[h] # "idle" /\ chal' = chal /\ chal[h] \in Challenge /\ res[h] \in Code
    BY <1>10 DEF Submits, Performs, CodeSubmit, CodeLeave, ActReserve, ActDispatch, ActRelease,
                 ActLeave, Conclude, Busy, CodeInv, CodeVarsType
  <2>2. CASE CodeLeave(h) \/ ActLeave(h)
    BY <1>2, <2>1, <2>2 DEF CodeLeave, ActLeave
  <2>3. CASE CodeSubmit(h) \/ ActReserve(h) \/ ActDispatch(h) \/ ActRelease(h)
    <3>1. \E l \in {"cd_leave", "ac_dispatch", "ac_release", "ac_leave"} : Goto(h, l) /\ reply' = reply
      BY <2>3 DEF CodeSubmit, ActReserve, ActDispatch, ActRelease, Conclude
    <3> QED
      BY <1>5, <1>6, <2>1, <3>1
  <2> QED
    BY <1>10, <2>1, <2>2, <2>3 DEF Submits, Performs
<1> QED
  BY <1>8, <1>9, <1>10 DEF Handles

LEMMA HandlersKeep ==
    ASSUME LoginInv, NEW h \in Handler, Request(h) \/ Handles(h)
    PROVE  /\ Busy' /\ AnswerType'
           /\ \A g \in Handler \ {h} : pc'[g] = pc[g] /\ reply'[g] = reply[g]
           /\ pc'[h] = "done" => \E r \in Answer : reply'[h] = r /\ RespondWith(h, r)
<1> USE DEF LoginInv
<1>1. /\ pc \in [Handler -> Label] /\ chal \in [Handler -> Challenge \cup {Nil}]
      /\ reply \in [Handler -> Answer]
  BY DEF CodeInv, ReplayInv, ReplayType, AnswerType
<1>2. NoReply \in Answer
  BY DEF NoReply, Answer, Result
<1>3. Answers(h) \/ GoesOn(h) \/ Deliver(h)
  BY HandlerMoves
<1>4. /\ \A g \in Handler \ {h} : pc'[g] = pc[g] /\ reply'[g] = reply[g]
      /\ AnswerType'
      /\ Deliver(h) => pc'[h] = "idle"
  BY <1>1, <1>2, <1>3 DEF Answers, GoesOn, Deliver, RespondWith, Goto, AnswerType
<1>5. pc'[h] = "done" => \E r \in Answer : reply'[h] = r /\ RespondWith(h, r)
  BY <1>1, <1>3, <1>4 DEF Answers, GoesOn, RespondWith
<1>6. Busy'
  <2>1. CASE Deliver(h)
    BY <1>1, <1>4, <2>1 DEF Busy, Deliver
  <2>2. CASE pc[h] # "idle" /\ chal' = chal
    BY <1>1, <1>4, <2>2 DEF Busy
  <2>3. CASE \E c \in Challenge : chal' = [chal EXCEPT ![h] = c]
    BY <1>1, <1>4, <2>3 DEF Busy
  <2> QED
    BY <2>1, <2>2, <2>3, HandlerMoves
<1> QED
  BY <1>4, <1>5, <1>6

LEMMA NextLoginInv == LoginInv /\ [Next]_vars => LoginInv'
<1> SUFFICES ASSUME LoginInv, [Next]_vars PROVE LoginInv'
  OBVIOUS
<1>1. CodeInv' /\ ManagerType' /\ ViewType' /\ ActionType'
  BY NextCodeInv, ManagerTyped, ViewTyped, ActionTyped DEF LoginInv
<1>2. CASE UNCHANGED vars \/ Manager \/ Tick \/ \E c \in Challenge : Monitor(c)
  <2>1. UNCHANGED handlerVars
    BY <1>2 DEF Manager, Begin, BeginFails, CloseEntry, CloseAll, Tick, Monitor, MonitorTick,
                MonitorProbe, MonitorRetain, MonitorUnlist, MonitorClose, MonUnchanged, vars
  <2>2. Busy' /\ AnswerType'
    BY <2>1 DEF LoginInv, Busy, AnswerType, handlerVars
  <2> QED
    BY <1>1, <2>2 DEF LoginInv
<1>3. CASE \E h \in Handler : Request(h) \/ Handles(h)
  BY <1>1, <1>3, HandlersKeep DEF LoginInv
<1> QED
  BY <1>2, <1>3 DEF Next

LEMMA InitLoginInv == Init => LoginInv
<1> SUFFICES ASSUME Init PROVE LoginInv
  OBVIOUS
<1>1. CodeInv
  BY InitCodeInv
<1>2. ManagerType /\ ViewType /\ ActionType
  BY NatLimits DEF Init, ManagerType, ViewType, ActionType, State
<1>3. Busy /\ AnswerType
  BY DEF Init, Busy, AnswerType, NoReply, Answer, Result
<1> QED
  BY <1>1, <1>2, <1>3 DEF LoginInv

THEOREM LoginInvariant == Spec => []LoginInv
  BY InitLoginInv, NextLoginInv, PTL DEF Spec

\* Every variable of the login challenge keeps its shape, and the counters
\* of codes and actions respect their limits.
THEOREM LoginTypeCorrect == Spec => []TypeOK
<1>1. LoginInv => TypeOK
  <2> SUFFICES ASSUME LoginInv PROVE TypeOK
    OBVIOUS
  <2>1. hits \in [Challenge -> [ReplayKey -> Nat]]
    BY DEF LoginInv, CodeInv, ReplayInv, ReplayType
  <2>2. ASSUME NEW c \in Challenge, NEW k \in ReplayKey PROVE hits[c][k] \in 0 .. 2
    <3>1. hits[c][k] \in Nat
      BY <2>1
    <3>2. hits[c][k] <= 1
      BY DEF LoginInv, CodeInv, ReplayInv, Spent
    <3> QED
      BY <3>1, <3>2
  <2>3. hits \in [Challenge -> [ReplayKey -> 0 .. 2]]
    BY <2>1, <2>2
  <2> QED
    BY <2>3 DEF LoginInv, CodeInv, CodeVarsType, ReplayInv, ReplayType, ManagerType, ViewType,
                ActionType, AnswerType, TypeOK
<1> QED
  BY <1>1, LoginInvariant, PTL

-----------------------------------------------------------------------------
(* What the page says.                                                     *)

\* Only a handler's own step answers its request.
LEMMA WhoAnswers ==
    ASSUME LoginInv, [Next]_vars, NEW h \in Handler, pc[h] # "done", pc'[h] = "done"
    PROVE  /\ Request(h) \/ Views(h) \/ Submits(h) \/ Performs(h)
           /\ \E r \in Answer : reply'[h] = r /\ RespondWith(h, r)
<1>1. ASSUME UNCHANGED vars \/ Manager \/ Tick \/ \E c \in Challenge : Monitor(c)
      PROVE  FALSE
  <2>1. UNCHANGED handlerVars
    BY <1>1 DEF Manager, Begin, BeginFails, CloseEntry, CloseAll, Tick, Monitor, MonitorTick,
                MonitorProbe, MonitorRetain, MonitorUnlist, MonitorClose, MonUnchanged, vars
  <2> QED
    BY <2>1 DEF handlerVars
<1>2. ASSUME NEW g \in Handler, Request(g) \/ Handles(g) PROVE g = h
  BY <1>2, HandlersKeep
<1>3. Request(h) \/ Handles(h)
  BY <1>1, <1>2 DEF Next
<1>4. ~Deliver(h)
  BY DEF Deliver
<1> QED
  BY <1>3, <1>4, HandlersKeep DEF Handles

\* The state that a handler answers is not that of a challenge that had
\* completed before.
LEMMA AnswerIsFinal ==
    ASSUME LoginInv, [Next]_vars, NEW h \in Handler, pc[h] # "done", pc'[h] = "done",
           Completed(reply'[h].chal)
    PROVE  reply'[h].code \notin {"AUTH_REQUIRED", "STARTING", "OFFLINE"}
<1> DEFINE Stale == {"AUTH_REQUIRED", "STARTING", "OFFLINE"}
<1>0. reply \in [Handler -> Answer]
  BY DEF LoginInv, AnswerType
<1>1. ASSUME NEW c, NEW code, NEW o, RespondWith(h, [chal |-> c, code |-> code, offer |-> o])
      PROVE  reply'[h].chal = c /\ reply'[h].code = code
  BY <1>0, <1>1 DEF RespondWith
<1>2. ASSUME NEW c, NEW code, Respond(h, c, code)
      PROVE  reply'[h].chal = c /\ reply'[h].code = code
  BY <1>1, <1>2 DEF Respond
<1>3. ASSUME NEW c, Answered(h, c) PROVE reply'[h].code \notin Stale
  BY <1>2, <1>3 DEF Answered
<1>4. ASSUME NEW c, ~Over(c), NEW code, Respond(h, c, code) PROVE FALSE
  BY <1>2, <1>4 DEF Over
<1>5. CASE Request(h)
  <2>1. PICK c \in Challenge :
          \/ Page(h, c) \/ StateBegin(h, c) \/ CodeBegin(h, c)
          \/ \E i \in Id \cup {Nil} : ImageBegin(h, c, i)
          \/ \E i \in Id : ActBegin(h, c, i)
    BY <1>5 DEF Request
  <2>2. ASSUME NEW l, Goto(h, l) PROVE l = "done"
    BY <2>2 DEF Goto, LoginInv, CodeInv, ReplayInv, ReplayType
  <2>3. CASE Page(h, c)
    BY <1>3, <1>4, <2>3 DEF Page
  <2>4. CASE StateBegin(h, c)
    BY <1>3, <1>4, <2>2, <2>4 DEF StateBegin, StateAnswered, Continue
  <2>5. CASE CodeBegin(h, c)
    BY <1>2, <2>2, <2>5 DEF CodeBegin, Continue
  <2>6. CASE \E i \in Id \cup {Nil} : ImageBegin(h, c, i)
    BY <1>2, <2>2, <2>6 DEF ImageBegin
  <2>7. CASE \E i \in Id : ActBegin(h, c, i)
    BY <1>2, <2>2, <2>7 DEF ActBegin
  <2> QED
    BY <2>1, <2>3, <2>4, <2>5, <2>6, <2>7
<1>6. CASE Views(h)
  <2>1. CASE StateApply(h)
    <3>1. ASSUME NEW s \in Screens, ~Over(chal[h]), NEW code, NEW o,
                 RespondWith(h, [chal |-> chal[h], code |-> code, offer |-> o])
          PROVE  FALSE
      BY <1>1, <3>1 DEF Over
    <3> QED
      BY <1>2, <1>3, <1>4, <2>1, <3>1 DEF StateApply, Unavailable, StateAnswered
  <2>2. CASE ImageApply(h)
    <3>1. pc' # [pc EXCEPT ![h] = "im_bind"]
      BY DEF LoginInv, CodeInv, ReplayInv, ReplayType
    <3> QED
      BY <1>2, <2>2, <3>1 DEF ImageApply, Unavailable, Goto
  <2>3. CASE ImageBind(h)
    BY <1>2, <2>3 DEF ImageBind
  <2> QED
    BY <1>6, <2>1, <2>2, <2>3 DEF Views
<1>7. CASE Submits(h) \/ Performs(h)
  <2>1. res[h] \notin Stale
    BY DEF LoginInv, CodeInv, CodeVarsType, Result
  <2>2. ASSUME NEW l, Goto(h, l) PROVE l = "done"
    BY <2>2 DEF Goto, LoginInv, CodeInv, ReplayInv, ReplayType
  <2>3. CASE CodeLeave(h) \/ ActLeave(h)
    BY <1>2, <2>1, <2>3 DEF CodeLeave, ActLeave
  <2>4. CASE CodeSubmit(h) \/ ActReserve(h) \/ ActDispatch(h) \/ ActRelease(h)
    BY <2>2, <2>4 DEF CodeSubmit, ActReserve, ActDispatch, ActRelease, Conclude
  <2> QED
    BY <1>7, <2>3, <2>4 DEF Submits, Performs
<1> QED
  BY <1>5, <1>6, <1>7, WhoAnswers

\* Once a challenge has completed, no page is told that the login is still
\* pending or offline, whatever snapshot its handler holds.
THEOREM OnlineIsFinalCorrect == Spec => OnlineIsFinal
<1>1. LoginInv /\ [Next]_vars =>
        [\A h \in Handler :
            pc[h] # "done" /\ pc'[h] = "done" /\ Completed(reply'[h].chal) =>
                reply'[h].code \notin {"AUTH_REQUIRED", "STARTING", "OFFLINE"}]_vars
  BY AnswerIsFinal
<1> QED
  BY <1>1, LoginInvariant, PTL DEF Spec, OnlineIsFinal

\* What a handler offers has no tombstone, hence no possible effect yet.
LEMMA OfferIsFresh ==
    ASSUME LoginInv, [Next]_vars, NEW h \in Handler, pc[h] # "done", pc'[h] = "done",
           NEW x \in reply'[h].offer
    PROVE  hits[reply'[h].chal][x.key] = 0
<1>0. reply \in [Handler -> Answer]
  BY DEF LoginInv, AnswerType
<1>1. ASSUME NEW c, NEW code, NEW o, RespondWith(h, [chal |-> c, code |-> code, offer |-> o])
      PROVE  reply'[h].chal = c /\ reply'[h].offer = o
  BY <1>0, <1>1 DEF RespondWith
<1>2. ASSUME NEW c, NEW code, Respond(h, c, code) PROVE FALSE
  <2>1. reply'[h].offer = {}
    BY <1>1, <1>2 DEF Respond
  <2> QED
    BY <2>1
<1>3. ASSUME NEW l, Goto(h, l) PROVE l = "done"
  BY <1>3 DEF Goto, LoginInv, CodeInv, ReplayInv, ReplayType
<1>4. ASSUME NEW c, Answered(h, c) \/ StateAnswered(h, c) PROVE FALSE
  BY <1>2, <1>4 DEF Answered, StateAnswered
<1>5. ~Request(h)
  BY <1>2, <1>3, <1>4 DEF Request, Page, StateBegin, CodeBegin, ImageBegin, ActBegin, Continue
<1>6. ~(Submits(h) \/ Performs(h))
  BY <1>2, <1>3 DEF Submits, Performs, CodeSubmit, CodeLeave, ActReserve, ActDispatch, ActRelease,
                    ActLeave, Conclude
<1>7. StateApply(h)
  BY <1>2, <1>3, <1>5, <1>6, WhoAnswers DEF Views, ImageApply, ImageBind, Unavailable
<1>8. PICK s \in Screens : \E code :
          RespondWith(h, [chal |-> chal[h], code |-> code,
                          offer |-> IF completedAt'[chal[h]] # Nil THEN {}
                                    ELSE AvailableAuthActions(chal[h], s)])
  BY <1>2, <1>4, <1>7 DEF StateApply, Unavailable
<1>9. reply'[h].chal = chal[h] /\ x \in AvailableAuthActions(chal[h], s)
  <2>1. /\ reply'[h].chal = chal[h]
        /\ reply'[h].offer = IF completedAt'[chal[h]] # Nil THEN {}
                             ELSE AvailableAuthActions(chal[h], s)
    BY <1>1, <1>8
  <2> QED
    BY <2>1
<1>10. chal[h] \in Challenge /\ x.key \in ReplayKey /\ x.key \notin performedReplayKeys[chal[h]]
  BY <1>7, <1>9, ScreenFacts DEF AvailableAuthActions, StateApply, LoginInv, Busy
<1> QED
  BY <1>9, <1>10 DEF LoginInv, CodeInv, ReplayInv, Spent

\* The page never offers an operation that may already have had its effect.
THEOREM OffersCorrect == Spec => OffersAreFresh
<1>1. LoginInv /\ [Next]_vars =>
        [\A h \in Handler :
            pc[h] # "done" /\ pc'[h] = "done" =>
                \A x \in reply'[h].offer : hits[reply'[h].chal][x.key] = 0]_vars
  BY OfferIsFresh
<1> QED
  BY <1>1, LoginInvariant, PTL DEF Spec, OffersAreFresh

-----------------------------------------------------------------------------
(* The list of challenges.                                                 *)

\* Why a monitor may take its challenge off the list: it was shown for the
\* retention, or it expired before it completed.
Done(c) ==
    \/ Completed(c) /\ kept[c] >= Retention
    \/ Expired(c) /\ (Completed(c) => completedAt[c] > TTL)

\* A listed challenge is open and watched by its monitor.
Listing ==
    \A c \in Challenge :
        /\ c \in listed => /\ phase[c] = "open" /\ c \notin closing
                          /\ mon[c] \in {"tick", "probe", "retain", "unlist"}
        /\ c \in closing \/ mon[c] # "none" => phase[c] # "none"
        /\ mon[c] = "retain" => Completed(c)
        /\ c \in listed /\ mon[c] = "unlist" => Done(c)

\* A step other than the clock's completes a challenge at its age, once.
Completes ==
    /\ age' = age
    /\ \A c \in Challenge :
         /\ completedAt[c] # Nil => completedAt'[c] = completedAt[c] /\ kept'[c] = kept[c]
         /\ completedAt[c] = Nil => completedAt'[c] \in {Nil, age[c]}

LEMMA MarkCompletes ==
    ASSUME LoginInv, NEW c \in Challenge, MarkCompleted(c), age' = age
    PROVE  Completes
  BY NatLimits DEF LoginInv, ViewType, ManagerType, MarkCompleted, Completes

LEMMA ObserveCompletes ==
    ASSUME LoginInv, NEW c \in Challenge, NEW st, ObserveAuthSnapshot(c, st), age' = age
    PROVE  Completes
<1>1. CASE MarkCompleted(c)
  BY <1>1, MarkCompletes
<1>2. CASE UNCHANGED <<completedAt, kept>>
  BY <1>2 DEF Completes
<1> QED
  BY <1>1, <1>2 DEF ObserveAuthSnapshot, ObserveOther

\* What was a reason to leave the list stays one.
LEMMA DoneStays ==
    ASSUME LoginInv, Completes, NEW c \in Challenge
    PROVE  /\ Completed(c) => Completed(c)'
           /\ Done(c) => Done(c)'
<1>1. /\ age[c] \in Nat /\ (completedAt[c] # Nil => completedAt[c] \in Nat)
  BY NatLimits DEF LoginInv, ManagerType, ViewType
<1>2. Completed(c) => Completed(c)'
  BY DEF Completes, Completed
<1>3. CASE completedAt[c] # Nil
  BY <1>1, <1>3 DEF Completes, Completed, Done, Expired
<1>4. CASE completedAt[c] = Nil
  BY <1>1, <1>4 DEF Completes, Completed, Done, Expired
<1> QED
  BY <1>2, <1>3, <1>4

LEMMA ManagerListing ==
    ASSUME LoginInv, Listing, Manager
    PROVE  Listing'
<1>1. ASSUME NEW b \in Challenge, NEW a \in Account, NEW s \in Screens, Begin(b, a, s.state)
      PROVE  Listing'
  <2> DEFINE replaced == {d \in listed : owner[d] = a}
  <2>1. /\ phase[b] = "none" /\ listed' = (listed \ replaced) \cup {b}
        /\ closing' = closing \cup replaced /\ Completes
    BY <1>1, ObserveCompletes DEF Begin
  <2>2. /\ phase'[b] = "open" /\ mon'[b] = "tick"
        /\ \A c \in Challenge \ {b} : phase'[c] = phase[c] /\ mon'[c] = mon[c]
    BY <1>1 DEF Begin, LoginInv, ManagerType
  <2>3. b \notin listed /\ b \notin closing
    BY <2>1 DEF Listing
  <2>4. ASSUME NEW c \in Challenge \ {b}
        PROVE  /\ c \in listed' => /\ phase'[c] = "open" /\ c \notin closing'
                                   /\ mon'[c] \in {"tick", "probe", "retain", "unlist"}
               /\ c \in closing' \/ mon'[c] # "none" => phase'[c] # "none"
               /\ mon'[c] = "retain" => Completed(c)'
               /\ c \in listed' /\ mon'[c] = "unlist" => Done(c)'
    BY <2>1, <2>2, DoneStays DEF Listing
  <2> QED
    BY <2>1, <2>2, <2>3, <2>4 DEF Listing
<1>2. ASSUME NEW b \in Challenge, BeginFails(b) PROVE Listing'
  BY <1>2 DEF BeginFails, LoginInv, ManagerType, Listing, viewVars, Done, Completed, Expired
<1>3. ASSUME NEW b \in Challenge, CloseEntry(b) PROVE Listing'
  BY <1>3 DEF CloseEntry, LoginInv, ManagerType, Listing, viewVars, Done, Completed, Expired
<1>4. CASE CloseAll
  BY <1>4 DEF CloseAll, LoginInv, ManagerType, Listing, viewVars, Done, Completed, Expired
<1> QED
  BY <1>1, <1>2, <1>3, <1>4 DEF Manager

LEMMA TickListing ==
    ASSUME LoginInv, Listing, Tick
    PROVE  Listing'
<1>1. UNCHANGED <<listed, closing, phase, mon, completedAt>>
  BY DEF Tick, managerVars
<1>2. ASSUME NEW c \in Challenge, phase[c] = "open", Done(c)
      PROVE  Done(c)'
  <2>1. /\ age[c] \in 0 .. TTL + 1 /\ kept[c] \in 0 .. Retention
    BY DEF LoginInv, ManagerType, ViewType
  <2>2. CASE Completed(c) /\ kept[c] >= Retention
    BY <1>1, <2>1, <2>2, NatLimits DEF Tick, Done, Completed, AtMost
  <2>3. CASE Expired(c) /\ (Completed(c) => completedAt[c] > TTL)
    BY <1>1, <1>2, <2>1, <2>3, NatLimits DEF Tick, Done, Completed, Expired, AtMost, Served
  <2> QED
    BY <1>2, <2>2, <2>3 DEF Done
<1> QED
  BY <1>1, <1>2 DEF Listing, Completed

LEMMA MonitorListing ==
    ASSUME LoginInv, Listing, NEW c \in Challenge, Monitor(c)
    PROVE  Listing'
<1> USE DEF LoginInv
<1>1. ASSUME UNCHANGED <<listed, closing, phase>>, Completes, NEW l, mon' = [mon EXCEPT ![c] = l],
             mon[c] # "none", l \in {"tick", "probe", "retain", "unlist"},
             l = "retain" => Completed(c)', l = "unlist" /\ c \in listed => Done(c)'
      PROVE  Listing'
  <2>1. /\ mon'[c] = l /\ \A d \in Challenge \ {c} : mon'[d] = mon[d]
    BY <1>1 DEF ManagerType
  <2>2. ASSUME NEW d \in Challenge
        PROVE  /\ d \in listed' => /\ phase'[d] = "open" /\ d \notin closing'
                                   /\ mon'[d] \in {"tick", "probe", "retain", "unlist"}
               /\ d \in closing' \/ mon'[d] # "none" => phase'[d] # "none"
               /\ mon'[d] = "retain" => Completed(d)'
               /\ d \in listed' /\ mon'[d] = "unlist" => Done(d)'
    BY <1>1, <2>1, DoneStays DEF Listing
  <2> QED
    BY <2>2 DEF Listing
<1>2. CASE MonitorTick(c) \/ MonitorProbe(c) \/ MonitorRetain(c)
  <2>1. UNCHANGED <<listed, closing, phase, age>> /\ mon[c] # "none"
    BY <1>2 DEF MonitorTick, MonitorProbe, MonitorRetain, MonUnchanged, managerVars, lifeVars
  <2>2. CASE UNCHANGED viewVars /\ \E l \in {"tick", "probe"} : MonGoto(c, l)
    BY <1>1, <2>1, <2>2 DEF Completes, viewVars, MonGoto
  <2>3. CASE MonitorLeaves(c)
    <3>1. CASE Closed(c) /\ MonGoto(c, "unlist") /\ UNCHANGED viewVars
      <4>1. c \notin listed
        BY <3>1 DEF Listing, Closed
      <4> QED
        BY <1>1, <2>1, <3>1, <4>1 DEF Completes, viewVars, MonGoto
    <3>2. CASE Completed(c) /\ MarkCompleted(c) /\ MonGoto(c, "retain")
      <4>1. Completes /\ Completed(c)'
        BY <2>1, <3>2, MarkCompletes, DoneStays
      <4> QED
        BY <1>1, <2>1, <3>2, <4>1 DEF MonGoto
    <3>3. CASE /\ ~Completed(c) /\ Expired(c) /\ MonGoto(c, "unlist")
               /\ UNCHANGED <<completedAt, kept, cand, obs>>
      <4>1. Done(c)'
        BY <2>1, <3>3 DEF Done, Expired, Completed
      <4>2. Completes
        BY <2>1, <3>3 DEF Completes
      <4> QED
        BY <1>1, <2>1, <3>3, <4>1, <4>2 DEF MonGoto
    <3> QED
      BY <2>3, <3>1, <3>2, <3>3 DEF MonitorLeaves
  <2>4. ASSUME NEW s \in Screens, ObserveAuthSnapshot(c, s.state),
               MonGoto(c, IF completedAt'[c] # Nil THEN "retain" ELSE "tick")
        PROVE  Listing'
    <3>1. Completes
      BY <2>1, <2>4, ObserveCompletes
    <3>2. CASE completedAt'[c] # Nil
      BY <1>1, <2>1, <2>4, <3>1, <3>2 DEF MonGoto, Completed
    <3>3. CASE completedAt'[c] = Nil
      <4>1. mon' = [mon EXCEPT ![c] = "tick"]
        BY <2>4, <3>3 DEF MonGoto
      <4> QED
        BY <1>1, <2>1, <3>1, <4>1
    <3> QED
      BY <3>2, <3>3
  <2>5. CASE MonitorRetain(c)
    <3>1. Completes /\ mon' = [mon EXCEPT ![c] = "unlist"] /\ UNCHANGED viewVars
      BY <2>1, <2>5 DEF MonitorRetain, Completes, viewVars, MonGoto
    <3>2. c \in listed => Done(c)
      BY <2>5 DEF MonitorRetain, Listing, Closed, Done
    <3>3. c \in listed => Done(c)'
      BY <3>1, <3>2, DoneStays
    <3> QED
      BY <1>1, <2>1, <3>1, <3>3
  <2> QED
    BY <1>2, <2>2, <2>3, <2>4, <2>5 DEF MonitorTick, MonitorProbe
<1>3. CASE MonitorUnlist(c)
  BY <1>3 DEF MonitorUnlist, MonGoto, ManagerType, Listing, lifeVars, viewVars, Done, Completed,
              Expired
<1>4. CASE MonitorClose(c)
  BY <1>4 DEF MonitorClose, MonGoto, ManagerType, Listing, viewVars, Done, Completed, Expired
<1> QED
  BY <1>2, <1>3, <1>4 DEF Monitor

LEMMA HandlerListing ==
    ASSUME LoginInv, Listing, NEW h \in Handler, Request(h) \/ Handles(h)
    PROVE  Listing'
<1>1. UNCHANGED <<managerVars, lifeVars, mon>>
  <2>1. CASE Request(h)
    BY <2>1 DEF Request, Page, StateBegin, CodeBegin, ImageBegin, ActBegin, PageUnchanged,
                CodeUnchanged, ActUnchanged
  <2>2. CASE Handles(h)
    BY <2>2, ZenonT(60) DEF Handles, Views, Submits, Performs, StateApply, ImageApply, ImageBind, CodeSubmit,
                CodeLeave, ActReserve, ActDispatch, ActRelease, ActLeave, Deliver, PageUnchanged,
                CodeUnchanged, ActUnchanged
  <2> QED
    BY <2>1, <2>2
<1>2. age' = age
  BY <1>1 DEF lifeVars
<1>4. Completes
  <2>1. ASSUME NEW c \in Challenge, Answered(h, c) PROVE Completes
    BY <1>2, <2>1, MarkCompletes DEF Answered, Completes, viewVars
  <2>2. ASSUME UNCHANGED viewVars PROVE Completes
    BY <1>2, <2>2 DEF Completes, viewVars
  <2>3. CASE Request(h)
    BY <2>1, <2>2, <2>3 DEF Request, Page, StateBegin, StateAnswered, CodeBegin, ImageBegin,
                            ActBegin, CodeUnchanged, ActUnchanged
  <2>4. CASE Views(h)
    <3>1. chal[h] \in Challenge
      BY <2>4 DEF Views, StateApply, ImageApply, ImageBind, LoginInv, Busy
    <3>2. ASSUME NEW s \in Screens, ObserveAuthSnapshot(chal[h], s.state) PROVE Completes
      BY <1>2, <3>1, <3>2, ObserveCompletes
    <3> QED
      BY <2>1, <2>2, <2>4, <3>1, <3>2
         DEF Views, StateApply, ImageApply, ImageBind, Unavailable, StateAnswered
  <2>5. CASE Submits(h) \/ Performs(h) \/ Deliver(h)
    BY <2>2, <2>5 DEF Submits, Performs, CodeSubmit, CodeLeave, ActReserve, ActDispatch, ActRelease,
                      ActLeave, Deliver, CodeUnchanged, ActUnchanged
  <2> QED
    BY <2>3, <2>4, <2>5 DEF Handles
<1> QED
  BY <1>1, <1>4, DoneStays DEF Listing, managerVars, lifeVars

LEMMA NextListing == LoginInv /\ Listing /\ [Next]_vars => Listing'
<1>1. ASSUME LoginInv, Listing, UNCHANGED vars PROVE Listing'
  BY <1>1 DEF vars, managerVars, lifeVars, viewVars, Listing, Done, Completed, Expired
<1> QED
  BY <1>1, ManagerListing, TickListing, MonitorListing, HandlerListing DEF Next

\* A login that succeeded in time leaves the list after its retention, for
\* the account's next challenge, or with the daemon: never because a probe,
\* an expiry or a late request came in between.
THEOREM SuccessStaysVisibleCorrect == Spec => SuccessStaysVisible
<1>1. Init => Listing
  BY DEF Init, Listing
<1>2. ASSUME LoginInv, Listing, [Next]_vars, NEW c \in listed \ listed',
             Completed(c), completedAt[c] <= TTL
      PROVE  \/ kept[c] >= Retention
             \/ daemon' # "up"
             \/ \E d \in listed' \ listed : owner'[d] = owner[c]
  <2>0. c \in Challenge /\ completedAt[c] \in Nat
    BY <1>2, NatLimits DEF LoginInv, ManagerType, ViewType, Completed
  <2>1. ASSUME NEW b \in Challenge, NEW a \in Account, NEW s \in Screens, Begin(b, a, s.state)
        PROVE  \E d \in listed' \ listed : owner'[d] = owner[c]
    <3>1. b \notin listed /\ b \in listed' /\ owner'[b] = a /\ owner[c] = a
      BY <1>2, <2>1 DEF Begin, Listing, LoginInv, ManagerType
    <3> QED
      BY <3>1
  <2>2. CASE CloseAll
    BY <2>2 DEF CloseAll
  <2>3. ASSUME NEW d \in Challenge, MonitorUnlist(d) PROVE kept[c] >= Retention
    <3>1. d = c /\ Done(c)
      BY <1>2, <2>0, <2>3 DEF MonitorUnlist, Listing
    <3> QED
      BY <1>2, <2>0, <3>1, NatLimits DEF Done
  <2>4. CASE UNCHANGED listed
    BY <1>2, <2>4
  <2>5. \/ UNCHANGED listed \/ CloseAll
        \/ \E d \in Challenge : MonitorUnlist(d)
        \/ \E b \in Challenge : \E a \in Account : \E s \in Screens : Begin(b, a, s.state)
    <3>1. ASSUME NEW h \in Handler, Request(h) PROVE UNCHANGED listed
      BY <3>1 DEF Request, Page, StateBegin, CodeBegin, ImageBegin, ActBegin, PageUnchanged,
                  CodeUnchanged, ActUnchanged, managerVars
    <3>2. ASSUME NEW h \in Handler, Handles(h) PROVE UNCHANGED listed
      BY <3>2 DEF Handles, Views, Submits, Performs, StateApply, ImageApply, ImageBind, CodeSubmit,
                  CodeLeave, ActReserve, ActDispatch, ActRelease, ActLeave, Deliver, PageUnchanged,
                  CodeUnchanged, ActUnchanged, managerVars
    <3> QED
      BY <1>2, <3>1, <3>2 DEF Next, Manager, BeginFails, CloseEntry, Tick, Monitor, MonitorTick,
                  MonitorProbe, MonitorRetain, MonitorClose, MonUnchanged, managerVars, vars
  <2> QED
    BY <2>1, <2>2, <2>3, <2>4, <2>5
<1>3. LoginInv /\ Listing /\ [Next]_vars =>
        [\A c \in listed \ listed' :
            Completed(c) /\ completedAt[c] <= TTL =>
                \/ kept[c] >= Retention
                \/ daemon' # "up"
                \/ \E d \in listed' \ listed : owner'[d] = owner[c]]_vars
  BY <1>2
<1> QED
  BY <1>1, <1>3, NextListing, LoginInvariant, PTL DEF Spec, SuccessStaysVisible
=============================================================================
