------------------------------ MODULE SendOnce ------------------------------
(***************************************************************************)
(* What the two-phase send promises, without transactions, staging, locks, *)
(* retries or crashes: for each slot (an account and an idempotency key)   *)
(* at most one send action is ever issued in the official client, only     *)
(* between a durable reservation and a terminal outcome, and the outcome   *)
(* "verified" is recorded only for an action that was issued.              *)
(*                                                                         *)
(* The actions are counted: one more is a step of its own, which only a    *)
(* reservation that was not acted on allows.                               *)
(***************************************************************************)
EXTENDS Naturals

CONSTANT Slot

VARIABLES
    slot,       \* what the slot stands for
    acts        \* the send actions issued for the slot

vars == <<slot, acts>>

\* "free": nothing promised; "reserved": an action may follow; "acted": it
\* was issued; the next three are terminal; "gone": the account was removed.
Stage == {"free", "reserved", "acted", "verified", "uncertain", "gone"}

Init == slot = [s \in Slot |-> "free"] /\ acts = [s \in Slot |-> 0]

Move(s, from, to) == slot[s] \in from /\ slot' = [slot EXCEPT ![s] = to]

Reserve(s)  == Move(s, {"free"}, "reserved") /\ UNCHANGED acts

\* The client refused before any send action.
Withdraw(s) == Move(s, {"reserved"}, "free") /\ UNCHANGED acts

Act(s)      == Move(s, {"reserved"}, "acted") /\ acts' = [acts EXCEPT ![s] = @ + 1]

Settle(s) ==
    /\ \/ Move(s, {"acted"}, "verified")
       \/ Move(s, {"reserved", "acted"}, "uncertain")
    /\ UNCHANGED acts

\* An account is removed with its journal.
Forget(S) ==
    /\ slot' = [s \in Slot |-> IF s \in S THEN "gone" ELSE slot[s]]
    /\ UNCHANGED acts

Next ==
    \/ \E s \in Slot : Reserve(s) \/ Withdraw(s) \/ Act(s) \/ Settle(s)
    \/ \E S \in SUBSET Slot : Forget(S)

Spec == Init /\ [][Next]_vars
=============================================================================
