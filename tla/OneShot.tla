------------------------------ MODULE OneShot ------------------------------
(***************************************************************************)
(* What the drivers promise of every capability they hand out (an action   *)
(* of a snapshot, a click on a message card, the close of a surface, an    *)
(* idempotency key, an operator's approval): it is used at most once,      *)
(* whatever is retried, lost or restarted.                                 *)
(***************************************************************************)
EXTENDS Naturals

CONSTANT Cap

VARIABLE uses   \* the capabilities used so far, with the number of uses

Init == uses = [c \in {} |-> 0]

\* A step may use several capabilities, each for the first time.
Use ==
    /\ DOMAIN uses \subseteq DOMAIN uses' /\ DOMAIN uses' \subseteq Cap
    /\ \A c \in DOMAIN uses' : uses'[c] = 1

Spec == Init /\ [][Use]_uses
=============================================================================
