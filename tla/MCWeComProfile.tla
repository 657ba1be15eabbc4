--------------------------- MODULE MCWeComProfile ---------------------------
(* WeComProfile for TLC. *)
EXTENDS WeComProfile
=============================================================================
