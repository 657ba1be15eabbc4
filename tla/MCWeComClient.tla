--------------------------- MODULE MCWeComClient ---------------------------
(* WeComClient for TLC: the conversations are interchangeable, and so are  *)
(* the keys, and every property checked is a safety property.              *)
EXTENDS WeComClient, TLC

Symmetry == Permutations(Conv) \cup Permutations(Key)
=============================================================================
