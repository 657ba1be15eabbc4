--------------------------- MODULE MCWeChatClient ---------------------------
(* WeChatClient on small instances.                                        *)
EXTENDS WeChatClient, TLC

Symmetry == Permutations(SurfaceId) \cup Permutations(Window) \cup Permutations(Ctx)
            \cup Permutations(MachineId) \cup Permutations(Key)
=============================================================================
