-------------------------- MODULE MCRuntimeManager --------------------------
(* RuntimeManager on small instances.                                      *)
EXTENDS RuntimeManager, TLC

\* Accounts of one platform, handlers and pool objects are interchangeable.
Symmetry ==
    Permutations(WeChatAccount) \cup Permutations(WeComAccount)
    \cup Permutations(Handler) \cup Permutations(Runtime) \cup Permutations(Chan)

\* Objects that nothing refers to any more are equal, whatever they held.
LiveObjects ==
    <<reg, dir, client, restarts, stray, daemon, restore, opLock, deleteMu, active,
      [r \in Runtime |-> IF FreeRuntime(r) THEN NoRuntime ELSE rt[r]],
      mu,
      [k \in Chan |-> IF FreeChan(k) THEN NoLoop ELSE loop[k]],
      repairs, pc, op, acct, cur>>
=============================================================================
