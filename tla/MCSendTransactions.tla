------------------------ MODULE MCSendTransactions ------------------------
(* SendTransactions on small instances.                                    *)
EXTENDS SendTransactions, TLC

Symmetry ==
    Permutations(Account) \cup Permutations(Txn) \cup Permutations(Key)
    \cup Permutations(Content) \cup Permutations(Caller)

\* Nothing depends on an answer once it is given.  The properties compare
\* the outcomes of later states, so only those are told apart.
Outcomes ==
    <<durable, ui, up, running, memo, prep, used, sendMu, pc, txn, key, work, result,
      [c \in Caller |->
          IF reply[c].code \in {"verified", "uncertain"} THEN reply[c] ELSE NoReply]>>
=============================================================================
