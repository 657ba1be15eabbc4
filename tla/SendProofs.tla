----------------------------- MODULE SendProofs -----------------------------
(***************************************************************************)
(* The two-phase send, for any number of accounts, transactions, keys,     *)
(* contents, callers and crashes.                                          *)
(*                                                                         *)
(* The argument: sendMu gives one caller at a time the transaction and the *)
(* row it works on, so between its reservation and its answer nobody else  *)
(* touches either; a row is withdrawn only by the caller that reserved it, *)
(* and only when it knows that no action was issued; and a row that some   *)
(* caller was told about is never written again.                           *)
(***************************************************************************)
EXTENDS SendTransactions, TLAPS

\* The labels at which a caller has a row of its own, at which it keeps a
\* transaction from the reaper, and at which it holds sendMu.
Owning  == {"send", "verify", "finish"}
Holding == {"lookup", "reserve"} \cup Owning
Locked  == {"find"} \cup Holding

Told == {"verified", "uncertain"}

HasRow(a, k) == journal[a][k] # Nil

\* Caller c is between the reservation and the outcome of row a, k.
Owns(c, a, k) == pc[c] \in Owning /\ work[c].account = a /\ key[c] = k

-----------------------------------------------------------------------------
(* The inductive invariant.                                                *)

\* What a caller's own variables hold.
Locals ==
    /\ ~up => (\A c \in Caller : pc[c] = "idle") /\ (\A t \in Txn : prep[t] = Nil)
    /\ \A c \in Caller :
         /\ pc[c] \in Locked => sendMu = c
         /\ pc[c] \in {"idle", "wait", "find"} => work[c] = Nil
         /\ pc[c] \in {"prepare"} \cup Holding => work[c] \in Prepared
         /\ pc[c] # "idle" => txn[c] \in used
         /\ pc[c] \in {"wait"} \cup Locked => key[c] \in Key

\* A transaction that is known is staged, one that is being prepared is known
\* to nobody, and one that is being committed is protected.
Staged ==
    /\ \A t \in Txn : prep[t] # Nil => t \in stage /\ t \in used
    /\ \A c \in Caller : pc[c] = "prepare" =>
         /\ txn[c] \in stage /\ prep[txn[c]] = Nil
         /\ \A a \in Account, k \in Key : HasRow(a, k) => journal[a][k].txn # txn[c]
         /\ \A d \in Caller : reply[d].code \in Told => reply[d].txn # txn[c]
         /\ \A d \in Caller : pc[d] = "prepare" /\ txn[d] = txn[c] => d = c
    /\ \A c \in Caller : pc[c] \in Holding =>
         /\ prep[txn[c]] # Nil /\ prep[txn[c]].committing
         /\ prep[txn[c]].account = work[c].account
         /\ prep[txn[c]].content = work[c].content

\* A row belongs to one transaction, and that transaction has no other.
Rows ==
    /\ \A a \in Account, k \in Key : HasRow(a, k) =>
         LET row == journal[a][k]
         IN  /\ row.txn \in used /\ account[a] # "gone"
             /\ row.state = "in_flight" => row.outcome = "uncertain"
             /\ row.outcome = "verified" => ui[a][k] = 1
             /\ prep[row.txn] # Nil =>
                   prep[row.txn].account = a /\ prep[row.txn].content = row.content
    /\ \A a, b \in Account, k, l \in Key :
         HasRow(a, k) /\ HasRow(b, l) /\ journal[a][k].txn = journal[b][l].txn => a = b /\ k = l

\* An action is issued once and leaves its row, as does what a driver remembers.
Spent ==
    /\ \A a \in Account : account[a] # "live" => a \notin running
    /\ \A a \in Account, k \in Key :
         /\ ui[a][k] <= 1
         /\ ui[a][k] # 0 /\ account[a] # "gone" => HasRow(a, k)
         /\ memo[a][k] # Nil => HasRow(a, k) /\ a \in running

\* What a caller relies on until it answers.
Owners ==
    \A c \in Caller :
        LET a == work[c].account
            k == key[c]
        IN  /\ pc[c] \in {"reserve"} \cup Owning => account[a] = "live"
            /\ pc[c] \in Owning =>
                 /\ HasRow(a, k) /\ journal[a][k].txn = txn[c]
                 /\ journal[a][k].content = work[c].content
                 /\ journal[a][k].state = "in_flight"
            /\ pc[c] = "verify" => a \in running
            /\ pc[c] = "send" \/ (pc[c] = "finish" /\ result[c] = "error") =>
                 ui[a][k] = 0 /\ memo[a][k] = Nil
            /\ pc[c] = "finish" => result[c] # "none"
            /\ pc[c] = "finish" /\ result[c] = "verified" => ui[a][k] = 1

\* The row that a caller was told about says so, and stays as it is.
Settled(a, k, o) ==
    \/ account[a] = "gone"
    \/ HasRow(a, k) /\ journal[a][k].outcome = o /\ \A e \in Caller : ~Owns(e, a, k)

Agreement ==
    /\ CallersAgree
    /\ \A c \in Caller : reply[c].code \in Told =>
         LET t == reply[c].txn
             k == reply[c].key
         IN  /\ t \in used /\ k \in Key
             /\ prep[t] # Nil => Settled(prep[t].account, k, reply[c].code)
             /\ \A a \in Account :
                  HasRow(a, k) /\ journal[a][k].txn = t => journal[a][k].outcome = reply[c].code

SendInv == TypeOK /\ Locals /\ Staged /\ Rows /\ Spent /\ Owners /\ Agreement

USE NilIsNothing, NilIsNoRecord, MaxCrashesIsNatural

-----------------------------------------------------------------------------
(* Steps that touch neither the journal nor the client.                    *)

LEMMA InitSends == Init => SendInv
<1> SUFFICES ASSUME Init PROVE SendInv
  OBVIOUS
<1> USE DEF Init, NoRow, NoReply
<1>1. TypeOK
  BY DEF TypeOK, Code, Label
<1>2. Locals
  BY DEF Locals, Locked, Holding, Owning
<1>3. Staged
  BY DEF Staged, Holding, Owning
<1>4. Rows
  BY DEF Rows, HasRow
<1>5. Spent
  BY DEF Spent, HasRow
<1>6. Owners
  BY DEF Owners, Owning
<1>7. Agreement
  BY DEF Agreement, CallersAgree, Told
<1> QED
  BY <1>1, <1>2, <1>3, <1>4, <1>5, <1>6, <1>7 DEF SendInv

\* What callers were told stays true in a step that tells nobody anything, keeps
\* what prepared transactions are for, and neither rewrites a row nor unsettles one.
LEMMA AgreementStays ==
    ASSUME Agreement, journal' = journal, used \subseteq used',
           \A c \in Caller : reply'[c].code \in Told => reply'[c] = reply[c],
           \A c \in Caller : reply[c].code \in Told /\ prep'[reply[c].txn] # Nil =>
               /\ prep[reply[c].txn] # Nil
               /\ prep'[reply[c].txn].account = prep[reply[c].txn].account,
           \A a, k, o : Settled(a, k, o) => Settled(a, k, o)'
    PROVE  Agreement'
<1>1. CallersAgree'
  BY DEF Agreement, CallersAgree, Told
<1>2. ASSUME NEW c \in Caller, reply[c].code \in Told
      PROVE  LET t == reply[c].txn
             IN  /\ t \in used' /\ reply[c].key \in Key
                 /\ \A b, l, o : /\ prep'[t] # Nil /\ b = prep'[t].account
                                 /\ l = reply[c].key /\ o = reply[c].code
                                 => Settled(b, l, o)'
                 /\ \A a \in Account :
                      HasRow(a, reply[c].key) /\ journal[a][reply[c].key].txn = t
                          => journal[a][reply[c].key].outcome = reply[c].code
  BY <1>2 DEF Agreement
<1>3. ASSUME NEW c \in Caller, reply'[c].code \in Told
      PROVE  (LET t == reply[c].txn
                  k == reply[c].key
              IN  /\ t \in used /\ k \in Key
                  /\ prep[t] # Nil => Settled(prep[t].account, k, reply[c].code)
                  /\ \A a \in Account :
                       HasRow(a, k) /\ journal[a][k].txn = t => journal[a][k].outcome = reply[c].code)'
  <2>1. reply'[c] = reply[c] /\ journal' = journal /\ reply[c].code \in Told
    BY <1>3
  <2> QED
    BY <1>2, <2>1 DEF HasRow, Settled, Owns
<1> QED
  BY <1>1, <1>3 DEF Agreement

LEMMA PrepareStageKeeps ==
    ASSUME SendInv, NEW c \in Caller, NEW t \in Txn, NEW a \in Account, NEW h \in Content,
           PrepareStage(c, t, a, h)
    PROVE  SendInv'
<1> USE DEF SendInv, PrepareStage
<1>1. TypeOK'
  BY DEF TypeOK, Label, Prepared
<1>2. Locals'
  BY DEF TypeOK, Locals, Locked, Holding, Owning, Prepared
<1>3. Staged'
  BY DEF TypeOK, Locals, Staged, Rows, Agreement, HasRow, Locked, Holding, Owning, Prepared
<1>4. Rows'
  BY DEF TypeOK, Rows, HasRow
<1>5. Spent'
  BY DEF TypeOK, Spent, HasRow
<1>6. Owners'
  <2>1. TypeOK /\ Owners
    OBVIOUS
  <2> HIDE DEF SendInv
  <2> QED
    BY <2>1, Z3 DEF TypeOK, Owners, Owning, HasRow
<1>7. Agreement'
  <2>1. \A b, l, o : Settled(b, l, o) => Settled(b, l, o)'
    BY DEF Settled, Owns, Owning, Locked, Holding, HasRow
  <2>2. /\ Agreement /\ journal' = journal /\ used \subseteq used'
        /\ \A d \in Caller : reply'[d].code \in Told => reply'[d] = reply[d]
    BY DEF TypeOK, Told
  <2>3. \A d \in Caller : reply[d].code \in Told /\ prep'[reply[d].txn] # Nil =>
           /\ prep[reply[d].txn] # Nil
           /\ prep'[reply[d].txn].account = prep[reply[d].txn].account
    BY DEF TypeOK, Locals, Staged, Agreement
  <2> HIDE DEF SendInv
  <2> QED
    BY <2>1, <2>2, <2>3, AgreementStays
<1> QED
  BY <1>1, <1>2, <1>3, <1>4, <1>5, <1>6, <1>7

LEMMA PrepareInsertKeeps ==
    ASSUME SendInv, NEW c \in Caller, PrepareInsert(c)
    PROVE  SendInv'
<1> USE DEF SendInv, PrepareInsert, durable
<1>1. TypeOK'
  BY DEF TypeOK, Label, Locals
<1>2. Locals'
  BY DEF TypeOK, Locals, Locked, Holding, Owning
<1>3. Staged'
  BY DEF TypeOK, Locals, Staged, HasRow, Locked, Holding, Owning
<1>4. Rows'
  BY DEF TypeOK, Locals, Staged, Rows, HasRow
<1>5. Spent'
  BY DEF TypeOK, Spent, HasRow
<1>6. Owners'
  <2>1. TypeOK /\ Owners
    OBVIOUS
  <2> HIDE DEF SendInv
  <2> QED
    BY <2>1, Z3 DEF TypeOK, Owners, Owning, HasRow
<1>7. Agreement'
  <2>1. \A b, l, o : Settled(b, l, o) => Settled(b, l, o)'
    BY DEF Settled, Owns, Owning, Locked, Holding, HasRow
  <2>2. /\ Agreement /\ journal' = journal /\ used \subseteq used'
        /\ \A d \in Caller : reply'[d].code \in Told => reply'[d] = reply[d]
    BY DEF TypeOK, Told
  <2>3. \A d \in Caller : reply[d].code \in Told /\ prep'[reply[d].txn] # Nil =>
           /\ prep[reply[d].txn] # Nil
           /\ prep'[reply[d].txn].account = prep[reply[d].txn].account
    BY DEF TypeOK, Locals, Staged, Agreement
  <2> HIDE DEF SendInv
  <2> QED
    BY <2>1, <2>2, <2>3, AgreementStays
<1> QED
  BY <1>1, <1>2, <1>3, <1>4, <1>5, <1>6, <1>7

\* A directory that nobody knows any more, removed or not, is nobody's loss.
LEMMA PrepareFailsKeeps ==
    ASSUME SendInv, NEW c \in Caller, PrepareFails(c)
    PROVE  SendInv'
<1> USE DEF SendInv, PrepareFails
<1>0. /\ txn[c] \in Txn /\ prep[txn[c]] = Nil /\ stage' \in SUBSET Txn
      /\ \A t \in Txn : t # txn[c] /\ t \in stage => t \in stage'
  BY DEF TypeOK, Locals, Staged
<1>1. TypeOK'
  BY <1>0 DEF TypeOK, Label
<1>2. Locals'
  BY DEF TypeOK, Locals, Locked, Holding, Owning
<1>3. Staged'
  BY <1>0 DEF TypeOK, Locals, Staged, HasRow, Locked, Holding, Owning
<1>4. Rows'
  BY DEF TypeOK, Rows, HasRow
<1>5. Spent'
  BY DEF TypeOK, Spent, HasRow
<1>6. Owners'
  <2>1. TypeOK /\ Owners
    OBVIOUS
  <2> HIDE DEF SendInv
  <2> QED
    BY <2>1, Z3 DEF TypeOK, Owners, Owning, HasRow
<1>7. Agreement'
  <2>1. \A b, l, o : Settled(b, l, o) => Settled(b, l, o)'
    BY DEF Settled, Owns, Owning, Locked, Holding, HasRow
  <2>2. /\ Agreement /\ journal' = journal /\ used \subseteq used'
        /\ \A d \in Caller : reply'[d].code \in Told => reply'[d] = reply[d]
    BY DEF TypeOK, Told
  <2>3. \A d \in Caller : reply[d].code \in Told /\ prep'[reply[d].txn] # Nil =>
           /\ prep[reply[d].txn] # Nil
           /\ prep'[reply[d].txn].account = prep[reply[d].txn].account
    BY DEF TypeOK, Locals, Staged, Agreement
  <2> HIDE DEF SendInv
  <2> QED
    BY <2>1, <2>2, <2>3, AgreementStays
<1> QED
  BY <1>1, <1>2, <1>3, <1>4, <1>5, <1>6, <1>7

\* Changing the flags of a prepared transaction changes nothing else of it.
SameButFlags(q, p) ==
    q \in Prepared /\ q # Nil /\ q.account = p.account /\ q.content = p.content

LEMMA Flagged ==
    ASSUME NEW p \in Prepared, NEW b \in BOOLEAN, NEW e \in BOOLEAN
    PROVE  /\ LET q == [p EXCEPT !.committing = b, !.expired = e] IN SameButFlags(q, p)
           /\ LET q == [p EXCEPT !.committing = b] IN SameButFlags(q, p) /\ q.committing = b
           /\ LET q == [p EXCEPT !.expired = e]
              IN  SameButFlags(q, p) /\ q.committing = p.committing
  BY DEF Prepared, SameButFlags

LEMMA ExpireKeeps ==
    ASSUME SendInv, NEW t \in Txn, Expire(t)
    PROVE  SendInv'
<1> USE DEF SendInv, Expire, durable
<1>0. /\ prep' \in [Txn -> Prepared \cup {Nil}]
      /\ \A u \in Txn : u # t => prep'[u] = prep[u]
      /\ prep'[t].committing = prep[t].committing /\ SameButFlags(prep'[t], prep[t])
  <2> DEFINE q == [prep[t] EXCEPT !.expired = TRUE]
  <2>1. prep[t] \in Prepared /\ prep' = [prep EXCEPT ![t] = q]
    BY DEF TypeOK
  <2>2. SameButFlags(q, prep[t]) /\ q.committing = prep[t].committing
    BY <2>1, Flagged, ZenonT(60)
  <2>3. q \in Prepared
    BY <2>2 DEF SameButFlags
  <2> HIDE DEF q
  <2>4. prep \in [Txn -> Prepared \cup {Nil}]
    BY DEF TypeOK
  <2> QED
    BY <2>1, <2>2, <2>3, <2>4
<1>1. TypeOK'
  BY <1>0 DEF TypeOK
<1>2. Locals'
  BY <1>0 DEF SameButFlags, TypeOK, Locals
<1>3. Staged'
  BY <1>0 DEF SameButFlags, TypeOK, Locals, Staged, HasRow, Holding, Owning
<1>4. Rows'
  BY <1>0 DEF SameButFlags, TypeOK, Rows, HasRow
<1>5. Spent'
  BY DEF TypeOK, Spent, HasRow
<1>6. Owners'
  BY Z3 DEF TypeOK, Owners, HasRow
<1>7. Agreement'
  <2>1. \A b, l, o : Settled(b, l, o) => Settled(b, l, o)'
    BY <1>0 DEF Settled, Owns, Owning, Locked, Holding, HasRow
  <2>2. /\ Agreement /\ journal' = journal /\ used \subseteq used'
        /\ \A d \in Caller : reply'[d].code \in Told => reply'[d] = reply[d]
    BY <1>0 DEF TypeOK, Told
  <2>3. \A d \in Caller : reply[d].code \in Told /\ prep'[reply[d].txn] # Nil =>
           /\ prep[reply[d].txn] # Nil
           /\ prep'[reply[d].txn].account = prep[reply[d].txn].account
    BY <1>0 DEF TypeOK, Locals, Staged, Agreement, SameButFlags
  <2> HIDE DEF SendInv
  <2> QED
    BY <2>1, <2>2, <2>3, AgreementStays
<1> QED
  BY <1>1, <1>2, <1>3, <1>4, <1>5, <1>6, <1>7

LEMMA PruneKeeps ==
    ASSUME SendInv, NEW t \in Txn, Prune(t)
    PROVE  SendInv'
<1> USE DEF SendInv, Prune, Prunable
<1>1. TypeOK'
  BY DEF TypeOK
<1>2. Locals'
  BY DEF TypeOK, Locals
<1>3. Staged'
  BY DEF TypeOK, Locals, Staged, HasRow, Prepared
<1>4. Rows'
  BY DEF TypeOK, Rows, HasRow
<1>5. Spent'
  BY DEF TypeOK, Spent, HasRow
<1>6. Owners'
  BY Z3 DEF TypeOK, Owners, HasRow
<1>7. Agreement'
  <2>1. \A b, l, o : Settled(b, l, o) => Settled(b, l, o)'
    BY DEF Settled, Owns, Owning, Locked, Holding, HasRow
  <2>2. /\ Agreement /\ journal' = journal /\ used \subseteq used'
        /\ \A d \in Caller : reply'[d].code \in Told => reply'[d] = reply[d]
    BY DEF TypeOK, Told
  <2>3. \A d \in Caller : reply[d].code \in Told /\ prep'[reply[d].txn] # Nil =>
           /\ prep[reply[d].txn] # Nil
           /\ prep'[reply[d].txn].account = prep[reply[d].txn].account
    BY DEF TypeOK, Locals, Staged, Agreement, SameButFlags
  <2> HIDE DEF SendInv
  <2> QED
    BY <2>1, <2>2, <2>3, AgreementStays
<1> QED
  BY <1>1, <1>2, <1>3, <1>4, <1>5, <1>6, <1>7

LEMMA CommitBeginKeeps ==
    ASSUME SendInv, NEW c \in Caller, NEW t \in Txn, NEW k \in Key, CommitBegin(c, t, k)
    PROVE  SendInv'
<1> USE DEF SendInv, CommitBegin, durable, NoReply
<1>1. TypeOK'
  BY DEF TypeOK, Label, Code
<1>2. Locals'
  BY DEF TypeOK, Locals, Locked, Holding, Owning
<1>3. Staged'
  BY DEF TypeOK, Locals, Staged, HasRow, Holding, Owning, Told
<1>4. Rows'
  BY DEF TypeOK, Rows, HasRow
<1>5. Spent'
  BY DEF TypeOK, Spent, HasRow
<1>6. Owners'
  <2>1. TypeOK /\ Owners
    OBVIOUS
  <2> HIDE DEF SendInv
  <2> QED
    BY <2>1, Z3 DEF TypeOK, Owners, Owning, HasRow
<1>7. Agreement'
  <2>1. \A b, l, o : Settled(b, l, o) => Settled(b, l, o)'
    BY DEF Settled, Owns, Owning, Locked, Holding, HasRow
  <2>2. /\ Agreement /\ journal' = journal /\ used \subseteq used'
        /\ \A d \in Caller : reply'[d].code \in Told => reply'[d] = reply[d]
    BY DEF TypeOK, Told
  <2>3. \A d \in Caller : reply[d].code \in Told /\ prep'[reply[d].txn] # Nil =>
           /\ prep[reply[d].txn] # Nil
           /\ prep'[reply[d].txn].account = prep[reply[d].txn].account
    BY DEF TypeOK, Locals, Staged, Agreement, SameButFlags
  <2> HIDE DEF SendInv
  <2> QED
    BY <2>1, <2>2, <2>3, AgreementStays
<1> QED
  BY <1>1, <1>2, <1>3, <1>4, <1>5, <1>6, <1>7

\* A step on transaction t: it may be dropped with its directory, or have its
\* flags changed, and no other transaction is touched.
Loosened(t) ==
    /\ prep' \in [Txn -> Prepared \cup {Nil}] /\ stage' \in SUBSET Txn
    /\ \A u \in Txn : u # t => prep'[u] = prep[u] /\ (u \in stage' <=> u \in stage)
    /\ prep[t] = Nil => prep'[t] = Nil /\ (t \in stage' <=> t \in stage)
    /\ prep'[t] # Nil => SameButFlags(prep'[t], prep[t]) /\ (t \in stage' <=> t \in stage)

LEMMA DroppingLoosens ==
    ASSUME TypeOK, NEW t \in Txn,
           \/ prep[t] # Nil /\ prep' = [prep EXCEPT ![t] = Nil] /\ stage' = stage \ {t}
           \/ UNCHANGED <<prep, stage>>
    PROVE  Loosened(t)
  BY DEF TypeOK, Loosened, SameButFlags

LEMMA FlaggingLoosens ==
    ASSUME TypeOK, NEW t \in Txn, NEW q, SameButFlags(q, prep[t]), prep[t] # Nil,
           prep' = [prep EXCEPT ![t] = q], stage' = stage
    PROVE  Loosened(t) /\ prep'[t] = q
<1>1. q \in Prepared
  BY DEF SameButFlags
<1> QED
  BY <1>1 DEF TypeOK, Loosened

LEMMA ReleaseLoosens ==
    ASSUME TypeOK, NEW t \in Txn, NEW spent \in BOOLEAN, Release(t, spent)
    PROVE  Loosened(t)
<1>1. CASE prep[t] = Nil
  BY <1>1, DroppingLoosens DEF Release
<1>2. CASE prep[t] # Nil /\ prep' = [prep EXCEPT ![t] = Nil] /\ stage' = stage \ {t}
  BY <1>2, DroppingLoosens
<1>3. CASE /\ prep[t] # Nil /\ stage' = stage
           /\ prep' = [prep EXCEPT ![t].committing = FALSE,
                                   ![t].expired = spent \/ prep[t].expired]
  <2> DEFINE e == spent \/ prep[t].expired
             q == [prep[t] EXCEPT !.committing = FALSE, !.expired = e]
  <2>1. prep[t] \in Prepared /\ e \in BOOLEAN
    BY <1>3 DEF TypeOK, Prepared
  <2>2. prep' = [prep EXCEPT ![t] = q]
    BY <1>3 DEF TypeOK
  <2>3. SameButFlags(q, prep[t])
    BY <2>1, Flagged, ZenonT(60)
  <2> QED
    BY <1>3, <2>2, <2>3, FlaggingLoosens
<1> QED
  BY <1>1, <1>2, <1>3 DEF Release

LEMMA CommitLockKeeps ==
    ASSUME SendInv, NEW c \in Caller, CommitLock(c)
    PROVE  SendInv'
<1> DEFINE t == txn[c]
<1> USE DEF SendInv
<1>0. /\ t \in Txn /\ key[c] \in Key /\ t \in used /\ up
      /\ \A d \in Caller : pc[d] \notin Locked
  BY DEF CommitLock, TypeOK, Locals
<1>1. /\ sendMu' = c /\ pc[c] = "wait" /\ work[c] = Nil
      /\ UNCHANGED <<journal, account, crashes, orphans, ui, up, running, memo, used, txn, key, result, reply>>
  BY DEF CommitLock, TypeOK, Locals
<1>2. CASE /\ prep[t] # Nil /\ ~prep[t].expired
           /\ prep' = [prep EXCEPT ![t].committing = TRUE]
           /\ work' = [work EXCEPT ![c] = prep[t]]
           /\ pc' = [pc EXCEPT ![c] = "lookup"] /\ stage' = stage
  <2> DEFINE q == [prep[t] EXCEPT !.committing = TRUE]
  <2>1. prep[t] \in Prepared /\ prep' = [prep EXCEPT ![t] = q]
    BY <1>0, <1>2 DEF TypeOK
  <2>2. SameButFlags(q, prep[t]) /\ q.committing
    BY <2>1, Flagged, ZenonT(60)
  <2> HIDE DEF q
  <2>3. Loosened(t) /\ prep'[t] = q
    BY <1>0, <1>2, <2>1, <2>2, FlaggingLoosens
  <2>4. \A d \in Caller : pc'[d] = IF d = c THEN "lookup" ELSE pc[d]
    BY <1>2 DEF TypeOK
  <2>5. work'[c] = prep[t] /\ \A d \in Caller : d # c => work'[d] = work[d]
    BY <1>2 DEF TypeOK
  <2>6. TypeOK'
    BY <1>0, <1>1, <1>2, <2>1, <2>3 DEF TypeOK, Label, Loosened
  <2> QED
    <3> USE <1>0, <1>1, <2>1, <2>2, <2>3, <2>4, <2>5 DEF Loosened, SameButFlags
    <3>1. Locals'
      BY DEF TypeOK, Locals, Locked, Holding, Owning
    <3>2. Staged'
      BY <1>2 DEF TypeOK, Locals, Staged, HasRow, Locked, Holding, Owning
    <3>3. Rows'
      BY DEF TypeOK, Rows, HasRow
    <3>4. Spent'
      BY DEF TypeOK, Spent, HasRow
    <3>5. Owners'
      BY Z3 DEF Owners, Owning, HasRow
    <3>6. Agreement'
      <4>1. \A b, l, o : Settled(b, l, o) => Settled(b, l, o)'
        BY DEF Settled, Owns, Owning, Locked, Holding, HasRow
      <4>2. /\ Agreement /\ journal' = journal /\ used \subseteq used'
            /\ \A d \in Caller : reply'[d].code \in Told => reply'[d] = reply[d]
        BY DEF TypeOK, Told
      <4>3. \A d \in Caller : reply[d].code \in Told /\ prep'[reply[d].txn] # Nil =>
               /\ prep[reply[d].txn] # Nil
               /\ prep'[reply[d].txn].account = prep[reply[d].txn].account
        BY DEF TypeOK, Locals, Staged, Agreement
      <4> HIDE DEF SendInv
      <4> QED
        BY <4>1, <4>2, <4>3, AgreementStays
    <3> QED
      BY <2>6, <3>1, <3>2, <3>3, <3>4, <3>5, <3>6
<1>3. CASE /\ pc' = [pc EXCEPT ![c] = "find"] /\ work' = work
           /\ \/ prep[t] # Nil /\ prep' = [prep EXCEPT ![t] = Nil] /\ stage' = stage \ {t}
              \/ UNCHANGED <<prep, stage>>
  <2>1. Loosened(t)
    BY <1>0, <1>3, DroppingLoosens
  <2>2. \A d \in Caller : pc'[d] = IF d = c THEN "find" ELSE pc[d]
    BY <1>3 DEF TypeOK
  <2>3. TypeOK'
    BY <1>0, <1>1, <1>3, <2>1 DEF TypeOK, Label, Loosened
  <2> QED
    <3> USE <1>0, <1>1, <2>1, <2>2 DEF Loosened, SameButFlags
    <3>1. Locals'
      BY <1>3 DEF TypeOK, Locals, Locked, Holding, Owning
    <3>2. Staged'
      BY DEF TypeOK, Locals, Staged, HasRow, Locked, Holding, Owning
    <3>3. Rows'
      <4>1. \A u \in Txn : prep'[u] # Nil =>
               /\ prep[u] # Nil
               /\ prep'[u].account = prep[u].account /\ prep'[u].content = prep[u].content
        OBVIOUS
      <4>2. \A a \in Account, k \in Key : journal[a][k] # Nil => journal[a][k].txn \in Txn
        BY DEF TypeOK, Row
      <4>3. Rows /\ UNCHANGED <<journal, account, ui, used>>
        OBVIOUS
      <4> HIDE DEF SendInv
      <4> QED
        BY <4>1, <4>2, <4>3 DEF Rows, HasRow
    <3>4. Spent'
      BY DEF TypeOK, Spent, HasRow
    <3>5. Owners'
      BY <1>3, Z3 DEF Owners, Owning, HasRow
    <3>6. Agreement'
      <4>1. \A b, l, o : Settled(b, l, o) => Settled(b, l, o)'
        BY <1>3 DEF Settled, Owns, Owning, Locked, Holding, HasRow
      <4>2. /\ Agreement /\ journal' = journal /\ used \subseteq used'
            /\ \A d \in Caller : reply'[d].code \in Told => reply'[d] = reply[d]
        BY <1>3 DEF TypeOK, Told
      <4>3. \A d \in Caller : reply[d].code \in Told /\ prep'[reply[d].txn] # Nil =>
               /\ prep[reply[d].txn] # Nil
               /\ prep'[reply[d].txn].account = prep[reply[d].txn].account
        BY <1>3 DEF TypeOK, Locals, Staged, Agreement, SameButFlags
      <4> HIDE DEF SendInv
      <4> QED
        BY <4>1, <4>2, <4>3, AgreementStays
    <3> QED
      BY <2>3, <3>1, <3>2, <3>3, <3>4, <3>5, <3>6
<1> QED
  BY <1>0, <1>2, <1>3 DEF CommitLock

-----------------------------------------------------------------------------
(* Steps that answer a caller.                                             *)

\* What an answering step may do to the journal: only to the caller's own
\* row, which it withdraws if nothing was done for it, or gives an outcome.
Resolved(c) ==
    /\ journal' \in [Account -> [Key -> Row \cup {Nil}]]
    /\ \A a \in Account, k \in Key :
         /\ ~Owns(c, a, k) => journal'[a][k] = journal[a][k]
         /\ Owns(c, a, k) /\ journal'[a][k] = Nil => ui[a][k] = 0 /\ memo[a][k] = Nil
         /\ Owns(c, a, k) /\ journal'[a][k] # Nil =>
              /\ journal'[a][k].txn = journal[a][k].txn
              /\ journal'[a][k].content = journal[a][k].content
              /\ journal'[a][k].state = "in_flight" => journal'[a][k].outcome = "uncertain"
              /\ journal'[a][k].outcome = "verified" => ui[a][k] = 1

\* The row that a caller is told about.
Witnessed(c, code) ==
    \E a \in Account :
        /\ account[a] # "gone" /\ journal'[a][key[c]] # Nil
        /\ journal'[a][key[c]].outcome = code
        /\ \/ journal'[a][key[c]].txn = txn[c]
           \/ prep[txn[c]] # Nil /\ prep[txn[c]].account = a

\* A caller's own row is the one of its transaction, and nobody was told
\* about it yet.
LEMMA OwnRowIsUntold ==
    ASSUME SendInv, NEW c \in Caller, NEW a \in Account, NEW k \in Key, Owns(c, a, k)
    PROVE  /\ HasRow(a, k) /\ journal[a][k].txn = txn[c] /\ txn[c] \in Txn
           /\ prep[txn[c]] # Nil /\ prep[txn[c]].account = a /\ account[a] = "live"
           /\ \A d \in Caller : ~(reply[d].code \in Told /\ reply[d].txn = txn[c] /\ reply[d].key = k)
<1>1. HasRow(a, k) /\ journal[a][k].txn = txn[c] /\ account[a] = "live"
  BY DEF SendInv, Owners, Owns
<1>2. prep[txn[c]] # Nil /\ prep[txn[c]].account = a
  BY DEF SendInv, Staged, Owns, Holding
<1>3. txn[c] \in Txn
  BY DEF SendInv, TypeOK, Locals, Owns, Owning
<1>4. ASSUME NEW d \in Caller, reply[d].code \in Told, reply[d].txn = txn[c], reply[d].key = k
      PROVE  FALSE
  <2>1. Settled(a, k, reply[d].code)
    BY <1>2, <1>4 DEF SendInv, Agreement
  <2> QED
    BY <1>1, <2>1 DEF Settled
<1> QED
  BY <1>1, <1>2, <1>3, <1>4

LEMMA AnswerKeeps ==
    ASSUME SendInv, NEW c \in Caller, NEW code \in Code, pc[c] \in Locked,
           Answer(c, code), Loosened(txn[c]), Resolved(c),
           code \in Told => Witnessed(c, code),
           UNCHANGED <<account, crashes, orphans, ui, up, running, memo, used>>
    PROVE  SendInv'
<1> DEFINE t == txn[c]
<1> USE DEF SendInv
<1>0. t \in used /\ t \in Txn /\ key[c] \in Key /\ up /\ sendMu = c
  BY DEF TypeOK, Locals, Locked, Holding, Owning
<1>1. \A d \in Caller : d # c => pc[d] \notin Locked
  BY <1>0 DEF Locals
<1>2. /\ \A d \in Caller : d # c =>
           /\ pc'[d] = pc[d] /\ txn'[d] = txn[d] /\ key'[d] = key[d] /\ work'[d] = work[d]
           /\ result'[d] = result[d] /\ reply'[d] = reply[d]
      /\ pc'[c] = "idle" /\ work'[c] = Nil
      /\ reply'[c].code = code /\ reply'[c].txn = t /\ reply'[c].key = key[c]
  BY DEF Answer, TypeOK
<1>3. \A d \in Caller : pc'[d] \notin Locked
  BY <1>1, <1>2 DEF Locked, Holding, Owning
<1>4. \A u \in Txn : prep'[u] # Nil => /\ prep[u] # Nil
                                     /\ prep'[u].account = prep[u].account
                                     /\ prep'[u].content = prep[u].content
                                     /\ prep[u].account \in Account
                                     /\ u \in stage'
  BY <1>0 DEF Loosened, SameButFlags, TypeOK, Staged, Prepared
<1>5. \A a \in Account, k \in Key : journal'[a][k] # Nil =>
         /\ journal[a][k] # Nil
         /\ journal'[a][k].txn = journal[a][k].txn
         /\ journal'[a][k].content = journal[a][k].content
         /\ journal[a][k].txn \in Txn
  <2>1. \A a \in Account, k \in Key : Owns(c, a, k) => journal[a][k] # Nil
    BY OwnRowIsUntold DEF HasRow
  <2> QED
    BY <2>1 DEF Resolved, TypeOK, Row
<1>6. TypeOK'
  <2>1. reply' \in [Caller -> [code : Code, txn : Txn \cup {Nil}, key : Key \cup {Nil}]]
    BY <1>0 DEF Answer, TypeOK
  <2> QED
    BY <2>1 DEF TypeOK, Answer, Loosened, Resolved, Label
<1>7. Locals'
  BY <1>0, <1>2, <1>3, Z3 DEF TypeOK, Locals, Locked, Holding
<1>8. Staged'
  <2>1. \A u \in Txn : prep'[u] # Nil => u \in stage' /\ u \in used'
    BY <1>4 DEF Staged
  <2>2. ASSUME NEW d \in Caller, pc'[d] = "prepare"
        PROVE  /\ txn'[d] \in stage' /\ prep'[txn'[d]] = Nil
               /\ \A a \in Account, k \in Key : HasRow(a, k)' => journal'[a][k].txn # txn'[d]
               /\ \A e \in Caller : reply'[e].code \in Told => reply'[e].txn # txn'[d]
               /\ \A e \in Caller : pc'[e] = "prepare" /\ txn'[e] = txn'[d] => e = d
    <3>1. d # c /\ pc[d] = "prepare" /\ txn'[d] = txn[d] /\ txn[d] \in Txn
      BY <1>2, <2>2 DEF Locals, TypeOK
    <3>2. txn[d] \in stage' /\ prep'[txn[d]] = Nil
      BY <1>0, <3>1 DEF Loosened, Staged
    <3>3. \A a \in Account, k \in Key : journal'[a][k] # Nil => journal'[a][k].txn # txn[d]
      BY <1>5, <3>1 DEF Staged, HasRow
    <3>4. code \in Told => t # txn[d]
      BY <1>0, <3>1, <3>3 DEF Witnessed, Staged
    <3> QED
      BY <1>2, <3>1, <3>2, <3>3, <3>4 DEF Staged, HasRow
  <2> QED
    BY <1>3, <2>1, <2>2 DEF Staged, Locked
<1>9. Rows'
  <2>1. ASSUME NEW a \in Account, NEW k \in Key, HasRow(a, k)'
        PROVE  /\ journal'[a][k].txn \in used' /\ account'[a] # "gone"
               /\ journal'[a][k].state = "in_flight" => journal'[a][k].outcome = "uncertain"
               /\ journal'[a][k].outcome = "verified" => ui'[a][k] = 1
    BY <1>5, <2>1 DEF Rows, HasRow, Resolved
  <2>2. ASSUME NEW a \in Account, NEW k \in Key, HasRow(a, k)', prep'[journal'[a][k].txn] # Nil
        PROVE  /\ prep'[journal'[a][k].txn].account = a
               /\ prep'[journal'[a][k].txn].content = journal'[a][k].content
    BY <1>4, <1>5, <2>2 DEF Rows, HasRow
  <2>3. \A a, b \in Account, k, l \in Key :
          HasRow(a, k)' /\ HasRow(b, l)' /\ journal'[a][k].txn = journal'[b][l].txn => a = b /\ k = l
    BY <1>5 DEF Rows, HasRow
  <2> QED
    BY <2>1, <2>2, <2>3 DEF Rows
<1>10. Spent'
  BY DEF Spent, HasRow, Resolved
<1>11. Owners'
  BY <1>3 DEF Owners, Locked, Holding, Owning
<1>12. Agreement'
  <2>0. \A e \in Caller, a \in Account, k \in Key : ~Owns(e, a, k)'
    BY <1>3 DEF Owns, Locked, Holding
  <2>1. ASSUME NEW d \in Caller, d # c, reply[d].code \in Told, NEW k \in Key, k = reply[d].key,
               NEW a \in Account, HasRow(a, k)', journal'[a][k].txn = reply[d].txn
        PROVE  journal'[a][k].outcome = reply[d].code
    <3>1. HasRow(a, k) /\ journal[a][k].txn = reply[d].txn
      BY <1>5, <2>1 DEF HasRow
    <3>2. ~Owns(c, a, k)
      BY <2>1, <3>1, OwnRowIsUntold
    <3>3. journal'[a][k] = journal[a][k]
      BY <3>2 DEF Resolved
    <3> QED
      BY <2>1, <3>1, <3>3 DEF Agreement
  <2>2. ASSUME NEW a \in Account, NEW k \in Key, NEW o, Settled(a, k, o)
        PROVE  Settled(a, k, o)'
    BY <2>0, <2>2 DEF Settled, Resolved, HasRow
  <2>3. ASSUME code \in Told, NEW k \in Key, k = key[c]
        PROVE  /\ \A b \in Account : HasRow(b, k)' /\ journal'[b][k].txn = t =>
                       journal'[b][k].outcome = code
               /\ \A b \in Account : prep[t] # Nil /\ b = prep[t].account => Settled(b, k, code)'
    <3>1. PICK a \in Account :
              /\ account[a] # "gone" /\ journal'[a][k] # Nil
              /\ journal'[a][k].outcome = code
              /\ \/ journal'[a][k].txn = t
                 \/ prep[t] # Nil /\ prep[t].account = a
      BY <2>3 DEF Witnessed
    <3>2. prep[t] # Nil => prep[t].account = a
      BY <1>0, <1>5, <3>1 DEF Rows, HasRow
    <3>3. \A b \in Account : journal'[b][k] # Nil /\ journal'[b][k].txn = t => b = a
      BY <1>0, <1>5, <3>1 DEF Rows, HasRow
    <3> QED
      BY <2>0, <3>1, <3>2, <3>3 DEF Settled, HasRow
  <2>4. ASSUME NEW d \in Caller, d # c, reply[d].code \in Told, code \in Told,
               reply[d].txn = t, reply[d].key = key[c]
        PROVE  reply[d].code = code
    <3>1. PICK a \in Account :
              /\ account[a] # "gone" /\ journal'[a][key[c]] # Nil
              /\ journal'[a][key[c]].outcome = code
              /\ \/ journal'[a][key[c]].txn = t
                 \/ prep[t] # Nil /\ prep[t].account = a
      BY <2>4 DEF Witnessed
    <3>2. CASE journal'[a][key[c]].txn = t
      BY <1>0, <2>1, <2>4, <3>1, <3>2 DEF HasRow
    <3>3. CASE prep[t] # Nil /\ prep[t].account = a
      <4>1. Settled(a, key[c], reply[d].code)
        BY <2>4, <3>3 DEF Agreement
      <4>2. journal'[a][key[c]] = journal[a][key[c]] /\ journal[a][key[c]].outcome = reply[d].code
        BY <1>0, <3>1, <4>1 DEF Settled, Resolved
      <4> QED
        BY <3>1, <4>2
    <3> QED
      BY <3>1, <3>2, <3>3
  <2>5. CallersAgree'
    BY <1>2, <2>4 DEF CallersAgree, Agreement, Told
  <2>6. ASSUME NEW d \in Caller, reply'[d].code \in Told
        PROVE  /\ reply'[d].txn \in used' /\ reply'[d].key \in Key
               /\ prep'[reply'[d].txn] # Nil =>
                    Settled(prep[reply[d].txn].account, reply[d].key, reply[d].code)'
               /\ \A a \in Account :
                    HasRow(a, reply[d].key)' /\ journal'[a][reply'[d].key].txn = reply'[d].txn =>
                        journal'[a][reply'[d].key].outcome = reply'[d].code
    <3>1. CASE d = c
      <4>1. PICK k \in Key : k = key[c]
        BY <1>0
      <4>2. reply'[d].code = code /\ reply'[d].txn = t /\ reply'[d].key = k
        BY <1>2, <3>1, <4>1
      <4>3. prep'[t] # Nil => \E b \in Account : b = prep'[t].account /\ Settled(b, k, code)'
        BY <1>0, <1>4, <2>3, <2>6, <4>1, <4>2
      <4> QED
        BY <1>0, <2>3, <2>6, <4>1, <4>2, <4>3 DEF Settled, HasRow, Owns
    <3>2. CASE d # c
      <4>1. reply'[d] = reply[d] /\ reply[d].code \in Told /\ reply[d].txn \in used
        BY <1>2, <2>6, <3>2 DEF Agreement
      <4>2. PICK k \in Key : k = reply[d].key
        BY <4>1 DEF Agreement
      <4>3. PICK o \in Code, u \in Txn : o = reply[d].code /\ u = reply[d].txn
        BY <4>1 DEF Agreement, TypeOK
      <4>4. prep'[u] # Nil => \E b \in Account : b = prep'[u].account /\ Settled(b, k, o)'
        <5>1. prep'[u] # Nil => Settled(prep[u].account, k, o)
          BY <1>4, <4>1, <4>2, <4>3 DEF Agreement
        <5> QED
          BY <1>4, <2>2, <5>1
      <4> QED
        BY <2>1, <3>2, <4>1, <4>2, <4>3, <4>4 DEF Settled, HasRow, Owns
    <3> QED
      BY <3>1, <3>2
  <2> QED
    BY <2>5, <2>6 DEF Agreement
<1> QED
  BY <1>6, <1>7, <1>8, <1>9, <1>10, <1>11, <1>12

\* A step that answers a caller without a row of its own.
LEMMA UntouchedIsResolved ==
    ASSUME SendInv, NEW c \in Caller, pc[c] \notin Owning, journal' = journal
    PROVE  Resolved(c)
  BY DEF SendInv, TypeOK, Resolved, Owns

LEMMA FindCommittedKeeps ==
    ASSUME SendInv, NEW c \in Caller, FindCommitted(c)
    PROVE  SendInv'
<1> DEFINE t == txn[c]
<1>1. pc[c] = "find" /\ UNCHANGED <<durable, ui, up, running, memo, prep, used>>
  BY DEF FindCommitted
<1>2. t \in Txn /\ key[c] \in Key
  BY <1>1 DEF SendInv, TypeOK, Locals, Locked
<1>3. Loosened(t)
  BY <1>1, <1>2, DroppingLoosens DEF SendInv, durable
<1>4. Resolved(c)
  BY <1>1, UntouchedIsResolved DEF Owning, durable
<1>5. ASSUME NEW code \in Code, Answer(c, code), code \in Told => Witnessed(c, code)
      PROVE  SendInv'
  BY <1>1, <1>3, <1>4, <1>5, AnswerKeeps DEF Locked, durable
<1>6. CASE Answer(c, "deleting")
  BY <1>5, <1>6 DEF Code, Told
<1>7. CASE Answer(c, "missing")
  BY <1>5, <1>7 DEF Code, Told
<1>8. CASE Answer(c, "unavailable")
  BY <1>5, <1>8 DEF Code, Told
<1>9. ASSUME NEW a \in Account, account[a] = "live", NEW k \in RowsOf(a, t),
             Answer(c, IF k = key[c] THEN journal[a][k].outcome ELSE "conflict")
      PROVE  SendInv'
  <2>1. CASE k = key[c]
    <3>1. journal[a][k] # Nil /\ journal[a][k].txn = t /\ journal[a][k].outcome \in Told
      BY <1>2, <1>9 DEF SendInv, TypeOK, RowsOf, Row, Told
    <3>2. Witnessed(c, journal[a][k].outcome)
      BY <1>1, <1>9, <2>1, <3>1 DEF Witnessed, durable
    <3> QED
      BY <1>5, <1>9, <2>1, <3>1, <3>2 DEF Told, Code
  <2>2. CASE k # key[c]
    BY <1>5, <1>9, <2>2 DEF Code, Told
  <2> QED
    BY <2>1, <2>2
<1> QED
  BY <1>6, <1>7, <1>8, <1>9 DEF FindCommitted

LEMMA LookupKeeps ==
    ASSUME SendInv, NEW c \in Caller, Lookup(c)
    PROVE  SendInv'
<1> DEFINE t == txn[c]
           k == key[c]
           a == work[c].account
           row == journal[a][k]
           rows == RowsOf(a, t)
<1>1. pc[c] = "lookup" /\ UNCHANGED <<journal, account, crashes, orphans, ui, up, running, memo, used>>
  BY DEF Lookup
<1>2. /\ t \in Txn /\ k \in Key /\ work[c] \in Prepared /\ a \in Account
      /\ prep[t] # Nil /\ prep[t].account = a
      /\ account[a] \in {"live", "deleting", "gone"} /\ row \in Row \cup {Nil}
  BY <1>1 DEF SendInv, TypeOK, Locals, Locked, Holding, Staged, Prepared
<1>3. Resolved(c)
  BY <1>1, UntouchedIsResolved DEF Owning
<1>4. ASSUME NEW code \in Code, NEW spent \in BOOLEAN, Answer(c, code), Release(t, spent),
             code \in Told => Witnessed(c, code)
      PROVE  SendInv'
  <2>1. Loosened(t)
    BY <1>2, <1>4, ReleaseLoosens DEF SendInv
  <2> QED
    BY <1>1, <1>3, <1>4, <2>1, AnswerKeeps DEF Locked, Holding
<1>5. ASSUME NEW code \in Code \ Told, NEW spent \in BOOLEAN, Answer(c, code), Release(t, spent)
      PROVE  SendInv'
  BY <1>4, <1>5
<1>6. ASSUME row # Nil, account[a] = "live", NEW spent \in BOOLEAN,
             Answer(c, row.outcome), Release(t, spent)
      PROVE  SendInv'
  <2>1. row.outcome \in Told
    BY <1>2, <1>6 DEF Row, Told
  <2>2. Witnessed(c, row.outcome)
    BY <1>1, <1>2, <1>6 DEF Witnessed
  <2> QED
    BY <1>4, <1>6, <2>1, <2>2 DEF Told, Code
<1>7. CASE /\ account[a] # "live"
           /\ Answer(c, IF account[a] = "gone" THEN "missing" ELSE "deleting")
           /\ Release(t, FALSE)
  BY <1>5, <1>7 DEF Code, Told
<1>8. CASE /\ account[a] = "live" /\ rows # {}
           /\ Answer(c, IF k \in rows THEN row.outcome ELSE "conflict")
           /\ Release(t, TRUE)
  <2>1. CASE k \in rows
    <3>1. row # Nil /\ Answer(c, row.outcome) /\ account[a] = "live" /\ Release(t, TRUE)
      BY <1>8, <2>1 DEF RowsOf
    <3> QED
      BY <1>6, <3>1
  <2>2. CASE k \notin rows
    BY <1>5, <1>8, <2>2 DEF Code, Told
  <2> QED
    BY <2>1, <2>2
<1>9. CASE /\ account[a] = "live" /\ row # Nil
           /\ Answer(c, IF SameRequest(row, work[c]) THEN row.outcome ELSE "conflict")
           /\ Release(t, SameRequest(row, work[c]))
  <2>0. SameRequest(row, work[c]) \in BOOLEAN
    BY DEF SameRequest
  <2>1. CASE SameRequest(row, work[c])
    BY <1>6, <1>9, <2>0, <2>1
  <2>2. CASE ~SameRequest(row, work[c])
    BY <1>5, <1>9, <2>0, <2>2 DEF Code, Told
  <2> QED
    BY <2>1, <2>2
<1>10. CASE Answer(c, "inactive") /\ Release(t, FALSE)
  BY <1>5, <1>10 DEF Code, Told
<1>11. CASE Answer(c, "unavailable") /\ Release(t, FALSE)
  BY <1>5, <1>11 DEF Code, Told
<1>12. CASE /\ account[a] = "live" /\ pc' = [pc EXCEPT ![c] = "reserve"]
            /\ UNCHANGED <<prep, stage, txn, key, work, result, reply, sendMu>>
  <2> USE <1>1, <1>12 DEF SendInv
  <2>0. \A d \in Caller : pc'[d] = IF d = c THEN "reserve" ELSE pc[d]
    BY DEF TypeOK
  <2> USE <2>0
  <2>1. TypeOK'
    BY DEF TypeOK, Label
  <2>2. Locals'
    BY DEF Locals, Locked, Holding, Owning
  <2>3. Staged'
    BY DEF Staged, HasRow, Holding, Owning
  <2>4. Rows'
    BY DEF Rows, HasRow
  <2>5. Spent'
    BY DEF Spent, HasRow
  <2>6. Owners'
    BY Z3 DEF Owners, Owning, HasRow
  <2>7. Agreement'
    <3>1. \A b, l, o : Settled(b, l, o) => Settled(b, l, o)'
      BY DEF Settled, Owns, Owning, Locked, Holding, HasRow
    <3>2. /\ Agreement /\ journal' = journal /\ used \subseteq used'
          /\ \A d \in Caller : reply'[d].code \in Told => reply'[d] = reply[d]
      BY DEF TypeOK, Told
    <3>3. \A d \in Caller : reply[d].code \in Told /\ prep'[reply[d].txn] # Nil =>
             /\ prep[reply[d].txn] # Nil
             /\ prep'[reply[d].txn].account = prep[reply[d].txn].account
      BY DEF TypeOK, Locals, Staged, Agreement, SameButFlags
    <3> HIDE DEF SendInv
    <3> QED
      BY <3>1, <3>2, <3>3, AgreementStays
  <2> QED
    BY <2>1, <2>2, <2>3, <2>4, <2>5, <2>6, <2>7
<1> QED
  BY <1>7, <1>8, <1>9, <1>10, <1>11, <1>12 DEF Lookup

-----------------------------------------------------------------------------
(* The reservation, the driver's Send, and what becomes of the row.        *)

\* A row for a transaction that had none keeps the rows right.
LEMMA FreshRow ==
    ASSUME Rows, NEW a \in Account, NEW k \in Key, NEW new, NEW t,
           new # Nil, journal'[a][k] = new,
           \A b \in Account, l \in Key : b # a \/ l # k => journal'[b][l] = journal[b][l],
           \A b \in Account, l \in Key : HasRow(b, l) => journal[b][l].txn # t,
           t \in used, account[a] = "live",
           prep[t] # Nil => prep[t].account = a /\ prep[t].content = new.content,
           new.txn = t, new.state = "in_flight", new.outcome = "uncertain",
           UNCHANGED <<account, used, ui, prep>>
    PROVE  Rows'
<1>1. ASSUME NEW b \in Account, NEW l \in Key, HasRow(b, l)'
      PROVE  \/ b = a /\ l = k /\ journal'[b][l] = new
             \/ HasRow(b, l) /\ journal'[b][l] = journal[b][l]
  BY <1>1 DEF HasRow
<1>2. ASSUME NEW b \in Account, NEW l \in Key, HasRow(b, l)'
      PROVE  LET row == journal'[b][l]
             IN  /\ row.txn \in used /\ account[b] # "gone"
                 /\ row.state = "in_flight" => row.outcome = "uncertain"
                 /\ row.outcome = "verified" => ui[b][l] = 1
                 /\ prep[row.txn] # Nil =>
                       prep[row.txn].account = b /\ prep[row.txn].content = row.content
  <2>1. CASE b = a /\ l = k /\ journal'[b][l] = new
    BY <2>1
  <2>2. CASE HasRow(b, l) /\ journal'[b][l] = journal[b][l]
    BY <2>2 DEF Rows
  <2> QED
    BY <1>1, <1>2, <2>1, <2>2
<1>3. ASSUME NEW b \in Account, NEW d \in Account, NEW l \in Key, NEW m \in Key,
             HasRow(b, l)', HasRow(d, m)', journal'[b][l].txn = journal'[d][m].txn
      PROVE  b = d /\ l = m
  <2>1. \/ b = a /\ l = k /\ journal'[b][l] = new
        \/ HasRow(b, l) /\ journal'[b][l] = journal[b][l]
    BY <1>1, <1>3
  <2>2. \/ d = a /\ m = k /\ journal'[d][m] = new
        \/ HasRow(d, m) /\ journal'[d][m] = journal[d][m]
    BY <1>1, <1>3
  <2> QED
    BY <2>1, <2>2, <1>3 DEF Rows
<1> QED
  BY <1>2, <1>3 DEF Rows

LEMMA ReserveKeeps ==
    ASSUME SendInv, NEW c \in Caller, Reserve(c)
    PROVE  SendInv'
<1> DEFINE t == txn[c]
           k == key[c]
           a == work[c].account
           new == [txn |-> t, content |-> work[c].content,
                   state |-> "in_flight", outcome |-> "uncertain"]
<1>1. pc[c] = "reserve" /\ UNCHANGED <<account, crashes, orphans, ui, up, running, memo, used>>
  BY DEF Reserve
<1>2. /\ t \in Txn /\ t \in used /\ k \in Key /\ work[c] \in Prepared /\ a \in Account
      /\ work[c].content \in Content
      /\ prep[t] # Nil /\ prep[t].account = a /\ prep[t].content = work[c].content
      /\ account[a] = "live" /\ sendMu = c /\ up
  BY <1>1 DEF SendInv, TypeOK, Locals, Locked, Holding, Staged, Prepared, Owners
<1>3. CASE Answer(c, "unreserved") /\ Release(t, FALSE) /\ UNCHANGED journal
  <2>1. Loosened(t)
    BY <1>2, <1>3, ReleaseLoosens DEF SendInv
  <2>2. Resolved(c)
    BY <1>1, <1>3, UntouchedIsResolved DEF Owning
  <2> QED
    BY <1>1, <1>3, <2>1, <2>2, AnswerKeeps DEF Locked, Holding, Code, Told
<1>4. CASE /\ journal[a][k] = Nil /\ RowsOf(a, t) = {}
           /\ journal' = [journal EXCEPT ![a][k] = new]
           /\ pc' = [pc EXCEPT ![c] = "send"]
           /\ UNCHANGED <<prep, stage, txn, key, work, result, reply, sendMu>>
  <2> USE <1>1, <1>2, <1>4 DEF SendInv
  <2>0. new \in Row /\ new # Nil
    BY DEF Row
  <2>1. /\ journal' \in [Account -> [Key -> Row \cup {Nil}]]
        /\ journal'[a][k] = new
        /\ \A b \in Account, l \in Key : b # a \/ l # k => journal'[b][l] = journal[b][l]
    BY <2>0 DEF TypeOK
  <2>2. new.txn = t /\ new.content = work[c].content /\ new.state = "in_flight" /\ new.outcome = "uncertain"
    OBVIOUS
  <2> HIDE DEF new
  <2>3. \A d \in Caller : pc'[d] = IF d = c THEN "send" ELSE pc[d]
    BY DEF TypeOK
  <2>4. \A b \in Account, l \in Key : HasRow(b, l) => journal[b][l].txn # t
    BY DEF Rows, HasRow, RowsOf
  <2>5. \A d \in Caller : d # c => pc[d] \notin Locked
    BY Z3 DEF Locals
  <2>6. \A d \in Caller : ~(reply[d].code \in Told /\ reply[d].txn = t /\ reply[d].key = k)
    BY DEF Agreement, Settled, HasRow
  <2>7. TypeOK'
    BY <2>1 DEF TypeOK, Label
  <2>8. Locals'
    BY <2>3 DEF Locals, Locked, Holding, Owning
  <2>9. Staged'
    BY <2>0, <2>1, <2>2, <2>3, Z3 DEF Staged, HasRow, Holding, Owning
  <2>10. Rows'
    <3>1. Rows /\ UNCHANGED <<account, used, ui, prep>>
      OBVIOUS
    <3>2. /\ a \in Account /\ k \in Key /\ t \in used /\ account[a] = "live"
          /\ prep[t] # Nil => prep[t].account = a /\ prep[t].content = work[c].content
      OBVIOUS
    <3> HIDE <1>1, <1>2, <1>4 DEF SendInv, t, k, a
    <3> QED
      BY <2>0, <2>1, <2>2, <2>4, <3>1, <3>2, FreshRow
  <2>11. Spent'
    BY <2>0, <2>1, Z3 DEF Spent, HasRow
  <2>12. Owners'
    <3>1. ui[a][k] = 0 /\ memo[a][k] = Nil
      BY DEF Spent, HasRow
    <3> QED
      BY <2>0, <2>1, <2>2, <2>3, <2>5, <3>1, Z3 DEF Owners, Owning, Locked, Holding, HasRow
  <2>13. Agreement'
    <3>1. ASSUME NEW b \in Account, NEW l \in Key, NEW o, Settled(b, l, o)
          PROVE  Settled(b, l, o)'
      <4> HIDE <1>2 DEF SendInv
      <4> QED
        BY <2>1, <2>3, <3>1, Z3 DEF Settled, HasRow, Owns
    <3>2. ASSUME NEW d \in Caller, reply[d].code \in Told, prep[reply[d].txn] # Nil
          PROVE  Settled(prep[reply[d].txn].account, reply[d].key, reply[d].code)'
      <4>1. PICK b \in Account, l \in Key, o \in Code :
                b = prep[reply[d].txn].account /\ l = reply[d].key /\ o = reply[d].code
        BY <3>2 DEF Agreement, TypeOK, Prepared
      <4>2. Settled(b, l, o)'
        BY <3>1, <3>2, <4>1 DEF Agreement
      <4> QED
        BY <4>1, <4>2, ZenonT(60) DEF Settled, HasRow, Owns
    <3> QED
      BY <2>0, <2>1, <2>2, <2>6, <3>2 DEF Agreement, CallersAgree, HasRow
  <2> QED
    BY <2>7, <2>8, <2>9, <2>10, <2>11, <2>12, <2>13
<1> QED
  BY <1>3, <1>4 DEF Reserve

\* A caller in the driver's Send or past it, and the row it owns.
LEMMA OwnersKnow ==
    ASSUME SendInv, NEW c \in Caller, pc[c] \in Owning
    PROVE  /\ txn[c] \in Txn /\ key[c] \in Key /\ work[c] \in Prepared
           /\ work[c].account \in Account /\ work[c].content \in Content
           /\ journal[work[c].account][key[c]] \in Row
           /\ journal[work[c].account][key[c]] # Nil
           /\ journal[work[c].account][key[c]].txn = txn[c]
           /\ journal[work[c].account][key[c]].content = work[c].content
           /\ journal[work[c].account][key[c]].state = "in_flight"
           /\ journal[work[c].account][key[c]].outcome = "uncertain"
           /\ account[work[c].account] = "live"
           /\ \A d \in Caller : d # c => pc[d] \notin Locked
<1>1. /\ txn[c] \in Txn /\ key[c] \in Key /\ work[c] \in Prepared
      /\ work[c].account \in Account /\ work[c].content \in Content
      /\ \A d \in Caller : d # c => pc[d] \notin Locked
  BY DEF SendInv, TypeOK, Locals, Locked, Holding, Owning, Prepared
<1> QED
  BY <1>1 DEF SendInv, TypeOK, Owners, HasRow, Rows

LEMMA SendRefusedKeeps ==
    ASSUME SendInv, NEW c \in Caller, SendRefused(c)
    PROVE  SendInv'
<1> USE DEF SendInv, durable
<1>1. /\ pc[c] = "send" /\ memo[work[c].account][key[c]] = Nil /\ ui[work[c].account][key[c]] = 0
      /\ UNCHANGED <<durable, ui, up, running, memo, prep, used, sendMu, txn, key, work, reply>>
  BY DEF SendRefused, Owners
<1>2. /\ \A d \in Caller : pc'[d] = IF d = c THEN "finish" ELSE pc[d]
      /\ \A d \in Caller : result'[d] = IF d = c THEN "error" ELSE result[d]
      /\ pc' \in [Caller -> Label]
      /\ result' \in [Caller -> {"none", "verified", "uncertain", "error"}]
  BY <1>1 DEF SendRefused, TypeOK, Label
<1> USE <1>1, <1>2
<1>3. TypeOK'
  BY DEF TypeOK
<1>4. Locals'
  BY DEF Locals, Locked, Holding, Owning
<1>5. Staged'
  BY DEF Staged, HasRow, Holding, Owning
<1>6. Rows' /\ Spent'
  BY DEF Rows, Spent, HasRow
<1>7. Owners'
  BY Z3 DEF Owners, Owning, HasRow
<1>8. Agreement'
  <2>1. \A b, l, o : Settled(b, l, o) => Settled(b, l, o)'
    BY DEF Settled, Owns, Owning, Locked, Holding, HasRow
  <2>2. /\ Agreement /\ journal' = journal /\ used \subseteq used'
        /\ \A d \in Caller : reply'[d].code \in Told => reply'[d] = reply[d]
    BY DEF TypeOK, Told
  <2>3. \A d \in Caller : reply[d].code \in Told /\ prep'[reply[d].txn] # Nil =>
           /\ prep[reply[d].txn] # Nil
           /\ prep'[reply[d].txn].account = prep[reply[d].txn].account
    BY DEF TypeOK, Locals, Staged, Agreement, SameButFlags
  <2> HIDE DEF SendInv
  <2> QED
    BY <2>1, <2>2, <2>3, AgreementStays
<1> QED
  BY <1>3, <1>4, <1>5, <1>6, <1>7, <1>8

LEMMA SendActsKeeps ==
    ASSUME SendInv, NEW c \in Caller, SendActs(c)
    PROVE  SendInv'
<1> DEFINE a == work[c].account
           k == key[c]
<1> USE DEF SendInv, durable
<1>1. /\ pc[c] = "send" /\ ui[a][k] = 0
      /\ UNCHANGED <<durable, up, running, memo, prep, used, sendMu, txn, key, work, result, reply>>
  BY DEF SendActs, Owners
<1>2. /\ a \in Account /\ k \in Key /\ journal[a][k] # Nil /\ journal[a][k].outcome = "uncertain"
      /\ \A d \in Caller : d # c => pc[d] \notin Locked
  BY <1>1, OwnersKnow DEF Owning
<1>3. /\ ui' \in [Account -> [Key -> Nat]]
      /\ \A b \in Account, l \in Key : b # a \/ l # k => ui'[b][l] = ui[b][l]
      /\ ui'[a][k] \in {0, 1} /\ a \in running
  <2>1. ui \in [Account -> [Key -> Nat]] /\ a \in running
    BY DEF TypeOK, SendActs
  <2>2. CASE ui' = [ui EXCEPT ![a][k] = @ + 1]
    <3>1. ui' = [ui EXCEPT ![a] = [ui[a] EXCEPT ![k] = 1]]
      BY <1>1, <1>2, <2>1, <2>2
    <3> QED
      BY <1>2, <2>1, <3>1
  <2>3. CASE UNCHANGED ui
    BY <1>1, <1>2, <2>1, <2>3
  <2> QED
    BY <2>2, <2>3 DEF SendActs
<1>4. /\ \A d \in Caller : pc'[d] = IF d = c THEN "verify" ELSE pc[d]
      /\ pc' \in [Caller -> Label]
  BY <1>1 DEF SendActs, TypeOK, Label
<1> USE <1>1, <1>2, <1>4
<1>5. TypeOK'
  BY <1>3 DEF TypeOK
<1>6. Locals'
  BY DEF Locals, Locked, Holding, Owning
<1>7. Staged'
  BY DEF Staged, HasRow, Holding, Owning
<1>8. Rows'
  <2>1. \A b \in Account, l \in Key : HasRow(b, l) =>
           (journal[b][l].outcome = "verified" => ui'[b][l] = 1)
    BY <1>3 DEF Rows
  <2> QED
    BY <2>1 DEF Rows, HasRow
<1>9. Spent'
  BY <1>3 DEF Spent, HasRow
<1>10. Owners'
  BY <1>3, Z3 DEF Owners, Owning, Locked, Holding, HasRow
<1>11. Agreement'
  <2>1. \A b, l, o : Settled(b, l, o) => Settled(b, l, o)'
    BY DEF Settled, Owns, Owning, Locked, Holding, HasRow
  <2>2. /\ Agreement /\ journal' = journal /\ used \subseteq used'
        /\ \A d \in Caller : reply'[d].code \in Told => reply'[d] = reply[d]
    BY DEF TypeOK, Told
  <2>3. \A d \in Caller : reply[d].code \in Told /\ prep'[reply[d].txn] # Nil =>
           /\ prep[reply[d].txn] # Nil
           /\ prep'[reply[d].txn].account = prep[reply[d].txn].account
    BY DEF TypeOK, Locals, Staged, Agreement, SameButFlags
  <2> HIDE DEF SendInv
  <2> QED
    BY <2>1, <2>2, <2>3, AgreementStays
<1> QED
  BY <1>5, <1>6, <1>7, <1>8, <1>9, <1>10, <1>11

LEMMA SendVerifiesKeeps ==
    ASSUME SendInv, NEW c \in Caller, SendVerifies(c)
    PROVE  SendInv'
<1> DEFINE a == work[c].account
           k == key[c]
<1> USE DEF SendInv, durable
<1>1. /\ pc[c] = "verify"
      /\ UNCHANGED <<durable, ui, up, running, prep, used, sendMu, txn, key, work, reply>>
  BY DEF SendVerifies
<1>2. PICK o \in {"uncertain", "verified"} :
          /\ o = "verified" => ui[a][k] > 0
          /\ result' = [result EXCEPT ![c] = o]
          /\ memo' = [memo EXCEPT ![a][k] = [content |-> work[c].content, outcome |-> o]]
  BY DEF SendVerifies
<1> DEFINE m == [content |-> work[c].content, outcome |-> o]
<1>3. /\ a \in Account /\ k \in Key /\ work[c].content \in Content /\ HasRow(a, k)
      /\ \A d \in Caller : d # c => pc[d] \notin Locked
  BY <1>1, OwnersKnow DEF Owning, HasRow
<1>4. m \in Memo
  BY <1>3 DEF Memo
<1> HIDE DEF m
<1>5. /\ memo' \in [Account -> [Key -> Memo \cup {Nil}]]
      /\ \A b \in Account, l \in Key : b # a \/ l # k => memo'[b][l] = memo[b][l]
  <2>1. memo' = [memo EXCEPT ![a][k] = m]
    BY <1>2 DEF m
  <2> QED
    BY <1>3, <1>4, <2>1 DEF TypeOK
<1>6. ui[a][k] > 0 => ui[a][k] = 1
  BY <1>3 DEF Spent, TypeOK
<1>7. /\ \A d \in Caller : pc'[d] = IF d = c THEN "finish" ELSE pc[d]
      /\ \A d \in Caller : result'[d] = IF d = c THEN o ELSE result[d]
      /\ pc' \in [Caller -> Label]
      /\ result' \in [Caller -> {"none", "verified", "uncertain", "error"}]
  BY <1>1, <1>2 DEF SendVerifies, TypeOK, Label
<1> USE <1>1, <1>3, <1>7
<1>8. TypeOK'
  BY <1>5 DEF TypeOK
<1>9. Locals'
  BY DEF Locals, Locked, Holding, Owning
<1>10. Staged'
  BY DEF Staged, HasRow, Holding, Owning
<1>11. Rows'
  BY DEF Rows, HasRow
<1>12. Spent'
  BY <1>5, Z3 DEF Spent, Owners, HasRow
<1>13. Owners'
  BY <1>2, <1>6, Z3 DEF Owners, Owning, Locked, Holding, HasRow
<1>14. Agreement'
  <2>1. \A b, l, w : Settled(b, l, w) => Settled(b, l, w)'
    BY DEF Settled, Owns, Owning, Locked, Holding, HasRow
  <2>2. /\ Agreement /\ journal' = journal /\ used \subseteq used'
        /\ \A d \in Caller : reply'[d].code \in Told => reply'[d] = reply[d]
    BY DEF TypeOK, Told
  <2>3. \A d \in Caller : reply[d].code \in Told /\ prep'[reply[d].txn] # Nil =>
           /\ prep[reply[d].txn] # Nil
           /\ prep'[reply[d].txn].account = prep[reply[d].txn].account
    BY DEF TypeOK, Locals, Staged, Agreement, SameButFlags
  <2> HIDE DEF SendInv
  <2> QED
    BY <2>1, <2>2, <2>3, AgreementStays
<1> QED
  BY <1>8, <1>9, <1>10, <1>11, <1>12, <1>13, <1>14

LEMMA WithdrawKeeps ==
    ASSUME SendInv, NEW c \in Caller, Withdraw(c)
    PROVE  SendInv'
<1> DEFINE t == txn[c]
           k == key[c]
           a == work[c].account
<1>1. /\ pc[c] = "finish" /\ result[c] = "error"
      /\ UNCHANGED <<account, crashes, orphans, ui, up, running, memo, used>>
  BY DEF Withdraw
<1>2. /\ t \in Txn /\ a \in Account /\ k \in Key
      /\ journal[a][k] # Nil /\ journal[a][k].txn = t /\ journal[a][k].state = "in_flight"
      /\ journal[a][k].outcome = "uncertain" /\ account[a] = "live"
  BY <1>1, OwnersKnow DEF Owning
<1>3. ui[a][k] = 0 /\ memo[a][k] = Nil
  BY <1>1 DEF SendInv, Owners
<1>4. CASE /\ journal' = [journal EXCEPT ![a][k] = Nil]
           /\ Answer(c, "rejected") /\ Release(t, FALSE)
  <2>1. Loosened(t)
    BY <1>2, <1>4, ReleaseLoosens DEF SendInv
  <2>2. Resolved(c)
    BY <1>1, <1>2, <1>3, <1>4 DEF SendInv, TypeOK, Resolved, Owns, Owning
  <2> QED
    BY <1>1, <1>4, <2>1, <2>2, AnswerKeeps DEF Locked, Holding, Owning, Code, Told
<1>5. CASE /\ Answer(c, "uncertain") /\ Release(t, TRUE)
           /\ UNCHANGED journal
  <2>1. Loosened(t)
    BY <1>2, <1>5, ReleaseLoosens DEF SendInv
  <2>2. Resolved(c)
    BY <1>1, <1>2, <1>3, <1>5 DEF SendInv, TypeOK, Resolved, Owns, Owning
  <2>3. Witnessed(c, "uncertain")
    BY <1>2, <1>5 DEF Witnessed
  <2> QED
    BY <1>1, <1>5, <2>1, <2>2, <2>3, AnswerKeeps DEF Locked, Holding, Owning, Code
<1> QED
  BY <1>4, <1>5 DEF Withdraw

\* The journal that FinalizeSend leaves.
Finalized(a, k, o) ==
    [journal EXCEPT ![a][k].state = "terminal", ![a][k].outcome = o]

LEMMA FinalizeWrites ==
    ASSUME TypeOK, NEW a \in Account, NEW k \in Key, NEW o \in Told, journal[a][k] \in Row,
           journal' = Finalized(a, k, o)
    PROVE  /\ journal' \in [Account -> [Key -> Row \cup {Nil}]]
           /\ \A b \in Account, l \in Key : b # a \/ l # k => journal'[b][l] = journal[b][l]
           /\ journal'[a][k] # Nil
           /\ journal'[a][k].txn = journal[a][k].txn
           /\ journal'[a][k].content = journal[a][k].content
           /\ journal'[a][k].state = "terminal" /\ journal'[a][k].outcome = o
<1> DEFINE r1 == [journal[a][k] EXCEPT !.state = "terminal"]
           j1 == [journal EXCEPT ![a][k] = r1]
           row == [journal[a][k] EXCEPT !.state = "terminal", !.outcome = o]
<1>1. Finalized(a, k, o) = [j1 EXCEPT ![a][k] = [j1[a][k] EXCEPT !.outcome = o]]
  BY DEF Finalized
<1>2. journal \in [Account -> [Key -> Row \cup {Nil}]]
  BY DEF TypeOK
<1>3. j1[a][k] = r1
  BY <1>2
<1>4. [r1 EXCEPT !.outcome = o] = row
  BY DEF Row
<1>5. /\ row \in Row /\ row.txn = journal[a][k].txn /\ row.content = journal[a][k].content
      /\ row.state = "terminal" /\ row.outcome = o
  BY DEF Row, Told
<1>6. row # Nil
  BY <1>5
<1> HIDE DEF r1, row
<1>7. [j1 EXCEPT ![a][k] = row] = [journal EXCEPT ![a][k] = row]
  BY <1>2
<1>8. journal' = [journal EXCEPT ![a][k] = row]
  BY <1>1, <1>3, <1>4, <1>7
<1>9. /\ journal' \in [Account -> [Key -> Row \cup {Nil}]]
      /\ \A b \in Account, l \in Key : b # a \/ l # k => journal'[b][l] = journal[b][l]
      /\ journal'[a][k] = row
  <2>1. row \in Row
    BY <1>5
  <2> QED
    BY <1>2, <1>8, <2>1
<1> QED
  BY <1>5, <1>6, <1>9

LEMMA FinalizeKeeps ==
    ASSUME SendInv, NEW c \in Caller, Finalize(c)
    PROVE  SendInv'
<1> DEFINE t == txn[c]
           k == key[c]
           a == work[c].account
<1>1. /\ pc[c] = "finish" /\ result[c] # "error" /\ Release(t, TRUE)
      /\ UNCHANGED <<account, crashes, orphans, ui, up, running, memo, used>>
  BY DEF Finalize
<1>2. /\ t \in Txn /\ a \in Account /\ k \in Key /\ journal[a][k] \in Row
      /\ journal[a][k] # Nil /\ journal[a][k].txn = t /\ journal[a][k].state = "in_flight"
      /\ journal[a][k].outcome = "uncertain" /\ account[a] = "live"
  BY <1>1, OwnersKnow DEF Owning
<1>3. result[c] \in Told /\ (result[c] = "verified" => ui[a][k] = 1)
  BY <1>1 DEF SendInv, TypeOK, Owners, Told
<1>4. Loosened(t)
  BY <1>1, <1>2, ReleaseLoosens DEF SendInv
<1>5. CASE /\ journal' = [journal EXCEPT ![a][k].state = "terminal", ![a][k].outcome = result[c]]
           /\ Answer(c, result[c])
  <2>1. /\ journal' \in [Account -> [Key -> Row \cup {Nil}]]
        /\ \A b \in Account, l \in Key : b # a \/ l # k => journal'[b][l] = journal[b][l]
        /\ journal'[a][k] # Nil /\ journal'[a][k].txn = t
        /\ journal'[a][k].content = journal[a][k].content
        /\ journal'[a][k].state = "terminal" /\ journal'[a][k].outcome = result[c]
    <3>1. PICK o \in Told : o = result[c]
      BY <1>3
    <3>2. journal' = Finalized(a, k, o) /\ TypeOK
      BY <1>5, <3>1, Z3 DEF Finalized, SendInv
    <3> QED
      BY <1>2, <3>1, <3>2, FinalizeWrites, ZenonT(60)
  <2>5. Resolved(c)
    BY <1>1, <1>2, <1>3, <2>1, Z3 DEF Resolved, Owns, Owning
  <2>6. Witnessed(c, result[c])
    BY <1>2, <2>1 DEF Witnessed
  <2>7. PICK code \in Code : code = result[c]
    BY <1>3 DEF Code, Told
  <2> QED
    BY <1>1, <1>4, <1>5, <2>5, <2>6, <2>7, AnswerKeeps, Z3 DEF Locked, Holding, Owning
<1>6. CASE Answer(c, "uncertain") /\ UNCHANGED journal
  <2>1. Resolved(c)
    BY <1>1, <1>2, <1>3, <1>6, OwnersKnow, ZenonT(60) DEF SendInv, TypeOK, Resolved, Owns, Owning, Rows, HasRow, Spent, Owners
  <2>2. Witnessed(c, "uncertain")
    BY <1>2, <1>6 DEF Witnessed
  <2> QED
    BY <1>1, <1>4, <1>6, <2>1, <2>2, AnswerKeeps, Z3 DEF Locked, Holding, Owning, Code
<1> QED
  BY <1>1, <1>5, <1>6 DEF Finalize

-----------------------------------------------------------------------------
(* The rest of the daemon.                                                 *)

LEMMA StartKeeps ==
    ASSUME SendInv, NEW a \in Account, Start(a)
    PROVE  SendInv'
<1> USE DEF SendInv, Start, durable
<1>1. TypeOK'
  BY DEF TypeOK
<1>2. Locals' /\ Staged' /\ Rows'
  BY DEF Locals, Staged, Rows, HasRow
<1>3. Spent'
  BY DEF Spent, HasRow
<1>4. Owners'
  BY Z3 DEF Owners, HasRow
<1>5. Agreement'
  <2>1. \A b, l, o : Settled(b, l, o) => Settled(b, l, o)'
    BY DEF Settled, Owns, Owning, Locked, Holding, HasRow
  <2>2. /\ Agreement /\ journal' = journal /\ used \subseteq used'
        /\ \A d \in Caller : reply'[d].code \in Told => reply'[d] = reply[d]
    BY DEF TypeOK, Told
  <2>3. \A d \in Caller : reply[d].code \in Told /\ prep'[reply[d].txn] # Nil =>
           /\ prep[reply[d].txn] # Nil
           /\ prep'[reply[d].txn].account = prep[reply[d].txn].account
    BY DEF TypeOK, Locals, Staged, Agreement, SameButFlags
  <2> HIDE DEF SendInv
  <2> QED
    BY <2>1, <2>2, <2>3, AgreementStays
<1> QED
  BY <1>1, <1>2, <1>3, <1>4, <1>5

LEMMA StopKeeps ==
    ASSUME SendInv, NEW a \in Account, Stop(a)
    PROVE  SendInv'
<1> USE DEF SendInv, Stop, durable, NoRow
<1>1. /\ memo' \in [Account -> [Key -> Memo \cup {Nil}]]
      /\ \A b \in Account, k \in Key : memo'[b][k] = IF b = a THEN Nil ELSE memo[b][k]
  BY DEF TypeOK
<1>2. TypeOK'
  BY <1>1 DEF TypeOK
<1>3. Locals' /\ Staged' /\ Rows'
  BY DEF Locals, Staged, Rows, HasRow
<1>4. Spent'
  BY <1>1 DEF Spent, HasRow
<1>5. Owners'
  <2>1. \A c \in Caller : pc[c] \in Owning => work[c].account \in Account /\ key[c] \in Key
    BY OwnersKnow, Z3
  <2> QED
    BY <1>1, <2>1 DEF Owners, Owning, HasRow
<1>6. Agreement'
  <2>1. \A b, l, o : Settled(b, l, o) => Settled(b, l, o)'
    BY DEF Settled, Owns, Owning, Locked, Holding, HasRow
  <2>2. /\ Agreement /\ journal' = journal /\ used \subseteq used'
        /\ \A d \in Caller : reply'[d].code \in Told => reply'[d] = reply[d]
    BY DEF TypeOK, Told
  <2>3. \A d \in Caller : reply[d].code \in Told /\ prep'[reply[d].txn] # Nil =>
           /\ prep[reply[d].txn] # Nil
           /\ prep'[reply[d].txn].account = prep[reply[d].txn].account
    BY DEF TypeOK, Locals, Staged, Agreement, SameButFlags
  <2> HIDE DEF SendInv
  <2> QED
    BY <2>1, <2>2, <2>3, AgreementStays
<1> QED
  BY <1>2, <1>3, <1>4, <1>5, <1>6

LEMMA RemoveBeginKeeps ==
    ASSUME SendInv, NEW a \in Account, RemoveBegin(a)
    PROVE  SendInv'
<1> USE DEF SendInv, RemoveBegin
<1>1. \A b \in Account : account'[b] = IF b = a THEN "deleting" ELSE account[b]
  BY DEF TypeOK
<1>2. \A c \in Caller : pc[c] \notin Locked
  BY DEF Locals
<1>3. TypeOK'
  BY DEF TypeOK
<1>4. Locals' /\ Staged'
  BY DEF Locals, Staged, HasRow
<1>5. Rows'
  BY <1>1 DEF Rows, HasRow
<1>6. Spent'
  BY <1>1 DEF Spent, HasRow
<1>7. Owners'
  BY <1>2, Z3 DEF Owners, Owning, Locked, Holding, HasRow
<1>8. Agreement'
  <2>1. \A b, l, o : Settled(b, l, o) => Settled(b, l, o)'
    BY <1>1 DEF Settled, Owns, Owning, Locked, Holding, HasRow
  <2>2. /\ Agreement /\ journal' = journal /\ used \subseteq used'
        /\ \A d \in Caller : reply'[d].code \in Told => reply'[d] = reply[d]
    BY <1>1 DEF TypeOK, Told
  <2>3. \A d \in Caller : reply[d].code \in Told /\ prep'[reply[d].txn] # Nil =>
           /\ prep[reply[d].txn] # Nil
           /\ prep'[reply[d].txn].account = prep[reply[d].txn].account
    BY <1>1 DEF TypeOK, Locals, Staged, Agreement, SameButFlags
  <2> HIDE DEF SendInv
  <2> QED
    BY <2>1, <2>2, <2>3, AgreementStays
<1> QED
  BY <1>3, <1>4, <1>5, <1>6, <1>7, <1>8

LEMMA RemoveFinishKeeps ==
    ASSUME SendInv, NEW a \in Account, RemoveFinish(a)
    PROVE  SendInv'
<1> USE DEF SendInv, RemoveFinish, NoRow
<1>1. /\ \A b \in Account : account'[b] = IF b = a THEN "gone" ELSE account[b]
      /\ \A b \in Account, k \in Key : journal'[b][k] = IF b = a THEN Nil ELSE journal[b][k]
      /\ journal' \in [Account -> [Key -> Row \cup {Nil}]]
  BY DEF TypeOK
<1>2. \A c \in Caller : pc[c] \notin Locked
  BY DEF Locals
<1>3. TypeOK'
  BY <1>1 DEF TypeOK
<1>4. Locals'
  BY DEF Locals
<1>5. Staged'
  BY <1>1 DEF Staged, HasRow
<1>6. Rows'
  BY <1>1 DEF Rows, HasRow
<1>7. Spent'
  BY <1>1 DEF Spent, HasRow
<1>8. Owners'
  BY <1>2 DEF Owners, Owning, Locked, Holding
<1>9. Agreement'
  <2>1. ASSUME NEW b \in Account, NEW k \in Key, NEW o, Settled(b, k, o)
        PROVE  Settled(b, k, o)'
    <3> HIDE DEF SendInv
    <3> QED
      BY <1>1, <2>1, Z3 DEF Settled, HasRow, Owns
  <2>2. ASSUME NEW d \in Caller, reply[d].code \in Told, prep[reply[d].txn] # Nil
        PROVE  Settled(prep[reply[d].txn].account, reply[d].key, reply[d].code)'
    <3>1. PICK b \in Account, k \in Key, o \in Code :
              b = prep[reply[d].txn].account /\ k = reply[d].key /\ o = reply[d].code
      BY <2>2 DEF Agreement, TypeOK, Prepared
    <3>2. Settled(b, k, o)'
      BY <2>1, <2>2, <3>1 DEF Agreement
    <3> QED
      BY <3>1, <3>2, ZenonT(60) DEF Settled, HasRow, Owns
  <2> QED
    BY <1>1, <2>2 DEF Agreement, CallersAgree, HasRow
<1> QED
  BY <1>3, <1>4, <1>5, <1>6, <1>7, <1>8, <1>9

\* A daemon that has just ended knows nothing, so only the durable part of
\* the invariant is left to keep.
LEMMA ForgetsKeeps ==
    ASSUME SendInv, Forgets, UNCHANGED <<journal, account, orphans, ui, used>>,
           crashes' \in 0..MaxCrashes, stage' \in SUBSET Txn
    PROVE  SendInv'
<1> USE DEF SendInv, Forgets, NoRow, NoReply
<1>1. TypeOK'
  BY DEF TypeOK, Label, Code
<1>2. Locals'
  BY DEF Locals, Locked, Holding, Owning
<1>3. Staged'
  BY DEF Staged, Holding, Owning
<1>4. Rows'
  BY DEF TypeOK, Rows, HasRow, Row
<1>5. Spent'
  BY DEF Spent, HasRow
<1>6. Owners'
  BY DEF Owners, Owning
<1>7. Agreement'
  <2>1. \A b, l, o : Settled(b, l, o) => Settled(b, l, o)'
    BY DEF Settled, Owns, Owning, Locked, Holding, HasRow
  <2>2. /\ Agreement /\ journal' = journal /\ used \subseteq used'
        /\ \A d \in Caller : reply'[d].code \in Told => reply'[d] = reply[d]
    BY DEF TypeOK, Told
  <2>3. \A d \in Caller : reply[d].code \in Told /\ prep'[reply[d].txn] # Nil =>
           /\ prep[reply[d].txn] # Nil
           /\ prep'[reply[d].txn].account = prep[reply[d].txn].account
    BY DEF TypeOK, Locals, Staged, Agreement, SameButFlags
  <2> HIDE DEF SendInv
  <2> QED
    BY <2>1, <2>2, <2>3, AgreementStays
<1> QED
  BY <1>1, <1>2, <1>3, <1>4, <1>5, <1>6, <1>7

LEMMA EndKeeps ==
    ASSUME SendInv, Crash \/ Close
    PROVE  SendInv'
<1>1. crashes' \in 0..MaxCrashes
  BY DEF SendInv, TypeOK, Crash, Close
<1>2. stage' \in SUBSET Txn
  BY DEF SendInv, TypeOK, Crash, Close
<1> QED
  BY <1>1, <1>2, ForgetsKeeps DEF Crash, Close

LEMMA RestartKeeps ==
    ASSUME SendInv, Restart
    PROVE  SendInv'
<1> USE DEF SendInv, Restart
<1>1. TypeOK'
  BY DEF TypeOK
<1>2. Locals'
  BY DEF Locals
<1>3. Staged'
  BY DEF Locals, Staged, Holding, Owning
<1>4. Rows' /\ Spent'
  BY DEF Rows, Spent, HasRow
<1>5. Owners'
  BY Z3 DEF Owners, HasRow
<1>6. Agreement'
  <2>1. \A b, l, o : Settled(b, l, o) => Settled(b, l, o)'
    BY DEF Settled, Owns, Owning, Locked, Holding, HasRow
  <2>2. /\ Agreement /\ journal' = journal /\ used \subseteq used'
        /\ \A d \in Caller : reply'[d].code \in Told => reply'[d] = reply[d]
    BY DEF TypeOK, Told
  <2>3. \A d \in Caller : reply[d].code \in Told /\ prep'[reply[d].txn] # Nil =>
           /\ prep[reply[d].txn] # Nil
           /\ prep'[reply[d].txn].account = prep[reply[d].txn].account
    BY DEF TypeOK, Locals, Staged, Agreement, SameButFlags
  <2> HIDE DEF SendInv
  <2> QED
    BY <2>1, <2>2, <2>3, AgreementStays
<1> QED
  BY <1>1, <1>2, <1>3, <1>4, <1>5, <1>6

-----------------------------------------------------------------------------
(* The theorems.                                                           *)

LEMMA StutterKeeps ==
    ASSUME SendInv, UNCHANGED vars
    PROVE  SendInv'
<1> USE DEF SendInv, vars
<1>1. TypeOK' /\ Locals' /\ Staged'
  BY Z3 DEF TypeOK, Locals, Staged, HasRow
<1>2. Rows' /\ Spent' /\ Owners'
  BY Z3 DEF Rows, Spent, Owners, HasRow
<1>3. Agreement'
  <2>1. \A b, l, o : Settled(b, l, o) => Settled(b, l, o)'
    BY DEF Settled, Owns, Owning, Locked, Holding, HasRow
  <2>2. /\ Agreement /\ journal' = journal /\ used \subseteq used'
        /\ \A d \in Caller : reply'[d].code \in Told => reply'[d] = reply[d]
    BY DEF TypeOK, Told
  <2>3. \A d \in Caller : reply[d].code \in Told /\ prep'[reply[d].txn] # Nil =>
           /\ prep[reply[d].txn] # Nil
           /\ prep'[reply[d].txn].account = prep[reply[d].txn].account
    BY DEF TypeOK, Locals, Staged, Agreement, SameButFlags
  <2> HIDE DEF SendInv
  <2> QED
    BY <2>1, <2>2, <2>3, AgreementStays
<1> QED
  BY <1>1, <1>2, <1>3

LEMMA CommitKeeps ==
    ASSUME SendInv, NEW c \in Caller, Commit(c)
    PROVE  SendInv'
  BY CommitLockKeeps, FindCommittedKeeps, LookupKeeps, ReserveKeeps, SendRefusedKeeps,
     SendActsKeeps, SendVerifiesKeeps, WithdrawKeeps, FinalizeKeeps DEF Commit

LEMMA NextKeeps ==
    ASSUME SendInv, [Next]_vars
    PROVE  SendInv'
<1>1. ASSUME NEW c \in Caller, Prepare(c) PROVE SendInv'
  BY <1>1, PrepareStageKeeps, PrepareInsertKeeps, PrepareFailsKeeps DEF Prepare
<1>2. ASSUME Environment PROVE SendInv'
  BY <1>2, StartKeeps, StopKeeps, RemoveBeginKeeps, RemoveFinishKeeps, ExpireKeeps,
     EndKeeps, RestartKeeps DEF Environment
<1> QED
  BY <1>1, <1>2, CommitKeeps, CommitBeginKeeps, PruneKeeps, StutterKeeps DEF Next

\* The invariant holds in every state the daemon, its callers, crashes and
\* restarts can reach.
THEOREM SendInvariant == Spec => []SendInv
<1>1. SendInv /\ [Next]_vars => SendInv'
  BY NextKeeps
<1> QED
  BY InitSends, <1>1, PTL DEF Spec

\* The variables of the send path keep their types.
THEOREM SendTypeCorrect == Spec => []TypeOK
  BY SendInvariant, PTL DEF SendInv

\* Neither expiry, the reaper, a failing cleanup nor another commit removes
\* the staged attachments while the driver of a commit may read them.
THEOREM StagedCorrect == Spec => []StagedUntilSent
<1>1. SendInv => StagedUntilSent
  BY DEF SendInv, TypeOK, Locals, Staged, StagedUntilSent, Holding, Owning
<1> QED
  BY <1>1, SendInvariant, PTL

\* An action issued in the official client leaves its row in the journal of
\* a living account, whatever fails or crashes afterwards.
THEOREM RecordedCorrect == Spec => []NoUnrecordedSend
<1>1. SendInv => NoUnrecordedSend
  BY DEF SendInv, TypeOK, Spent, NoUnrecordedSend, HasRow
<1> QED
  BY <1>1, SendInvariant, PTL

\* Callers that are told the outcome of the same transaction under the same
\* key, by the commit itself or by a later lookup, are told the same.
THEOREM AgreeCorrect == Spec => []CallersAgree
<1>1. SendInv => CallersAgree
  BY DEF SendInv, Agreement
<1> QED
  BY <1>1, SendInvariant, PTL

-----------------------------------------------------------------------------
(* What a caller is told.                                                  *)

LEMMA AnswerTells ==
    ASSUME TypeOK, NEW c \in Caller, NEW code, Answer(c, code)
    PROVE  reply'[c].code = code /\ \A d \in Caller : d # c => reply'[d] = reply[d]
  BY Z3 DEF TypeOK, Answer

\* Only three kinds of steps change what callers were told.
LEMMA QuietSteps ==
    ASSUME SendInv, Next,
           \A c \in Caller : ~Lookup(c) /\ ~Withdraw(c) /\ ~Finalize(c)
    PROVE  TruthfulStep
<1> SUFFICES ASSUME NEW d \in Caller, work[d] # Nil, reply'[d] # reply[d]
             PROVE  reply'[d].code \notin {"verified", "rejected"}
  BY DEF TruthfulStep
<1>1. ASSUME NEW c \in Caller, FindCommitted(c) PROVE FALSE
  <2>1. d # c
    BY <1>1 DEF SendInv, Locals, FindCommitted
  <2> QED
    BY <1>1, <2>1 DEF FindCommitted, Answer, SendInv, TypeOK
<1>2. ASSUME NEW c \in Caller, Reserve(c) PROVE reply'[d].code \notin {"verified", "rejected"}
  <2>1. CASE UNCHANGED reply
    BY <2>1
  <2>2. CASE Answer(c, "unreserved")
    BY <2>2, AnswerTells DEF SendInv
  <2> QED
    BY <1>2, <2>1, <2>2 DEF Reserve
<1>3. ASSUME NEW c \in Caller, NEW t \in Txn, NEW k \in Key, CommitBegin(c, t, k)
      PROVE  reply'[d].code \notin {"verified", "rejected"}
  BY <1>3 DEF CommitBegin, NoReply, SendInv, TypeOK
<1>4. ASSUME Crash \/ Close PROVE reply'[d].code \notin {"verified", "rejected"}
  BY <1>4 DEF Crash, Close, Forgets, NoReply
<1> QED
  BY <1>1, <1>2, <1>3, <1>4, ZenonT(60)
     DEF Next, Prepare, Commit, Environment, PrepareStage, PrepareInsert, PrepareFails, Expire, Prune,
         CommitLock, SendRefused, SendActs, SendVerifies, Start, Stop, RemoveBegin, RemoveFinish, Restart

LEMMA LookupIsTruthful ==
    ASSUME SendInv, NEW c \in Caller, Lookup(c)
    PROVE  TruthfulStep
<1> DEFINE t == txn[c]
           k == key[c]
           a == work[c].account
           row == journal[a][k]
           rows == RowsOf(a, t)
<1>1. pc[c] = "lookup" /\ journal' = journal
  BY DEF Lookup
<1>2. /\ t \in Txn /\ k \in Key /\ a \in Account /\ prep[t] # Nil
      /\ prep[t].account = a /\ prep[t].content = work[c].content
  BY <1>1 DEF SendInv, TypeOK, Locals, Locked, Holding, Staged, Prepared
<1>3. /\ \A d \in Caller : d # c => reply'[d] = reply[d]
      /\ \/ reply'[c] = reply[c]
         \/ reply'[c].code \notin {"verified", "rejected"}
         \/ k \in rows /\ reply'[c].code = row.outcome
         \/ row # Nil /\ SameRequest(row, work[c]) /\ reply'[c].code = row.outcome
  <2>1. CASE UNCHANGED reply
    BY <2>1
  <2>2. ASSUME NEW code, Answer(c, code),
               \/ code \notin {"verified", "rejected"}
               \/ k \in rows /\ code = row.outcome
               \/ row # Nil /\ SameRequest(row, work[c]) /\ code = row.outcome
        PROVE  <1>3!2
    BY <2>2, AnswerTells DEF SendInv
  <2>3. ASSUME NEW code, Answer(c, code) PROVE \A d \in Caller : d # c => reply'[d] = reply[d]
    BY <2>3, AnswerTells DEF SendInv
  <2>4. \/ UNCHANGED reply
        \/ Answer(c, IF account[a] = "gone" THEN "missing" ELSE "deleting")
        \/ Answer(c, IF k \in rows THEN row.outcome ELSE "conflict")
        \/ row # Nil /\ Answer(c, IF SameRequest(row, work[c]) THEN row.outcome ELSE "conflict")
        \/ Answer(c, "inactive") \/ Answer(c, "unavailable")
    BY DEF Lookup
  <2> QED
    BY <2>1, <2>2, <2>3, <2>4
<1>4. row # Nil => row.outcome # "rejected" /\ (row.outcome = "verified" => ui[a][k] = 1)
  <2>1. journal[a][k] \in Row \cup {Nil}
    BY <1>2 DEF SendInv, TypeOK
  <2>2. journal[a][k] # Nil => journal[a][k].outcome \in {"verified", "uncertain"}
    BY <2>1 DEF Row
  <2> QED
    BY <1>2, <2>2 DEF SendInv, Rows, HasRow
<1>5. k \in rows => row # Nil /\ row.content = work[c].content
  BY <1>2, Z3 DEF RowsOf, SendInv, Rows, HasRow
<1>6. row # Nil /\ SameRequest(row, work[c]) => row.content = work[c].content
  BY DEF SameRequest
<1> QED
  BY <1>1, <1>3, <1>4, <1>5, <1>6 DEF TruthfulStep

LEMMA FinishIsTruthful ==
    ASSUME SendInv, NEW c \in Caller, Withdraw(c) \/ Finalize(c)
    PROVE  TruthfulStep
<1> DEFINE k == key[c]
           a == work[c].account
<1>1. pc[c] = "finish"
  BY DEF Withdraw, Finalize
<1>2. /\ a \in Account /\ k \in Key /\ journal[a][k] \in Row
      /\ journal[a][k].content = work[c].content
  BY <1>1, OwnersKnow DEF Owning
<1>3. /\ \A d \in Caller : d # c => reply'[d] = reply[d]
      /\ reply'[c].code = "rejected" => Withdraw(c) /\ result[c] = "error"
      /\ reply'[c].code = "verified" =>
           /\ result[c] = "verified"
           /\ journal' = [journal EXCEPT ![a][k].state = "terminal", ![a][k].outcome = result[c]]
  <2>1. CASE Withdraw(c)
    <3>1. result[c] = "error" /\ (Answer(c, "rejected") \/ Answer(c, "uncertain"))
      BY <2>1 DEF Withdraw
    <3> QED
      BY <2>1, <3>1, AnswerTells DEF SendInv
  <2>2. CASE Finalize(c)
    <3>1. result[c] # "rejected"
      BY DEF SendInv, TypeOK
    <3> QED
      BY <2>2, <3>1, AnswerTells DEF SendInv, Finalize
  <2> QED
    BY <2>1, <2>2
<1>4. reply'[c].code = "rejected" => ui[a][k] = 0
  BY <1>1, <1>3, Z3 DEF SendInv, Owners
<1>5. reply'[c].code = "verified" => ui[a][k] = 1
  BY <1>1, <1>3 DEF SendInv, Owners
<1>6. reply'[c].code = "verified" => journal'[a][k].content = journal[a][k].content
  <2> SUFFICES ASSUME reply'[c].code = "verified"
               PROVE  journal'[a][k].content = journal[a][k].content
    OBVIOUS
  <2>1. "verified" \in Told /\ journal' = Finalized(a, k, "verified") /\ TypeOK
    BY <1>3 DEF Told, Finalized, SendInv
  <2> QED
    BY <1>2, <2>1, FinalizeWrites
<1>7. ASSUME NEW d \in Caller, reply'[d] # reply[d] PROVE d = c
  BY <1>3, <1>7
<1> HIDE DEF k, a
<1>8. work[c].account = a /\ key[c] = k
  BY DEF a, k
<1> QED
  BY <1>2, <1>4, <1>5, <1>6, <1>7, <1>8 DEF TruthfulStep

\* "Verified" is answered only for an action that was issued once, with the
\* prepared content; "rejected" only when none was issued.
THEOREM TruthfulCorrect == Spec => AnswersAreTrue
<1>1. SendInv /\ [Next]_vars => [TruthfulStep]_vars
  BY QuietSteps, LookupIsTruthful, FinishIsTruthful
<1> QED
  BY <1>1, SendInvariant, PTL DEF Spec, AnswersAreTrue

-----------------------------------------------------------------------------
(* The daemon implements at-most-once sends.                               *)

LEMMA SlotAt ==
    ASSUME NEW a \in Account, NEW k \in Key
    PROVE  slot[<<a, k>>] =
             IF account[a] = "gone" THEN "gone"
             ELSE IF journal[a][k] = Nil THEN "free"
             ELSE IF journal[a][k].state = "terminal" THEN journal[a][k].outcome
             ELSE IF ui[a][k] > 0 THEN "acted" ELSE "reserved"
  BY DEF slot, Slot

LEMMA SlotMoves ==
    ASSUME NEW a \in Account, NEW k \in Key, account' = account,
           \A b \in Account, l \in Key : b # a \/ l # k =>
               journal'[b][l] = journal[b][l] /\ ui'[b][l] = ui[b][l],
           NEW from, NEW to, slot[<<a, k>>] \in from, slot'[<<a, k>>] = to
    PROVE  Promise!Move(<<a, k>>, from, to)
<1>1. \A s \in Slot : s # <<a, k>> => slot'[s] = slot[s]
  BY DEF slot, Slot
<1>2. /\ slot = [s \in Slot |-> slot[s]] /\ slot' = [s \in Slot |-> slot'[s]]
      /\ <<a, k>> \in Slot
  BY DEF slot, Slot
<1>3. slot' = [slot EXCEPT ![<<a, k>>] = to]
  BY <1>1, <1>2
<1> QED
  BY <1>3 DEF Promise!Move

LEMMA SlotStutters ==
    ASSUME UNCHANGED <<journal, account, ui>>
    PROVE  UNCHANGED Promise!vars
  BY DEF slot, acts, Promise!vars

LEMMA ActsStay ==
    ASSUME UNCHANGED ui
    PROVE  acts' = acts
  BY DEF acts

LEMMA ReserveImplements ==
    ASSUME SendInv, NEW c \in Caller, Reserve(c)
    PROVE  [Promise!Next]_(Promise!vars)
<1> DEFINE k == key[c]
           a == work[c].account
           new == [txn |-> txn[c], content |-> work[c].content,
                   state |-> "in_flight", outcome |-> "uncertain"]
<1>1. CASE UNCHANGED journal
  BY <1>1, SlotStutters DEF Reserve
<1>2. CASE journal[a][k] = Nil /\ journal' = [journal EXCEPT ![a][k] = new]
  <2>1. /\ a \in Account /\ k \in Key /\ account[a] = "live"
        /\ new \in Row /\ new.state = "in_flight"
    BY DEF Reserve, SendInv, TypeOK, Locals, Locked, Holding, Staged, Prepared, Owners, Row
  <2>2. new # Nil
    BY <2>1
  <2> HIDE DEF new
  <2>3. /\ journal'[a][k] = new
        /\ \A b \in Account, l \in Key : b # a \/ l # k => journal'[b][l] = journal[b][l]
    BY <1>2, <2>1 DEF SendInv, TypeOK
  <2>4. ui[a][k] = 0 /\ UNCHANGED <<account, ui>>
    BY <1>2, <2>1, Z3 DEF SendInv, Spent, HasRow, Reserve
  <2>5. slot[<<a, k>>] = "free" /\ slot'[<<a, k>>] = "reserved"
    <3>1. slot[<<a, k>>] = "free"
      BY <1>2, <2>1, <2>4 DEF slot, Slot
    <3>2. slot'[<<a, k>>] = "reserved"
      BY <2>1, <2>2, <2>3, <2>4 DEF slot, Slot
    <3> QED
      BY <3>1, <3>2
  <2>6. Promise!Reserve(<<a, k>>) /\ <<a, k>> \in Slot
    BY <2>1, <2>3, <2>4, <2>5, SlotMoves, ActsStay DEF Promise!Reserve, Slot
  <2> QED
    BY <2>6 DEF Promise!Next
<1> QED
  BY <1>1, <1>2 DEF Reserve

LEMMA SendActsImplements ==
    ASSUME SendInv, NEW c \in Caller, SendActs(c)
    PROVE  [Promise!Next]_(Promise!vars)
<1> DEFINE k == key[c]
           a == work[c].account
<1>1. CASE UNCHANGED ui
  BY <1>1, SlotStutters DEF SendActs, durable
<1>2. CASE ui' = [ui EXCEPT ![a][k] = @ + 1]
  <2>1. /\ a \in Account /\ k \in Key /\ account[a] = "live" /\ journal[a][k] # Nil
        /\ journal[a][k].state = "in_flight"
    BY OwnersKnow DEF SendActs, Owning
  <2>2. ui[a][k] = 0 /\ UNCHANGED <<account, journal>>
    BY DEF SendInv, Owners, SendActs, durable
  <2>3. /\ ui'[a][k] = 1
        /\ \A b \in Account, l \in Key : b # a \/ l # k => ui'[b][l] = ui[b][l]
    BY <1>2, <2>1, <2>2 DEF SendInv, TypeOK
  <2>5. slot[<<a, k>>] = "reserved" /\ slot'[<<a, k>>] = "acted"
    BY <2>1, <2>2, <2>3 DEF slot, Slot
  <2>6. acts' = [acts EXCEPT ![<<a, k>>] = @ + 1]
    <3>1. /\ <<a, k>> \in Slot /\ acts[<<a, k>>] = 0 /\ acts'[<<a, k>>] = 1
          /\ \A s \in Slot : s # <<a, k>> => acts'[s] = acts[s]
      BY <2>1, <2>2, <2>3 DEF acts, Slot
    <3>2. acts = [s \in Slot |-> acts[s]] /\ acts' = [s \in Slot |-> acts'[s]]
      BY DEF acts
    <3> QED
      BY <3>1, <3>2
  <2>7. Promise!Act(<<a, k>>) /\ <<a, k>> \in Slot
    BY <2>1, <2>2, <2>3, <2>5, <2>6, SlotMoves DEF Promise!Act, Slot
  <2> QED
    BY <2>7 DEF Promise!Next
<1> QED
  BY <1>1, <1>2 DEF SendActs

LEMMA WithdrawImplements ==
    ASSUME SendInv, NEW c \in Caller, Withdraw(c)
    PROVE  [Promise!Next]_(Promise!vars)
<1> DEFINE k == key[c]
           a == work[c].account
<1>1. CASE UNCHANGED journal
  BY <1>1, SlotStutters DEF Withdraw
<1>2. CASE journal' = [journal EXCEPT ![a][k] = Nil]
  <2>1. /\ a \in Account /\ k \in Key /\ account[a] = "live" /\ journal[a][k] # Nil
        /\ journal[a][k].state = "in_flight"
    BY OwnersKnow DEF Withdraw, Owning
  <2>2. ui[a][k] = 0 /\ UNCHANGED <<account, ui>>
    BY DEF SendInv, Owners, Withdraw
  <2>3. /\ journal'[a][k] = Nil
        /\ \A b \in Account, l \in Key : b # a \/ l # k => journal'[b][l] = journal[b][l]
    BY <1>2, <2>1 DEF SendInv, TypeOK
  <2>5. slot[<<a, k>>] = "reserved" /\ slot'[<<a, k>>] = "free"
    BY <2>1, <2>2, <2>3 DEF slot, Slot
  <2>6. Promise!Withdraw(<<a, k>>) /\ <<a, k>> \in Slot
    BY <2>1, <2>2, <2>3, <2>5, SlotMoves, ActsStay, Z3 DEF Promise!Withdraw, Slot
  <2> QED
    BY <2>6 DEF Promise!Next
<1> QED
  BY <1>1, <1>2 DEF Withdraw

LEMMA FinalizeImplements ==
    ASSUME SendInv, NEW c \in Caller, Finalize(c)
    PROVE  [Promise!Next]_(Promise!vars)
<1> DEFINE k == key[c]
           a == work[c].account
<1>1. CASE UNCHANGED journal
  BY <1>1, SlotStutters DEF Finalize
<1>2. CASE journal' = [journal EXCEPT ![a][k].state = "terminal", ![a][k].outcome = result[c]]
  <2>1. /\ a \in Account /\ k \in Key /\ account[a] = "live" /\ journal[a][k] # Nil
        /\ journal[a][k].state = "in_flight" /\ journal[a][k] \in Row
    <3>1. pc[c] = "finish"
      BY DEF Finalize
    <3> QED
      BY <3>1, OwnersKnow DEF Owning
  <2>2. result[c] \in Told /\ (result[c] = "verified" => ui[a][k] = 1) /\ UNCHANGED <<account, ui>>
    BY DEF SendInv, TypeOK, Owners, Finalize, Told
  <2>4. /\ \A b \in Account, l \in Key : b # a \/ l # k => journal'[b][l] = journal[b][l]
        /\ journal'[a][k] # Nil /\ journal'[a][k].state = "terminal"
        /\ journal'[a][k].outcome = result[c]
    <3>1. PICK o \in Told : o = result[c]
      BY <2>2
    <3>2. journal' = Finalized(a, k, o) /\ TypeOK
      BY <1>2, <3>1 DEF Finalized, SendInv
    <3> QED
      BY <2>1, <3>1, <3>2, FinalizeWrites
  <2>6. slot'[<<a, k>>] = result[c]
    BY <2>1, <2>2, <2>4 DEF slot, Slot
  <2>7. /\ slot[<<a, k>>] \in {"reserved", "acted"}
        /\ result[c] = "verified" => slot[<<a, k>>] \in {"acted"}
    BY <2>1, <2>2 DEF slot, Slot
  <2>8. Promise!Settle(<<a, k>>) /\ <<a, k>> \in Slot
    <3>1. CASE result[c] = "verified"
      BY <2>1, <2>2, <2>4, <2>6, <2>7, <3>1, SlotMoves, ActsStay DEF Promise!Settle, Slot
    <3>2. CASE result[c] = "uncertain"
      BY <2>1, <2>2, <2>4, <2>6, <2>7, <3>2, SlotMoves, ActsStay DEF Promise!Settle, Slot
    <3> QED
      BY <2>2, <3>1, <3>2 DEF Told
  <2> QED
    BY <2>8, Z3 DEF Promise!Next
<1> QED
  BY <1>1, <1>2 DEF Finalize

LEMMA RemovalImplements ==
    ASSUME SendInv, NEW a \in Account, RemoveBegin(a) \/ RemoveFinish(a)
    PROVE  [Promise!Next]_(Promise!vars)
<1>1. CASE RemoveBegin(a)
  <2>1. /\ UNCHANGED <<journal, ui>>
        /\ \A b \in Account : account'[b] = "gone" <=> account[b] = "gone"
    BY <1>1 DEF RemoveBegin, SendInv, TypeOK
  <2>2. slot' = slot /\ acts' = acts
    BY <2>1 DEF slot, acts, Slot
  <2> QED
    BY <2>2 DEF Promise!vars
<1>2. CASE RemoveFinish(a)
  <2> DEFINE S == {a} \X Key
  <2>1. /\ account'[a] = "gone" /\ UNCHANGED ui
        /\ \A b \in Account : b # a => account'[b] = account[b] /\ journal'[b] = journal[b]
    BY <1>2 DEF RemoveFinish, SendInv, TypeOK
  <2>2. slot' = [s \in Slot |-> IF s \in S THEN "gone" ELSE slot[s]]
    BY <2>1 DEF slot, Slot
  <2>3. S \in SUBSET Slot
    BY DEF Slot
  <2> QED
    BY <2>1, <2>2, <2>3, ActsStay DEF Promise!Next, Promise!Forget
<1> QED
  BY <1>1, <1>2

LEMMA StepImplements ==
    ASSUME SendInv, [Next]_vars
    PROVE  [Promise!Next]_(Promise!vars)
<1>1. CASE UNCHANGED <<journal, account, ui>>
  BY <1>1, SlotStutters, Z3
<1>2. ASSUME NEW c \in Caller, Prepare(c) \/ Commit(c) PROVE [Promise!Next]_(Promise!vars)
  BY <1>1, <1>2, ReserveImplements, SendActsImplements, WithdrawImplements, FinalizeImplements, ZenonT(60)
     DEF Prepare, Commit, PrepareStage, PrepareInsert, PrepareFails, CommitLock, FindCommitted,
         Lookup, SendRefused, SendVerifies, durable
<1>3. ASSUME Environment PROVE [Promise!Next]_(Promise!vars)
  BY <1>1, <1>3, RemovalImplements
     DEF Environment, Start, Stop, Expire, Crash, Close, Restart, durable
<1> QED
  BY <1>1, <1>2, <1>3 DEF Next, CommitBegin, Prune, durable, vars

\* Committing implements at-most-once sends for every account and key: a
\* reservation precedes the action, the actions that are counted for it never
\* exceed one, none follows its outcome, and the outcome is written once, over
\* every crash, retry and removal.
THEOREM SendsOnceCorrect == Spec => SendsOnce
<1>1. Init => Promise!Init
  BY DEF Init, Promise!Init, slot, acts, Slot, NoRow
<1>2. SendInv /\ [Next]_vars => [Promise!Next]_(Promise!vars)
  BY StepImplements
<1> QED
  BY <1>1, <1>2, SendInvariant, PTL DEF Spec, SendsOnce, Promise!Spec
=============================================================================
