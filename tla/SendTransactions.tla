-------------------------- MODULE SendTransactions --------------------------
(***************************************************************************)
(* Outbound messages: PrepareSend and CommitSend of                        *)
(* internal/service/service.go with the prepared transactions and their    *)
(* staging directories (internal/service/transactions.go), the send        *)
(* journal of internal/index/store.go and the Send of the drivers.         *)
(*                                                                         *)
(* A caller prepares transaction t for an account and a content, and       *)
(* commits it with an idempotency key; it may repeat the commit, with the  *)
(* same or another key, and several callers may commit at once.  Contexts  *)
(* end, journal writes fail, transactions expire, accounts are stopped and *)
(* removed, and the daemon crashes at any step.                            *)
(*                                                                         *)
(* The journal is one table per account, in the account's own database.    *)
(***************************************************************************)
EXTENDS Naturals, FiniteSets

CONSTANTS
    Account, Txn, Key,
    Content,        \* what a request hash stands for
    Caller,         \* concurrent requests
    Nil,
    MaxCrashes      \* bound: daemon restarts in a behaviour

ASSUME NilIsNothing == Nil \notin Account \cup Txn \cup Key \cup Content \cup Caller

ASSUME MaxCrashesIsNatural == MaxCrashes \in Nat

VARIABLES
    \* durable
    journal,    \* journal[a][k]: the row of idempotency key k, or Nil
    stage,      \* transactions whose staging directory exists
    account,    \* account[a]: "live", "deleting" or "gone"
    crashes,
    orphans,    \* directories that a failed preparation could not remove (history)
    \* the official client
    ui,         \* ui[a][k]: send actions issued in a's client for key k
    \* the daemon
    up,
    running,    \* accounts with a published runtime
    memo,       \* memo[a][k]: the driver's remembered result, or Nil
    prep,       \* prep[t]: the prepared transaction, or Nil
    used,       \* transaction IDs handed out (they are random, never reused)
    sendMu,     \* the caller inside CommitSend
    \* the callers
    pc, txn, key,
    work,       \* the caller's copy of the transaction it prepares or commits
    result,     \* what the driver's Send returned
    reply       \* what the last commit of the caller was answered

durable == <<journal, stage, account, crashes, orphans>>
vars == <<journal, stage, account, crashes, orphans, ui, up, running, memo, prep, used,
          sendMu, pc, txn, key, work, result, reply>>

Row == [txn : Txn, content : Content, state : {"in_flight", "terminal"},
        outcome : {"verified", "uncertain"}]

Memo == [content : Content, outcome : {"verified", "uncertain"}]

Prepared == [account : Account, content : Content,
             expired : BOOLEAN, committing : BOOLEAN]

ASSUME NilIsNoRecord == Nil \notin Row \cup Memo \cup Prepared

NoRow == [k \in Key |-> Nil]

NoReply == [code |-> "none", txn |-> Nil, key |-> Nil]

\* The row of transaction t in the journal of account a.
RowsOf(a, t) == {k \in Key : journal[a][k] # Nil /\ journal[a][k].txn = t}

-----------------------------------------------------------------------------
(* PrepareSend.                                                            *)

\* For an active account: the transaction's staging directory is made, and the
\* attachments are copied into it.
PrepareStage(c, t, a, h) ==
    /\ up /\ pc[c] = "idle" /\ t \notin used
    /\ a \in running
    /\ used' = used \cup {t}
    /\ stage' = stage \cup {t}
    /\ pc' = [pc EXCEPT ![c] = "prepare"]
    /\ txn' = [txn EXCEPT ![c] = t]
    /\ work' = [work EXCEPT ![c] = [account |-> a, content |-> h,
                                    expired |-> FALSE, committing |-> FALSE]]
    /\ UNCHANGED <<journal, account, crashes, orphans, ui, up, running, memo, prep, sendMu,
                   key, result, reply>>

\* The transaction becomes visible.
PrepareInsert(c) ==
    /\ pc[c] = "prepare"
    /\ prep' = [prep EXCEPT ![txn[c]] = work[c]]
    /\ pc' = [pc EXCEPT ![c] = "idle"]
    /\ txn' = [txn EXCEPT ![c] = Nil]
    /\ work' = [work EXCEPT ![c] = Nil]
    /\ UNCHANGED <<durable, ui, up, running, memo, used, sendMu, key, result, reply>>

\* A copy fails, and the directory is removed again, or that fails too: then
\* it stays, and no transaction names it.
PrepareFails(c) ==
    LET t == txn[c]
    IN  /\ pc[c] = "prepare"
        /\ \/ stage' = stage \ {t} /\ UNCHANGED orphans
           \/ orphans' = orphans \cup {t} /\ UNCHANGED stage
        /\ pc' = [pc EXCEPT ![c] = "idle"]
        /\ txn' = [txn EXCEPT ![c] = Nil]
        /\ work' = [work EXCEPT ![c] = Nil]
        /\ UNCHANGED <<journal, account, crashes, ui, up, running, memo, prep, used,
                       sendMu, key, result, reply>>

-----------------------------------------------------------------------------
(* Expiry and cleanup.  Removing a staging directory can fail; the         *)
(* transaction then stays, expired, for the reaper to try again.           *)

Expire(t) ==
    /\ prep[t] # Nil /\ ~prep[t].expired
    /\ prep' = [prep EXCEPT ![t].expired = TRUE]
    /\ UNCHANGED <<durable, ui, up, running, memo, used, sendMu, pc, txn, key, work, result, reply>>

\* Mutant: the reaper does not look at Committing.
PrunableAlways(t) == prep[t] # Nil /\ prep[t].expired

\* pruneTransactionsLocked leaves a transaction that is being committed.
Prunable(t) == prep[t] # Nil /\ prep[t].expired /\ ~prep[t].committing

Prune(t) ==
    /\ Prunable(t)
    /\ stage' = stage \ {t}
    /\ prep' = [prep EXCEPT ![t] = Nil]
    /\ UNCHANGED <<journal, account, crashes, orphans, ui, up, running, memo, used, sendMu,
                   pc, txn, key, work, result, reply>>

-----------------------------------------------------------------------------
(* CommitSend.                                                             *)

CommitBegin(c, t, k) ==
    /\ up /\ pc[c] = "idle" /\ t \in used
    /\ pc' = [pc EXCEPT ![c] = "wait"]
    /\ txn' = [txn EXCEPT ![c] = t]
    /\ key' = [key EXCEPT ![c] = k]
    /\ reply' = [reply EXCEPT ![c] = NoReply]
    /\ UNCHANGED <<durable, ui, up, running, memo, prep, used, sendMu, work, result>>

\* sendMu, then the transaction: an expired one is cleaned up and treated as
\* missing, another one is protected from the reaper.
CommitLock(c) ==
    LET t == txn[c]
    IN  /\ pc[c] = "wait" /\ sendMu = Nil
        /\ sendMu' = c
        /\ \/ /\ prep[t] # Nil /\ ~prep[t].expired
              /\ prep' = [prep EXCEPT ![t].committing = TRUE]
              /\ work' = [work EXCEPT ![c] = prep[t]]
              /\ pc' = [pc EXCEPT ![c] = "lookup"]
              /\ UNCHANGED stage
           \/ /\ prep[t] # Nil /\ prep[t].expired
              /\ pc' = [pc EXCEPT ![c] = "find"]
              /\ \/ prep' = [prep EXCEPT ![t] = Nil] /\ stage' = stage \ {t}
                 \/ UNCHANGED <<prep, stage>>
              /\ UNCHANGED work
           \/ /\ prep[t] = Nil
              /\ pc' = [pc EXCEPT ![c] = "find"]
              /\ UNCHANGED <<prep, stage, work>>
        /\ UNCHANGED <<journal, account, crashes, orphans, ui, up, running, memo, used,
                       txn, key, result, reply>>

\* Mutant: a return that keeps sendMu.
AnswerKeepsMutex(c, code) ==
    /\ reply' = [reply EXCEPT ![c] = [code |-> code, txn |-> txn[c], key |-> key[c]]]
    /\ pc' = [pc EXCEPT ![c] = "idle"]
    /\ txn' = [txn EXCEPT ![c] = Nil]
    /\ key' = [key EXCEPT ![c] = Nil]
    /\ work' = [work EXCEPT ![c] = Nil]
    /\ result' = [result EXCEPT ![c] = "none"]
    /\ UNCHANGED sendMu

\* Answer the caller and release the mutex.
Answer(c, code) ==
    /\ reply' = [reply EXCEPT ![c] = [code |-> code, txn |-> txn[c], key |-> key[c]]]
    /\ pc' = [pc EXCEPT ![c] = "idle"]
    /\ txn' = [txn EXCEPT ![c] = Nil]
    /\ key' = [key EXCEPT ![c] = Nil]
    /\ work' = [work EXCEPT ![c] = Nil]
    /\ result' = [result EXCEPT ![c] = "none"]
    /\ sendMu' = Nil

\* Mutant: the transaction stays marked as committing.
ReleaseNothing(t, spent) ==
    \/ spent /\ prep' = [prep EXCEPT ![t] = Nil] /\ stage' = stage \ {t}
    \/ UNCHANGED <<prep, stage>>

\* The deferred releaseTransactionCommit, after cleanupTransaction if the
\* transaction is spent: what is or has become expired is removed, or stays
\* for the reaper.
Release(t, spent) ==
    IF prep[t] = Nil THEN UNCHANGED <<prep, stage>>
    ELSE LET expired == spent \/ prep[t].expired
         IN  \/ /\ expired
                /\ prep' = [prep EXCEPT ![t] = Nil] /\ stage' = stage \ {t}
             \/ /\ prep' = [prep EXCEPT ![t].committing = FALSE, ![t].expired = expired]
                /\ UNCHANGED stage

\* findCommittedSend: the journals of all accounts in turn; an account that
\* is being deleted, or a journal that cannot be read, ends the search.
FindCommitted(c) ==
    LET t == txn[c]
        found == {a \in Account : account[a] = "live" /\ RowsOf(a, t) # {}}
    IN  /\ pc[c] = "find"
        /\ \/ /\ \E a \in Account : account[a] = "deleting"
              /\ Answer(c, "deleting")
           \/ \E a \in found : \E k \in RowsOf(a, t) :
                 Answer(c, IF k = key[c] THEN journal[a][k].outcome ELSE "conflict")
           \/ /\ found = {} /\ \A a \in Account : account[a] # "deleting"
              /\ Answer(c, "missing")
           \/ Answer(c, "unavailable")
        /\ UNCHANGED <<durable, ui, up, running, memo, prep, used>>

\* Mutant: the key alone identifies the request.
SameRequestByKey(row, p) == TRUE

\* GetSendResult refuses a key that was used for another request hash.
SameRequest(row, p) == row.content = p.content

\* The account, its journal by transaction, its journal by key, its driver;
\* or the journal cannot be read.
Lookup(c) ==
    LET t == txn[c]
        k == key[c]
        p == work[c]
        a == p.account
        row == journal[a][k]
        rows == RowsOf(a, t)
    IN  /\ pc[c] = "lookup"
        /\ \/ /\ account[a] # "live"
              /\ Answer(c, IF account[a] = "gone" THEN "missing" ELSE "deleting")
              /\ Release(t, FALSE)
           \/ /\ account[a] = "live" /\ rows # {}
              /\ Answer(c, IF k \in rows THEN row.outcome ELSE "conflict")
              /\ Release(t, TRUE)
           \/ /\ account[a] = "live" /\ rows = {} /\ row # Nil
              /\ Answer(c, IF SameRequest(row, p) THEN row.outcome ELSE "conflict")
              /\ Release(t, SameRequest(row, p))
           \/ /\ account[a] = "live" /\ rows = {} /\ row = Nil /\ a \notin running
              /\ Answer(c, "inactive") /\ Release(t, FALSE)
           \/ /\ account[a] = "live"
              /\ Answer(c, "unavailable") /\ Release(t, FALSE)
           \/ /\ account[a] = "live" /\ rows = {} /\ row = Nil /\ a \in running
              /\ pc' = [pc EXCEPT ![c] = "reserve"]
              /\ UNCHANGED <<prep, stage, txn, key, work, result, reply, sendMu>>
        /\ UNCHANGED <<journal, account, crashes, orphans, ui, up, running, memo, used>>

\* ReserveSend inserts the provisional row, whose key and transaction must
\* be new in the table, or fails.
Reserve(c) ==
    LET t == txn[c]
        p == work[c]
    IN  /\ pc[c] = "reserve"
        /\ \/ /\ journal[p.account][key[c]] = Nil /\ RowsOf(p.account, t) = {}
              /\ journal' = [journal EXCEPT ![p.account][key[c]] =
                                [txn |-> t, content |-> p.content,
                                 state |-> "in_flight", outcome |-> "uncertain"]]
              /\ pc' = [pc EXCEPT ![c] = "send"]
              /\ UNCHANGED <<prep, stage, txn, key, work, result, reply, sendMu>>
           \/ /\ Answer(c, "unreserved") /\ Release(t, FALSE)
              /\ UNCHANGED journal
        /\ UNCHANGED <<account, crashes, orphans, ui, up, running, memo, used>>

\* The driver's Send ends without an action: a remembered result, a check
\* that fails, a runtime stopped meanwhile.
SendRefused(c) ==
    LET p == work[c]
        m == memo[p.account][key[c]]
    IN  /\ pc[c] = "send"
        /\ pc' = [pc EXCEPT ![c] = "finish"]
        /\ result' = [result EXCEPT ![c] =
                        IF m # Nil /\ m.content = p.content THEN m.outcome ELSE "error"]
        /\ UNCHANGED <<durable, ui, up, running, memo, prep, used, sendMu, txn, key, work, reply>>

\* Mutant: the driver repeats an action whose answer it does not get.
SendActsAgain(c) ==
    LET a == work[c].account
    IN  /\ pc[c] = "send" /\ a \in running /\ memo[a][key[c]] = Nil
        /\ ui[a][key[c]] < 2 /\ ui' = [ui EXCEPT ![a][key[c]] = @ + 1]
        /\ \E p \in {"send", "verify"} : pc' = [pc EXCEPT ![c] = p]
        /\ UNCHANGED <<durable, up, running, memo, prep, used, sendMu, txn, key, work, result, reply>>

\* The driver operates the official client: the action is issued, or its
\* outcome is not known.
SendActs(c) ==
    LET a == work[c].account
    IN  /\ pc[c] = "send" /\ a \in running /\ memo[a][key[c]] = Nil
        /\ \/ ui' = [ui EXCEPT ![a][key[c]] = @ + 1]
           \/ UNCHANGED ui
        /\ pc' = [pc EXCEPT ![c] = "verify"]
        /\ UNCHANGED <<durable, up, running, memo, prep, used, sendMu, txn, key, work, result, reply>>

\* Mutant: a message that is not found counts as not sent.
SendVerifiesOrFails(c) ==
    /\ pc[c] = "verify"
    /\ result' = [result EXCEPT ![c] = "error"]
    /\ pc' = [pc EXCEPT ![c] = "finish"]
    /\ UNCHANGED <<durable, ui, up, running, memo, prep, used, sendMu, txn, key, work, reply>>

\* The outgoing message is looked for, and the result remembered.
SendVerifies(c) ==
    LET p == work[c]
    IN  /\ pc[c] = "verify"
        /\ \E o \in {"uncertain"} \cup {x \in {"verified"} : ui[p.account][key[c]] > 0} :
              /\ result' = [result EXCEPT ![c] = o]
              /\ memo' = [memo EXCEPT ![p.account][key[c]] =
                            [content |-> p.content, outcome |-> o]]
        /\ pc' = [pc EXCEPT ![c] = "finish"]
        /\ UNCHANGED <<durable, ui, up, running, prep, used, sendMu, txn, key, work, reply>>

\* A plain error withdraws the reservation and the transaction stays usable;
\* if the row cannot be deleted the attempt counts as uncertain.
Withdraw(c) ==
    LET t == txn[c]
        a == work[c].account
    IN  /\ pc[c] = "finish" /\ result[c] = "error"
        /\ \/ /\ journal' = [journal EXCEPT ![a][key[c]] = Nil]
              /\ Answer(c, "rejected") /\ Release(t, FALSE)
           \/ /\ Answer(c, "uncertain") /\ Release(t, TRUE)
              /\ UNCHANGED journal
        /\ UNCHANGED <<account, crashes, orphans, ui, up, running, memo, used>>

\* Mutant: the outcome that could not be recorded is answered all the same.
FinalizeOptimistic(c) ==
    /\ pc[c] = "finish" /\ result[c] # "error"
    /\ Answer(c, result[c])
    /\ Release(txn[c], TRUE)
    /\ UNCHANGED <<journal, account, crashes, orphans, ui, up, running, memo, used>>

\* FinalizeSend records the outcome; if that fails the provisional one stays.
Finalize(c) ==
    LET t == txn[c]
        a == work[c].account
    IN  /\ pc[c] = "finish" /\ result[c] # "error"
        /\ \/ /\ journal' = [journal EXCEPT ![a][key[c]].state = "terminal",
                                            ![a][key[c]].outcome = result[c]]
              /\ Answer(c, result[c])
           \/ Answer(c, "uncertain") /\ UNCHANGED journal
        /\ Release(t, TRUE)
        /\ UNCHANGED <<account, crashes, orphans, ui, up, running, memo, used>>

-----------------------------------------------------------------------------
(* The rest of the daemon, as far as it matters here.                      *)

Start(a) ==
    /\ up /\ account[a] = "live" /\ a \notin running
    /\ running' = running \cup {a}
    /\ UNCHANGED <<durable, ui, up, memo, prep, used, sendMu, pc, txn, key, work, result, reply>>

\* The driver takes its operation mutex to stop, as it does to send.
Stop(a) ==
    /\ a \in running
    /\ \A c \in Caller : pc[c] = "verify" => work[c].account # a
    /\ running' = running \ {a}
    /\ memo' = [memo EXCEPT ![a] = NoRow]
    /\ UNCHANGED <<durable, ui, up, prep, used, sendMu, pc, txn, key, work, result, reply>>

\* RemoveAccount holds deleteMu against every commit past its first lock.
RemoveBegin(a) ==
    /\ up /\ sendMu = Nil /\ account[a] = "live" /\ a \notin running
    /\ account' = [account EXCEPT ![a] = "deleting"]
    /\ UNCHANGED <<journal, stage, crashes, orphans, ui, up, running, memo, prep, used, sendMu,
                   pc, txn, key, work, result, reply>>

RemoveFinish(a) ==
    /\ up /\ sendMu = Nil /\ account[a] = "deleting"
    /\ account' = [account EXCEPT ![a] = "gone"]
    /\ journal' = [journal EXCEPT ![a] = NoRow]
    /\ UNCHANGED <<stage, crashes, orphans, ui, up, running, memo, prep, used, sendMu,
                   pc, txn, key, work, result, reply>>

\* Memory is lost; the journal and the staging directories are not.
Forgets ==
    /\ up' = FALSE
    /\ running' = {} /\ memo' = [a \in Account |-> NoRow]
    /\ prep' = [t \in Txn |-> Nil] /\ sendMu' = Nil
    /\ pc' = [c \in Caller |-> "idle"]
    /\ txn' = [c \in Caller |-> Nil] /\ key' = [c \in Caller |-> Nil]
    /\ work' = [c \in Caller |-> Nil]
    /\ result' = [c \in Caller |-> "none"] /\ reply' = [c \in Caller |-> NoReply]

Crash ==
    /\ up /\ crashes < MaxCrashes
    /\ Forgets
    /\ crashes' = crashes + 1
    /\ UNCHANGED <<journal, stage, account, orphans, ui, used>>

\* closeTransactions, once no commit holds sendMu, removes the staging
\* directories of the known transactions as far as it can.
Close ==
    /\ up /\ crashes < MaxCrashes /\ sendMu = Nil
    /\ Forgets
    /\ \E S \in SUBSET {t \in Txn : prep[t] # Nil} : stage' = stage \ S
    /\ crashes' = crashes + 1
    /\ UNCHANGED <<journal, account, orphans, ui, used>>

\* initializeTransactionStaging empties the staging root.
Restart ==
    /\ ~up
    /\ up' = TRUE
    /\ stage' = {} /\ orphans' = {}
    /\ UNCHANGED <<journal, account, crashes, ui, running, memo, prep, used, sendMu,
                   pc, txn, key, work, result, reply>>

-----------------------------------------------------------------------------
Init ==
    /\ journal = [a \in Account |-> NoRow]
    /\ stage = {} /\ orphans = {}
    /\ account = [a \in Account |-> "live"]
    /\ crashes = 0
    /\ ui = [a \in Account |-> [k \in Key |-> 0]]
    /\ up = TRUE
    /\ running = {} /\ memo = [a \in Account |-> NoRow]
    /\ prep = [t \in Txn |-> Nil] /\ used = {} /\ sendMu = Nil
    /\ pc = [c \in Caller |-> "idle"]
    /\ txn = [c \in Caller |-> Nil] /\ key = [c \in Caller |-> Nil]
    /\ work = [c \in Caller |-> Nil]
    /\ result = [c \in Caller |-> "none"] /\ reply = [c \in Caller |-> NoReply]

Prepare(c) ==
    \/ \E t \in Txn, a \in Account, h \in Content : PrepareStage(c, t, a, h)
    \/ PrepareInsert(c) \/ PrepareFails(c)

Commit(c) ==
    \/ CommitLock(c) \/ FindCommitted(c) \/ Lookup(c) \/ Reserve(c)
    \/ SendRefused(c) \/ SendActs(c) \/ SendVerifies(c)
    \/ Withdraw(c) \/ Finalize(c)

Environment ==
    \/ \E a \in Account : Start(a) \/ Stop(a) \/ RemoveBegin(a) \/ RemoveFinish(a)
    \/ \E t \in Txn : Expire(t)
    \/ Crash \/ Close \/ Restart

Next ==
    \/ \E c \in Caller : Prepare(c) \/ Commit(c) \/ \E t \in Txn, k \in Key : CommitBegin(c, t, k)
    \/ \E t \in Txn : Prune(t)
    \/ Environment

Spec == Init /\ [][Next]_vars

\* Time passes, goroutines run, the daemon is started again, the reaper
\* succeeds in the end, and a Go mutex starves nobody.
FairSpec ==
    /\ Spec
    /\ \A t \in Txn : WF_vars(Expire(t)) /\ WF_vars(Prune(t))
    /\ \A c \in Caller :
          /\ WF_vars(Commit(c)) /\ SF_vars(CommitLock(c))
          /\ WF_vars(PrepareInsert(c) \/ PrepareFails(c))
    /\ WF_vars(Restart)

-----------------------------------------------------------------------------
(* What a send must guarantee.                                             *)

Label == {"idle", "prepare", "wait", "find", "lookup", "reserve", "send", "verify", "finish"}

Code == {"none", "verified", "uncertain", "rejected", "conflict", "missing",
         "deleting", "inactive", "unreserved", "unavailable"}

\* The shape of the state.
TypeOK ==
    /\ journal \in [Account -> [Key -> Row \cup {Nil}]]
    /\ stage \in SUBSET Txn
    /\ account \in [Account -> {"live", "deleting", "gone"}]
    /\ crashes \in 0..MaxCrashes
    /\ orphans \in SUBSET Txn
    /\ ui \in [Account -> [Key -> Nat]]
    /\ up \in BOOLEAN
    /\ running \in SUBSET Account
    /\ memo \in [Account -> [Key -> Memo \cup {Nil}]]
    /\ prep \in [Txn -> Prepared \cup {Nil}]
    /\ used \in SUBSET Txn
    /\ sendMu \in Caller \cup {Nil}
    /\ pc \in [Caller -> Label]
    /\ txn \in [Caller -> Txn \cup {Nil}]
    /\ key \in [Caller -> Key \cup {Nil}]
    /\ work \in [Caller -> Prepared \cup {Nil}]
    /\ result \in [Caller -> {"none", "verified", "uncertain", "error"}]
    /\ reply \in [Caller -> [code : Code, txn : Txn \cup {Nil}, key : Key \cup {Nil}]]

\* The staged attachments are there for as long as the driver may read them:
\* neither expiry nor the reaper removes them under a commit.
StagedUntilSent ==
    \A c \in Caller : pc[c] \in {"send", "verify"} => txn[c] \in stage

\* A send action was issued, or may have been, only if the journal says so:
\* whatever fails afterwards, a repeated key finds the row.
NoUnrecordedSend ==
    \A a \in Account, k \in Key :
        ui[a][k] > 0 /\ account[a] # "gone" => journal[a][k] # Nil

\* Callers told the outcome of the same commit are told the same outcome.
CallersAgree ==
    \A c, d \in Caller :
        /\ reply[c].code \in {"verified", "uncertain"}
        /\ reply[d].code \in {"verified", "uncertain"}
        /\ reply[c].txn = reply[d].txn /\ reply[c].key = reply[d].key
        => reply[c].code = reply[d].code

\* "Verified" is answered only for an action that was issued, with the
\* content that was prepared; "failed before any send action" only when none
\* was issued.
TruthfulStep ==
    \A c \in Caller :
        LET a == work[c].account
            k == key[c]
        IN  work[c] # Nil /\ reply'[c] # reply[c] =>
                /\ reply'[c].code = "verified" =>
                      ui[a][k] = 1 /\ journal'[a][k].content = work[c].content
                /\ reply'[c].code = "rejected" => ui[a][k] = 0

AnswersAreTrue == [][TruthfulStep]_vars

Slot == Account \X Key

\* The abstract state of a slot: the journal row, and before the terminal
\* outcome whether the client was operated.
slot ==
    [s \in Slot |->
        LET row == journal[s[1]][s[2]]
        IN  IF account[s[1]] = "gone" THEN "gone"
            ELSE IF row = Nil THEN "free"
            ELSE IF row.state = "terminal" THEN row.outcome
            ELSE IF ui[s[1]][s[2]] > 0 THEN "acted" ELSE "reserved"]

\* The actions issued for a slot, all of them, in whatever stage it is.
acts == [s \in Slot |-> ui[s[1]][s[2]]]

Promise == INSTANCE SendOnce WITH Slot <- Slot, slot <- slot, acts <- acts

\* Committing implements at-most-once sends: every step of the daemon is one
\* of the promise's, or changes nothing it speaks of.  A second action for a
\* slot, or one after its outcome, is no step of the promise.
SendsOnce == Promise!Spec

\* Staged attachments never stay for good, whatever became of their
\* transaction: sent, rejected, abandoned, or lost in a crash.  The one
\* exception is a directory that its own failed preparation could not remove
\* (stageSendAttachments): the reaper does not know it, and it goes when the
\* next daemon starts.
StagingReclaimed ==
    /\ \A t \in Txn : t \in stage ~> (t \notin stage \/ t \in orphans)
    /\ \A t \in Txn : ~up ~> (up /\ t \notin stage)

\* Every commit is answered, or ends with its daemon.
CommitsReturn == \A c \in Caller : pc[c] # "idle" ~> pc[c] = "idle"
=============================================================================
