---------------------------- MODULE IngestProofs ----------------------------
(***************************************************************************)
(* The ingest loops, the readers and the containers of the lifecycle, for  *)
(* every number of accounts, handlers, objects, attempts and restarts.     *)
(*                                                                         *)
(* Three layers, each proved on top of the ones before it:                 *)
(*   HostInv  which operation is at which label, and what it relies on in  *)
(*            the registry, the directories and the containers;            *)
(*   HeapInv  which runtime object, channel and ingest mutex belong        *)
(*            together, and which runtime a stop, a read or a loop is on;  *)
(*   RunInv   a container runs only for a runtime that is published or     *)
(*            about to be, unless it was left behind.                      *)
(*                                                                         *)
(* For HeapInv a step is either Calm (its process moves between labels and *)
(* no object changes), Steady (live loops end and processes leave, nothing *)
(* begins), or one of the few that begin a loop, end one or drop a         *)
(* runtime, which get a lemma of their own.                                *)
(***************************************************************************)
EXTENDS LifecycleProofs

StopLabel   == {"stop", "stop_wait", "stop_mu", "stop_driver"}
ReadLabel   == {"rd_sync", "rd_driver", "rd_index"}
StatusLabel == {"st_probe", "st_live", "st_stopped"}

\* The labels of each operation, and who runs it.
Working(c) ==
    /\ op[c] = "none" => pc[c] \in {"idle", "rs_next"}
    /\ op[c] = "activate" =>
         c \in Handler /\ pc[c] \in {"lock", "drop", "register", "start", "publish"} \cup StopLabel
    /\ op[c] = "restore" =>
         /\ c = Restorer
         /\ pc[c] \in {"lock", "drop", "register", "start", "publish", "refresh"} \cup StopLabel
    /\ op[c] = "deactivate" =>
         c \in Handler /\ pc[c] \in {"lock", "drop", "unregister"} \cup StopLabel
    /\ op[c] = "shutdown" => c \in Platform /\ daemon = "closed" /\ pc[c] \in StopLabel
    /\ op[c] = "status" => c \in Handler /\ pc[c] \in StatusLabel
    /\ op[c] = "read" => c \in Handler /\ pc[c] \in ReadLabel
    /\ op[c] = "remove" => c \in Handler /\ pc[c] \in RemoveLabel
    /\ pc[c] = "rs_next" => c = Restorer
    /\ daemon = "closed" => op[c] \in {"none", "shutdown"} /\ pc[c] # "rs_next"

\* Every process is at a label of its operation.
Works == \A c \in Proc : Working(c)

\* A reader keeps removals out, and its account stays as it found it.
Readers ==
    \A c \in Proc : op[c] = "read" =>
        deleteMu = Nil /\ acct[c] \in Account /\ Usable(reg, acct[c])

\* A usable account has its directories: Add makes them first, Purge marks first.
Profiles == \A a \in Account : Usable(reg, a) => dir[a]

\* A container has its directories, and a removal past the purge's check has found
\* none running.
Clients ==
    /\ NoClientWithoutProfile
    /\ \A c \in Proc : pc[c] \in {"rm_dirs", "rm_save"} => ~client[acct[c]]

\* What a restore works on was requested before it began.
Slots == \A c \in Proc : op[c] = "restore" /\ pc[c] \in LockedLabel => reg[acct[c]].active

\* What the operations rely on outside the daemon: inductive with LifecycleInv.
HostInv == Works /\ Readers /\ Profiles /\ Clients /\ Slots

\* An object in use has its account and its channel, and a channel with a live
\* loop or a repair has its runtime.
Objects ==
    /\ \A r \in Runtime : ~FreeRuntime(r) =>
         rt[r].acct \in Account /\ rt[r].done \in Chan /\ loop[rt[r].done].rt = r
    /\ \A k \in Chan : LoopLive(k) \/ repairs[k] > 0 => loop[k].rt \in Runtime

\* A live loop is the current generation of its runtime.
Generations == \A k \in Chan : LoopLive(k) => rt[loop[k].rt].done = k

\* A stop works on a runtime of its platform, the published one except in a
\* shutdown; past the wait for its done channel the loop has ended.
Stops(c) ==
    /\ pc[c] \in StopLabel \cup {"drop"} =>
         /\ cur[c] \in Runtime
         /\ PlatformOf(rt[cur[c]].acct) = PlatformOf(acct[c])
         /\ op[c] # "shutdown" => active[PlatformOf(acct[c])] = cur[c]
    /\ pc[c] \in {"stop_mu", "stop_driver", "drop"} => ~LoopLive(rt[cur[c]].done)

\* A read synchronises the runtime of its own account.
Syncs(c) == pc[c] \in {"rd_sync", "rd_driver"} => cur[c] \in Runtime /\ rt[cur[c]].acct = acct[c]

\* Whoever is in a driver call for a runtime holds the ingest mutex of it.
Mutexes ==
    /\ \A k \in Chan : loop[k].pc = "driver" => mu[loop[k].rt] = k
    /\ \A c \in Proc : pc[c] \in {"rd_driver", "stop_driver"} => mu[cur[c]] = c

\* Nobody ingests on a runtime that drains or has stopped.
Up == \A r \in Runtime : Ingesting(r) => rt[r].phase = "up"

\* A live loop belongs to a usable account, and to the published runtime until the
\* manager is closed.
Feeds ==
    \A k \in Chan : LoopLive(k) =>
        LET r == loop[k].rt
        IN  /\ Usable(reg, rt[r].acct)
            /\ active[PlatformOf(rt[r].acct)] = r \/ daemon = "closed"

\* What the objects of the manager are to each other: inductive with HostInv.
HeapInv == /\ Objects /\ Generations /\ (\A c \in Proc : Stops(c) /\ Syncs(c))
           /\ Mutexes /\ Up /\ Feeds

-----------------------------------------------------------------------------
(* What a step does to the host: the registry, the directories, the        *)
(* containers.                                                             *)

\* The steps that write one of them.
HostStep(c) ==
    \/ \E a \in Account : Add(c, a)
    \/ StopOk(c) \/ StopFail(c) \/ Register(c) \/ StartOk(c) \/ StartFail(c) \/ Unregister(c)
    \/ \E ok \in BOOLEAN : Refresh(c, ok)
    \/ \E r \in Runtime, k \in Chan, ok \in BOOLEAN : Publish(c, r, k, ok)
    \/ StatusWrite(c)
    \/ RemoveMark(c) \/ RemoveDirs(c) \/ RemoveSave(c)

\* All others leave the host alone, except that a restart opens the registry.
LEMMA HostSteps ==
    ASSUME [Next]_vars
    PROVE  \/ UNCHANGED <<reg, dir, client>>
           \/ Restart
           \/ \E c \in Proc : HostStep(c)
<1> USE DEF hostVars
<1>1. ASSUME NEW c \in Proc, Request(c) PROVE UNCHANGED <<reg, dir, client>> \/ HostStep(c)
  BY <1>1, Zenon DEF Request, Begin, StatusBegin, ReadBegin, RemoveBegin, HostStep
<1>2. ASSUME NEW c \in Proc, Lifecycle(c) PROVE UNCHANGED <<reg, dir, client>> \/ HostStep(c)
  BY <1>2, Zenon DEF Lifecycle, LockTimeout, AcquireActivate, AcquireDeactivate, StopCancel,
     StopWaitDone, StopTimeout, StopDrain, DropRuntime, HostStep
<1>3. ASSUME NEW c \in Proc, Observe(c) PROVE UNCHANGED <<reg, dir, client>> \/ HostStep(c)
  BY <1>3, Zenon DEF Observe, StatusProbe, SyncLock, SyncDone, ReadIndex, HostStep
<1>4. ASSUME NEW c \in Proc, Remove(c) PROVE UNCHANGED <<reg, dir, client>> \/ HostStep(c)
  BY <1>4, Zenon DEF Remove, RemovePurge, HostStep
<1>5. ASSUME NEW k \in Chan, Ingest(k) PROVE UNCHANGED <<reg, dir, client>>
  BY <1>5, Zenon DEF Ingest, LoopExit, LoopBegin, LoopLock, LoopDone, Repair, RepairClosed
<1>6. RestoreRetry => UNCHANGED <<reg, dir, client>>
  BY Zenon DEF RestoreRetry, RestoreAttempt, RestoreAttemptEnd, RestoreNext
<1>7. Process => UNCHANGED <<reg, dir, client>> \/ Restart
  BY Zenon DEF Process, ShutdownBegin, ShutdownManager, Terminate, Stopped, vars
<1>8. UNCHANGED vars => UNCHANGED <<reg, dir, client>>
  BY Zenon DEF vars
<1> QED
  BY <1>1, <1>2, <1>3, <1>4, <1>5, <1>6, <1>7, <1>8, Zenon DEF Next

\* Whether entry b exists and is marked is the same in both registries.
SameMark(g, h, b) == h[b].status = g[b].status /\ h[b].deleting = g[b].deleting

\* Status writes and slot moves, and the normalisation of Open, keep that.
LEMMA MarkKept ==
    ASSUME NEW g \in Registry, NEW a \in Account, NEW s, NEW b \in Account
    PROVE  /\ SameMark(g, UpdateStatus(g, a, s), b)
           /\ SameMark(g, ActivateAccount(g, a), b)
           /\ SameMark(g, DeactivateAccount(g, a), b)
           /\ SameMark(g, OpenRegistry(g), b)
           /\ a # b => SameMark(g, AddAccount(g, a), b)
           /\ a # b => SameMark(g, MarkDeleting(g, a), b)
           /\ a # b => SameMark(g, RemoveEntry(g, a), b)
           /\ MarkDeleting(g, a)[a].status = g[a].status /\ MarkDeleting(g, a)[a].deleting
           /\ RemoveEntry(g, a)[a].status = "gone"
           /\ AddAccount(g, a)[a].status = "present"
           /\ AddAccount(g, a)[a].deleting = g[a].deleting
<1> USE DEF SameMark, Registry, Entry
<1>1. SameMark(g, UpdateStatus(g, a, s), b)
  BY DEF UpdateStatus
<1>2. SameMark(g, ActivateAccount(g, a), b)
  BY DEF ActivateAccount
<1>3. SameMark(g, DeactivateAccount(g, a), b)
  BY DEF DeactivateAccount
<1>4. SameMark(g, OpenRegistry(g), b)
  BY DEF OpenRegistry
<1>5. a # b => SameMark(g, AddAccount(g, a), b)
  BY DEF AddAccount
<1>6. a # b => SameMark(g, MarkDeleting(g, a), b)
  BY DEF MarkDeleting
<1>7. a # b => SameMark(g, RemoveEntry(g, a), b)
  BY DEF RemoveEntry
<1>8. MarkDeleting(g, a)[a].status = g[a].status /\ MarkDeleting(g, a)[a].deleting
  BY DEF MarkDeleting
<1>9. RemoveEntry(g, a)[a].status = "gone"
  BY DEF RemoveEntry
<1>10. AddAccount(g, a)[a].status = "present" /\ AddAccount(g, a)[a].deleting = g[a].deleting
  BY DEF AddAccount
<1> QED
  BY <1>1, <1>2, <1>3, <1>4, <1>5, <1>6, <1>7, <1>8, <1>9, <1>10

\* The account a step of c works on, where the step writes the registry.
LEMMA KnowsAccount ==
    ASSUME LifecycleInv, NEW c \in Proc,
           pc[c] \in {"stop_driver", "register", "start", "publish", "refresh", "unregister"} \cup RemoveLabel
    PROVE  acct[c] \in Account
  BY DEF LifecycleInv, Relies, LockedLabel

\* What a step does to entry b: only additions and removals change that.
EntryMove(b) ==
    \/ SameMark(reg, reg', b)
    \/ \E c \in Proc : Add(c, b)
    \/ \E c \in Proc : /\ RemoveMark(c) /\ acct[c] = b
                       /\ CanBeginDelete(reg, b) /\ reg'[b].status = reg[b].status
                       /\ reg'[b].deleting
    \/ \E c \in Proc : RemoveSave(c) /\ acct[c] = b /\ reg'[b].status = "gone"

\* Every step moves entry b in one of these ways.
LEMMA EntryMoves ==
    ASSUME TypeOK, LifecycleInv, [Next]_vars, NEW b \in Account
    PROVE  EntryMove(b)
<1>0. reg \in Registry
  BY TypeParts DEF HostType
<1>1. CASE reg' = reg
  BY <1>1 DEF EntryMove, SameMark
<1>2. CASE Restart
  BY <1>0, <1>2, MarkKept DEF Restart, EntryMove
<1>3. ASSUME NEW c \in Proc, HostStep(c)
      PROVE  EntryMove(b)
  <2>1. CASE \E a \in Account : Add(c, a)
    <3>1. PICK a \in Account : Add(c, a) /\ reg' = AddAccount(reg, a)
      BY <2>1 DEF Add
    <3>2. CASE a = b
      BY <1>3, <3>1, <3>2 DEF EntryMove
    <3>3. CASE a # b
      BY <1>0, <3>1, <3>3, MarkKept DEF EntryMove
    <3> QED
      BY <3>2, <3>3
  <2>2. CASE StopOk(c) \/ StopFail(c) \/ StartOk(c) \/ RemoveDirs(c)
    BY <1>1, <2>2 DEF StopOk, StopFail, StartOk, RemoveDirs
  <2>3. CASE Register(c)
    <3>1. pc[c] = "register" /\ (reg' = reg \/ reg' = ActivateAccount(reg, acct[c]))
      BY <2>3 DEF Register
    <3> QED
      BY <1>0, <1>1, <3>1, KnowsAccount, MarkKept DEF EntryMove
  <2>4. CASE StartFail(c)
    <3>1. acct[c] \in Account
      BY <2>4, KnowsAccount DEF StartFail
    <3>2. reg' \in FailureRecords(c)
      BY <2>4 DEF StartFail
    <3>3. PICK g \in {reg, UpdateStatus(reg, acct[c], "DEGRADED")} :
             reg' = g \/ reg' = DeactivateAccount(g, acct[c])
      BY <3>2 DEF FailureRecords
    <3>4. g \in Registry /\ SameMark(reg, g, b)
      BY <1>0, <3>1, MarkKept, UpdateStatusType DEF SameMark, RuntimeState
    <3>5. SameMark(g, reg', b)
      BY <3>1, <3>3, <3>4, MarkKept DEF SameMark
    <3> QED
      BY <3>4, <3>5 DEF SameMark, EntryMove
  <2>5. CASE Unregister(c)
    <3>1. pc[c] = "unregister" /\ (reg' = reg \/ reg' = DeactivateAccount(reg, acct[c]))
      BY <2>5 DEF Unregister
    <3> QED
      BY <1>0, <1>1, <3>1, KnowsAccount, MarkKept DEF EntryMove
  <2>6. CASE \/ \E ok \in BOOLEAN : Refresh(c, ok)
             \/ \E r \in Runtime, k \in Chan, ok \in BOOLEAN : Publish(c, r, k, ok)
    <3>1. pc[c] \in {"refresh", "publish"} /\ \E s : reg' = reg \/ reg' = UpdateStatus(reg, acct[c], s)
      BY <2>6 DEF Refresh, Publish
    <3> QED
      BY <1>0, <1>1, <3>1, KnowsAccount, MarkKept DEF EntryMove
  <2>7. CASE StatusWrite(c)
    <3>1. \E s : reg' = reg \/ reg' = UpdateStatus(reg, acct[c], s)
      BY <2>7 DEF StatusWrite
    <3> QED
      BY <1>0, <3>1 DEF UpdateStatus, SameMark, EntryMove, Registry, Entry
  <2>8. CASE RemoveMark(c)
    <3>1. acct[c] \in Account
      BY <2>8, KnowsAccount DEF RemoveMark, RemoveLabel
    <3>2. CASE CanBeginDelete(reg, acct[c]) /\ reg' = MarkDeleting(reg, acct[c])
      BY <1>0, <2>8, <3>1, <3>2, MarkKept DEF EntryMove
    <3> QED
      BY <1>1, <2>8, <3>2 DEF RemoveMark
  <2>9. CASE RemoveSave(c)
    <3>1. acct[c] \in Account
      BY <2>9, KnowsAccount DEF RemoveSave, RemoveLabel
    <3>2. CASE reg' = RemoveEntry(reg, acct[c])
      BY <1>0, <2>9, <3>1, <3>2, MarkKept DEF EntryMove
    <3> QED
      BY <1>1, <2>9, <3>2 DEF RemoveSave
  <2> QED
    BY <1>3, <2>1, <2>2, <2>3, <2>4, <2>5, <2>6, <2>7, <2>8, <2>9, Zenon DEF HostStep
<1> QED
  BY <1>1, <1>2, <1>3, HostSteps
-----------------------------------------------------------------------------
(* What a step does to the processes.                                      *)

\* Process d does not move.
Still(d) == pc'[d] = pc[d] /\ op'[d] = op[d] /\ acct'[d] = acct[d] /\ cur'[d] = cur[d]

\* A return ends the operation of its own process only.
LEMMA ReturnEnds ==
    ASSUME ProcType, NEW c \in Proc, NEW ok, Return(c, ok)
    PROVE  /\ pc'[c] = IF c = Restorer THEN "rs_next" ELSE "idle"
           /\ op'[c] = "none" /\ acct'[c] = Nil /\ cur'[c] = Nil
           /\ \A d \in Proc \ {c} : Still(d)
  BY DEF ProcType, Return, Still

\* A move to a label stays in the operation.
LEMMA GotoStays ==
    ASSUME ProcType, NEW c \in Proc, NEW l, Goto(c, l)
    PROVE  /\ pc'[c] = l /\ op' = op /\ acct' = acct /\ cur' = cur
           /\ \A d \in Proc \ {c} : Still(d)
  BY DEF ProcType, Goto, Still

\* So does taking the operation mutex.
LEMMA EnterStays ==
    ASSUME ProcType, NEW c \in Proc, NEW l, NEW r, Enter(c, l, r)
    PROVE  /\ pc'[c] = l /\ op' = op /\ acct' = acct /\ cur'[c] = r
           /\ \A d \in Proc \ {c} : Still(d)
  BY DEF ProcType, Enter, Still

\* The steps of process c.
Acts(c) == Request(c) \/ Lifecycle(c) \/ Observe(c) \/ Remove(c)

\* They leave the other processes and the daemon's state alone.
LEMMA OneMoves ==
    ASSUME ProcType, NEW c \in Proc, Acts(c)
    PROVE  daemon' = daemon /\ \A d \in Proc \ {c} : Still(d)
<1> DEFINE Rest == \A d \in Proc \ {c} : Still(d)
<1>1. ASSUME NEW ok, Return(c, ok) PROVE Rest
  BY <1>1, ReturnEnds
<1>2. ASSUME NEW l, Goto(c, l) PROVE Rest
  BY <1>2, GotoStays
<1>3. ASSUME NEW l, NEW r, Enter(c, l, r) PROVE Rest
  BY <1>3, EnterStays
<1>4. CASE Request(c)
  <2>1. daemon' = daemon
    BY <1>4, Zenon DEF Request, Begin, StatusBegin, ReadBegin, RemoveBegin, Add
  <2>2. ASSUME NEW a \in Account, NEW o, Begin(c, o, a) PROVE Rest
    BY <2>2 DEF Begin, ProcType, Still
  <2>3. ASSUME NEW a \in Account, StatusBegin(c, a) PROVE Rest
    BY <2>3 DEF StatusBegin, ProcType, Still
  <2>4. ASSUME NEW a \in Account, ReadBegin(c, a) PROVE Rest
    BY <2>4 DEF ReadBegin, ProcType, Still
  <2>5. ASSUME NEW a \in Account, RemoveBegin(c, a) PROVE Rest
    BY <2>5 DEF RemoveBegin, ProcType, Still
  <2>6. ASSUME NEW a \in Account, Add(c, a) PROVE Rest
    BY <2>6 DEF Add, procVars, Still
  <2> QED
    BY <1>4, <2>1, <2>2, <2>3, <2>4, <2>5, <2>6, Zenon DEF Request
<1>5. CASE Lifecycle(c)
  <2>1. daemon' = daemon
    BY <1>5, Zenon DEF Lifecycle, LockTimeout, AcquireActivate, AcquireDeactivate, StopCancel,
       StopWaitDone, StopTimeout, StopDrain, StopOk, StopFail, DropRuntime, Register, StartOk,
       StartFail, Unregister, Refresh, Publish
  <2>2. CASE DropRuntime(c)
    BY <2>2 DEF DropRuntime, ProcType, Still
  <2>3. CASE AcquireActivate(c)
    BY <1>1, <1>3, <2>3, Zenon DEF AcquireActivate
  <2>4. CASE ~DropRuntime(c) /\ ~AcquireActivate(c)
    BY <1>1, <1>2, <1>3, <1>5, <2>4, Zenon
       DEF Lifecycle, LockTimeout, AcquireDeactivate, StopCancel, StopWaitDone, StopTimeout,
           StopDrain, StopOk, StopFail, Register, StartOk, StartFail, Unregister, Refresh, Publish
  <2> QED
    BY <2>1, <2>2, <2>3, <2>4
<1>6. CASE Observe(c)
  BY <1>1, <1>2, <1>6, Zenon DEF Observe, StatusProbe, StatusWrite, SyncLock, SyncDone, ReadIndex
<1>7. CASE Remove(c)
  BY <1>1, <1>2, <1>7, Zenon
     DEF Remove, RemoveMark, RemovePurge, RemoveDirs, RemoveSave, RemoveReturn
<1> QED
  BY <1>4, <1>5, <1>6, <1>7 DEF Acts

\* The operation that a label belongs to.
LEMMA OpsOf ==
    ASSUME ProcType, NEW c \in Proc, Working(c)
    PROVE  /\ pc[c] \in {"lock", "drop"} => op[c] \in {"activate", "restore", "deactivate"}
           /\ pc[c] \in StopLabel => op[c] \in {"activate", "restore", "deactivate", "shutdown"}
           /\ pc[c] \in {"register", "start", "publish"} => op[c] \in {"activate", "restore"}
           /\ pc[c] = "refresh" => op[c] = "restore"
           /\ pc[c] = "unregister" => op[c] = "deactivate"
           /\ pc[c] \in StatusLabel => op[c] = "status"
           /\ pc[c] \in ReadLabel => op[c] = "read"
           /\ pc[c] \in RemoveLabel => op[c] = "remove"
           /\ pc[c] \in {"idle", "rs_next"} => op[c] = "none"
  BY DEF ProcType, OpKind, Working, StopLabel, StatusLabel, ReadLabel, RemoveLabel

\* No process is of two kinds.
LEMMA Kinds ==
    /\ Restorer \in Proc /\ Restorer \notin Handler /\ Restorer \notin Platform
    /\ Handler \subseteq Proc /\ Platform \subseteq Proc /\ Handler \cap Platform = {}
  BY PoolsDisjoint DEF Restorer, Platform, Proc

\* A process that returns has no operation, and is then where it belongs.
LEMMA ReturnWorks ==
    ASSUME ProcType, NEW c \in Proc, Working(c), op[c] # "none", NEW ok, Return(c, ok),
           daemon' = daemon
    PROVE  Working(c)'
  BY ReturnEnds, Kinds DEF Working

\* The steps of a stop are taken at its labels.
LEMMA StopsAt ==
    ASSUME NEW c \in Proc
    PROVE  StopCancel(c) \/ StopWaitDone(c) \/ StopTimeout(c) \/ StopDrain(c) \/ StopOk(c) \/ StopFail(c)
             => pc[c] \in StopLabel
<1>1. StopCancel(c) \/ StopWaitDone(c) \/ StopTimeout(c) => pc[c] \in StopLabel
  BY DEF StopCancel, StopWaitDone, StopTimeout, StopLabel
<1>2. StopDrain(c) \/ StopOk(c) => pc[c] \in StopLabel
  BY DEF StopDrain, StopOk, StopLabel
<1>3. StopFail(c) => pc[c] \in StopLabel
  BY DEF StopFail, StopLabel
<1> QED
  BY <1>1, <1>2, <1>3

\* A step of a lifecycle operation stays within its operation.
LEMMA LifecycleWorks ==
    ASSUME TypeOK, NEW c \in Proc, Working(c), Lifecycle(c)
    PROVE  Working(c)'
<1> USE TypeParts
<1>0. daemon' = daemon
  BY OneMoves DEF Acts
<1>1. ASSUME NEW ok, Return(c, ok), pc[c] \in {"lock", "drop"} \cup LockedLabel PROVE Working(c)'
  BY <1>0, <1>1, OpsOf, ReturnWorks DEF LockedLabel, StopLabel
<1>2. ASSUME NEW l, Goto(c, l) \/ \E r : Enter(c, l, r),
             l \in {"stop", "stop_wait", "stop_mu", "stop_driver", "drop", "register", "start",
                    "publish", "refresh", "unregister"},
             op[c] = "shutdown" => l \in StopLabel,
             l \in {"register", "start", "publish"} => op[c] \in {"activate", "restore"},
             l = "refresh" => op[c] = "restore",
             l = "unregister" => op[c] = "deactivate",
             op[c] \in {"activate", "restore", "deactivate", "shutdown"}
      PROVE  Working(c)'
  <2>1. pc'[c] = l /\ op' = op
    BY <1>2, GotoStays, EnterStays
  <2> QED
    BY <1>0, <1>2, <2>1 DEF Working, StopLabel
<1>3. CASE LockTimeout(c)
  BY <1>1, <1>3 DEF LockTimeout
<1>4. CASE AcquireActivate(c)
  <2>1. pc[c] = "lock" /\ op[c] \in {"activate", "restore"}
    BY <1>4 DEF AcquireActivate
  <2>2. \/ \E ok : Return(c, ok)
        \/ \E l \in {"register", "stop"} : \E r : Enter(c, l, r)
        \/ op[c] = "restore" /\ \E r : Enter(c, "refresh", r)
    BY <1>4, Zenon DEF AcquireActivate, SwitchLabel, Restoring
  <2> QED
    BY <1>1, <1>2, <2>1, <2>2 DEF StopLabel
<1>5. CASE AcquireDeactivate(c)
  <2>1. pc[c] = "lock" /\ op[c] = "deactivate"
    BY <1>5 DEF AcquireDeactivate
  <2>2. \/ \E ok : Return(c, ok)
        \/ \E l \in {"unregister", "stop"} : \E r : Enter(c, l, r)
    BY <1>5, Zenon DEF AcquireDeactivate
  <2> QED
    BY <1>1, <1>2, <2>1, <2>2 DEF StopLabel
<1>6. CASE StopCancel(c) \/ StopWaitDone(c) \/ StopTimeout(c) \/ StopDrain(c) \/ StopOk(c) \/ StopFail(c)
  <2>1. pc[c] \in StopLabel
    BY <1>6, StopsAt
  <2>2. \/ \E ok : Return(c, ok)
        \/ \E l \in {"stop_wait", "stop_mu", "stop_driver"} : Goto(c, l)
        \/ op[c] # "shutdown" /\ Goto(c, "drop")
    BY <1>6, Zenon DEF StopCancel, StopWaitDone, StopTimeout, StopDrain, StopOk, StopFail,
       RestartOnFailure
  <2> QED
    BY <1>1, <1>2, <2>1, <2>2, OpsOf DEF StopLabel, LockedLabel
<1>7. CASE DropRuntime(c)
  BY <1>0, <1>7, OpsOf DEF DropRuntime, Working, ProcType
<1>8. CASE Register(c) \/ StartOk(c) \/ StartFail(c)
  <2>1. pc[c] \in {"register", "start"}
    BY <1>8 DEF Register, StartOk, StartFail
  <2>2. \/ \E ok : Return(c, ok)
        \/ \E l \in {"start", "publish"} : Goto(c, l)
    BY <1>8, Zenon DEF Register, StartOk, StartFail
  <2> QED
    BY <1>1, <1>2, <2>1, <2>2, OpsOf DEF LockedLabel
<1>9. CASE \/ Unregister(c)
           \/ \E ok \in BOOLEAN : Refresh(c, ok)
           \/ \E r \in Runtime, k \in Chan, ok \in BOOLEAN : Publish(c, r, k, ok)
  <2>1. pc[c] \in LockedLabel /\ \E ok : Return(c, ok)
    BY <1>9 DEF Unregister, Refresh, Publish, LockedLabel
  <2> QED
    BY <1>1, <2>1
<1> QED
  BY <1>3, <1>4, <1>5, <1>6, <1>7, <1>8, <1>9 DEF Lifecycle

\* So do status, read and removal requests.
LEMMA ObserveWorks ==
    ASSUME TypeOK, NEW c \in Proc, Working(c), Observe(c) \/ Remove(c)
    PROVE  Working(c)'
<1> USE TypeParts
<1>0. daemon' = daemon
  BY OneMoves DEF Acts
<1>1. pc[c] \in StatusLabel \cup ReadLabel \cup RemoveLabel
  BY DEF Observe, StatusProbe, StatusWrite, SyncLock, SyncDone, ReadIndex, Remove, RemoveMark,
         RemovePurge, RemoveDirs, RemoveSave, StatusLabel, ReadLabel, RemoveLabel
<1>2. ASSUME NEW ok, Return(c, ok) PROVE Working(c)'
  BY <1>0, <1>1, <1>2, OpsOf, ReturnWorks
<1>3. ASSUME NEW l, Goto(c, l),
             \/ l \in StatusLabel /\ pc[c] \in StatusLabel
             \/ l \in ReadLabel /\ pc[c] \in ReadLabel
             \/ l \in RemoveLabel /\ pc[c] \in RemoveLabel
      PROVE  Working(c)'
  BY <1>0, <1>3, OpsOf, GotoStays DEF Working, StatusLabel, ReadLabel, RemoveLabel
<1>4. CASE Observe(c)
  BY <1>2, <1>3, <1>4
     DEF Observe, StatusProbe, StatusWrite, SyncLock, SyncDone, ReadIndex, StatusLabel, ReadLabel
<1>5. CASE Remove(c)
  BY <1>2, <1>3, <1>5
     DEF Remove, RemoveMark, RemovePurge, RemoveDirs, RemoveSave, RemoveReturn, RemoveLabel
<1> QED
  BY <1>4, <1>5

\* Accepting a request begins its operation.
LEMMA RequestWorks ==
    ASSUME TypeOK, NEW c \in Proc, Working(c), Request(c)
    PROVE  Working(c)'
<1> USE TypeParts DEF ProcType
<1>1. ASSUME NEW a \in Account, NEW o \in {"activate", "deactivate"}, Begin(c, o, a)
      PROVE  Working(c)'
  BY <1>1 DEF Begin, Working
<1>2. ASSUME NEW a \in Account, StatusBegin(c, a) PROVE Working(c)'
  BY <1>2 DEF StatusBegin, Working, StatusLabel
<1>3. ASSUME NEW a \in Account, ReadBegin(c, a) PROVE Working(c)'
  BY <1>3 DEF ReadBegin, Working, ReadLabel
<1>4. ASSUME NEW a \in Account, RemoveBegin(c, a) PROVE Working(c)'
  BY <1>4 DEF RemoveBegin, Working, RemoveLabel
<1>5. ASSUME NEW a \in Account, Add(c, a) PROVE Working(c)'
  BY <1>5 DEF Add, Working, procVars
<1> QED
  BY <1>1, <1>2, <1>3, <1>4, <1>5 DEF Request

\* The restore loop moves only the restore goroutine, between its operations.
LEMMA RestoreMoves ==
    ASSUME ProcType, RestoreRetry
    PROVE  /\ daemon' = daemon /\ \A d \in Proc \ {Restorer} : Still(d)
           /\ pc[Restorer] \in {"idle", "rs_next"} /\ pc'[Restorer] \in {"idle", "rs_next", "lock"}
           /\ cur' = cur
<1>1. CASE RestoreAttempt
  BY <1>1, Kinds DEF RestoreAttempt, ProcType, Still
<1>2. CASE RestoreAttemptEnd
  BY <1>2, Kinds DEF RestoreAttemptEnd, ProcType, Still
<1>3. ASSUME NEW a \in Account, RestoreNext(a)
      PROVE  /\ daemon' = daemon /\ \A d \in Proc \ {Restorer} : Still(d)
             /\ pc[Restorer] \in {"idle", "rs_next"} /\ pc'[Restorer] \in {"idle", "rs_next", "lock"}
             /\ cur' = cur
  <2>1. CASE UNCHANGED <<pc, op, acct>>
    BY <1>3, <2>1 DEF RestoreNext, Still
  <2>2. CASE ~UNCHANGED <<pc, op, acct>>
    BY <1>3, <2>2, Kinds DEF RestoreNext, ProcType, Still
  <2> QED
    BY <2>1, <2>2
<1> QED
  BY <1>1, <1>2, <1>3 DEF RestoreRetry

\* Every step keeps the processes within their operations.
LEMMA WorksStep ==
    ASSUME TypeOK, Works, [Next]_vars
    PROVE  Works'
<1> USE TypeParts
<1>1. ASSUME NEW c \in Proc, Acts(c) PROVE Works'
  <2>1. Working(c)'
    BY <1>1, LifecycleWorks, ObserveWorks, RequestWorks DEF Acts, Works
  <2>2. ASSUME NEW d \in Proc \ {c} PROVE Working(d)'
    BY <1>1, OneMoves DEF Works, Working, Still
  <2> QED
    BY <2>1, <2>2 DEF Works
<1>2. ASSUME UNCHANGED <<pc, op, daemon>> PROVE Works'
  BY <1>2 DEF Works, Working
<1>3. ASSUME NEW k \in Chan, Ingest(k) PROVE UNCHANGED <<pc, op, daemon>>
  BY <1>3, Zenon DEF Ingest, LoopExit, LoopBegin, LoopLock, LoopDone, Repair, RepairClosed, procVars
<1>4. CASE RestoreRetry
  <2>1. ASSUME NEW d \in Proc \ {Restorer} PROVE Working(d)'
    BY <1>4, RestoreMoves DEF Still, Works, Working
  <2>2. Working(Restorer)'
    <3>1. Working(Restorer) /\ pc[Restorer] \in {"idle", "rs_next"} /\ op[Restorer] = "none"
      BY <1>4, OpsOf, Kinds DEF RestoreRetry, RestoreAttempt, RestoreAttemptEnd, RestoreNext, Works
    <3>2. CASE RestoreAttempt
      BY <3>1, <3>2 DEF RestoreAttempt, Working, ProcType
    <3>3. CASE RestoreAttemptEnd
      BY <3>1, <3>3 DEF RestoreAttemptEnd, Working, ProcType
    <3>4. ASSUME NEW a \in Account, RestoreNext(a) PROVE Working(Restorer)'
      BY <3>1, <3>4, Kinds DEF RestoreNext, Working, ProcType
    <3> QED
      BY <1>4, <3>2, <3>3, <3>4 DEF RestoreRetry
  <2> QED
    BY <2>1, <2>2 DEF Works
<1>5. CASE ShutdownManager
  <2>1. ASSUME NEW c \in Proc PROVE Working(c)'
    <3>1. op[c] = "none" /\ pc[c] = "idle"
      BY <1>5, OpsOf DEF ShutdownManager, Works
    <3>2. /\ daemon' = "closed"
          /\ \/ c \in Platform /\ pc'[c] = "stop" /\ op'[c] = "shutdown"
             \/ pc'[c] = pc[c] /\ op'[c] = op[c]
      BY <1>5 DEF ShutdownManager
    <3> QED
      BY <3>1, <3>2 DEF Working, StopLabel
  <2> QED
    BY <2>1 DEF Works
<1>6. CASE Terminate
  BY <1>6 DEF Terminate, AllIdle, NoOps, Works, Working
<1>7. CASE ShutdownBegin \/ Restart
  BY <1>7 DEF ShutdownBegin, Restart, procVars, Works, Working
<1>8. UNCHANGED vars => UNCHANGED <<pc, op, daemon>>
  BY DEF vars
<1> QED
  BY <1>1, <1>2, <1>3, <1>4, <1>5, <1>6, <1>7, <1>8, Zenon DEF Next, Acts, Process, Stopped
-----------------------------------------------------------------------------
(* What the requests rely on in the host.                                  *)

\* Within an operation neither its kind nor its account changes.
LEMMA StaysInOperation ==
    ASSUME ProcType, NEW c \in Proc, Lifecycle(c) \/ Observe(c) \/ Remove(c)
    PROVE  op'[c] = "none" \/ (op'[c] = op[c] /\ acct'[c] = acct[c])
<1>1. ASSUME NEW ok, Return(c, ok) PROVE op'[c] = "none"
  BY <1>1, ReturnEnds
<1>2. ASSUME (\E l : Goto(c, l)) \/ (\E l, r : Enter(c, l, r)) \/ DropRuntime(c)
      PROVE  op'[c] = op[c] /\ acct'[c] = acct[c]
  BY <1>2, Zenon DEF Goto, Enter, DropRuntime
<1>3. CASE AcquireActivate(c)
  BY <1>1, <1>2, <1>3, Zenon DEF AcquireActivate
<1>4. CASE Lifecycle(c) /\ ~AcquireActivate(c)
  BY <1>1, <1>2, <1>4, Zenon
     DEF Lifecycle, LockTimeout, AcquireDeactivate, StopCancel, StopWaitDone, StopTimeout,
         StopDrain, StopOk, StopFail, Register, StartOk, StartFail, Unregister, Refresh, Publish
<1>5. CASE Observe(c)
  BY <1>1, <1>2, <1>5, Zenon DEF Observe, StatusProbe, StatusWrite, SyncLock, SyncDone, ReadIndex
<1>6. CASE Remove(c)
  BY <1>1, <1>2, <1>6, Zenon
     DEF Remove, RemoveMark, RemovePurge, RemoveDirs, RemoveSave, RemoveReturn
<1> QED
  BY <1>3, <1>4, <1>5, <1>6

\* How a process comes to its operation and account.
ProcMove(c) ==
    \/ op'[c] = "none"
    \/ op'[c] = op[c] /\ acct'[c] = acct[c]
    \/ Request(c)
    \/ c = Restorer /\ op'[c] = "restore" /\ pc'[c] = "lock" /\ UNCHANGED hostVars
    \/ op'[c] = "shutdown" /\ pc'[c] = "stop"

\* Every step moves process c in one of these ways.
LEMMA ProcMoves ==
    ASSUME TypeOK, Works, [Next]_vars, NEW c \in Proc
    PROVE  ProcMove(c)
<1> USE TypeParts
<1>1. ASSUME NEW d \in Proc, Acts(d) PROVE ProcMove(c)
  BY <1>1, OneMoves, StaysInOperation DEF Acts, Still, ProcMove
<1>2. ASSUME UNCHANGED procVars PROVE ProcMove(c)
  BY <1>2 DEF procVars, ProcMove
<1>3. ASSUME NEW k \in Chan, Ingest(k) PROVE UNCHANGED procVars
  BY <1>3, Zenon DEF Ingest, LoopExit, LoopBegin, LoopLock, LoopDone, Repair, RepairClosed
<1>4. CASE RestoreAttempt \/ RestoreAttemptEnd
  BY <1>4 DEF RestoreAttempt, RestoreAttemptEnd, ProcMove
<1>5. ASSUME NEW a \in Account, RestoreNext(a) PROVE ProcMove(c)
  BY <1>5 DEF RestoreNext, ProcMove, ProcType
<1>6. CASE ShutdownManager
  BY <1>6 DEF ShutdownManager, ProcMove
<1>7. CASE Terminate
  BY <1>7 DEF Terminate, NoOps, ProcMove
<1>8. CASE ShutdownBegin \/ Restart \/ Stopped \/ UNCHANGED vars
  BY <1>2, <1>8 DEF ShutdownBegin, Restart, Stopped, vars, procVars
<1> QED
  BY <1>1, <1>2, <1>3, <1>4, <1>5, <1>6, <1>7, <1>8, Zenon DEF Next, Acts, Process, RestoreRetry

\* deleteMu is released, or taken while nobody reads.
LEMMA DeleteMuMoves ==
    ASSUME [Next]_vars
    PROVE  deleteMu' \in {deleteMu, Nil} \/ \E c \in Proc, a \in Account : RemoveBegin(c, a)
<1>1. ASSUME NEW c \in Proc, Request(c)
      PROVE  deleteMu' = deleteMu \/ \E a \in Account : RemoveBegin(c, a)
  BY <1>1, Zenon DEF Request, Begin, StatusBegin, ReadBegin, Add
<1>2. ASSUME NEW c \in Proc, Lifecycle(c) PROVE deleteMu' = deleteMu
  BY <1>2, Zenon DEF Lifecycle, LockTimeout, AcquireActivate, AcquireDeactivate, StopCancel,
     StopWaitDone, StopTimeout, StopDrain, StopOk, StopFail, DropRuntime, Register, StartOk,
     StartFail, Unregister, Refresh, Publish
<1>3. ASSUME NEW c \in Proc, Observe(c) PROVE deleteMu' = deleteMu
  BY <1>3, Zenon DEF Observe, StatusProbe, StatusWrite, SyncLock, SyncDone, ReadIndex
<1>4. ASSUME NEW c \in Proc, Remove(c) PROVE deleteMu' = deleteMu \/ deleteMu' = Nil
  BY <1>4, Zenon DEF Remove, RemoveMark, RemovePurge, RemoveDirs, RemoveSave, RemoveReturn
<1>5. ASSUME NEW k \in Chan, Ingest(k) PROVE deleteMu' = deleteMu
  BY <1>5, Zenon DEF Ingest, LoopExit, LoopBegin, LoopLock, LoopDone, Repair, RepairClosed
<1>6. RestoreRetry => deleteMu' = deleteMu
  BY Zenon DEF RestoreRetry, RestoreAttempt, RestoreAttemptEnd, RestoreNext
<1>7. Process \/ UNCHANGED vars => deleteMu' = deleteMu \/ deleteMu' = Nil
  BY Zenon DEF Process, ShutdownBegin, ShutdownManager, Terminate, Restart, Stopped, vars
<1> QED
  BY <1>1, <1>2, <1>3, <1>4, <1>5, <1>6, <1>7 DEF Next

\* A usable account stays usable while nobody is in a removal.
LEMMA UsableStays ==
    ASSUME TypeOK, LifecycleInv, [Next]_vars, NEW a \in Account, Usable(reg, a), deleteMu = Nil
    PROVE  Usable(reg', a)
<1>1. EntryMove(a)
  BY EntryMoves
<1>2. ASSUME NEW c \in Proc PROVE ~RemoveMark(c) /\ ~RemoveSave(c)
  BY NilIsNoProc DEF LifecycleInv, Relies, RemoveLabel, RemoveMark, RemoveSave
<1>3. ASSUME NEW c \in Proc PROVE ~Add(c, a)
  BY DEF Add, Usable, Resolves
<1> QED
  BY <1>1, <1>2, <1>3 DEF EntryMove, SameMark, Usable, Resolves

\* A removal needs deleteMu, which a reader excludes; nothing else ends usability.
LEMMA ReadersStep ==
    ASSUME TypeOK, LifecycleInv, Works, Readers, [Next]_vars
    PROVE  Readers'
<1> SUFFICES ASSUME NEW c \in Proc, op'[c] = "read"
             PROVE  deleteMu' = Nil /\ acct'[c] \in Account /\ Usable(reg', acct'[c])
  BY DEF Readers
<1>1. \/ op[c] = "read" /\ acct'[c] = acct[c]
      \/ \E a \in Account : ReadBegin(c, a)
  <2>1. ASSUME Request(c)
        PROVE  (op[c] = "read" /\ acct'[c] = acct[c]) \/ \E a \in Account : ReadBegin(c, a)
    BY <2>1, TypeParts DEF Request, Begin, StatusBegin, RemoveBegin, Add, procVars, ProcType
  <2> QED
    BY <2>1, ProcMoves DEF ProcMove
<1>2. CASE op[c] = "read" /\ acct'[c] = acct[c]
  <2>1. deleteMu = Nil /\ acct[c] \in Account /\ Usable(reg, acct[c]) /\ c \in Handler
    BY <1>2 DEF Readers, Works, Working
  <2>2. ASSUME NEW d \in Proc, NEW a \in Account PROVE ~RemoveBegin(d, a)
    BY <1>2, <2>1 DEF RemoveBegin
  <2> QED
    BY <1>2, <2>1, <2>2, UsableStays, DeleteMuMoves
<1>3. ASSUME NEW a \in Account, ReadBegin(c, a)
      PROVE  deleteMu' = Nil /\ acct'[c] \in Account /\ Usable(reg', acct'[c])
  BY <1>3, TypeParts DEF ReadBegin, hostVars, ProcType
<1> QED
  BY <1>1, <1>2, <1>3
\* A directory appears with an addition and goes with a removal.
LEMMA DirMoves ==
    ASSUME TypeOK, LifecycleInv, [Next]_vars, NEW b \in Account
    PROVE  \/ dir'[b] = dir[b]
           \/ dir'[b] /\ \E c \in Proc : Add(c, b)
           \/ reg[b].deleting /\ \E c \in Proc : RemoveDirs(c) /\ acct[c] = b
<1>1. ASSUME NEW c \in Proc, HostStep(c), dir'[b] # dir[b]
      PROVE  \/ dir'[b] /\ Add(c, b)
             \/ reg[b].deleting /\ RemoveDirs(c) /\ acct[c] = b
  <2>1. CASE \E a \in Account : Add(c, a)
    BY <1>1, <2>1, TypeParts DEF Add, HostType
  <2>2. CASE RemoveDirs(c)
    <3>1. reg[acct[c]].deleting
      BY <2>2 DEF LifecycleInv, Relies, RemoveLabel, RemoveDirs
    <3>2. acct[c] = b
      BY <1>1, <2>2, TypeParts DEF RemoveDirs, HostType
    <3> QED
      BY <2>2, <3>1, <3>2
  <2> QED
    BY <1>1, <2>1, <2>2, Zenon
       DEF HostStep, StopOk, StopFail, Register, StartOk, StartFail, Unregister, Refresh, Publish,
           StatusWrite, RemoveMark, RemoveSave
<1> QED
  BY <1>1, HostSteps, Zenon DEF Restart

\* An account that can be used has its directory.
LEMMA ProfilesStep ==
    ASSUME TypeOK, LifecycleInv, Profiles, [Next]_vars
    PROVE  Profiles'
<1> SUFFICES ASSUME NEW b \in Account, Usable(reg', b) PROVE dir'[b]
  BY DEF Profiles
<1>1. CASE Usable(reg, b)
  BY <1>1, DirMoves DEF Profiles, Usable
<1>2. CASE ~Usable(reg, b)
  <2>1. PICK c \in Proc : Add(c, b)
    BY <1>2, EntryMoves DEF EntryMove, SameMark, Usable, Resolves
  <2> QED
    BY <2>1, TypeParts DEF Add, HostType
<1> QED
  BY <1>1, <1>2

\* A container only appears where an operation starts one.
LEMMA ClientMoves ==
    ASSUME TypeOK, LifecycleInv, [Next]_vars, NEW b \in Account
    PROVE  \/ client'[b] = client[b]
           \/ ~client'[b]
           \/ Usable(reg, b) /\ \E c \in Proc : (StartOk(c) \/ StartFail(c)) /\ acct[c] = b
<1>1. ASSUME NEW c \in Proc, HostStep(c), client'[b] # client[b], client'[b]
      PROVE  Usable(reg, b) /\ (StartOk(c) \/ StartFail(c)) /\ acct[c] = b
  <2>1. CASE StartOk(c) \/ StartFail(c)
    <3>1. Usable(reg, acct[c])
      BY <2>1, LockedKnows DEF StartOk, StartFail, LockedLabel
    <3>2. acct[c] = b
      BY <1>1, <2>1, TypeParts DEF StartOk, StartFail, HostType
    <3> QED
      BY <2>1, <3>1, <3>2
  <2>2. CASE StopOk(c) \/ StopFail(c)
    BY <1>1, <2>2, TypeParts DEF StopOk, StopFail, HostType
  <2> QED
    BY <1>1, <2>1, <2>2, Zenon
       DEF HostStep, Add, Register, Unregister, Refresh, Publish, StatusWrite,
           RemoveMark, RemoveDirs, RemoveSave
<1> QED
  BY <1>1, HostSteps, TypeParts DEF Restart, HostType

\* Where the steps of an operation begin.
LEMMA LabelsOf ==
    ASSUME NEW c \in Proc
    PROVE  /\ Lifecycle(c) => pc[c] \in {"lock"} \cup LockedLabel
           /\ Observe(c) => pc[c] \in StatusLabel \cup ReadLabel
           /\ Remove(c) => pc[c] \in RemoveLabel
           /\ Request(c) => pc[c] = "idle"
<1>1. Lifecycle(c) => pc[c] \in {"lock"} \cup LockedLabel
  <2>1. LockTimeout(c) \/ AcquireActivate(c) \/ AcquireDeactivate(c) => pc[c] = "lock"
    BY DEF LockTimeout, AcquireActivate, AcquireDeactivate
  <2>2. StopCancel(c) \/ StopWaitDone(c) \/ StopTimeout(c) \/ StopDrain(c) \/ StopOk(c) \/ StopFail(c)
          => pc[c] \in StopLabel
    BY StopsAt
  <2>3. DropRuntime(c) \/ Register(c) \/ StartOk(c) \/ StartFail(c) \/ Unregister(c)
          => pc[c] \in {"drop", "register", "start", "unregister"}
    BY DEF DropRuntime, Register, StartOk, StartFail, Unregister
  <2>4. \/ \E ok \in BOOLEAN : Refresh(c, ok)
        \/ \E r \in Runtime, k \in Chan, ok \in BOOLEAN : Publish(c, r, k, ok)
        => pc[c] \in {"refresh", "publish"}
    BY DEF Refresh, Publish
  <2> QED
    BY <2>1, <2>2, <2>3, <2>4 DEF Lifecycle, LockedLabel, StopLabel
<1>2. Observe(c) => pc[c] \in StatusLabel \cup ReadLabel
  BY DEF Observe, StatusProbe, StatusWrite, SyncLock, SyncDone, ReadIndex, StatusLabel, ReadLabel
<1>3. Remove(c) => pc[c] \in RemoveLabel
  BY DEF Remove, RemoveMark, RemovePurge, RemoveDirs, RemoveSave, RemoveLabel
<1>4. Request(c) => pc[c] = "idle"
  BY DEF Request, Begin, StatusBegin, ReadBegin, RemoveBegin, Add
<1> QED
  BY <1>1, <1>2, <1>3, <1>4

\* A process moves on its own, unless the restore loop, the shutdown or the end
\* of the daemon moves it.
LEMMA OwnStep ==
    ASSUME TypeOK, [Next]_vars, NEW c \in Proc
    PROVE  \/ Acts(c)
           \/ Still(c)
           \/ /\ pc'[c] \in {"idle", "rs_next", "lock"}
              /\ pc[c] \in {"idle", "rs_next"} \/ Terminate
           \/ ShutdownManager /\ pc'[c] = "stop"
<1> USE TypeParts
<1>1. ASSUME NEW d \in Proc, Acts(d) PROVE Acts(c) \/ Still(c)
  BY <1>1, OneMoves
<1>2. ASSUME NEW k \in Chan, Ingest(k) PROVE Still(c)
  BY <1>2, Zenon DEF Still, procVars, Ingest, LoopExit, LoopBegin, LoopLock, LoopDone, Repair, RepairClosed
<1>3. CASE RestoreRetry
  BY <1>3, RestoreMoves
<1>4. CASE ShutdownManager
  BY <1>4 DEF ShutdownManager
<1>5. CASE Terminate
  BY <1>5 DEF Terminate, AllIdle
<1>6. CASE ShutdownBegin \/ Restart \/ Stopped \/ UNCHANGED vars
  BY <1>6, Zenon DEF ShutdownBegin, Restart, Stopped, procVars, vars, Still
<1> QED
  BY <1>1, <1>2, <1>3, <1>4, <1>5, <1>6, Zenon DEF Next, Acts, Process

\* A removal past its running check was there before, or has just found the
\* container stopped.
LEMMA PastCheck ==
    ASSUME TypeOK, Works, [Next]_vars, NEW c \in Proc, pc'[c] \in {"rm_dirs", "rm_save"}
    PROVE  /\ acct'[c] = acct[c]
           /\ \/ pc[c] \in {"rm_dirs", "rm_save"}
              \/ RemovePurge(c) /\ ~client[acct[c]] /\ client' = client
<1> USE TypeParts
<1>1. CASE Remove(c)
  <2>1. \A ok : ~Return(c, ok)
    BY ReturnEnds
  <2>2. CASE RemoveMark(c) \/ RemoveSave(c)
    <3>1. Goto(c, "rm_purge")
      BY <2>1, <2>2, Zenon DEF RemoveMark, RemoveSave, RemoveReturn
    <3> QED
      BY <3>1, GotoStays
  <2>3. CASE RemovePurge(c) \/ RemoveDirs(c)
    <3>1. \E l : Goto(c, l)
      BY <2>1, <2>3, Zenon DEF RemovePurge, RemoveDirs, RemoveReturn
    <3>2. pc[c] = "rm_dirs" \/ (RemovePurge(c) /\ PurgeAllowed(acct[c]) /\ client' = client)
      BY <2>1, <2>3, Zenon DEF RemovePurge, RemoveDirs, RemoveReturn, hostVars
    <3> QED
      BY <3>1, <3>2, GotoStays DEF PurgeAllowed
  <2> QED
    BY <1>1, <2>2, <2>3 DEF Remove
<1>2. CASE Still(c)
  BY <1>2 DEF Still
<1>3. CASE Request(c)
  BY <1>3 DEF Request, Begin, StatusBegin, ReadBegin, RemoveBegin, Add, procVars, ProcType
<1>4. CASE Lifecycle(c) \/ Observe(c)
  <2>1. op'[c] = "remove"
    <3>1. Working(c)'
      BY WorksStep DEF Works
    <3>2. op'[c] \in OpKind
      BY NextType, TypeParts DEF ProcType
    <3> QED
      BY <3>1, <3>2 DEF Working, OpKind, StopLabel, StatusLabel, ReadLabel
  <2>2. op[c] = "remove"
    BY <1>4, <2>1, StaysInOperation
  <2>3. pc[c] \in RemoveLabel
    BY <2>2 DEF Works, Working
  <2> QED
    BY <1>4, <2>3, LabelsOf DEF RemoveLabel, LockedLabel, StatusLabel, ReadLabel
<1> QED
  BY <1>1, <1>2, <1>3, <1>4, OwnStep DEF Acts

\* A container runs only on a profile that is there.
LEMMA ClientsStep ==
    ASSUME TypeOK, LifecycleInv, Works, Profiles, Clients, [Next]_vars
    PROVE  Clients'
<1>1. ASSUME NEW b \in Account, client'[b] PROVE reg'[b].status = "present" /\ dir'[b]
  <2>1. reg[b].status = "present" /\ dir[b]
    BY <1>1, ClientMoves DEF Clients, NoClientWithoutProfile, Profiles, Usable, Resolves
  <2>2. ASSUME NEW c \in Proc, acct[c] = b, pc[c] \in {"rm_dirs", "rm_save"} PROVE FALSE
    <3>1. reg[b].deleting
      BY <2>2 DEF LifecycleInv, Relies, RemoveLabel
    <3>2. ~client[b]
      BY <2>2 DEF Clients
    <3> QED
      BY <1>1, <3>1, <3>2, ClientMoves DEF Usable
  <2>3. \A c \in Proc : ~Add(c, b)
    BY <2>1 DEF Add
  <2>4. dir'[b]
    BY <2>1, <2>2, DirMoves DEF RemoveDirs
  <2>5. reg'[b].status = "present"
    BY <2>1, <2>2, <2>3, EntryMoves DEF EntryMove, SameMark, RemoveSave
  <2> QED
    BY <2>4, <2>5
<1>2. ASSUME NEW c \in Proc, pc'[c] \in {"rm_dirs", "rm_save"} PROVE ~client'[acct'[c]]
  <2> DEFINE b == acct[c]
  <2>1. acct'[c] = b
    BY <1>2, PastCheck
  <2>2. CASE pc[c] \in {"rm_dirs", "rm_save"}
    <3>1. b \in Account /\ reg[b].deleting /\ ~client[b]
      BY <2>2 DEF LifecycleInv, Relies, RemoveLabel, Clients
    <3> QED
      BY <2>1, <3>1, ClientMoves DEF Usable
  <2> QED
    BY <1>2, <2>1, <2>2, PastCheck
<1> QED
  BY <1>1, <1>2 DEF Clients, NoClientWithoutProfile

-----------------------------------------------------------------------------
(* The slots of the registry.                                              *)

\* Store.Activate gives the slot of the platform to the account, and to no other.
LEMMA ActivateSlots ==
    ASSUME NEW g \in Registry, NEW a \in Account, NEW b \in Account
    PROVE  ActivateAccount(g, a)[b].active <=>
              b = a \/ (PlatformOf(b) # PlatformOf(a) /\ g[b].active)
<1>1. g[b] \in Entry
  BY DEF Registry
<1>2. ActivateAccount(g, a)[b] =
        IF b = a THEN [g[b] EXCEPT !.active = TRUE, !.state = "STARTING"]
        ELSE IF PlatformOf(b) = PlatformOf(a) /\ g[b].active
             THEN [g[b] EXCEPT !.active = FALSE, !.state = "STOPPED"]
             ELSE g[b]
  BY DEF ActivateAccount
<1> QED
  BY <1>1, <1>2 DEF Entry

\* What a step does to the slot of account a.
SlotChange(a) ==
    \/ reg'[a].active = reg[a].active
    \/ \E c \in Proc : Register(c) /\ reg' = ActivateAccount(reg, acct[c])
    \/ \E c \in Proc : /\ (StartFail(c) /\ ~Restoring(c)) \/ Unregister(c)
                       /\ acct[c] = a /\ ~reg'[a].active

\* Every step moves the slot of a in one of these ways.
LEMMA SlotChanges ==
    ASSUME TypeOK, LifecycleInv, [Next]_vars, NEW a \in Account
    PROVE  SlotChange(a)
<1>0. reg \in Registry /\ DeletingIsInert(reg)
  BY TypeParts DEF HostType, LifecycleInv, RegistryConsistent
<1>1. CASE \A b \in Account : SameUse(reg, reg', b)
  BY <1>1 DEF SameUse, SlotChange
<1>2. CASE reg' = reg
  BY <1>2 DEF SlotChange
<1>3. CASE Restart
  BY <1>0, <1>3 DEF Restart, OpenRegistry, DeletingIsInert, Registry, Entry, SlotChange
<1>4. ASSUME NEW c \in Proc, HostStep(c)
      PROVE  SlotChange(a)
  <2>1. CASE \E b \in Account : Add(c, b)
    BY <1>0, <2>1 DEF Add, AddAccount, Registry, Entry, SlotChange
  <2>2. CASE StopOk(c) \/ StopFail(c) \/ StartOk(c) \/ RemoveDirs(c)
    BY <1>2, <2>2 DEF StopOk, StopFail, StartOk, RemoveDirs
  <2>3. CASE Register(c)
    BY <1>2, <2>3, Zenon DEF Register, SlotChange
  <2>4. CASE StartFail(c)
    <3>1. acct[c] \in Account /\ reg' \in FailureRecords(c)
      BY <2>4, KnowsAccount DEF StartFail
    <3>2. PICK g \in {reg, UpdateStatus(reg, acct[c], "DEGRADED")} :
             reg' = g \/ (~Restoring(c) /\ reg' = DeactivateAccount(g, acct[c]))
      BY <3>1 DEF FailureRecords
    <3>3. g \in Registry /\ \A b \in Account : SameUse(reg, g, b)
      BY <1>0, <3>1, StatusUse, UpdateStatusType, SameRegistry DEF RuntimeState
    <3>4. CASE reg' = g
      BY <1>1, <3>3, <3>4
    <3>5. CASE ~Restoring(c) /\ reg' = DeactivateAccount(g, acct[c])
      <4>1. IF acct[c] = a THEN ~reg'[a].active ELSE reg'[a].active = g[a].active
        BY <3>1, <3>3, <3>5 DEF DeactivateAccount, Registry, Entry
      <4> QED
        BY <2>4, <3>3, <3>5, <4>1 DEF SameUse, SlotChange
    <3> QED
      BY <3>2, <3>4, <3>5
  <2>5. CASE Unregister(c)
    <3>1. acct[c] \in Account
      BY <2>5, KnowsAccount DEF Unregister
    <3>2. CASE reg' = DeactivateAccount(reg, acct[c])
      <4>1. IF acct[c] = a THEN ~reg'[a].active ELSE reg'[a].active = reg[a].active
        BY <1>0, <3>1, <3>2 DEF DeactivateAccount, Registry, Entry
      <4> QED
        BY <2>5, <4>1 DEF SlotChange
    <3> QED
      BY <1>2, <2>5, <3>2 DEF Unregister
  <2>6. CASE \/ \E ok \in BOOLEAN : Refresh(c, ok)
             \/ \E r \in Runtime, k \in Chan, ok \in BOOLEAN : Publish(c, r, k, ok)
             \/ StatusWrite(c)
    <3>1. \E s : reg' = reg \/ reg' = UpdateStatus(reg, acct[c], s)
      BY <2>6 DEF Refresh, Publish, StatusWrite
    <3> QED
      BY <1>0, <3>1 DEF UpdateStatus, Registry, Entry, SlotChange
  <2>7. CASE RemoveMark(c)
    <3>1. acct[c] \in Account
      BY <2>7, KnowsAccount DEF RemoveMark, RemoveLabel
    <3>2. CASE CanBeginDelete(reg, acct[c]) /\ reg' = MarkDeleting(reg, acct[c])
      <4>1. reg'[a].active = IF a = acct[c] THEN FALSE ELSE reg[a].active
        BY <1>0, <3>1, <3>2 DEF MarkDeleting, Registry, Entry
      <4>2. reg[a].active \in BOOLEAN
        BY <1>0 DEF Registry, Entry
      <4> QED
        BY <3>2, <4>1, <4>2 DEF CanBeginDelete, SlotChange
    <3> QED
      BY <1>2, <2>7, <3>2 DEF RemoveMark
  <2>8. CASE RemoveSave(c)
    <3>1. acct[c] \in Account /\ ~reg[acct[c]].active
      BY <1>0, <2>8 DEF LifecycleInv, Relies, RemoveLabel, DeletingIsInert, RemoveSave
    <3>2. CASE reg' = RemoveEntry(reg, acct[c])
      BY <1>0, <3>1, <3>2 DEF RemoveEntry, Registry, Entry, SlotChange
    <3> QED
      BY <1>2, <2>8, <3>2 DEF RemoveSave
  <2> QED
    BY <1>4, <2>1, <2>2, <2>3, <2>4, <2>5, <2>6, <2>7, <2>8, Zenon DEF HostStep
<1> QED
  BY <1>2, <1>3, <1>4, HostSteps

\* Nobody moves the slot of an account that a restore works on.
LEMMA SlotKept ==
    ASSUME TypeOK, LifecycleInv, Works, [Next]_vars, NEW c \in Proc,
           op[c] = "restore", pc[c] \in LockedLabel, reg[acct[c]].active
    PROVE  reg'[acct[c]].active
<1> DEFINE a == acct[c]
<1>1. a \in Account /\ opLock[PlatformOf(a)] = c /\ SlotChange(a)
  BY LockedKnows, SlotChanges
<1>2. ASSUME NEW d \in Proc, pc[d] \in LockedLabel, PlatformOf(acct[d]) = PlatformOf(a)
      PROVE  d = c
  BY <1>1, <1>2, LockedKnows
<1>3. ASSUME NEW d \in Proc, Register(d), reg' = ActivateAccount(reg, acct[d])
      PROVE  reg'[a].active
  <2>1. d = c \/ PlatformOf(a) # PlatformOf(acct[d])
    BY <1>2, <1>3 DEF Register, LockedLabel
  <2> QED
    BY <1>1, <1>3, <2>1, ActivateSlots, LockedKnows DEF Register, LockedLabel
<1>4. ASSUME NEW d \in Proc, acct[d] = a, StartFail(d) \/ Unregister(d)
      PROVE  StartFail(d) /\ Restoring(d)
  <2>1. d = c
    BY <1>2, <1>4 DEF StartFail, Unregister, LockedLabel
  <2>2. pc[c] # "unregister"
    BY DEF Works, Working, StopLabel
  <2> QED
    BY <1>4, <2>1, <2>2 DEF Unregister, Restoring
<1>5. ASSUME NEW d \in Proc, (StartFail(d) /\ ~Restoring(d)) \/ Unregister(d) PROVE acct[d] # a
  <2> SUFFICES ASSUME acct[d] = a PROVE FALSE
    OBVIOUS
  <2>1. StartFail(d) /\ Restoring(d)
    BY <1>4, <1>5
  <2>2. pc[d] = "unregister" /\ pc[d] = "start"
    BY <1>5, <2>1 DEF Unregister, StartFail
  <2> QED
    BY <2>2
<1> QED
  BY <1>1, <1>3, <1>5 DEF SlotChange

\* A restore keeps its slot: the others need its platform's operation mutex.
LEMMA SlotsStep ==
    ASSUME TypeOK, LifecycleInv, Works, Slots, [Next]_vars
    PROVE  Slots'
<1> SUFFICES ASSUME NEW c \in Proc, op'[c] = "restore", pc'[c] \in LockedLabel
             PROVE  reg'[acct'[c]].active
  BY DEF Slots
<1> USE TypeParts
<1>1. Working(c)' /\ c = Restorer
  BY WorksStep DEF Works, Working
<1>2. CASE pc[c] \in LockedLabel /\ op[c] = "restore" /\ acct'[c] = acct[c]
  BY <1>2, SlotKept DEF Slots
<1>3. CASE Still(c)
  BY <1>2, <1>3 DEF Still
<1>4. CASE Acts(c)
  <2>1. ~Request(c)
    BY <1>1, Kinds DEF Request, Begin, StatusBegin, ReadBegin, RemoveBegin, Add
  <2>2. op[c] = "restore" /\ acct'[c] = acct[c]
    BY <1>4, <2>1, StaysInOperation DEF Acts
  <2>3. CASE pc[c] = "lock"
    <3>1. LockTimeout(c) \/ AcquireActivate(c)
      <4>1. Lifecycle(c)
        BY <1>4, <2>1, <2>3, LabelsOf DEF Acts, StatusLabel, ReadLabel, RemoveLabel
      <4> QED
        BY <2>2, <2>3, <4>1 DEF Lifecycle, AcquireDeactivate, StopCancel, StopWaitDone,
             StopTimeout, StopDrain, StopOk, StopFail, DropRuntime, Register, StartOk, StartFail,
             Unregister, Refresh, Publish
    <3>2. \A ok : ~Return(c, ok)
      BY ReturnEnds
    <3>3. Restoring(c) => reg[acct[c]].active /\ reg' = reg
      BY <3>1, <3>2, Zenon DEF LockTimeout, AcquireActivate, hostVars
    <3> QED
      BY <2>2, <3>3 DEF Restoring
  <2>4. CASE pc[c] # "lock"
    <3>1. Working(c)
      BY DEF Works
    <3>2. pc[c] \in LockedLabel
      BY <2>2, <2>4, <3>1 DEF Working, LockedLabel, StopLabel
    <3> QED
      BY <1>2, <2>2, <3>2
  <2> QED
    BY <2>3, <2>4
<1>5. CASE ShutdownManager
  BY <1>1, <1>5 DEF ShutdownManager, Working
<1> QED
  BY <1>3, <1>4, <1>5, OwnStep DEF LockedLabel

\* Only an explicit request moves a slot.
LEMMA SlotMoves == TypeOK /\ LifecycleInv /\ Works /\ Slots /\ [Next]_vars => SlotMove
<1> SUFFICES ASSUME TypeOK, LifecycleInv, Works, Slots, [Next]_vars, NEW a \in Account,
                    reg[a].active # reg'[a].active
             PROVE  \E h \in Handler :
                       /\ op[h] \in {"activate", "deactivate"}
                       /\ PlatformOf(acct[h]) = PlatformOf(a)
                       /\ reg'[a].active => op[h] = "activate" /\ acct[h] = a
  BY DEF SlotMove
<1> USE TypeParts
<1>1. SlotChange(a)
  BY SlotChanges
<1>2. ASSUME NEW c \in Proc, pc[c] \in {"register", "start", "unregister"}, ~Restoring(c)
      PROVE  /\ c \in Handler
             /\ op[c] = IF pc[c] = "unregister" THEN "deactivate" ELSE "activate"
  <2>1. Working(c)
    BY DEF Works
  <2> QED
    BY <1>2, <2>1, OpsOf DEF Working, Restoring
<1>3. CASE \E c \in Proc : /\ (StartFail(c) /\ ~Restoring(c)) \/ Unregister(c)
                           /\ acct[c] = a /\ ~reg'[a].active
  <2>1. PICK c \in Proc : /\ (StartFail(c) /\ ~Restoring(c)) \/ Unregister(c)
                          /\ acct[c] = a /\ ~reg'[a].active
    BY <1>3
  <2>2. pc[c] \in {"start", "unregister"} /\ ~Restoring(c)
    BY <2>1, OpsOf DEF StartFail, Unregister, Restoring, Works
  <2> QED
    BY <1>2, <2>1, <2>2
<1>4. CASE \E c \in Proc : Register(c) /\ reg' = ActivateAccount(reg, acct[c])
  <2>1. PICK c \in Proc : Register(c) /\ reg' = ActivateAccount(reg, acct[c])
    BY <1>4
  <2>2. pc[c] = "register" /\ acct[c] \in Account /\ reg \in Registry /\ OneActivePerPlatform(reg)
    BY <2>1, LockedKnows DEF Register, LockedLabel
  <2>3. reg'[a].active <=> a = acct[c] \/ (PlatformOf(a) # PlatformOf(acct[c]) /\ reg[a].active)
    BY <2>1, <2>2, ActivateSlots
  <2>4. reg[a].active \in BOOLEAN /\ reg'[a].active \in BOOLEAN
    <3>1. reg[a].active \in BOOLEAN
      BY <2>2 DEF Registry, Entry
    <3>2. reg' \in Registry
      BY NextType DEF HostType
    <3> QED
      BY <3>1, <3>2 DEF Registry, Entry
  <2>5. ~Restoring(c)
    <3>1. SUFFICES ASSUME Restoring(c) PROVE FALSE
      OBVIOUS
    <3>2. reg[acct[c]].active
      BY <2>2, <3>1 DEF Slots, Restoring, LockedLabel
    <3> QED
      BY <2>2, <2>3, <2>4, <3>2 DEF OneActivePerPlatform
  <2>6. PlatformOf(acct[c]) = PlatformOf(a) /\ (reg'[a].active => acct[c] = a)
    BY <2>3, <2>4
  <2> QED
    BY <1>2, <2>2, <2>5, <2>6
<1> QED
  BY <1>1, <1>3, <1>4 DEF SlotChange

-----------------------------------------------------------------------------
\* A daemon starts with nobody at work and no container running.
LEMMA HostInit == Init => HostInv
<1> SUFFICES ASSUME Init PROVE HostInv
  OBVIOUS
<1>1. \A c \in Proc : pc[c] = "idle" /\ op[c] = "none"
  BY DEF Init, AllIdle, NoOps
<1>2. Works
  BY <1>1 DEF Init, Works, Working
<1>3. Profiles
  BY DEF Init, Profiles, Usable, Resolves
<1> QED
  BY <1>1, <1>2, <1>3
     DEF Init, HostInv, Readers, Clients, Slots, NoClientWithoutProfile, LockedLabel

\* Every step keeps what the requests rely on in the host.
LEMMA HostNext == TypeOK /\ LifecycleInv /\ HostInv /\ [Next]_vars => HostInv'
  BY WorksStep, ReadersStep, ProfilesStep, ClientsStep, SlotsStep DEF HostInv

\* Requests keep to their labels, readers keep removals out, a profile in use
\* and a container have their directory, a restore works on a requested slot.
THEOREM HostCorrect == Spec => []HostInv
  BY HostInit, HostNext, TypeCorrect, LifecycleCorrect, PTL DEF Spec

\* A reader that passed the deletion check finds the account's directory until
\* it is done, because RemoveAccount waits for it on deleteMu.
THEOREM ReadersCorrect == Spec => []ReadersKeepTheProfile
<1>1. HostInv => ReadersKeepTheProfile
  BY DEF HostInv, Readers, Profiles, ReadersKeepTheProfile
<1> QED
  BY <1>1, HostCorrect, PTL

\* No container ever runs on a removed profile, not even one left over from an
\* earlier daemon or by a failed start, because Purge refuses it.
THEOREM ClientsCorrect == Spec => []NoClientWithoutProfile
<1>1. HostInv => NoClientWithoutProfile
  BY DEF HostInv, Clients
<1> QED
  BY <1>1, HostCorrect, PTL

\* No restore, failed start, status write, shutdown or restart moves a slot.
THEOREM SlotsCorrect == Spec => OnlyRequestsMoveTheSlot
<1>1. TypeOK /\ LifecycleInv /\ HostInv /\ [Next]_vars => [SlotMove]_vars
  BY SlotMoves DEF HostInv
<1> QED
  BY <1>1, TypeCorrect, LifecycleCorrect, HostCorrect, PTL DEF Spec, OnlyRequestsMoveTheSlot

-----------------------------------------------------------------------------
(* What a step does to the objects of the daemon.                          *)

\* What a step may use, before and after it.
Known == TypeOK /\ LifecycleInv /\ Works

\* No object comes back into use, and none in use changes its identity.
SameObjects ==
    /\ \A r \in Runtime : rt'[r].acct = rt[r].acct /\ rt'[r].done = rt[r].done
    /\ \A k \in Chan :
          /\ loop'[k].rt = loop[k].rt
          /\ LoopLive(k)' => LoopLive(k)
          /\ repairs'[k] > 0 =>
                repairs[k] > 0 \/ (loop[k].rt \in Runtime /\ \E c \in Proc : cur[c] = loop[k].rt)
    /\ \A p \in Platform : active'[p] \in {active[p], Nil}
    /\ \A c \in Proc : cur'[c] \in {cur[c], Nil} \/ \E p \in Platform : cur'[c] = active[p]

\* What is known before a step is known after it.
LEMMA KnownStep == Known /\ [Next]_vars => Known'
  BY NextType, NextInv, WorksStep DEF Known

\* Who uses a runtime object.
LEMMA InUse ==
    ASSUME HeapType, NEW r \in Runtime
    PROVE  ~FreeRuntime(r) <=>
              \/ \E p \in Platform : active[p] = r
              \/ \E c \in Proc : cur[c] = r
              \/ \E k \in Chan : loop[k].rt = r /\ (LoopLive(k) \/ repairs[k] > 0)
<1>1. \A k \in Chan : repairs[k] = 0 <=> ~(repairs[k] > 0)
  BY BoundsAreNaturals DEF HeapType
<1> QED
  BY <1>1, Zenon DEF FreeRuntime

\* Objects stay what they are while none comes into use.
LEMMA KeepObjects ==
    ASSUME TypeOK, TypeOK', Objects, Generations, SameObjects
    PROVE  Objects' /\ Generations'
<1> USE TypeParts
<1>1. ASSUME NEW r \in Runtime, ~FreeRuntime(r)' PROVE ~FreeRuntime(r)
  <2>1. \/ \E p \in Platform : active'[p] = r
        \/ \E c \in Proc : cur'[c] = r
        \/ \E k \in Chan : loop'[k].rt = r /\ (LoopLive(k)' \/ repairs'[k] > 0)
    <3>1. \A k \in Chan : repairs'[k] = 0 <=> ~(repairs'[k] > 0)
      BY BoundsAreNaturals DEF HeapType
    <3> QED
      BY <1>1, <3>1, Zenon DEF FreeRuntime
  <2>2. CASE \E p \in Platform : active'[p] = r
    BY <2>2, InUse, NilIsNoProc DEF SameObjects
  <2>3. CASE \E c \in Proc : cur'[c] = r
    BY <2>3, InUse, NilIsNoProc DEF SameObjects
  <2>4. CASE \E k \in Chan : loop'[k].rt = r /\ (LoopLive(k)' \/ repairs'[k] > 0)
    BY <2>4, InUse DEF SameObjects
  <2> QED
    BY <2>1, <2>2, <2>3, <2>4
<1>2. Objects'
  <2>1. ASSUME NEW r \in Runtime, ~FreeRuntime(r)'
        PROVE  rt'[r].acct \in Account /\ rt'[r].done \in Chan /\ loop'[rt'[r].done].rt = r
    BY <1>1, <2>1 DEF Objects, SameObjects
  <2>2. ASSUME NEW k \in Chan, LoopLive(k)' \/ repairs'[k] > 0 PROVE loop'[k].rt \in Runtime
    BY <2>2 DEF Objects, SameObjects
  <2> QED
    BY <2>1, <2>2 DEF Objects
<1>3. Generations'
  BY DEF SameObjects, Generations, Objects
<1> QED
  BY <1>2, <1>3

\* A live loop's account stays usable: its runtime is published, or the manager
\* is closed and nobody is left to remove an account.
LEMMA FedUsable ==
    ASSUME Known, [Next]_vars, NEW a \in Account, Usable(reg, a), NEW r \in Runtime,
           \/ active'[PlatformOf(a)] = r /\ rt'[r].acct = a
           \/ daemon = "closed"
           \/ reg' = reg
    PROVE  Usable(reg', a)
<1>1. CASE active'[PlatformOf(a)] = r /\ rt'[r].acct = a
  BY <1>1, KnownStep, PlatformType, NilIsNoProc DEF Known, LifecycleInv, PublishedIsRequested
<1>2. CASE daemon = "closed"
  <2>1. \A c \in Proc : ~RemoveMark(c) /\ ~RemoveSave(c) /\ ~Add(c, a)
    <3> SUFFICES ASSUME NEW c \in Proc PROVE ~RemoveMark(c) /\ ~RemoveSave(c) /\ ~Add(c, a)
      OBVIOUS
    <3>1. op[c] # "remove" /\ Working(c)
      BY <1>2 DEF Known, Works, Working
    <3>2. pc[c] \notin RemoveLabel
      BY <3>1, OpsOf, TypeParts DEF Known
    <3> QED
      BY <1>2, <3>2 DEF RemoveLabel, RemoveMark, RemoveSave, Add
  <2> QED
    BY <2>1, EntryMoves DEF Known, EntryMove, SameMark, Usable, Resolves
<1> QED
  BY <1>1, <1>2

\* Live loops stay fed while the published runtimes stay published.
LEMMA KeepFeeds ==
    ASSUME Known, [Next]_vars, HeapInv, SameObjects,
           daemon = "closed" => daemon' = "closed",
           \A k \in Chan : LoopLive(k)' =>
              LET p == PlatformOf(rt[loop[k].rt].acct)
              IN  active'[p] = active[p] \/ (daemon' = "closed" /\ reg' = reg)
    PROVE  Feeds'
<1> SUFFICES ASSUME NEW k \in Chan, LoopLive(k)'
             PROVE  LET r == loop'[k].rt
                    IN  /\ Usable(reg', rt'[r].acct)
                        /\ active'[PlatformOf(rt'[r].acct)] = r \/ daemon' = "closed"
  BY DEF Feeds
<1> DEFINE r == loop[k].rt
           a == rt[r].acct
<1>1. LoopLive(k) /\ loop'[k].rt = r /\ r \in Runtime
  BY DEF SameObjects, HeapInv, Objects
<1>2. rt'[r].acct = a /\ Usable(reg, a) /\ (active[PlatformOf(a)] = r \/ daemon = "closed")
  BY <1>1 DEF SameObjects, HeapInv, Feeds
<1>3. a \in Account
  BY <1>1, InUse, TypeParts DEF HeapInv, Objects, Known
<1>4. active'[PlatformOf(a)] = active[PlatformOf(a)] \/ (daemon' = "closed" /\ reg' = reg)
  OBVIOUS
<1> HIDE DEF r, a
<1>5. Usable(reg', a)
  BY <1>1, <1>2, <1>3, <1>4, FedUsable
<1> QED
  BY <1>1, <1>2, <1>4, <1>5

\* What the stops and reads of the others know stays true.
LEMMA KeepProcs ==
    ASSUME TypeOK, HeapInv, SameObjects, NEW d \in Proc, Still(d),
           \/ active'[PlatformOf(acct[d])] = active[PlatformOf(acct[d])]
           \/ op[d] = "shutdown"
           \/ pc[d] \notin StopLabel \cup {"drop"}
    PROVE  Stops(d)' /\ Syncs(d)'
<1>1. Stops(d) /\ Syncs(d)
  BY DEF HeapInv
<1>2. Syncs(d)'
  BY <1>1 DEF Syncs, Still, SameObjects
<1>3. CASE pc[d] \in StopLabel \cup {"drop"}
  <2>1. cur[d] \in Runtime
    BY <1>1, <1>3 DEF Stops
  <2>2. rt[cur[d]].done \in Chan
    BY <2>1, InUse, TypeParts DEF HeapInv, Objects
  <2> QED
    BY <1>1, <1>2, <1>3, <2>1, <2>2 DEF Stops, Still, SameObjects, LoopLive
<1>4. CASE pc[d] \notin StopLabel \cup {"drop"}
  BY <1>2, <1>4 DEF Stops, Still, StopLabel
<1> QED
  BY <1>3, <1>4

\* A step that brings no object into use and leaves the published runtimes.
LEMMA Steady ==
    ASSUME Known, [Next]_vars, HeapInv, SameObjects, active' = active,
           daemon = "closed" => daemon' = "closed",
           \A c \in Proc : Still(c) \/ (Stops(c)' /\ Syncs(c)'),
           Mutexes', Up'
    PROVE  HeapInv'
<1>1. Objects' /\ Generations'
  BY KeepObjects, KnownStep DEF Known, HeapInv
<1>2. \A c \in Proc : Stops(c)' /\ Syncs(c)'
  BY KeepProcs DEF Known
<1>3. Feeds'
  BY KeepFeeds
<1> QED
  BY <1>1, <1>2, <1>3 DEF HeapInv

\* A process moves without the objects: it gives its runtime up or takes the
\* published one, and enters no driver.
Calm(c) ==
    /\ pc'[c] \notin {"rd_driver", "stop_driver"}
    /\ cur'[c] \in {cur[c], Nil} \/ \E p \in Platform : cur'[c] = active[p]
    /\ Stops(c)' /\ Syncs(c)'

\* A step that changes no object and in which every process that moves is calm.
LEMMA HeapKept ==
    ASSUME Known, [Next]_vars, HeapInv, UNCHANGED heapVars,
           daemon = "closed" => daemon' = "closed",
           \A c \in Proc : Still(c) \/ Calm(c)
    PROVE  HeapInv'
<1>1. \A k \in Chan : LoopLive(k)' <=> LoopLive(k)
  BY DEF heapVars, LoopLive
<1>2. SameObjects
  BY <1>1 DEF SameObjects, heapVars, Still, Calm
<1>3. Mutexes'
  BY DEF HeapInv, Mutexes, heapVars, Still, Calm
<1>4. Up'
  BY DEF HeapInv, Up, Ingesting, heapVars, Still, Calm
<1> QED
  BY <1>2, <1>3, <1>4, Steady DEF heapVars, Calm

\* A process that leaves its operation, or goes where nothing is asked of the
\* objects, moves without them.
LEMMA ReturnCalm ==
    ASSUME ProcType, NEW c \in Proc, NEW ok, Return(c, ok)
    PROVE  Calm(c)
<1>1. pc'[c] \in {"idle", "rs_next"} /\ cur'[c] = Nil
  BY ReturnEnds
<1> QED
  BY <1>1 DEF Calm, Stops, Syncs, StopLabel

\* A process that goes to a label without an obligation on objects is calm.
LEMMA GotoCalm ==
    ASSUME ProcType, NEW c \in Proc, NEW l, Goto(c, l),
           l \notin StopLabel \cup {"drop", "rd_sync", "rd_driver"}
    PROVE  Calm(c)
<1>1. pc'[c] = l /\ cur' = cur
  BY GotoStays
<1> QED
  BY <1>1 DEF Calm, Stops, Syncs, StopLabel

-----------------------------------------------------------------------------
(* The steps that leave the objects alone.                                 *)

\* The same for the step of one process.
LEMMA ByCalm ==
    ASSUME Known, [Next]_vars, HeapInv, NEW c \in Proc, Acts(c), UNCHANGED heapVars, Calm(c)
    PROVE  HeapInv'
<1>1. daemon' = daemon /\ \A d \in Proc \ {c} : Still(d)
  BY OneMoves, TypeParts DEF Known
<1> QED
  BY <1>1, HeapKept

\* Accepting a request: status and read requests pick the published runtime up.
LEMMA RequestHeap ==
    ASSUME Known, [Next]_vars, HeapInv, NEW c \in Proc, Request(c)
    PROVE  HeapInv'
<1> USE TypeParts
<1>0. ProcType /\ active \in [Platform -> Runtime \cup {Nil}] /\ \A a : PlatformOf(a) \in Platform
  BY PlatformType DEF Known, HeapType
<1>1. ASSUME NEW a \in Account, NEW o, Begin(c, o, a) \/ RemoveBegin(c, a)
      PROVE  UNCHANGED heapVars /\ Calm(c)
  BY <1>0, <1>1 DEF Begin, RemoveBegin, ProcType, Calm, Stops, Syncs, StopLabel
<1>2. ASSUME NEW a \in Account, StatusBegin(c, a) PROVE UNCHANGED heapVars /\ Calm(c)
  BY <1>0, <1>2 DEF StatusBegin, ProcType, Calm, Stops, Syncs, StopLabel
<1>3. ASSUME NEW a \in Account, ReadBegin(c, a) PROVE UNCHANGED heapVars /\ Calm(c)
  <2>1. UNCHANGED heapVars
    BY <1>3, Zenon DEF ReadBegin
  <2>2. CASE pc'[c] = "rd_index" /\ cur' = cur
    BY <2>1, <2>2 DEF Calm, Stops, Syncs, StopLabel
  <2>3. CASE pc'[c] = "rd_sync" /\ cur'[c] = active[PlatformOf(a)] /\ acct'[c] = a /\ HasDriver(a)
    BY <1>0, <2>1, <2>3 DEF Calm, Stops, Syncs, StopLabel, HasDriver, heapVars
  <2> QED
    BY <1>0, <1>3, <2>2, <2>3 DEF ReadBegin, ProcType
<1>4. ASSUME NEW a \in Account, Add(c, a) PROVE HeapInv'
  <2>1. UNCHANGED heapVars /\ UNCHANGED procVars /\ daemon' = daemon
    BY <1>4, Zenon DEF Add
  <2>2. \A d \in Proc : Still(d)
    BY <2>1 DEF procVars, Still
  <2> QED
    BY <2>1, <2>2, HeapKept
<1> QED
  BY <1>1, <1>2, <1>3, <1>4, ByCalm DEF Request, Acts

\* Taking the operation mutex: a stop begins with the published runtime.
LEMMA AcquireHeap ==
    ASSUME Known, [Next]_vars, HeapInv, NEW c \in Proc, AcquireActivate(c) \/ AcquireDeactivate(c)
    PROVE  HeapInv'
<1> USE TypeParts
<1> DEFINE r == active[PlatformOf(acct[c])]
<1>0. ProcType /\ r \in Runtime \cup {Nil} /\ PlatformOf(acct[c]) \in Platform
  BY PlatformType DEF Known, HeapType
<1>1. UNCHANGED heapVars /\ Acts(c)
  BY Zenon DEF AcquireActivate, AcquireDeactivate, Acts, Lifecycle
<1>2. \/ \E ok : Return(c, ok)
      \/ \E l \in {"register", "refresh"} : Enter(c, l, r)
      \/ Enter(c, "unregister", Nil)
      \/ r # Nil /\ Enter(c, "stop", r)
  BY Zenon DEF AcquireActivate, AcquireDeactivate, SwitchLabel
<1>3. Calm(c)
  <2>1. CASE \E ok : Return(c, ok)
    BY <1>0, <2>1, ReturnCalm
  <2>2. CASE (\E l \in {"register", "refresh"} : Enter(c, l, r)) \/ Enter(c, "unregister", Nil)
    <3>1. pc'[c] \in {"register", "refresh", "unregister"} /\ cur'[c] \in {r, Nil}
      BY <1>0, <2>2, EnterStays
    <3> QED
      BY <1>0, <3>1 DEF Calm, Stops, Syncs, StopLabel
  <2>3. CASE r # Nil /\ Enter(c, "stop", r)
    <3>1. pc'[c] = "stop" /\ cur'[c] = r /\ acct' = acct
      BY <1>0, <2>3, EnterStays
    <3>2. PlatformOf(rt[r].acct) = PlatformOf(acct[c])
      BY <1>0, <2>3 DEF Known, LifecycleInv, PublishedIsRequested
    <3> QED
      BY <1>0, <1>1, <2>3, <3>1, <3>2 DEF Calm, Stops, Syncs, StopLabel, heapVars
  <2> QED
    BY <1>2, <2>1, <2>2, <2>3
<1> QED
  BY <1>1, <1>3, ByCalm

\* The ingest goroutine was found stopped.
LEMMA StopWaitHeap ==
    ASSUME Known, [Next]_vars, HeapInv, NEW c \in Proc, StopWaitDone(c)
    PROVE  HeapInv'
<1>1. UNCHANGED heapVars /\ Acts(c)
  BY Zenon DEF StopWaitDone, Acts, Lifecycle
<1>2. Calm(c)
  <2>1. pc'[c] = "stop_mu" /\ op' = op /\ acct' = acct /\ cur' = cur
    BY GotoStays, TypeParts DEF Known, StopWaitDone
  <2>2. Stops(c) /\ pc[c] = "stop_wait" /\ ~LoopLive(rt[cur[c]].done)
    BY DEF StopWaitDone, HeapInv
  <2> QED
    BY <1>1, <2>1, <2>2 DEF Calm, Stops, Syncs, StopLabel, heapVars, LoopLive
<1> QED
  BY <1>1, <1>2, ByCalm

\* The steps between the slot, the driver's start and the return.
LEMMA PassHeap ==
    ASSUME Known, [Next]_vars, HeapInv, NEW c \in Proc,
           \/ LockTimeout(c) \/ Register(c) \/ StartOk(c) \/ StartFail(c) \/ Unregister(c)
           \/ \E ok \in BOOLEAN : Refresh(c, ok)
           \/ StatusProbe(c) \/ StatusWrite(c) \/ ReadIndex(c)
           \/ Remove(c)
    PROVE  HeapInv'
<1>1. UNCHANGED heapVars
  BY Zenon DEF LockTimeout, Register, StartOk, StartFail, Unregister, Refresh, StatusProbe,
     StatusWrite, ReadIndex, Remove, RemoveMark, RemovePurge, RemoveDirs, RemoveSave
<1>2. Acts(c)
  BY Zenon DEF Acts, Lifecycle, Observe
<1>3. \/ \E ok : Return(c, ok)
      \/ \E l \in {"start", "publish", "st_live", "st_stopped", "rm_purge", "rm_dirs", "rm_save"} :
            Goto(c, l)
  BY Zenon DEF LockTimeout, Register, StartOk, StartFail, Unregister, Refresh, StatusProbe,
     StatusWrite, ReadIndex, Remove, RemoveMark, RemovePurge, RemoveDirs, RemoveSave, RemoveReturn
<1>4. Calm(c)
  BY <1>3, ReturnCalm, GotoCalm, TypeParts DEF Known, StopLabel
<1> QED
  BY <1>1, <1>2, <1>4, ByCalm

\* The restore loop, and a daemon that starts or closes its listener.
LEMMA DaemonHeap ==
    ASSUME Known, [Next]_vars, HeapInv,
           RestoreRetry \/ ShutdownBegin \/ Restart \/ Stopped \/ UNCHANGED vars
    PROVE  HeapInv'
<1> USE TypeParts
<1>1. UNCHANGED heapVars
  BY Zenon DEF RestoreRetry, RestoreAttempt, RestoreAttemptEnd, RestoreNext, ShutdownBegin,
     Restart, Stopped, vars, heapVars
<1>2. daemon = "closed" => daemon' = "closed"
  BY DEF RestoreRetry, RestoreAttempt, RestoreAttemptEnd, RestoreNext, ShutdownBegin,
     Restart, Stopped, vars
<1>3. ASSUME NEW c \in Proc PROVE Still(c) \/ Calm(c)
  <2>1. CASE RestoreRetry
    <3>1. (pc'[c] \in {"idle", "rs_next", "lock"} /\ cur'[c] = cur[c]) \/ Still(c)
      BY <2>1, RestoreMoves DEF Known
    <3> QED
      BY <3>1 DEF Calm, Stops, Syncs, StopLabel
  <2>2. CASE ShutdownBegin \/ Restart \/ Stopped \/ UNCHANGED vars
    BY <2>2 DEF ShutdownBegin, Restart, Stopped, vars, procVars, Still
  <2> QED
    BY <2>1, <2>2
<1> QED
  BY <1>1, <1>2, <1>3, HeapKept

\* Shutdown takes the published runtimes over, each for a goroutine that stops it.
LEMMA ShutdownHeap ==
    ASSUME Known, [Next]_vars, HeapInv, ShutdownManager
    PROVE  HeapInv'
<1> USE TypeParts
<1>1. /\ UNCHANGED <<reg, rt, mu, loop, repairs>> /\ daemon' = "closed"
      /\ active' = [p \in Platform |-> Nil]
      /\ \A c \in Proc :
            \/ /\ c \in Platform /\ active[c] # Nil /\ pc'[c] = "stop" /\ op'[c] = "shutdown"
               /\ cur'[c] = active[c] /\ acct'[c] = rt[active[c]].acct
            \/ pc'[c] = "idle" /\ cur'[c] = cur[c]
  BY DEF ShutdownManager, hostVars
<1>2. SameObjects
  BY <1>1 DEF SameObjects, LoopLive
<1>3. Objects' /\ Generations'
  BY <1>2, KeepObjects, KnownStep DEF Known, HeapInv
<1>4. ASSUME NEW c \in Proc PROVE Stops(c)' /\ Syncs(c)'
  <2>1. CASE pc'[c] = "idle"
    BY <2>1 DEF Stops, Syncs, StopLabel
  <2>2. CASE /\ c \in Platform /\ active[c] # Nil /\ pc'[c] = "stop" /\ op'[c] = "shutdown"
             /\ cur'[c] = active[c] /\ acct'[c] = rt[active[c]].acct
    BY <1>1, <2>2 DEF Stops, Syncs, Known, HeapType
  <2> QED
    BY <1>1, <2>1, <2>2
<1>5. Mutexes'
  BY <1>1 DEF HeapInv, Mutexes
<1>6. Up'
  BY <1>1 DEF HeapInv, Up, Ingesting
<1>7. Feeds'
  BY <1>1, <1>2, KeepFeeds
<1> QED
  BY <1>3, <1>4, <1>5, <1>6, <1>7 DEF HeapInv

\* A daemon that ends takes its objects with it; a new one has none.
LEMMA NoObjectsHeap ==
    ASSUME active = NoLocks, rt = NoRuntimes, mu = NoMutexes, loop = NoLoops, repairs = NoRepairs,
           pc = AllIdle, cur = NoObjects
    PROVE  HeapInv
<1> USE DEF NoLocks, NoRuntimes, NoMutexes, NoLoops, NoRepairs, AllIdle, NoObjects, NoLoop
<1>1. \A k \in Chan : ~LoopLive(k) /\ loop[k].pc = "none" /\ repairs[k] = 0
  BY DEF LoopLive
<1>2. \A r \in Runtime : FreeRuntime(r)
  BY <1>1, NilIsNoProc DEF FreeRuntime
<1>3. Objects /\ Generations /\ Feeds
  BY <1>1, <1>2 DEF Objects, Generations, Feeds
<1>4. \A c \in Proc : pc[c] = "idle" /\ Stops(c) /\ Syncs(c)
  BY DEF Stops, Syncs, StopLabel
<1>5. Mutexes /\ Up
  BY <1>1, <1>4 DEF Mutexes, Up, Ingesting
<1> QED
  BY <1>3, <1>4, <1>5 DEF HeapInv

\* The end of the daemon process ends every loop and every holder with it.
LEMMA TerminateHeap ==
    ASSUME Terminate
    PROVE  HeapInv'
<1>1. /\ active' = NoLocks /\ rt' = NoRuntimes /\ mu' = NoMutexes /\ loop' = NoLoops
      /\ repairs' = NoRepairs /\ pc' = AllIdle /\ cur' = NoObjects
  BY DEF Terminate
<1> USE DEF NoLocks, NoRuntimes, NoMutexes, NoLoops, NoRepairs, AllIdle, NoObjects, NoLoop
<1>2. \A k \in Chan : ~LoopLive(k)' /\ loop'[k].pc = "none" /\ repairs'[k] = 0
  BY <1>1 DEF LoopLive
<1>3. \A r \in Runtime : FreeRuntime(r)'
  BY <1>1, <1>2, NilIsNoProc DEF FreeRuntime
<1>4. Objects' /\ Generations' /\ Feeds'
  BY <1>2, <1>3 DEF Objects, Generations, Feeds
<1>5. \A c \in Proc : pc'[c] = "idle" /\ Stops(c)' /\ Syncs(c)'
  BY <1>1 DEF Stops, Syncs, StopLabel
<1>6. Mutexes' /\ Up'
  BY <1>2, <1>5 DEF Mutexes, Up, Ingesting
<1> QED
  BY <1>4, <1>5, <1>6 DEF HeapInv

-----------------------------------------------------------------------------
(* The steps of the ingest mutex and of the loops.                         *)

\* Actor x takes or releases the ingest mutex of runtime q, or leaves it.
OnlyMutex(x, q) ==
    /\ mu[q] \in {Nil, x}
    /\ \A r \in Runtime \ {q} : mu'[r] = mu[r]

\* Whoever claims an ingest mutex has a runtime.
LEMMA Claimants ==
    ASSUME HeapInv
    PROVE  /\ \A k \in Chan : loop[k].pc = "driver" => loop[k].rt \in Runtime
           /\ \A c \in Proc : pc[c] \in {"rd_driver", "stop_driver"} => cur[c] \in Runtime
  BY DEF HeapInv, Objects, LoopLive, Stops, Syncs, StopLabel

\* It keeps the others' claims on the ingest mutexes.
LEMMA KeepMutexes ==
    ASSUME HeapInv, NEW x, NEW q, OnlyMutex(x, q) \/ mu' = mu
    PROVE  /\ \A k \in Chan \ {x} : loop[k].pc = "driver" => mu'[loop[k].rt] = k
           /\ \A c \in Proc \ {x} : pc[c] \in {"rd_driver", "stop_driver"} => mu'[cur[c]] = c
<1>1. \A k \in Chan : k # Nil
  BY PoolsDisjoint
<1>2. \A c \in Proc : c # Nil
  BY PoolsDisjoint
<1> QED
  BY <1>1, <1>2, Claimants DEF HeapInv, Mutexes, OnlyMutex

\* A turn of an ingest loop: only a runtime that is up lets it into the driver.
LEMMA LoopHeap ==
    ASSUME Known, [Next]_vars, HeapInv, NEW k \in Chan,
           LoopExit(k) \/ LoopBegin(k) \/ LoopLock(k) \/ LoopDone(k)
    PROVE  HeapInv'
<1> USE TypeParts
<1> DEFINE q == loop[k].rt
<1>0. UNCHANGED <<rt, active, repairs, pc, op, acct, cur, daemon>>
  BY Zenon DEF LoopExit, LoopBegin, LoopLock, LoopDone, procVars
<1>1. HeapType /\ k \notin Proc /\ k # Nil /\ Nil \notin Proc
  BY PoolsDisjoint DEF Known
<1>2. q \in Runtime /\ LoopLive(k)
  BY DEF HeapInv, Objects, LoopLive, LoopExit, LoopBegin, LoopLock, LoopDone
<1>3. PICK l \in {"run", "mu", "driver", "exited"} : loop' = [loop EXCEPT ![k].pc = l]
  BY DEF LoopExit, LoopBegin, LoopLock, LoopDone
<1>4. /\ loop'[k].pc = l
      /\ \A j \in Chan : loop'[j].rt = loop[j].rt
      /\ \A j \in Chan \ {k} : loop'[j].pc = loop[j].pc
  BY <1>1, <1>3 DEF HeapType, LoopObject
<1>5. OnlyMutex(k, q) \/ mu' = mu
  BY <1>1, <1>2 DEF HeapType, HeapInv, Mutexes, OnlyMutex, LoopExit, LoopBegin, LoopLock, LoopDone
<1>6. l = "driver" => mu'[q] = k /\ rt[q].phase = "up"
  BY <1>1, <1>2, <1>4 DEF HeapType, LoopObject, LoopExit, LoopBegin, LoopLock, LoopDone
<1>7. SameObjects
  BY <1>0, <1>2, <1>4 DEF SameObjects, LoopLive
<1> HIDE DEF q
<1>8. Mutexes'
  <2>1. /\ \A j \in Chan \ {k} : loop[j].pc = "driver" => mu'[loop[j].rt] = j
        /\ \A c \in Proc \ {k} : pc[c] \in {"rd_driver", "stop_driver"} => mu'[cur[c]] = c
    BY <1>5, KeepMutexes
  <2> QED
    BY <1>0, <1>1, <1>4, <1>6, <2>1 DEF Mutexes, q
<1>9. Up'
  BY <1>0, <1>4, <1>6 DEF HeapInv, Up, Ingesting, q
<1> QED
  BY <1>0, <1>7, <1>8, <1>9, Steady DEF Still

\* The ingest of a request: refused by a runtime that is stopping.
LEMMA SyncHeap ==
    ASSUME Known, [Next]_vars, HeapInv, NEW c \in Proc, SyncLock(c) \/ SyncDone(c)
    PROVE  HeapInv'
<1> USE TypeParts
<1> DEFINE q == cur[c]
<1>0. UNCHANGED <<rt, active, repairs, loop, daemon>> /\ \A d \in Proc \ {c} : Still(d)
  <2>1. Acts(c)
    BY Zenon DEF Acts, Observe
  <2> QED
    BY <2>1, OneMoves, Zenon DEF Known, SyncLock, SyncDone
<1>1. HeapType /\ c \notin Chan /\ c # Nil /\ Nil \notin Chan
  BY PoolsDisjoint DEF Known
<1>2. q \in Runtime /\ Syncs(c)
  BY DEF HeapInv, Syncs, SyncLock, SyncDone
<1>3. PICK l \in {"rd_driver", "rd_index"} : Goto(c, l) /\ (l = "rd_driver" => SyncLock(c))
  BY Zenon DEF SyncLock, SyncDone
<1>4. pc'[c] = l /\ acct'[c] = acct[c] /\ cur'[c] = q
  BY <1>3, GotoStays DEF Known
<1>5. OnlyMutex(c, q) \/ mu' = mu
  BY <1>1, <1>2 DEF HeapType, HeapInv, Mutexes, OnlyMutex, SyncLock, SyncDone
<1>6. l = "rd_driver" => mu'[q] = c /\ rt[q].phase = "up"
  <2> SUFFICES ASSUME l = "rd_driver" PROVE mu'[q] = c /\ rt[q].phase = "up"
    OBVIOUS
  <2>1. SyncLock(c) /\ pc'[c] # "rd_index"
    BY <1>3, <1>4
  <2>2. rt[q].phase = "up" /\ mu' = [mu EXCEPT ![q] = c]
    BY <2>1, GotoStays DEF SyncLock, Known
  <2> QED
    BY <1>1, <1>2, <2>2 DEF HeapType
<1>7. SameObjects
  BY <1>0, <1>4 DEF SameObjects, LoopLive, Still
<1>8. Stops(c)' /\ Syncs(c)'
  BY <1>0, <1>2, <1>4, Zenon DEF Stops, Syncs, StopLabel, SyncLock, SyncDone
<1> HIDE DEF q
<1>9. Mutexes'
  <2>1. /\ \A k \in Chan \ {c} : loop[k].pc = "driver" => mu'[loop[k].rt] = k
        /\ \A d \in Proc \ {c} : pc[d] \in {"rd_driver", "stop_driver"} => mu'[cur[d]] = d
    BY <1>5, KeepMutexes
  <2> QED
    BY <1>0, <1>1, <1>4, <1>6, <2>1 DEF Mutexes, Still
<1>10. Up'
  BY <1>0, <1>4, <1>6 DEF HeapInv, Up, Ingesting, Still
<1> QED
  BY <1>0, <1>7, <1>8, <1>9, <1>10, Steady

-----------------------------------------------------------------------------
(* stopRuntime.                                                            *)

\* Nobody is ingesting in a runtime whose mutex is free or held by a stop.
LEMMA NoIngest ==
    ASSUME HeapInv, NEW c \in Proc, NEW q \in Runtime,
           mu[q] = Nil \/ (mu[q] = c /\ pc[c] = "stop_driver")
    PROVE  ~Ingesting(q)
<1>1. c \notin Chan /\ Nil \notin Chan /\ Nil \notin Proc
  BY PoolsDisjoint
<1> QED
  BY <1>1 DEF HeapInv, Mutexes, Ingesting

\* What a stop knows of the runtime it stops.
LEMMA Stopping ==
    ASSUME Known, HeapInv, NEW c \in Proc, pc[c] \in StopLabel \cup {"drop"}
    PROVE  /\ Stops(c) /\ cur[c] \in Runtime /\ ~FreeRuntime(cur[c])
           /\ rt[cur[c]].acct \in Account
           /\ rt[cur[c]].done \in Chan /\ loop[rt[cur[c]].done].rt = cur[c]
           /\ acct[c] \in Account /\ opLock[PlatformOf(acct[c])] = c
<1>1. Stops(c) /\ cur[c] \in Runtime
  BY DEF HeapInv, Stops
<1>2. ~FreeRuntime(cur[c])
  BY <1>1, InUse, TypeParts DEF Known
<1>3. acct[c] \in Account /\ opLock[PlatformOf(acct[c])] = c
  BY LockedKnows DEF Known, StopLabel, LockedLabel
<1> QED
  BY <1>1, <1>2, <1>3 DEF HeapInv, Objects

\* A step of a stop that starts no loop: it may change the phase of its runtime
\* only while nobody ingests there.
LEMMA StopSteady ==
    ASSUME Known, [Next]_vars, HeapInv, NEW c \in Proc, pc[c] \in StopLabel, Lifecycle(c),
           active' = active,
           \A k \in Chan : loop'[k].rt = loop[k].rt /\ loop'[k].pc = loop[k].pc,
           \A k \in Chan : repairs'[k] > 0 => repairs[k] > 0 \/ loop[k].rt = cur[c],
           \A r \in Runtime : rt'[r].acct = rt[r].acct /\ rt'[r].done = rt[r].done,
           \A r \in Runtime : rt'[r].phase = rt[r].phase \/ (r = cur[c] /\ ~Ingesting(r)),
           OnlyMutex(c, cur[c]) \/ mu' = mu,
           pc'[c] # "rd_driver",
           pc'[c] = "stop_driver" => mu'[cur[c]] = c,
           cur'[c] \in {cur[c], Nil},
           Stops(c)' /\ Syncs(c)'
    PROVE  HeapInv'
<1> DEFINE q == cur[c]
<1>0. daemon' = daemon /\ \A d \in Proc \ {c} : Still(d)
  BY OneMoves, TypeParts DEF Known, Acts
<1>1. q \in Runtime /\ c \notin Chan
  BY Stopping, PoolsDisjoint
<1>2. \A k \in Chan : LoopLive(k)' <=> LoopLive(k)
  BY DEF LoopLive
<1>3. SameObjects
  BY <1>0, <1>1, <1>2 DEF SameObjects, Still
<1>4. Mutexes'
  <2>1. /\ \A k \in Chan \ {c} : loop[k].pc = "driver" => mu'[loop[k].rt] = k
        /\ \A d \in Proc \ {c} : pc[d] \in {"rd_driver", "stop_driver"} => mu'[cur[d]] = d
    BY KeepMutexes
  <2>2. pc'[c] = "stop_driver" => cur'[c] = q
    BY <1>1, NilIsNoProc DEF Stops, StopLabel
  <2> QED
    BY <1>0, <1>1, <2>1, <2>2 DEF Mutexes, Still
<1>5. Up'
  <2> SUFFICES ASSUME NEW r \in Runtime, Ingesting(r)' PROVE rt'[r].phase = "up"
    BY DEF Up
  <2>1. Ingesting(r)
    BY <1>0 DEF Ingesting, Still
  <2> QED
    BY <2>1 DEF HeapInv, Up
<1> QED
  BY <1>0, <1>3, <1>4, <1>5, Steady

\* The cancellation, the give-up and the drained mutex.
LEMMA StopHeap ==
    ASSUME Known, [Next]_vars, HeapInv, NEW c \in Proc,
           StopCancel(c) \/ StopTimeout(c) \/ StopDrain(c)
    PROVE  HeapInv'
<1> USE TypeParts
<1> DEFINE q == cur[c]
           k == rt[q].done
<1>0. HeapType /\ ProcType
  BY DEF Known
<1>1. Lifecycle(c) /\ pc[c] \in StopLabel
  BY DEF Lifecycle, StopCancel, StopTimeout, StopDrain, StopLabel
<1>2. /\ Stops(c) /\ q \in Runtime /\ k \in Chan /\ loop[k].rt = q
  BY <1>1, Stopping
<1>3. CASE StopCancel(c)
  <2>1. /\ UNCHANGED <<active, rt, mu, repairs>>
        /\ loop' = [loop EXCEPT ![k].cancelled = TRUE] /\ Goto(c, "stop_wait")
    BY <1>3 DEF StopCancel
  <2>2. pc'[c] = "stop_wait" /\ op' = op /\ acct' = acct /\ cur' = cur
    BY <1>0, <2>1, GotoStays
  <2>3. \A j \in Chan : loop'[j].rt = loop[j].rt /\ loop'[j].pc = loop[j].pc
    BY <1>0, <2>1 DEF HeapType, LoopObject
  <2>4. Stops(c)' /\ Syncs(c)'
    BY <1>1, <1>2, <2>1, <2>2 DEF Stops, Syncs, StopLabel
  <2> QED
    BY <1>1, <2>1, <2>2, <2>3, <2>4, StopSteady
<1>4. CASE StopTimeout(c)
  <2>1. /\ UNCHANGED <<active, rt, mu, loop>> /\ \E ok : Return(c, ok)
        /\ \/ repairs' = repairs
           \/ repairs' = [repairs EXCEPT ![k] = IF @ < MaxRepairs THEN @ + 1 ELSE @]
    BY <1>4 DEF StopTimeout
  <2>2. pc'[c] \in {"idle", "rs_next"} /\ cur'[c] = Nil /\ Stops(c)' /\ Syncs(c)'
    BY <1>0, <2>1, ReturnEnds, ReturnCalm DEF Calm
  <2>3. \A j \in Chan : repairs'[j] > 0 => repairs[j] > 0 \/ loop[j].rt = q
    BY <1>0, <1>2, <2>1 DEF HeapType
  <2> QED
    BY <1>1, <2>1, <2>2, <2>3, StopSteady
<1>5. CASE StopDrain(c)
  <2>1. /\ UNCHANGED <<active, loop, repairs>> /\ Goto(c, "stop_driver")
        /\ mu[q] = Nil /\ mu' = [mu EXCEPT ![q] = c]
        /\ rt' = [rt EXCEPT ![q].phase = "stopping"]
        /\ pc[c] = "stop_mu"
    BY <1>5 DEF StopDrain
  <2>2. pc'[c] = "stop_driver" /\ op' = op /\ acct' = acct /\ cur' = cur
    BY <1>0, <2>1, GotoStays
  <2>3. /\ \A r \in Runtime : rt'[r].acct = rt[r].acct /\ rt'[r].done = rt[r].done
        /\ \A r \in Runtime \ {q} : rt'[r].phase = rt[r].phase
    BY <1>0, <2>1 DEF HeapType, RuntimeObject
  <2>4. Stops(c)' /\ Syncs(c)'
    BY <1>1, <1>2, <2>1, <2>2, <2>3 DEF Stops, Syncs, StopLabel, LoopLive
  <2>5. mu'[q] = c /\ OnlyMutex(c, q)
    BY <1>0, <1>2, <2>1 DEF HeapType, OnlyMutex
  <2>6. ~Ingesting(q)
    BY <1>2, <2>1, NoIngest
  <2> QED
    BY <1>1, <2>1, <2>2, <2>3, <2>4, <2>5, <2>6, StopSteady
<1> QED
  BY <1>3, <1>4, <1>5

\* The driver has stopped: the mutex is released, the runtime still published.
LEMMA StopOkHeap ==
    ASSUME Known, [Next]_vars, HeapInv, NEW c \in Proc, StopOk(c)
    PROVE  HeapInv'
<1> USE TypeParts
<1> DEFINE q == cur[c]
<1>0. HeapType /\ ProcType
  BY DEF Known
<1>1. Lifecycle(c) /\ pc[c] = "stop_driver" /\ pc[c] \in StopLabel
  BY DEF Lifecycle, StopOk, StopLabel
<1>2. Stops(c) /\ q \in Runtime /\ mu[q] = c
  BY <1>1, Stopping DEF HeapInv, Mutexes
<1>3. /\ UNCHANGED <<active, loop, repairs>>
      /\ rt' = [rt EXCEPT ![q].phase = "stopped"] /\ mu' = [mu EXCEPT ![q] = Nil]
  BY DEF StopOk
<1>4. /\ \A r \in Runtime : rt'[r].acct = rt[r].acct /\ rt'[r].done = rt[r].done
      /\ \A r \in Runtime \ {q} : rt'[r].phase = rt[r].phase
  BY <1>0, <1>3 DEF HeapType, RuntimeObject
<1>5. /\ pc'[c] \notin {"rd_driver", "stop_driver"} /\ cur'[c] \in {q, Nil}
      /\ Stops(c)' /\ Syncs(c)'
  <2>1. CASE \E ok : Return(c, ok)
    BY <1>0, <2>1, ReturnCalm, ReturnEnds DEF Calm
  <2>2. CASE Goto(c, "drop")
    <3>1. pc'[c] = "drop" /\ op' = op /\ acct' = acct /\ cur' = cur
      BY <1>0, <2>2, GotoStays
    <3> QED
      BY <1>1, <1>2, <1>3, <1>4, <3>1 DEF Stops, Syncs, StopLabel, LoopLive
  <2> QED
    BY <2>1, <2>2, Zenon DEF StopOk
<1>6. OnlyMutex(c, q)
  BY <1>0, <1>2, <1>3 DEF HeapType, OnlyMutex
<1>7. ~Ingesting(q)
  BY <1>1, <1>2, NoIngest
<1> QED
  BY <1>1, <1>3, <1>4, <1>5, <1>6, <1>7, StopSteady

\* The stopped runtime leaves the active map; its loop ended before the stop.
LEMMA DropHeap ==
    ASSUME Known, [Next]_vars, HeapInv, NEW c \in Proc, DropRuntime(c)
    PROVE  HeapInv'
<1> USE TypeParts
<1> DEFINE q == cur[c]
           p == PlatformOf(acct[c])
<1>0. HeapType /\ ProcType /\ p \in Platform
  BY PlatformType DEF Known
<1>1. Lifecycle(c) /\ pc[c] = "drop" /\ op[c] # "shutdown"
  <2>1. pc[c] = "drop"
    BY DEF DropRuntime
  <2> QED
    BY <2>1, OpsOf DEF Lifecycle, Known, Works
<1>2. /\ Stops(c) /\ q \in Runtime /\ opLock[p] = c
      /\ active[p] = q /\ ~LoopLive(rt[q].done)
  BY <1>1, Stopping DEF Stops, StopLabel
<1>3. /\ UNCHANGED <<rt, mu, loop, repairs>> /\ active' = [active EXCEPT ![p] = Nil]
      /\ cur'[c] = Nil /\ pc'[c] \in {"unregister", "register"}
  BY <1>0 DEF DropRuntime, ProcType
<1>4. daemon' = daemon /\ \A d \in Proc \ {c} : Still(d)
  BY <1>0, <1>1, OneMoves DEF Acts
<1>5. SameObjects
  BY <1>0, <1>3, <1>4 DEF SameObjects, LoopLive, Still, HeapType
<1>6. Objects' /\ Generations'
  BY <1>5, KeepObjects, KnownStep DEF Known, HeapInv
<1>7. ASSUME NEW d \in Proc PROVE Stops(d)' /\ Syncs(d)'
  <2>1. CASE d = c
    BY <1>3, <2>1 DEF Stops, Syncs, StopLabel
  <2>2. CASE d # c /\ pc[d] \in StopLabel \cup {"drop"}
    <3>1. PlatformOf(acct[d]) # p
      BY <1>2, <2>2, Stopping
    <3>2. active'[PlatformOf(acct[d])] = active[PlatformOf(acct[d])]
      BY <1>0, <1>3, <3>1, PlatformType DEF HeapType
    <3> QED
      BY <1>4, <1>5, <2>2, <3>2, KeepProcs DEF Known
  <2>3. CASE d # c /\ pc[d] \notin StopLabel \cup {"drop"}
    BY <1>4, <1>5, <2>3, KeepProcs DEF Known
  <2> QED
    BY <2>1, <2>2, <2>3
<1>8. Mutexes'
  BY <1>3, <1>4 DEF HeapInv, Mutexes, Still
<1>9. Up'
  BY <1>3, <1>4 DEF HeapInv, Up, Ingesting, Still
<1>10. Feeds'
  <2>1. ASSUME NEW k \in Chan, LoopLive(k)'
        PROVE  LET b == PlatformOf(rt[loop[k].rt].acct) IN active'[b] = active[b]
    <3>1. LoopLive(k)
      BY <1>5, <2>1 DEF SameObjects
    <3>2. rt[loop[k].rt].done = k
      BY <3>1 DEF HeapInv, Generations
    <3>3. daemon # "closed"
      BY <1>1, OpsOf, <1>0 DEF Known, Works, Working
    <3>4. active[PlatformOf(rt[loop[k].rt].acct)] = loop[k].rt
      BY <3>1, <3>3 DEF HeapInv, Feeds
    <3>5. PlatformOf(rt[loop[k].rt].acct) # p
      BY <1>2, <3>1, <3>2, <3>4
    <3> QED
      BY <1>0, <1>3, <3>5, PlatformType DEF HeapType
  <2> QED
    BY <1>4, <1>5, <2>1, KeepFeeds
<1> QED
  BY <1>6, <1>7, <1>8, <1>9, <1>10 DEF HeapInv

-----------------------------------------------------------------------------
(* startIngest: a new channel and loop for a runtime without a live one.   *)

\* What every step that starts a loop k for runtime q has in common.
Starts(q, k) ==
    /\ FreeChan(k)
    /\ loop' = [loop EXCEPT ![k] = NewLoop(q)]
    /\ rt'[q].acct \in Account /\ rt'[q].done = k /\ rt'[q].phase \in {rt[q].phase, "up"}
    /\ \A r \in Runtime \ {q} : rt'[r] = rt[r]
    /\ rt'[q].acct = rt[q].acct \/ FreeRuntime(q)
    /\ \A j \in Chan : LoopLive(j) => loop[j].rt # q
    /\ \A j \in Chan : repairs'[j] > 0 => repairs[j] > 0
    /\ active'[PlatformOf(rt'[q].acct)] = q
    /\ \A p \in Platform : active'[p] = active[p] \/ (p = PlatformOf(rt'[q].acct) /\ active[p] = Nil)

\* The runtime's only loop is the new one.
LEMMA StartObjects ==
    ASSUME Known, [Next]_vars, Objects, Generations, NEW q \in Runtime, NEW k \in Chan, Starts(q, k),
           \A c \in Proc : cur'[c] \in {cur[c], Nil}
    PROVE  Objects' /\ Generations'
<1> USE TypeParts
<1>0. HeapType /\ HeapType'
  BY KnownStep DEF Known
<1>1. /\ loop'[k].rt = q /\ ~LoopLive(k)
      /\ \A j \in Chan \ {k} : loop'[j] = loop[j] /\ (LoopLive(j)' <=> LoopLive(j))
  BY <1>0 DEF Starts, NewLoop, FreeChan, LoopLive, HeapType
<1>2. ASSUME NEW r \in Runtime \ {q}, ~FreeRuntime(r)' PROVE ~FreeRuntime(r)
  <2>1. \/ \E p \in Platform : active'[p] = r
        \/ \E c \in Proc : cur'[c] = r
        \/ \E j \in Chan : loop'[j].rt = r /\ (LoopLive(j)' \/ repairs'[j] > 0)
    <3>1. \A j \in Chan : repairs'[j] = 0 <=> ~(repairs'[j] > 0)
      BY <1>0, BoundsAreNaturals DEF HeapType
    <3> QED
      BY <1>2, <3>1, Zenon DEF FreeRuntime
  <2>2. CASE \E p \in Platform : active'[p] = r
    BY <1>0, <1>2, <2>2, InUse DEF Starts
  <2>3. CASE \E c \in Proc : cur'[c] = r
    BY <1>0, <2>3, InUse, NilIsNoProc
  <2>4. CASE \E j \in Chan : loop'[j].rt = r /\ (LoopLive(j)' \/ repairs'[j] > 0)
    BY <1>0, <1>1, <2>4, InUse DEF Starts
  <2> QED
    BY <2>1, <2>2, <2>3, <2>4
<1>3. Objects'
  <2>1. ASSUME NEW r \in Runtime, ~FreeRuntime(r)'
        PROVE  rt'[r].acct \in Account /\ rt'[r].done \in Chan /\ loop'[rt'[r].done].rt = r
    <3>1. CASE r = q
      BY <1>1, <3>1 DEF Starts
    <3>2. CASE r # q
      <4>1. ~FreeRuntime(r) /\ rt'[r] = rt[r] /\ rt[r].done # k
        BY <1>2, <2>1, <3>2 DEF Starts, FreeChan
      <4> QED
        BY <1>1, <4>1 DEF Objects
    <3> QED
      BY <3>1, <3>2
  <2>2. ASSUME NEW j \in Chan, LoopLive(j)' \/ repairs'[j] > 0 PROVE loop'[j].rt \in Runtime
    BY <1>1, <2>2 DEF Objects, Starts
  <2> QED
    BY <2>1, <2>2 DEF Objects
<1>4. Generations'
  <2> SUFFICES ASSUME NEW j \in Chan, LoopLive(j)' PROVE rt'[loop'[j].rt].done = j
    BY DEF Generations
  <2>1. CASE j = k
    BY <1>1, <2>1 DEF Starts
  <2>2. CASE j # k
    BY <1>1, <2>2 DEF Starts, Generations, Objects
  <2> QED
    BY <2>1, <2>2
<1> QED
  BY <1>3, <1>4

\* A process c starts the loop, or nobody does: the others hold on to what they
\* have, and no stop but c's is at work on the runtime.
LEMMA StartHeap ==
    ASSUME Known, [Next]_vars, HeapInv, NEW q \in Runtime, NEW k \in Chan, Starts(q, k),
           daemon # "closed", daemon' = daemon,
           \A d \in Proc : Still(d) \/ (pc'[d] \in {"idle", "rs_next"} /\ cur'[d] = Nil),
           \A d \in Proc : Still(d) /\ pc[d] \in StopLabel \cup {"drop"} =>
              PlatformOf(acct[d]) # PlatformOf(rt'[q].acct),
           \A j \in Chan : loop[j].pc = "driver" => mu'[loop[j].rt] = j,
           \A d \in Proc : Still(d) /\ pc[d] \in {"rd_driver", "stop_driver"} => mu'[cur[d]] = d
    PROVE  HeapInv'
<1> USE TypeParts
<1> DEFINE a == rt'[q].acct
<1>0. HeapType /\ HeapType'
  BY KnownStep DEF Known
<1>1. /\ loop'[k].rt = q /\ loop'[k].pc = "run" /\ ~LoopLive(k) /\ rt[q].acct \in Account \cup {Nil}
      /\ \A j \in Chan \ {k} : loop'[j] = loop[j] /\ (LoopLive(j)' <=> LoopLive(j))
  BY <1>0 DEF Starts, NewLoop, FreeChan, LoopLive, HeapType, RuntimeObject
<1>2. Objects' /\ Generations'
  BY StartObjects DEF HeapInv, Still
<1>3. ASSUME NEW d \in Proc PROVE Stops(d)' /\ Syncs(d)'
  <2>1. CASE pc'[d] \in {"idle", "rs_next"}
    BY <2>1 DEF Stops, Syncs, StopLabel
  <2>2. CASE Still(d) /\ pc[d] \in StopLabel \cup {"drop"}
    <3>1. /\ Stops(d) /\ cur[d] \in Runtime /\ ~FreeRuntime(cur[d])
          /\ rt[cur[d]].done \in Chan
      BY <2>2, Stopping
    <3>2. cur[d] # q
      BY <2>2, <3>1 DEF Starts, Stops
    <3>3. rt'[cur[d]] = rt[cur[d]] /\ rt[cur[d]].done # k
      BY <3>1, <3>2 DEF Starts, FreeChan
    <3>4. active'[PlatformOf(acct[d])] = active[PlatformOf(acct[d])]
      BY <2>2, PlatformType DEF Starts
    <3>5. Stops(d)'
      BY <1>1, <2>2, <3>1, <3>3, <3>4 DEF Stops, Still, LoopLive
    <3>6. Syncs(d)'
      BY <2>2 DEF Syncs, Still, StopLabel
    <3> QED
      BY <3>5, <3>6
  <2>3. CASE Still(d) /\ pc[d] \notin StopLabel \cup {"drop"}
    <3>1. Stops(d)'
      BY <2>3 DEF Stops, Still, StopLabel
    <3>2. ASSUME pc[d] \in {"rd_sync", "rd_driver"}
          PROVE  cur[d] \in Runtime /\ rt'[cur[d]].acct = acct[d]
      <4>1. cur[d] \in Runtime /\ rt[cur[d]].acct = acct[d]
        BY <3>2 DEF HeapInv, Syncs
      <4>2. ~FreeRuntime(cur[d])
        BY <1>0, <4>1, InUse
      <4> QED
        BY <4>1, <4>2 DEF Starts
    <3> QED
      BY <2>3, <3>1, <3>2 DEF Syncs, Still
  <2> QED
    BY <2>1, <2>2, <2>3
<1>4. Mutexes'
  <2>1. ASSUME NEW j \in Chan, loop'[j].pc = "driver" PROVE mu'[loop'[j].rt] = j
    BY <1>1, <2>1
  <2>2. ASSUME NEW d \in Proc, pc'[d] \in {"rd_driver", "stop_driver"} PROVE mu'[cur'[d]] = d
    BY <2>2 DEF Still
  <2> QED
    BY <2>1, <2>2 DEF Mutexes
<1>5. Up'
  <2> SUFFICES ASSUME NEW r \in Runtime, Ingesting(r)' PROVE rt'[r].phase = "up"
    BY DEF Up
  <2>1. Ingesting(r)
    BY <1>1 DEF Ingesting, Still
  <2> QED
    BY <2>1 DEF HeapInv, Up, Starts
<1>6. Feeds'
  <2> SUFFICES ASSUME NEW j \in Chan, LoopLive(j)'
               PROVE  /\ Usable(reg', rt'[loop'[j].rt].acct)
                      /\ active'[PlatformOf(rt'[loop'[j].rt].acct)] = loop'[j].rt
    BY DEF Feeds
  <2>1. active'[PlatformOf(rt'[loop'[j].rt].acct)] = loop'[j].rt
    <3>1. CASE j = k
      BY <1>1, <3>1 DEF Starts
    <3>2. CASE j # k
      <4>1. LoopLive(j) /\ loop'[j] = loop[j] /\ loop[j].rt # q /\ loop[j].rt \in Runtime
        BY <1>1, <3>2 DEF Starts, HeapInv, Objects
      <4>2. rt'[loop[j].rt] = rt[loop[j].rt]
        BY <4>1 DEF Starts
      <4>3. active[PlatformOf(rt[loop[j].rt].acct)] = loop[j].rt
        BY <4>1 DEF HeapInv, Feeds
      <4>4. active'[PlatformOf(rt[loop[j].rt].acct)] = loop[j].rt
        BY <4>1, <4>3, PlatformType, NilIsNoProc DEF Starts
      <4> QED
        BY <4>1, <4>2, <4>4
    <3> QED
      BY <3>1, <3>2
  <2>2. loop'[j].rt \in Runtime
    BY <1>2 DEF Objects
  <2> QED
    BY <2>1, <2>2, KnownStep, PlatformType, NilIsNoProc
       DEF Known, LifecycleInv, PublishedIsRequested
<1> QED
  BY <1>2, <1>3, <1>4, <1>5, <1>6 DEF HeapInv

\* The driver failed to stop: unless the daemon shuts down, the runtime goes back
\* to work with a new loop.
LEMMA StopFailHeap ==
    ASSUME Known, [Next]_vars, HeapInv, NEW c \in Proc, StopFail(c)
    PROVE  HeapInv'
<1> USE TypeParts
<1> DEFINE q == cur[c]
<1>0. HeapType /\ ProcType
  BY DEF Known
<1>1. Lifecycle(c) /\ pc[c] = "stop_driver" /\ pc[c] \in StopLabel
  BY DEF Lifecycle, StopFail, StopLabel
<1>2. /\ Stops(c) /\ q \in Runtime /\ mu[q] = c /\ ~FreeRuntime(q) /\ rt[q].acct \in Account
      /\ opLock[PlatformOf(acct[c])] = c /\ ~LoopLive(rt[q].done)
      /\ PlatformOf(rt[q].acct) = PlatformOf(acct[c])
  BY <1>1, Stopping DEF HeapInv, Mutexes, Stops
<1>3. UNCHANGED <<active, repairs>> /\ mu' = [mu EXCEPT ![q] = Nil] /\ \E ok : Return(c, ok)
  BY DEF StopFail
<1>4. OnlyMutex(c, q)
  BY <1>0, <1>2, <1>3 DEF HeapType, OnlyMutex
<1>5. pc'[c] \in {"idle", "rs_next"} /\ cur'[c] = Nil /\ Stops(c)' /\ Syncs(c)'
  BY <1>0, <1>3, ReturnEnds, ReturnCalm DEF Calm
<1>6. CASE ~RestartOnFailure(c)
  <2>1. UNCHANGED <<rt, loop>>
    BY <1>6 DEF StopFail
  <2> QED
    BY <1>1, <1>3, <1>4, <1>5, <2>1, StopSteady
<1>7. CASE RestartOnFailure(c)
  <2>1. PICK k \in Chan : /\ FreeChan(k)
                          /\ rt' = [rt EXCEPT ![q].phase = "up", ![q].done = k]
                          /\ loop' = [loop EXCEPT ![k] = NewLoop(q)]
    BY <1>7 DEF StopFail
  <2>2. active[PlatformOf(rt[q].acct)] = q /\ daemon # "closed"
    BY <1>1, <1>2, <1>7, OpsOf DEF Stops, RestartOnFailure, Known, Works, Working
  <2>3. /\ rt'[q].acct = rt[q].acct /\ rt'[q].done = k /\ rt'[q].phase = "up"
        /\ \A r \in Runtime \ {q} : rt'[r] = rt[r]
    BY <1>0, <1>2, <2>1 DEF HeapType, RuntimeObject
  <2>4. Starts(q, k)
    BY <1>2, <1>3, <2>1, <2>2, <2>3 DEF Starts, HeapInv, Generations
  <2>5. daemon' = daemon /\ \A d \in Proc \ {c} : Still(d)
    BY <1>0, <1>1, OneMoves DEF Acts
  <2>6. ~Still(c)
    BY <1>1, <1>5 DEF Still
  <2>7. ASSUME NEW d \in Proc, Still(d), pc[d] \in StopLabel \cup {"drop"}
        PROVE  PlatformOf(acct[d]) # PlatformOf(rt'[q].acct)
    BY <1>2, <2>3, <2>6, <2>7, Stopping
  <2>8. /\ \A j \in Chan : loop[j].pc = "driver" => mu'[loop[j].rt] = j
        /\ \A d \in Proc : Still(d) /\ pc[d] \in {"rd_driver", "stop_driver"} => mu'[cur[d]] = d
    BY <1>4, <2>6, KeepMutexes, PoolsDisjoint
  <2> QED
    BY <1>2, <1>5, <2>2, <2>4, <2>5, <2>7, <2>8, StartHeap
<1> QED
  BY <1>6, <1>7

\* A repair restarts the loop of this generation, or finds nothing to repair.
LEMMA RepairHeap ==
    ASSUME Known, [Next]_vars, HeapInv, NEW k \in Chan, Repair(k) \/ RepairClosed(k)
    PROVE  HeapInv'
<1> USE TypeParts
<1> DEFINE q == loop[k].rt
<1>0. HeapType
  BY DEF Known
<1>1. /\ UNCHANGED <<active, mu, daemon, pc, op, acct, cur>>
      /\ repairs[k] > 0 /\ repairs' = [repairs EXCEPT ![k] = @ - 1]
  BY DEF Repair, RepairClosed, procVars
<1>2. q \in Runtime /\ ~FreeRuntime(q) /\ rt[q].acct \in Account
  BY <1>0, <1>1, InUse DEF HeapInv, Objects
<1>3. \A j \in Chan : repairs'[j] > 0 => repairs[j] > 0
  BY <1>0, <1>1 DEF HeapType
<1>4. \A d \in Proc : Still(d)
  BY <1>1 DEF Still
<1>5. CASE UNCHANGED <<rt, loop>>
  <2>1. SameObjects
    BY <1>1, <1>3, <1>5 DEF SameObjects, LoopLive
  <2>2. Mutexes' /\ Up'
    BY <1>1, <1>5 DEF HeapInv, Mutexes, Up, Ingesting
  <2> QED
    BY <1>1, <1>4, <2>1, <2>2, Steady
<1>6. CASE Repair(k) /\ NeedsRepair(k)
  <2>1. PICK new \in Chan : /\ FreeChan(new)
                            /\ rt' = [rt EXCEPT ![q].done = new]
                            /\ loop' = [loop EXCEPT ![new] = NewLoop(q)]
    BY <1>6 DEF Repair
  <2>2. /\ active[PlatformOf(rt[q].acct)] = q /\ daemon # "closed" /\ rt[q].done = k
        /\ ~LoopLive(k) /\ opLock[PlatformOf(rt[q].acct)] = Nil
    BY <1>6 DEF Repair, NeedsRepair
  <2>3. /\ rt'[q].acct = rt[q].acct /\ rt'[q].done = new /\ rt'[q].phase = rt[q].phase
        /\ \A r \in Runtime \ {q} : rt'[r] = rt[r]
    BY <1>0, <1>2, <2>1 DEF HeapType, RuntimeObject
  <2>4. Starts(q, new)
    BY <1>1, <1>2, <1>3, <2>1, <2>2, <2>3 DEF Starts, HeapInv, Generations
  <2>5. ASSUME NEW d \in Proc, pc[d] \in StopLabel \cup {"drop"}
        PROVE  PlatformOf(acct[d]) # PlatformOf(rt'[q].acct)
    BY <2>2, <2>3, <2>5, Stopping, NilIsNoProc
  <2>6. /\ \A j \in Chan : loop[j].pc = "driver" => mu'[loop[j].rt] = j
        /\ \A d \in Proc : pc[d] \in {"rd_driver", "stop_driver"} => mu'[cur[d]] = d
    BY <1>1 DEF HeapInv, Mutexes
  <2> QED
    BY <1>1, <1>2, <1>4, <2>2, <2>4, <2>5, <2>6, StartHeap
<1> QED
  BY <1>5, <1>6 DEF Repair, RepairClosed

\* A new runtime is published on a platform without one.
LEMMA PublishHeap ==
    ASSUME Known, [Next]_vars, HeapInv, NEW c \in Proc,
           NEW r \in Runtime, NEW k \in Chan, NEW ok \in BOOLEAN, Publish(c, r, k, ok)
    PROVE  HeapInv'
<1> USE TypeParts
<1> DEFINE a == acct[c]
<1>0. HeapType /\ ProcType
  BY DEF Known
<1>1. Lifecycle(c) /\ pc[c] = "publish" /\ daemon # "closed"
  <2>1. pc[c] = "publish"
    BY DEF Publish
  <2>2. daemon # "closed"
    BY <1>0, <2>1, OpsOf DEF Known, Works, Working
  <2> QED
    BY <2>1, <2>2 DEF Lifecycle
<1>2. /\ a \in Account /\ PlatformOf(a) \in Platform /\ opLock[PlatformOf(a)] = c
      /\ active[PlatformOf(a)] = Nil
  BY <1>1, LockedKnows DEF LockedLabel, Known, LifecycleInv, Relies
<1>3. /\ FreeRuntime(r) /\ FreeChan(k) /\ UNCHANGED <<mu, repairs>>
      /\ rt' = [rt EXCEPT ![r] = [acct |-> a, done |-> k, phase |-> "up"]]
      /\ loop' = [loop EXCEPT ![k] = NewLoop(r)]
      /\ active' = [active EXCEPT ![PlatformOf(a)] = r]
      /\ \E good : Return(c, good)
  BY DEF Publish
<1>4. rt'[r] = [acct |-> a, done |-> k, phase |-> "up"] /\ \A s \in Runtime \ {r} : rt'[s] = rt[s]
  BY <1>0, <1>3 DEF HeapType
<1>5. pc'[c] \in {"idle", "rs_next"} /\ cur'[c] = Nil
  BY <1>0, <1>3, ReturnEnds
<1>6. daemon' = daemon /\ \A d \in Proc \ {c} : Still(d)
  BY <1>0, <1>1, OneMoves DEF Acts
<1>7. \A p \in Platform : active'[p] = IF p = PlatformOf(a) THEN r ELSE active[p]
  BY <1>0, <1>3 DEF HeapType
<1>8. Starts(r, k)
  BY <1>2, <1>3, <1>4, <1>7 DEF Starts, FreeRuntime
<1>9. ASSUME NEW d \in Proc, Still(d), pc[d] \in StopLabel \cup {"drop"}
      PROVE  PlatformOf(acct[d]) # PlatformOf(rt'[r].acct)
  BY <1>1, <1>2, <1>4, <1>9, Stopping DEF StopLabel
<1>10. /\ \A j \in Chan : loop[j].pc = "driver" => mu'[loop[j].rt] = j
       /\ \A d \in Proc : pc[d] \in {"rd_driver", "stop_driver"} => mu'[cur[d]] = d
  BY <1>3 DEF HeapInv, Mutexes
<1> QED
  BY <1>1, <1>5, <1>6, <1>8, <1>9, <1>10, StartHeap

-----------------------------------------------------------------------------
\* Every step keeps what is known of the daemon's objects.
LEMMA HeapNext == TypeOK /\ LifecycleInv /\ HostInv /\ HeapInv /\ [Next]_vars => HeapInv'
<1> SUFFICES ASSUME Known, HeapInv, [Next]_vars PROVE HeapInv'
  BY DEF Known, HostInv
<1>1. ASSUME NEW c \in Proc, Lifecycle(c) PROVE HeapInv'
  BY <1>1, AcquireHeap, StopWaitHeap, StopHeap, StopOkHeap, StopFailHeap, DropHeap, PassHeap,
     PublishHeap, Zenon
     DEF Lifecycle
<1>2. ASSUME NEW c \in Proc, Observe(c) \/ Remove(c) PROVE HeapInv'
  BY <1>2, PassHeap, SyncHeap, Zenon DEF Observe
<1>3. ASSUME NEW k \in Chan, Ingest(k) PROVE HeapInv'
  BY <1>3, LoopHeap, RepairHeap, Zenon DEF Ingest
<1>4. CASE RestoreRetry \/ Process \/ UNCHANGED vars
  BY <1>4, DaemonHeap, ShutdownHeap, TerminateHeap, Zenon DEF Process
<1> QED
  BY <1>1, <1>2, <1>3, <1>4, RequestHeap, Zenon DEF Next

\* Live loops are the current ones of published runtimes, whoever is in a driver
\* holds the ingest mutex, and a stop knows the runtime it stops.
THEOREM HeapCorrect == Spec => []HeapInv
<1>1. Init => HeapInv
  BY NoObjectsHeap DEF Init
<1> QED
  BY <1>1, HeapNext, TypeCorrect, LifecycleCorrect, HostCorrect, PTL DEF Spec

\* However stops time out, fail and are repaired, a runtime has one ingest loop:
\* the one of its current done channel.
THEOREM OneLoopCorrect == Spec => []OneIngestLoop
<1>1. HeapInv => OneIngestLoop
  BY DEF HeapInv, Generations, OneIngestLoop
<1> QED
  BY <1>1, HeapCorrect, PTL

\* Nobody ingests in a driver that is stopping or stopped, or writes the index of
\* an account that is being removed.
THEOREM IngestCorrect == Spec => []IngestOnlyWhileUp
<1>1. TypeOK /\ HostInv /\ HeapInv => IngestOnlyWhileUp
  <2> SUFFICES ASSUME TypeOK, HostInv, HeapInv, NEW r \in Runtime, Ingesting(r)
               PROVE  /\ rt[r].phase = "up"
                      /\ Usable(reg, rt[r].acct) /\ dir[rt[r].acct]
    BY DEF IngestOnlyWhileUp
  <2>1. rt[r].phase = "up"
    BY DEF HeapInv, Up
  <2>2. CASE \E k \in Chan : loop[k].rt = r /\ loop[k].pc = "driver"
    <3>1. PICK k \in Chan : loop[k].rt = r /\ LoopLive(k)
      BY <2>2 DEF LoopLive
    <3>2. rt[r].acct \in Account
      BY <3>1, InUse, TypeParts DEF HeapInv, Objects
    <3>3. Usable(reg, rt[r].acct)
      BY <3>1 DEF HeapInv, Feeds
    <3> QED
      BY <2>1, <3>2, <3>3 DEF HostInv, Profiles
  <2>3. CASE \E c \in Proc : cur[c] = r /\ pc[c] = "rd_driver"
    <3>1. PICK c \in Proc : cur[c] = r /\ pc[c] = "rd_driver"
      BY <2>3
    <3>2. op[c] = "read"
      BY <3>1, OpsOf, TypeParts DEF HostInv, Works, ReadLabel
    <3>3. acct[c] \in Account /\ Usable(reg, acct[c])
      BY <3>2 DEF HostInv, Readers
    <3>4. rt[r].acct = acct[c]
      BY <3>1 DEF HeapInv, Syncs
    <3> QED
      BY <2>1, <3>3, <3>4 DEF HostInv, Profiles
  <2> QED
    BY <2>2, <2>3 DEF Ingesting
<1> QED
  BY <1>1, TypeCorrect, HostCorrect, HeapCorrect, PTL

-----------------------------------------------------------------------------
(* Containers and slots, whatever crashes and whatever a failed start      *)
(* leaves behind.                                                          *)

\* Why the container of account a may run.
Runs(a) ==
    \/ active[PlatformOf(a)] # Nil /\ rt[active[PlatformOf(a)]].acct = a
    \/ \E c \in Proc : pc[c] = "publish" /\ acct[c] = a

\* A daemon that is down runs nothing.
DownIdle == daemon = "down" => \A c \in Proc : pc[c] = "idle"

\* A runtime that is dropped has stopped its container.
Dropped == \A c \in Proc : pc[c] = "drop" => ~client[rt[cur[c]].acct]

\* Until the manager is closed, a running container belongs to such a runtime,
\* unless it was left behind.
Running ==
    daemon \in {"up", "draining"} => \A a \in Account : client[a] => Runs(a) \/ stray[a]

\* An ended daemon leaves behind whatever still runs.
Left == daemon = "down" => \A a \in Account : client[a] => stray[a]

\* Only Terminate takes the daemon down, and it ends every process.
LEMMA DownIdleStep ==
    ASSUME TypeOK, DownIdle, [Next]_vars
    PROVE  DownIdle'
<1> SUFFICES ASSUME daemon' = "down", NEW c \in Proc PROVE pc'[c] = "idle"
  BY DEF DownIdle
<1> USE TypeParts
<1>1. CASE Terminate
  BY <1>1 DEF Terminate, AllIdle
<1>2. CASE daemon # "down" /\ ~Terminate
  <2>1. ASSUME NEW d \in Proc, Acts(d) PROVE FALSE
    BY <1>2, <2>1, OneMoves
  <2>2. ASSUME NEW k \in Chan, Ingest(k) PROVE daemon' = daemon
    BY <2>2, Zenon DEF Ingest, LoopExit, LoopBegin, LoopLock, LoopDone, Repair, RepairClosed
  <2>3. CASE RestoreRetry
    BY <1>2, <2>3 DEF RestoreRetry, RestoreAttempt, RestoreAttemptEnd, RestoreNext
  <2>4. CASE ShutdownBegin \/ ShutdownManager \/ Restart \/ Stopped \/ UNCHANGED vars
    BY <1>2, <2>4 DEF ShutdownBegin, ShutdownManager, Restart, Stopped, vars
  <2> QED
    BY <1>2, <2>1, <2>2, <2>3, <2>4, Zenon DEF Next, Acts, Process
<1>3. CASE daemon = "down" /\ ~Terminate
  <2>1. \A d \in Proc : pc[d] = "idle"
    BY <1>3 DEF DownIdle
  <2>2. ~Acts(c)
    <3>1. ~Request(c)
      BY <1>3 DEF Request, Begin, StatusBegin, ReadBegin, RemoveBegin, Add
    <3> QED
      BY <2>1, <3>1, LabelsOf DEF Acts, LockedLabel, StatusLabel, ReadLabel, RemoveLabel
  <2>3. ~ShutdownManager
    BY <1>3 DEF ShutdownManager
  <2>4. CASE RestoreRetry
    BY <1>3, <2>1, <2>4, Kinds DEF RestoreRetry, RestoreAttempt, RestoreAttemptEnd, RestoreNext
  <2>5. CASE ~RestoreRetry
    <3>1. ASSUME NEW d \in Proc, Acts(d) PROVE Still(c)
      BY <2>2, <3>1, OneMoves
    <3>2. ASSUME NEW k \in Chan, Ingest(k) PROVE Still(c)
      BY <3>2, Zenon DEF Still, procVars, Ingest, LoopExit, LoopBegin, LoopLock, LoopDone, Repair,
         RepairClosed
    <3>3. ShutdownBegin \/ Restart \/ Stopped \/ UNCHANGED vars => Still(c)
      BY Zenon DEF ShutdownBegin, Restart, Stopped, procVars, vars, Still
    <3>4. Still(c)
      BY <1>3, <2>3, <2>5, <3>1, <3>2, <3>3, Zenon DEF Next, Acts, Process
    <3> QED
      BY <2>1, <3>4 DEF Still
  <2> QED
    BY <2>4, <2>5
<1> QED
  BY <1>1, <1>2, <1>3

\* A runtime object changes its account only when it is published anew.
LEMMA AcctKept ==
    ASSUME TypeOK, [Next]_vars, NEW r \in Runtime
    PROVE  rt'[r].acct = rt[r].acct \/ FreeRuntime(r) \/ Terminate
<1>0. rt \in [Runtime -> RuntimeObject]
  BY TypeParts DEF HeapType
<1>1. ASSUME NEW c \in Proc, Lifecycle(c) PROVE rt'[r].acct = rt[r].acct \/ FreeRuntime(r)
  <2>1. CASE \E s \in Runtime, k \in Chan, ok \in BOOLEAN : Publish(c, s, k, ok)
    BY <1>0, <2>1 DEF Publish
  <2>2. CASE StopDrain(c) \/ StopOk(c)
    <3>1. \E q, f : rt' = [rt EXCEPT ![q].phase = f]
      BY <2>2, Zenon DEF StopDrain, StopOk
    <3> QED
      BY <1>0, <3>1 DEF RuntimeObject
  <2>3. CASE StopFail(c)
    <3>1. rt' = rt \/ \E q, k : rt' = [rt EXCEPT ![q].phase = "up", ![q].done = k]
      BY <2>3, Zenon DEF StopFail
    <3>2. ASSUME NEW q, NEW k, rt' = [rt EXCEPT ![q].phase = "up", ![q].done = k]
          PROVE  rt'[r].acct = rt[r].acct
      <4>1. CASE q = r
        BY <1>0, <3>2, <4>1 DEF RuntimeObject
      <4>2. CASE q # r
        BY <1>0, <3>2, <4>2 DEF RuntimeObject
      <4> QED
        BY <4>1, <4>2
    <3> QED
      BY <3>1, <3>2
  <2>4. CASE \/ LockTimeout(c) \/ AcquireActivate(c) \/ AcquireDeactivate(c) \/ StopCancel(c)
             \/ StopWaitDone(c) \/ StopTimeout(c) \/ DropRuntime(c) \/ Register(c) \/ StartOk(c)
             \/ StartFail(c) \/ Unregister(c) \/ \E ok \in BOOLEAN : Refresh(c, ok)
    <3>1. rt' = rt
      BY <2>4, Zenon DEF heapVars, LockTimeout, AcquireActivate, AcquireDeactivate, StopCancel,
         StopWaitDone, StopTimeout, DropRuntime, Register, StartOk, StartFail, Unregister, Refresh
    <3> QED
      BY <3>1
  <2> QED
    BY <1>1, <2>1, <2>2, <2>3, <2>4, Zenon DEF Lifecycle
<1>2. ASSUME NEW c \in Proc, Request(c) \/ Observe(c) \/ Remove(c) PROVE rt' = rt
  BY <1>2, Zenon DEF heapVars, Request, Begin, StatusBegin, ReadBegin, RemoveBegin, Add, Observe,
     StatusProbe, StatusWrite, SyncLock, SyncDone, ReadIndex, Remove, RemoveMark, RemovePurge,
     RemoveDirs, RemoveSave
<1>3. ASSUME NEW k \in Chan, Ingest(k) PROVE rt'[r].acct = rt[r].acct
  <2>1. CASE Repair(k)
    <3>1. rt' = rt \/ \E q, j : rt' = [rt EXCEPT ![q].done = j]
      BY <2>1, Zenon DEF Repair
    <3> QED
      BY <1>0, <3>1 DEF RuntimeObject
  <2>2. CASE ~Repair(k)
    BY <1>3, <2>2, Zenon DEF Ingest, LoopExit, LoopBegin, LoopLock, LoopDone, RepairClosed
  <2> QED
    BY <2>1, <2>2
<1>4. RestoreRetry \/ (Process /\ ~Terminate) \/ UNCHANGED vars => rt' = rt
  BY Zenon DEF heapVars, RestoreRetry, RestoreAttempt, RestoreAttemptEnd, RestoreNext, Process,
     ShutdownBegin, ShutdownManager, Restart, Stopped, vars
<1> QED
  BY <1>1, <1>2, <1>3, <1>4, Zenon DEF Next

\* What a step does to the published runtime of a platform.
LEMMA ActiveMoves ==
    ASSUME TypeOK, [Next]_vars, NEW p \in Platform
    PROVE  \/ active'[p] = active[p]
           \/ \E c \in Proc : DropRuntime(c) /\ PlatformOf(acct[c]) = p
           \/ \E c \in Proc : pc[c] = "publish" /\ PlatformOf(acct[c]) = p
           \/ ShutdownManager \/ Terminate
<1> USE TypeParts DEF HeapType
<1>1. ASSUME NEW c \in Proc, Lifecycle(c), active'[p] # active[p]
      PROVE  (DropRuntime(c) \/ pc[c] = "publish") /\ PlatformOf(acct[c]) = p
  <2>1. CASE \E s \in Runtime, k \in Chan, ok \in BOOLEAN : Publish(c, s, k, ok)
    BY <1>1, <2>1 DEF Publish
  <2>2. CASE DropRuntime(c)
    BY <1>1, <2>2 DEF DropRuntime
  <2>3. CASE \/ LockTimeout(c) \/ AcquireActivate(c) \/ AcquireDeactivate(c) \/ StopCancel(c)
             \/ StopWaitDone(c) \/ StopTimeout(c) \/ StopDrain(c) \/ StopOk(c) \/ StopFail(c)
             \/ Register(c) \/ StartOk(c)
             \/ StartFail(c) \/ Unregister(c) \/ \E ok \in BOOLEAN : Refresh(c, ok)
    BY <1>1, <2>3, Zenon DEF heapVars, LockTimeout, AcquireActivate, AcquireDeactivate, StopCancel,
       StopWaitDone, StopTimeout, StopDrain, StopOk, StopFail, Register, StartOk, StartFail,
       Unregister, Refresh
  <2> QED
    BY <1>1, <2>1, <2>2, <2>3, Zenon DEF Lifecycle
<1>2. ASSUME NEW c \in Proc, Request(c) \/ Observe(c) \/ Remove(c) PROVE active' = active
  BY <1>2, Zenon DEF heapVars, Request, Begin, StatusBegin, ReadBegin, RemoveBegin, Add, Observe,
     StatusProbe, StatusWrite, SyncLock, SyncDone, ReadIndex, Remove, RemoveMark, RemovePurge,
     RemoveDirs, RemoveSave
<1>3. ASSUME NEW k \in Chan, Ingest(k) PROVE active' = active
  BY <1>3, Zenon DEF Ingest, LoopExit, LoopBegin, LoopLock, LoopDone, Repair, RepairClosed
<1>4. RestoreRetry \/ ShutdownBegin \/ Restart \/ Stopped \/ UNCHANGED vars => active' = active
  BY Zenon DEF heapVars, RestoreRetry, RestoreAttempt, RestoreAttemptEnd, RestoreNext,
     ShutdownBegin, Restart, Stopped, vars
<1> QED
  BY <1>1, <1>2, <1>3, <1>4, Zenon DEF Next, Process

\* A runtime is dropped after its driver has stopped.
LEMMA ToDrop ==
    ASSUME TypeOK, NEW c \in Proc, Acts(c), pc'[c] = "drop"
    PROVE  StopOk(c) \/ Still(c)
<1> USE TypeParts
<1>1. \A ok : ~Return(c, ok)
  BY ReturnEnds
<1>2. \A l : Goto(c, l) => l = "drop"
  BY GotoStays
<1>3. \A l, r : Enter(c, l, r) => l = "drop"
  BY EnterStays
<1>4. CASE Request(c)
  BY <1>4 DEF Request, Begin, StatusBegin, ReadBegin, RemoveBegin, Add, procVars, Still, ProcType
<1>5. CASE Lifecycle(c)
  <2>1. CASE LockTimeout(c) \/ AcquireActivate(c) \/ AcquireDeactivate(c)
    BY <1>1, <1>3, <2>1, Zenon DEF LockTimeout, AcquireActivate, AcquireDeactivate, SwitchLabel
  <2>2. CASE StopCancel(c) \/ StopWaitDone(c) \/ StopTimeout(c) \/ StopDrain(c) \/ StopFail(c)
    BY <1>1, <1>2, <2>2, Zenon DEF StopCancel, StopWaitDone, StopTimeout, StopDrain, StopFail
  <2>3. CASE DropRuntime(c)
    BY <2>3 DEF DropRuntime, ProcType
  <2>4. CASE \/ Register(c) \/ StartOk(c) \/ StartFail(c) \/ Unregister(c)
             \/ \E ok \in BOOLEAN : Refresh(c, ok)
             \/ \E r \in Runtime, k \in Chan, ok \in BOOLEAN : Publish(c, r, k, ok)
    BY <1>1, <1>2, <2>4, Zenon DEF Register, StartOk, StartFail, Unregister, Refresh, Publish
  <2> QED
    BY <1>5, <2>1, <2>2, <2>3, <2>4, Zenon DEF Lifecycle
<1>6. CASE Observe(c) \/ Remove(c)
  BY <1>1, <1>2, <1>6, Zenon DEF Observe, StatusProbe, StatusWrite, SyncLock, SyncDone, ReadIndex,
     Remove, RemoveMark, RemovePurge, RemoveDirs, RemoveSave, RemoveReturn
<1> QED
  BY <1>4, <1>5, <1>6 DEF Acts

\* Nobody starts the container again before the stopped runtime is dropped.
LEMMA DroppedStep ==
    ASSUME Known, HeapInv, Dropped, [Next]_vars
    PROVE  Dropped'
<1> SUFFICES ASSUME NEW c \in Proc, pc'[c] = "drop" PROVE ~client'[rt'[cur'[c]].acct]
  BY DEF Dropped
<1> USE TypeParts
<1>1. ~Terminate
  BY DEF Terminate, AllIdle
<1>2. CASE Still(c)
  <2> DEFINE r == cur[c]
             b == rt[r].acct
  <2>1. /\ pc[c] = "drop" /\ cur'[c] = r /\ r \in Runtime /\ ~FreeRuntime(r) /\ b \in Account
        /\ PlatformOf(b) = PlatformOf(acct[c]) /\ opLock[PlatformOf(acct[c])] = c
    BY <1>2, Stopping DEF Still, Stops
  <2>2. rt'[r].acct = b
    BY <1>1, <2>1, AcctKept DEF Known
  <2>3. ~client[b]
    BY <2>1 DEF Dropped
  <2>4. ASSUME NEW d \in Proc, StartOk(d) \/ StartFail(d), acct[d] = b PROVE FALSE
    <3>1. pc[d] = "start"
      BY <2>4 DEF StartOk, StartFail
    <3>2. opLock[PlatformOf(b)] = d
      BY <2>4, <3>1, LockedKnows DEF Known, LockedLabel
    <3> QED
      BY <2>1, <3>1, <3>2
  <2> HIDE DEF r, b
  <2>5. ~client'[b]
    BY <2>1, <2>3, <2>4, ClientMoves DEF Known
  <2> QED
    BY <2>1, <2>2, <2>5
<1>3. CASE StopOk(c)
  <2>1. pc[c] = "stop_driver" /\ client' = [client EXCEPT ![rt[cur[c]].acct] = FALSE]
    BY <1>3 DEF StopOk
  <2>2. cur[c] \in Runtime /\ rt[cur[c]].acct \in Account /\ ~FreeRuntime(cur[c])
    BY <2>1, Stopping DEF StopLabel
  <2>3. rt'[cur[c]].acct = rt[cur[c]].acct
    BY <1>1, <2>2, AcctKept DEF Known
  <2>4. cur'[c] = cur[c]
    <3>1. \A ok : ~Return(c, ok)
      BY ReturnEnds DEF Known
    <3>2. \E l : Goto(c, l)
      BY <1>3, <3>1, Zenon DEF StopOk
    <3> QED
      BY <3>2, GotoStays DEF Known
  <2> QED
    BY <2>1, <2>2, <2>3, <2>4 DEF Known, HostType
<1> QED
  BY <1>2, <1>3, OwnStep, ToDrop DEF Known

\* Who moves the daemon between its phases.
LEMMA DaemonMoves ==
    ASSUME TypeOK, [Next]_vars
    PROVE  daemon' = daemon \/ ShutdownBegin \/ ShutdownManager \/ Terminate \/ Restart
<1>1. ASSUME NEW c \in Proc, Acts(c) PROVE daemon' = daemon
  BY <1>1, TypeParts, OneMoves
<1>2. ASSUME NEW k \in Chan, Ingest(k) PROVE daemon' = daemon
  BY <1>2, Zenon DEF Ingest, LoopExit, LoopBegin, LoopLock, LoopDone, Repair, RepairClosed
<1>3. RestoreRetry \/ Stopped \/ UNCHANGED vars => daemon' = daemon
  BY Zenon DEF RestoreRetry, RestoreAttempt, RestoreAttemptEnd, RestoreNext, Stopped, vars
<1> QED
  BY <1>1, <1>2, <1>3, Zenon DEF Next, Acts, Process

\* Who decides that a container counts as left behind.
LEMMA StrayMoves ==
    ASSUME TypeOK, LifecycleInv, [Next]_vars, NEW b \in Account
    PROVE  \/ stray'[b] = stray[b]
           \/ stray'[b] /\ \E c \in Proc : StartFail(c) /\ acct[c] = b
           \/ \E c \in Proc : StartOk(c) /\ acct[c] = b
           \/ Terminate
<1> DEFINE StraySame == stray' = stray
<1> USE DEF hostVars
<1>1. ASSUME NEW c \in Proc, Request(c) PROVE StraySame
  BY <1>1, Zenon DEF Request, Begin, Add, StatusBegin, ReadBegin, RemoveBegin
<1>2. ASSUME NEW c \in Proc, Lifecycle(c), ~StartOk(c), ~StartFail(c) PROVE StraySame
  BY <1>2, Zenon DEF Lifecycle, LockTimeout, AcquireActivate, AcquireDeactivate, StopCancel,
     StopWaitDone, StopTimeout, StopDrain, StopOk, StopFail, DropRuntime, Register, Unregister,
     Refresh, Publish
<1>3. ASSUME NEW c \in Proc, Observe(c) \/ Remove(c) PROVE StraySame
  BY <1>3, Zenon DEF Observe, Remove, StatusProbe, StatusWrite, SyncLock, SyncDone, ReadIndex,
     RemoveMark, RemovePurge, RemoveDirs, RemoveSave
<1>4. ASSUME NEW k \in Chan, Ingest(k) PROVE StraySame
  BY <1>4, Zenon DEF Ingest, LoopExit, LoopBegin, LoopLock, LoopDone, Repair, RepairClosed
<1>5. RestoreRetry \/ (Process /\ ~Terminate) \/ UNCHANGED vars => StraySame
  BY Zenon DEF RestoreRetry, RestoreAttempt, RestoreAttemptEnd, RestoreNext, Process,
     ShutdownBegin, ShutdownManager, Restart, Stopped, vars
<1>6. ASSUME NEW c \in Proc, StartOk(c) \/ StartFail(c), stray'[b] # stray[b]
      PROVE  acct[c] = b /\ (StartFail(c) => stray'[b])
  <2>1. acct[c] \in Account
    BY <1>6, KnowsAccount DEF StartOk, StartFail
  <2> QED
    BY <1>6, <2>1, TypeParts DEF StartOk, StartFail, HostType
<1> HIDE DEF StraySame
<1>7. StraySame => stray'[b] = stray[b]
  BY DEF StraySame
<1> QED
  BY <1>1, <1>2, <1>3, <1>4, <1>5, <1>6, <1>7, Zenon DEF Next

\* A failed start that leaves a container leaves it behind.
LEMMA LeakIsStray ==
    ASSUME TypeOK, LifecycleInv, NEW c \in Proc, StartFail(c), ~client[acct[c]], client'[acct[c]]
    PROVE  stray'[acct[c]]
<1>1. acct[c] \in Account
  BY KnowsAccount DEF StartFail
<1> QED
  BY <1>1, TypeParts DEF StartFail, HostType

\* The daemon that is down started nothing, and counted what it left as it ended.
LEMMA LeftStep ==
    ASSUME Known, DownIdle, Left, [Next]_vars
    PROVE  Left'
<1> SUFFICES ASSUME daemon' = "down", NEW a \in Account, client'[a] PROVE stray'[a]
  BY DEF Left
<1> USE TypeParts
<1>1. CASE Terminate
  BY <1>1 DEF Terminate
<1>2. CASE ~Terminate
  <2>1. daemon = "down"
    BY <1>2, DaemonMoves DEF Known, ShutdownBegin, ShutdownManager, Restart
  <2>2. \A c \in Proc : ~StartOk(c) /\ ~StartFail(c)
    BY <2>1 DEF DownIdle, StartOk, StartFail
  <2>3. client[a]
    BY <2>2, ClientMoves DEF Known
  <2>4. stray'[a] = stray[a]
    BY <1>2, <2>2, StrayMoves DEF Known
  <2> QED
    BY <2>1, <2>3, <2>4 DEF Left
<1> QED
  BY <1>1, <1>2

\* The container of an account runs under its published runtime, or under the
\* activation that is about to publish it.
LEMMA RunningStep ==
    ASSUME Known, HeapInv, Dropped, Left, Running, [Next]_vars
    PROVE  Running'
<1> SUFFICES ASSUME daemon' \in {"up", "draining"}, NEW a \in Account, client'[a]
             PROVE  Runs(a)' \/ stray'[a]
  BY DEF Running
<1> USE TypeParts
<1> DEFINE p == PlatformOf(a)
<1>1. ~Terminate /\ ~ShutdownManager
  BY DEF Terminate, ShutdownManager
<1>2. ASSUME NEW c \in Proc, StartOk(c), acct[c] = a PROVE Runs(a)'
  <2>1. pc'[c] = "publish" /\ acct' = acct
    BY <1>2, GotoStays DEF Known, StartOk
  <2> QED
    BY <1>2, <2>1 DEF Runs
<1>3. CASE ~client[a]
  <2>1. PICK c \in Proc : (StartOk(c) \/ StartFail(c)) /\ acct[c] = a
    BY <1>3, ClientMoves DEF Known
  <2> QED
    BY <1>2, <1>3, <2>1, LeakIsStray DEF Known
<1>4. CASE stray[a]
  BY <1>1, <1>2, <1>4, StrayMoves DEF Known
<1>5. CASE Restart
  BY <1>3, <1>4, <1>5 DEF Restart, Left
<1>6. CASE client[a] /\ active[p] # Nil /\ rt[active[p]].acct = a
  <2>1. p \in Platform /\ active[p] \in Runtime /\ ~FreeRuntime(active[p])
    BY <1>6, PlatformType, InUse DEF Known, HeapType
  <2>2. rt'[active[p]].acct = a
    BY <1>1, <1>6, <2>1, AcctKept DEF Known
  <2>3. ASSUME NEW c \in Proc, pc[c] = "publish" PROVE PlatformOf(acct[c]) # p
    BY <1>6, <2>3 DEF Known, LifecycleInv, Relies
  <2>4. ASSUME NEW c \in Proc, DropRuntime(c) PROVE PlatformOf(acct[c]) # p
    <3> SUFFICES ASSUME PlatformOf(acct[c]) = p PROVE FALSE
      OBVIOUS
    <3>1. pc[c] = "drop" /\ client' = client
      BY <2>4 DEF DropRuntime, hostVars
    <3>2. op[c] # "shutdown"
      BY <3>1, OpsOf DEF Known, Works
    <3>3. active[p] = cur[c]
      BY <3>1, <3>2, Stopping DEF Stops
    <3> QED
      BY <1>6, <3>1, <3>3 DEF Dropped
  <2>5. active'[p] = active[p]
    BY <1>1, <2>1, <2>3, <2>4, ActiveMoves DEF Known
  <2> QED
    BY <1>6, <2>2, <2>5 DEF Runs
<1>7. ASSUME NEW c \in Proc, pc[c] = "publish", acct[c] = a PROVE Runs(a)'
  <2>1. CASE Still(c)
    BY <1>7, <2>1 DEF Still, Runs
  <2>2. CASE Acts(c)
    <3>1. PICK r \in Runtime, k \in Chan, ok \in BOOLEAN : Publish(c, r, k, ok)
      <4>1. Lifecycle(c)
        BY <1>7, <2>2, LabelsOf DEF Acts, StatusLabel, ReadLabel, RemoveLabel
      <4> QED
        BY <1>7, <4>1 DEF Lifecycle, LockTimeout, AcquireActivate, AcquireDeactivate, StopCancel,
             StopWaitDone, StopTimeout, StopDrain, StopOk, StopFail, DropRuntime, Register, StartOk,
             StartFail, Unregister, Refresh
    <3>2. active'[p] = r /\ rt'[r].acct = a
      BY <1>7, <3>1, PlatformType DEF Publish, Known, HeapType
    <3> QED
      BY <3>2, NilIsNoProc DEF Runs
  <2> QED
    BY <1>1, <1>7, <2>1, <2>2, OwnStep DEF Known
<1> QED
  <2>1. CASE ~Restart
    <3>1. daemon \in {"up", "draining"}
      BY <1>1, <2>1, DaemonMoves DEF Known, ShutdownBegin
    <3> QED
      BY <1>3, <1>4, <1>6, <1>7, <3>1 DEF Running, Runs
  <2> QED
    BY <1>5, <2>1

\* What runs is requested or was left behind: while the manager is open by what is
\* published, later because nobody moves a slot or starts a container any more.
LEMMA InactiveStep ==
    ASSUME Known, Slots, DownIdle, Running, Running', InactiveIsStopped, [Next]_vars
    PROVE  InactiveIsStopped'
<1> SUFFICES ASSUME NEW a \in Account, client'[a] PROVE reg'[a].active \/ stray'[a]
  BY DEF InactiveIsStopped
<1> USE TypeParts
<1>1. Known'
  BY KnownStep
<1>2. CASE daemon' \in {"up", "draining"}
  <2>1. Runs(a)' \/ stray'[a]
    BY <1>2 DEF Running
  <2>2. CASE active'[PlatformOf(a)] # Nil /\ rt'[active'[PlatformOf(a)]].acct = a
    BY <1>1, <2>2, PlatformType DEF Known, LifecycleInv, PublishedIsRequested
  <2>3. CASE \E c \in Proc : pc'[c] = "publish" /\ acct'[c] = a
    BY <1>1, <2>3 DEF Known, LifecycleInv, Relies
  <2> QED
    BY <2>1, <2>2, <2>3 DEF Runs
<1>3. CASE Terminate
  BY <1>3 DEF Terminate
<1>4. CASE ~Terminate /\ ~(daemon' \in {"up", "draining"})
  <2>1. \A c \in Proc : ~Register(c) /\ ~Unregister(c) /\ ~StartOk(c) /\ ~StartFail(c)
    <3> SUFFICES ASSUME NEW c \in Proc, Register(c) \/ Unregister(c) \/ StartOk(c) \/ StartFail(c)
                 PROVE FALSE
      OBVIOUS
    <3>1. pc[c] \in {"register", "unregister", "start"} /\ daemon' = daemon
      BY DEF Register, Unregister, StartOk, StartFail
    <3>2. daemon = "closed"
      BY <1>4, <3>1 DEF DownIdle, Known, DaemonType
    <3> QED
      BY <3>1, <3>2, OpsOf DEF Known, Works, Working
  <2>2. reg'[a].active = reg[a].active
    BY <2>1, SlotChanges DEF Known, SlotChange
  <2>3. client[a]
    BY <2>1, ClientMoves DEF Known
  <2>4. stray'[a] = stray[a]
    BY <1>4, <2>1, StrayMoves DEF Known
  <2> QED
    BY <2>2, <2>3, <2>4 DEF InactiveIsStopped
<1> QED
  BY <1>2, <1>3, <1>4

\* Inductive with HeapInv.
RunInv == DownIdle /\ Left /\ Dropped /\ Running /\ InactiveIsStopped

\* An account that is not requested does not run, unless a failed start or an
\* ended daemon left its container and no start has taken it over since.
THEOREM InactiveCorrect == Spec => []InactiveIsStopped
<1>1. Init => RunInv
  BY DEF Init, AllIdle, RunInv, DownIdle, Left, Dropped, Running, InactiveIsStopped
<1>2. TypeOK /\ LifecycleInv /\ HostInv /\ HeapInv /\ RunInv /\ [Next]_vars => RunInv'
  <2> SUFFICES ASSUME Known, Slots, HeapInv, RunInv, [Next]_vars PROVE RunInv'
    BY DEF Known, HostInv
  <2>1. DownIdle' /\ Left' /\ Dropped'
    BY DownIdleStep, LeftStep, DroppedStep DEF Known, RunInv
  <2>2. Running'
    BY RunningStep DEF RunInv
  <2> QED
    BY <2>1, <2>2, InactiveStep DEF RunInv
<1>3. RunInv => InactiveIsStopped
  BY DEF RunInv
<1> QED
  BY <1>1, <1>2, <1>3, TypeCorrect, LifecycleCorrect, HostCorrect, HeapCorrect, PTL DEF Spec

\* So of the containers that were not left behind, a platform runs one.
THEOREM OneClientCorrect == Spec => []OneClientPerPlatform
  BY OneClient, InactiveCorrect, RegistryCorrect, PTL
=============================================================================
