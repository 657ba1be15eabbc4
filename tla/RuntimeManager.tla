--------------------------- MODULE RuntimeManager ---------------------------
(***************************************************************************)
(* The account lifecycle of the daemon: internal/runtime/manager.go over   *)
(* the registry of internal/account/store.go, driven by the handlers of    *)
(* internal/service (activate, deactivate, status, sync, remove, add) and  *)
(* by the restore retry and the shutdown of internal/daemon/server.go.     *)
(*                                                                         *)
(* A process is a request handler, the restore goroutine, or one of the    *)
(* goroutines Shutdown starts to stop a platform's runtime.  A handler     *)
(* holds a platform's operation mutex from Acquire to Return, so the code  *)
(* between two blocking points is one step; every point where it waits,    *)
(* calls a driver or writes the registry is a step of its own.             *)
(*                                                                         *)
(* Objects of the heap (an activeRuntime, the done channel with its ingest *)
(* goroutine) are drawn from the pools Runtime and Chan; one that nothing  *)
(* refers to any more may be reused, as after garbage collection.          *)
(***************************************************************************)
EXTENDS AccountStore

CONSTANTS
    Handler,        \* concurrent request handlers
    Runtime,        \* pool of activeRuntime objects
    Chan,           \* pool of done channels, each with its ingest goroutine
    Nil,            \* no object
    Requests,       \* the kinds of request the clients issue
    MaxAttempts,    \* bound: restore attempts per daemon start (10 in the code)
    MaxRestarts,    \* bound: daemon restarts in a behaviour
    MaxRepairs,     \* bound: repair goroutines counted per channel (all but
                    \* the first one to run find nothing left to repair)
    LeakyStart      \* may a failed Start leave the client container running?

Restorer == "restorer"

\* Shutdown's stop goroutine of a platform is named after the platform.
Proc == Handler \cup {Restorer} \cup Platform

ASSUME PoolsDisjoint ==
    /\ Handler \cap ({Restorer} \cup Platform) = {}
    /\ Proc \cap Chan = {}
    /\ Nil \notin Account \cup Runtime \cup Chan \cup Proc

RequestKind == {"activate", "deactivate", "status", "read", "remove", "add"}

ASSUME RequestsAreKnown == Requests \subseteq RequestKind

ASSUME BoundsAreNaturals ==
    /\ MaxAttempts \in Nat
    /\ MaxRestarts \in Nat
    /\ MaxRepairs \in Nat
    /\ LeakyStart \in BOOLEAN

VARIABLES
    \* durable, or outside the daemon: these survive a crash
    reg,        \* the account registry
    dir,        \* dir[a]: the account's state directory exists
    client,     \* client[a]: the account's client container is running
    restarts,   \* number of daemon restarts so far
    stray,      \* stray[a]: its container was left running by a failed start or an
                \* ended daemon, and no start has taken it over since (history)
    \* the daemon
    daemon,     \* "up", "draining" (shutting down), "closed" (manager closed), "down"
    restore,    \* the restore retry: accounts left, attempts left, a failure seen
    opLock,     \* opLock[p]: holder of the platform's operation mutex
    deleteMu,   \* the handler inside RemoveAccount
    active,     \* active[p]: the published runtime of a platform
    rt,         \* rt[r]: the activeRuntime objects
    mu,         \* mu[r]: holder of the runtime's ingestMu
    loop,       \* loop[k]: the ingest goroutine that closes channel k
    repairs,    \* repairs[k]: restartIngestAfterExit goroutines waiting on k
    \* the processes
    pc, op, acct, cur

hostVars == <<reg, dir, client, restarts, stray>>
procVars == <<pc, op, acct, cur>>
heapVars == <<active, rt, mu, loop, repairs>>
vars == <<reg, dir, client, restarts, stray, daemon, restore, opLock, deleteMu,
          active, rt, mu, loop, repairs, pc, op, acct, cur>>

LoopLive(k) == loop[k].pc \in {"run", "mu", "driver"}

NoRuntime == [acct |-> Nil, done |-> Nil, phase |-> "up"]
NoLoop    == [rt |-> Nil, pc |-> "none", cancelled |-> FALSE]

\* Nothing refers to the runtime object, or to the channel, any more.
FreeRuntime(r) ==
    /\ \A p \in Platform : active[p] # r
    /\ \A c \in Proc : cur[c] # r
    /\ \A k \in Chan : loop[k].rt = r => ~LoopLive(k) /\ repairs[k] = 0

FreeChan(k) ==
    /\ ~LoopLive(k)
    /\ repairs[k] = 0
    /\ \A r \in Runtime : rt[r].done = k => FreeRuntime(r)

NewLoop(r) == [rt |-> r, pc |-> "run", cancelled |-> FALSE]

Restoring(c) == op[c] = "restore"

\* Return from the operation; the restore goroutine remembers a failure.
Return(c, ok) ==
    /\ pc' = [pc EXCEPT ![c] = IF c = Restorer THEN "rs_next" ELSE "idle"]
    /\ op' = [op EXCEPT ![c] = "none"]
    /\ acct' = [acct EXCEPT ![c] = Nil]
    /\ cur' = [cur EXCEPT ![c] = Nil]
    /\ restore' = IF c = Restorer
                  THEN [restore EXCEPT !.failed = @ \/ ~ok] ELSE restore

Goto(c, label) ==
    /\ pc' = [pc EXCEPT ![c] = label]
    /\ UNCHANGED <<op, acct, cur, restore>>

Unlock(a) == opLock' = [opLock EXCEPT ![PlatformOf(a)] = Nil]

-----------------------------------------------------------------------------
(* Entering an operation: Manager.Activate, Deactivate, Restore.           *)

\* A handler resolves the account, refuses a deleting one, and goes on to
\* wait for the platform's operation mutex.
Begin(c, o, a) ==
    /\ daemon = "up"
    /\ c \in Handler /\ pc[c] = "idle"
    /\ Usable(reg, a)
    /\ pc' = [pc EXCEPT ![c] = "lock"]
    /\ op' = [op EXCEPT ![c] = o]
    /\ acct' = [acct EXCEPT ![c] = a]
    /\ UNCHANGED <<cur, restore, hostVars, daemon, opLock, deleteMu, heapVars>>

\* Mutant: one attempt too many.
RestoreAttemptOffByOne ==
    /\ daemon = "up" /\ pc[Restorer] = "idle" /\ restore.left >= 0
    /\ restore' = [todo |-> {a \in Account : Usable(reg, a) /\ reg[a].active},
                   left |-> restore.left - 1, failed |-> FALSE]
    /\ pc' = [pc EXCEPT ![Restorer] = "rs_next"]
    /\ UNCHANGED <<op, acct, cur, hostVars, daemon, opLock, deleteMu, heapVars>>

\* runRestoreRetry: one more attempt, over a snapshot of the registry.
RestoreAttempt ==
    /\ daemon = "up" /\ pc[Restorer] = "idle" /\ restore.left > 0
    /\ restore' = [todo |-> {a \in Account : Usable(reg, a) /\ reg[a].active},
                   left |-> restore.left - 1, failed |-> FALSE]
    /\ pc' = [pc EXCEPT ![Restorer] = "rs_next"]
    /\ UNCHANGED <<op, acct, cur, hostVars, daemon, opLock, deleteMu, heapVars>>

\* Restore takes the next account of the snapshot; it may be gone by now.
RestoreNext(a) ==
    /\ pc[Restorer] = "rs_next" /\ a \in restore.todo
    /\ restore' = [restore EXCEPT !.todo = @ \ {a},
                                  !.failed = @ \/ ~Usable(reg, a)]
    /\ IF Usable(reg, a)
       THEN /\ pc' = [pc EXCEPT ![Restorer] = "lock"]
            /\ op' = [op EXCEPT ![Restorer] = "restore"]
            /\ acct' = [acct EXCEPT ![Restorer] = a]
       ELSE UNCHANGED <<pc, op, acct>>
    /\ UNCHANGED <<cur, hostVars, daemon, opLock, deleteMu, heapVars>>

\* The attempt is over: one without failures, and in time, is the last one.
RestoreAttemptEnd ==
    /\ pc[Restorer] = "rs_next" /\ restore.todo = {}
    /\ pc' = [pc EXCEPT ![Restorer] = "idle"]
    /\ \/ UNCHANGED restore
       \/ ~restore.failed /\ restore' = [restore EXCEPT !.left = 0]
    /\ UNCHANGED <<op, acct, cur, hostVars, daemon, opLock, deleteMu, heapVars>>

\* lockOperation gives up when the context of the request ends.
LockTimeout(c) ==
    /\ pc[c] = "lock"
    /\ Return(c, FALSE)
    /\ UNCHANGED <<hostVars, daemon, opLock, deleteMu, heapVars>>

\* Stay in the operation with the mutex held, at the given label.
Enter(c, label, r) ==
    /\ opLock' = [opLock EXCEPT ![PlatformOf(acct[c])] = c]
    /\ pc' = [pc EXCEPT ![c] = label]
    /\ cur' = [cur EXCEPT ![c] = r]
    /\ UNCHANGED <<op, acct, restore>>

\* A runtime of another account is stopped before the slot moves.
SwitchLabel(r) == IF r = Nil THEN "register" ELSE "stop"

\* activate, with the mutex just taken: resolve again and decide.
AcquireActivate(c) ==
    LET a == acct[c]
        r == active[PlatformOf(a)]
    IN  /\ pc[c] = "lock" /\ op[c] \in {"activate", "restore"}
        /\ opLock[PlatformOf(a)] = Nil
        /\ \/ /\ ~Usable(reg, a)
              /\ Return(c, FALSE) /\ UNCHANGED opLock
           \/ /\ Usable(reg, a) /\ Restoring(c) /\ ~reg[a].active
              /\ Return(c, TRUE) /\ UNCHANGED opLock
           \/ /\ Usable(reg, a) /\ (Restoring(c) => reg[a].active)
              /\ IF daemon = "closed" THEN Return(c, FALSE) /\ UNCHANGED opLock
                 ELSE IF r = Nil \/ rt[r].acct # a THEN Enter(c, SwitchLabel(r), r)
                 ELSE IF Restoring(c) THEN Enter(c, "refresh", r)
                 ELSE Return(c, TRUE) /\ UNCHANGED opLock
        /\ UNCHANGED <<hostVars, daemon, deleteMu, heapVars>>

\* Deactivate, with the mutex just taken.
AcquireDeactivate(c) ==
    LET a == acct[c]
        r == active[PlatformOf(a)]
    IN  /\ pc[c] = "lock" /\ op[c] = "deactivate"
        /\ opLock[PlatformOf(a)] = Nil
        /\ IF ~Usable(reg, a) THEN Return(c, FALSE) /\ UNCHANGED opLock
           ELSE IF r # Nil /\ rt[r].acct = a THEN Enter(c, "stop", r)
           ELSE Enter(c, "unregister", Nil)
        /\ UNCHANGED <<hostVars, daemon, deleteMu, heapVars>>

-----------------------------------------------------------------------------
(* stopRuntime, for a switch, a deactivation or the shutdown.  The done    *)
(* channel of cur[c] cannot change meanwhile: startIngest is only called   *)
(* under the operation mutex, which c holds.                               *)

RestartOnFailure(c) == op[c] # "shutdown"

\* runtime.cancel()
StopCancel(c) ==
    /\ pc[c] = "stop"
    /\ loop' = [loop EXCEPT ![rt[cur[c]].done].cancelled = TRUE]
    /\ Goto(c, "stop_wait")
    /\ UNCHANGED <<hostVars, daemon, opLock, deleteMu, active, rt, mu, repairs>>

\* The ingest goroutine has closed the channel.
StopWaitDone(c) ==
    /\ pc[c] = "stop_wait" /\ ~LoopLive(rt[cur[c]].done)
    /\ Goto(c, "stop_mu")
    /\ UNCHANGED <<hostVars, daemon, opLock, deleteMu, heapVars>>

\* Mutant: nobody restarts the cancelled loop.
StopTimeoutNoRepair(c) ==
    /\ pc[c] \in {"stop_wait", "stop_mu"}
    /\ Return(c, FALSE) /\ Unlock(acct[c])
    /\ UNCHANGED <<hostVars, daemon, deleteMu, heapVars>>

\* The context ends first, here or while waiting for ingestMu: give up, and
\* leave a goroutine behind that restarts the cancelled ingest loop.
StopTimeout(c) ==
    LET k == rt[cur[c]].done
    IN  /\ pc[c] \in {"stop_wait", "stop_mu"}
        /\ IF RestartOnFailure(c)
           THEN repairs' = [repairs EXCEPT ![k] = IF @ < MaxRepairs THEN @ + 1 ELSE @]
           ELSE UNCHANGED repairs
        /\ Return(c, FALSE) /\ Unlock(acct[c])
        /\ UNCHANGED <<hostVars, daemon, deleteMu, active, rt, mu, loop>>

\* ingestMu taken: from here on no ingest enters the driver.
StopDrain(c) ==
    /\ pc[c] = "stop_mu" /\ mu[cur[c]] = Nil
    /\ mu' = [mu EXCEPT ![cur[c]] = c]
    /\ rt' = [rt EXCEPT ![cur[c]].phase = "stopping"]
    /\ Goto(c, "stop_driver")
    /\ UNCHANGED <<hostVars, daemon, opLock, deleteMu, active, loop, repairs>>

\* driver.Stop succeeds.
StopOk(c) ==
    LET r == cur[c]
    IN  /\ pc[c] = "stop_driver"
        /\ client' = [client EXCEPT ![rt[r].acct] = FALSE]
        /\ rt' = [rt EXCEPT ![r].phase = "stopped"]
        /\ mu' = [mu EXCEPT ![r] = Nil]
        /\ IF RestartOnFailure(c)
           THEN Goto(c, "drop") /\ UNCHANGED opLock
           ELSE Return(c, TRUE) /\ Unlock(acct[c])
        /\ UNCHANGED <<reg, dir, restarts, stray, daemon, deleteMu, active, loop, repairs>>

\* Mutant: the driver's error is ignored.
StopFailIgnored(c) ==
    /\ pc[c] = "stop_driver"
    /\ mu' = [mu EXCEPT ![cur[c]] = Nil]
    /\ Goto(c, "drop")
    /\ UNCHANGED <<hostVars, daemon, opLock, deleteMu, active, rt, loop, repairs>>

\* driver.Stop fails; the container may have stopped all the same.  A switch
\* or a deactivation puts the runtime back to work with a new ingest loop.
StopFail(c) ==
    LET r == cur[c]
    IN  /\ pc[c] = "stop_driver"
        /\ \/ UNCHANGED client
           \/ client' = [client EXCEPT ![rt[r].acct] = FALSE]
        /\ mu' = [mu EXCEPT ![r] = Nil]
        /\ IF RestartOnFailure(c)
           THEN \E k \in Chan :
                   /\ FreeChan(k)
                   /\ rt' = [rt EXCEPT ![r].phase = "up", ![r].done = k]
                   /\ loop' = [loop EXCEPT ![k] = NewLoop(r)]
           ELSE UNCHANGED <<rt, loop>>
        /\ Return(c, FALSE) /\ Unlock(acct[c])
        /\ UNCHANGED <<reg, dir, restarts, stray, daemon, deleteMu, active, repairs>>

\* Mutant: the stopped runtime stays published.
DropRuntimeKept(c) ==
    /\ pc[c] = "drop"
    /\ pc' = [pc EXCEPT ![c] = IF op[c] = "deactivate" THEN "unregister" ELSE "register"]
    /\ cur' = [cur EXCEPT ![c] = Nil]
    /\ UNCHANGED <<op, acct, restore, hostVars, daemon, opLock, deleteMu, heapVars>>

\* The stopped runtime leaves the active map.
DropRuntime(c) ==
    /\ pc[c] = "drop"
    /\ active' = [active EXCEPT ![PlatformOf(acct[c])] = Nil]
    /\ pc' = [pc EXCEPT ![c] = IF op[c] = "deactivate" THEN "unregister" ELSE "register"]
    /\ cur' = [cur EXCEPT ![c] = Nil]
    /\ UNCHANGED <<op, acct, restore, hostVars, daemon, opLock, deleteMu,
                   rt, mu, loop, repairs>>

-----------------------------------------------------------------------------
(* The rest of activate and Deactivate, under the operation mutex.         *)

\* accounts.Activate, or the failure to write it.
Register(c) ==
    /\ pc[c] = "register"
    /\ \/ /\ reg' = ActivateAccount(reg, acct[c])
          /\ Goto(c, "start") /\ UNCHANGED opLock
       \/ /\ UNCHANGED reg
          /\ Return(c, FALSE) /\ Unlock(acct[c])
    /\ UNCHANGED <<dir, client, restarts, stray, daemon, deleteMu, heapVars>>

\* The runtime directory, the factory and driver.Start succeed.
StartOk(c) ==
    /\ pc[c] = "start"
    /\ client' = [client EXCEPT ![acct[c]] = TRUE]
    /\ stray' = [stray EXCEPT ![acct[c]] = FALSE]
    /\ Goto(c, "publish")
    /\ UNCHANGED <<reg, dir, restarts, daemon, opLock, deleteMu, heapVars>>

\* Mutant: a failed restore gives the slot up.
FailureDeactivates(c) ==
    {DeactivateAccount(UpdateStatus(reg, acct[c], "DEGRADED"), acct[c])}

\* recordActivationFailure writes the degraded state and, for an explicit
\* request, the deactivation; either write may fail, silently.
FailureRecords(c) ==
    LET degraded == {reg, UpdateStatus(reg, acct[c], "DEGRADED")}
    IN  IF Restoring(c) THEN degraded
        ELSE degraded \cup {DeactivateAccount(g, acct[c]) : g \in degraded}

\* One of them fails, and with it the activation.
StartFail(c) ==
    /\ pc[c] = "start"
    /\ \/ UNCHANGED <<client, stray>>
       \/ /\ LeakyStart
          /\ client' = [client EXCEPT ![acct[c]] = TRUE]
          /\ stray' = [stray EXCEPT ![acct[c]] = TRUE]
    /\ reg' \in FailureRecords(c)
    /\ Return(c, FALSE) /\ Unlock(acct[c])
    /\ UNCHANGED <<dir, restarts, daemon, deleteMu, heapVars>>

\* The first status is recorded, the runtime published, its ingest started.
\* A status error degrades the account and, for a restore, asks for a retry.
Publish(c, r, k, ok) ==
    /\ pc[c] = "publish"
    /\ FreeRuntime(r) /\ FreeChan(k)
    /\ reg' \in {reg, UpdateStatus(reg, acct[c], IF ok THEN "LIVE" ELSE "DEGRADED")}
    /\ rt' = [rt EXCEPT ![r] = [acct |-> acct[c], done |-> k, phase |-> "up"]]
    /\ loop' = [loop EXCEPT ![k] = NewLoop(r)]
    /\ active' = [active EXCEPT ![PlatformOf(acct[c])] = r]
    /\ Return(c, ok \/ ~Restoring(c)) /\ Unlock(acct[c])
    /\ UNCHANGED <<dir, client, restarts, stray, daemon, deleteMu, mu, repairs>>

\* A restore of the runtime that is already there only refreshes its status.
Refresh(c, ok) ==
    /\ pc[c] = "refresh"
    /\ reg' \in {reg, UpdateStatus(reg, acct[c], IF ok THEN "LIVE" ELSE "DEGRADED")}
    /\ Return(c, ok) /\ Unlock(acct[c])
    /\ UNCHANGED <<dir, client, restarts, stray, daemon, deleteMu, heapVars>>

\* accounts.Deactivate, or the failure to write it.
Unregister(c) ==
    /\ pc[c] = "unregister"
    /\ \/ reg' = DeactivateAccount(reg, acct[c]) /\ Return(c, TRUE)
       \/ UNCHANGED reg /\ Return(c, FALSE)
    /\ Unlock(acct[c])
    /\ UNCHANGED <<dir, client, restarts, stray, daemon, deleteMu, heapVars>>

-----------------------------------------------------------------------------
(* Status and index reads: no operation mutex, only the published runtime. *)

\* Manager.Driver: the account is usable and its runtime is the published one.
HasDriver(a) ==
    LET r == active[PlatformOf(a)]
    IN  Usable(reg, a) /\ r # Nil /\ rt[r].acct = a

StatusBegin(c, a) ==
    /\ daemon = "up"
    /\ c \in Handler /\ pc[c] = "idle"
    /\ HasDriver(a)
    /\ pc' = [pc EXCEPT ![c] = "st_probe"]
    /\ op' = [op EXCEPT ![c] = "status"]
    /\ acct' = [acct EXCEPT ![c] = a]
    /\ cur' = [cur EXCEPT ![c] = active[PlatformOf(a)]]
    /\ UNCHANGED <<restore, hostVars, daemon, opLock, deleteMu, heapVars>>

\* driver.Status: what the driver reports, or an error, which ends the call.
StatusProbe(c) ==
    /\ pc[c] = "st_probe"
    /\ \/ Goto(c, IF rt[cur[c]].phase = "stopped" THEN "st_stopped" ELSE "st_live")
       \/ Return(c, FALSE)
    /\ UNCHANGED <<hostVars, daemon, opLock, deleteMu, heapVars>>

\* UpdateStatus with what was observed, which may be out of date by now.
StatusWrite(c) ==
    /\ pc[c] \in {"st_live", "st_stopped"}
    /\ reg' \in {reg, UpdateStatus(reg, acct[c],
                                  IF pc[c] = "st_live" THEN "LIVE" ELSE "STOPPED")}
    /\ Return(c, TRUE)
    /\ UNCHANGED <<dir, client, restarts, stray, daemon, opLock, deleteMu, heapVars>>

\* ListConversations, ListMessages, SearchMessages: under deleteMu's read
\* lock, Sync when the account is active and has a driver, then read.
ReadBegin(c, a) ==
    /\ daemon = "up"
    /\ c \in Handler /\ pc[c] = "idle"
    /\ deleteMu = Nil
    /\ Usable(reg, a)
    /\ op' = [op EXCEPT ![c] = "read"]
    /\ acct' = [acct EXCEPT ![c] = a]
    /\ \/ /\ pc' = [pc EXCEPT ![c] = "rd_index"]
          /\ UNCHANGED cur
       \/ /\ reg[a].active /\ HasDriver(a)
          /\ pc' = [pc EXCEPT ![c] = "rd_sync"]
          /\ cur' = [cur EXCEPT ![c] = active[PlatformOf(a)]]
    /\ UNCHANGED <<restore, hostVars, daemon, opLock, deleteMu, heapVars>>

\* Mutant: a Sync that waited enters the driver of a stopped runtime.
SyncLockUnchecked(c) ==
    /\ pc[c] = "rd_sync" /\ mu[cur[c]] = Nil
    /\ mu' = [mu EXCEPT ![cur[c]] = c] /\ Goto(c, "rd_driver")
    /\ UNCHANGED <<hostVars, daemon, opLock, deleteMu, active, rt, loop, repairs>>

\* ingestOnce of the Sync: refused once the runtime is stopping.
SyncLock(c) ==
    /\ pc[c] = "rd_sync" /\ mu[cur[c]] = Nil
    /\ IF rt[cur[c]].phase = "up"
       THEN mu' = [mu EXCEPT ![cur[c]] = c] /\ Goto(c, "rd_driver")
       ELSE UNCHANGED mu /\ Goto(c, "rd_index")
    /\ UNCHANGED <<hostVars, daemon, opLock, deleteMu, active, rt, loop, repairs>>

\* Mutant: an early return of ingestOnce keeps ingestMu.
SyncDoneKeepsMutex(c) ==
    /\ pc[c] = "rd_driver"
    /\ Goto(c, "rd_index")
    /\ UNCHANGED <<hostVars, daemon, opLock, deleteMu, heapVars>>

\* The ingest of the Sync returns and releases ingestMu.
SyncDone(c) ==
    /\ pc[c] = "rd_driver"
    /\ mu' = [mu EXCEPT ![cur[c]] = Nil]
    /\ Goto(c, "rd_index")
    /\ UNCHANGED <<hostVars, daemon, opLock, deleteMu, active, rt, loop, repairs>>

ReadIndex(c) ==
    /\ pc[c] = "rd_index"
    /\ Return(c, TRUE)
    /\ UNCHANGED <<hostVars, daemon, opLock, deleteMu, heapVars>>

-----------------------------------------------------------------------------
(* Service.AddAccount and Service.RemoveAccount.                           *)

\* Store.Add makes the directory, writes the registry, and removes the
\* directory again when the write fails.
Add(c, a) ==
    /\ daemon = "up" /\ c \in Handler /\ pc[c] = "idle"
    /\ reg[a].status = "unborn"
    /\ reg' = AddAccount(reg, a)
    /\ dir' = [dir EXCEPT ![a] = TRUE]
    /\ UNCHANGED <<client, restarts, stray, procVars, restore, daemon, opLock, deleteMu, heapVars>>

\* Mutant: a removal does not wait for the readers.
RemoveBeginUnlocked(c, a) ==
    /\ daemon = "up" /\ c \in Handler /\ pc[c] = "idle"
    /\ deleteMu = Nil
    /\ Resolves(reg, a)
    /\ deleteMu' = c
    /\ pc' = [pc EXCEPT ![c] = "rm_mark"]
    /\ op' = [op EXCEPT ![c] = "remove"]
    /\ acct' = [acct EXCEPT ![c] = a]
    /\ UNCHANGED <<cur, restore, hostVars, daemon, opLock, heapVars>>

\* deleteMu's write lock: no reader, no other removal.
RemoveBegin(c, a) ==
    /\ daemon = "up" /\ c \in Handler /\ pc[c] = "idle"
    /\ deleteMu = Nil /\ \A h \in Handler : op[h] # "read"
    /\ Resolves(reg, a)
    /\ deleteMu' = c
    /\ pc' = [pc EXCEPT ![c] = "rm_mark"]
    /\ op' = [op EXCEPT ![c] = "remove"]
    /\ acct' = [acct EXCEPT ![c] = a]
    /\ UNCHANGED <<cur, restore, hostVars, daemon, opLock, heapVars>>

RemoveReturn(c, ok) == Return(c, ok) /\ deleteMu' = Nil

\* Manager.BeginDelete: the durable marker, under the operation mutex.
RemoveMark(c) ==
    LET a == acct[c]
    IN  /\ pc[c] = "rm_mark" /\ opLock[PlatformOf(a)] = Nil
        /\ \/ /\ CanBeginDelete(reg, a)
              /\ reg' = MarkDeleting(reg, a)
              /\ Goto(c, "rm_purge") /\ UNCHANGED deleteMu
           \/ /\ ~(Resolves(reg, a) /\ reg[a].deleting)
              /\ UNCHANGED reg
              /\ RemoveReturn(c, FALSE)
        /\ UNCHANGED <<dir, client, restarts, stray, daemon, opLock, heapVars>>

\* Mutants: a running container is purged; a missing directory is an error.
PurgeRunning(a)      == PlatformOf(a) = "wecom" => dir[a]
PurgeNeedsProfile(a) == ~client[a] /\ dir[a]

\* Both drivers refuse to purge a running container; the WeCom driver also
\* insists that the account's state directory is there.
PurgeAllowed(a) == ~client[a] /\ (PlatformOf(a) = "wecom" => dir[a])

\* Manager.Purge under the operation mutex, or its failure; the failure
\* (RecordDeleteFailure) changes nothing but the error text.
RemovePurge(c) ==
    /\ pc[c] = "rm_purge"
    /\ \/ /\ opLock[PlatformOf(acct[c])] = Nil /\ PurgeAllowed(acct[c])
          /\ Goto(c, "rm_dirs") /\ UNCHANGED deleteMu
       \/ RemoveReturn(c, FALSE)
    /\ UNCHANGED <<hostVars, daemon, opLock, heapVars>>

\* Store.FinalizeDelete removes the directories first ...
RemoveDirs(c) ==
    /\ pc[c] = "rm_dirs"
    /\ \/ /\ dir' = [dir EXCEPT ![acct[c]] = FALSE]
          /\ Goto(c, "rm_save") /\ UNCHANGED deleteMu
       \/ UNCHANGED dir /\ RemoveReturn(c, FALSE)
    /\ UNCHANGED <<reg, client, restarts, stray, daemon, opLock, heapVars>>

\* ... and then the registry entry.
RemoveSave(c) ==
    /\ pc[c] = "rm_save"
    /\ \/ reg' = RemoveEntry(reg, acct[c]) /\ RemoveReturn(c, TRUE)
       \/ UNCHANGED reg /\ RemoveReturn(c, FALSE)
    /\ UNCHANGED <<dir, client, restarts, stray, daemon, opLock, heapVars>>

-----------------------------------------------------------------------------
(* The ingest goroutines: ingestLoop and restartIngestAfterExit.           *)

LoopExit(k) ==
    /\ loop[k].pc = "run" /\ loop[k].cancelled
    /\ loop' = [loop EXCEPT ![k].pc = "exited"]
    /\ UNCHANGED <<hostVars, daemon, restore, opLock, deleteMu, active, rt, mu, repairs, procVars>>

LoopBegin(k) ==
    /\ loop[k].pc = "run" /\ ~loop[k].cancelled
    /\ loop' = [loop EXCEPT ![k].pc = "mu"]
    /\ UNCHANGED <<hostVars, daemon, restore, opLock, deleteMu, active, rt, mu, repairs, procVars>>

\* ingestOnce: ingestMu, then refused once the runtime is stopping.
LoopLock(k) ==
    LET r == loop[k].rt
    IN  /\ loop[k].pc = "mu" /\ mu[r] = Nil
        /\ IF rt[r].phase = "up"
           THEN /\ mu' = [mu EXCEPT ![r] = k]
                /\ loop' = [loop EXCEPT ![k].pc = "driver"]
           ELSE /\ loop' = [loop EXCEPT ![k].pc = "run"]
                /\ UNCHANGED mu
        /\ UNCHANGED <<hostVars, daemon, restore, opLock, deleteMu, active, rt, repairs, procVars>>

LoopDone(k) ==
    /\ loop[k].pc = "driver"
    /\ mu' = [mu EXCEPT ![loop[k].rt] = Nil]
    /\ loop' = [loop EXCEPT ![k].pc = "run"]
    /\ UNCHANGED <<hostVars, daemon, restore, opLock, deleteMu, active, rt, repairs, procVars>>

\* Mutant: no generation check.
NeedsRepairAnyGeneration(k) ==
    LET r == loop[k].rt
        a == rt[r].acct
    IN  /\ Usable(reg, a) /\ reg[a].active
        /\ daemon # "closed"
        /\ active[PlatformOf(a)] = r

\* Is the runtime of channel k still the one to repair?
NeedsRepair(k) ==
    LET r == loop[k].rt
        a == rt[r].acct
    IN  /\ Usable(reg, a) /\ reg[a].active
        /\ daemon # "closed"
        /\ active[PlatformOf(a)] = r
        /\ rt[r].done = k

\* A repair goroutine gets the operation mutex after its channel closed.
Repair(k) ==
    LET r == loop[k].rt
    IN  /\ repairs[k] > 0 /\ ~LoopLive(k)
        /\ opLock[PlatformOf(rt[r].acct)] = Nil
        /\ repairs' = [repairs EXCEPT ![k] = @ - 1]
        /\ IF NeedsRepair(k)
           THEN \E new \in Chan :
                   /\ FreeChan(new)
                   /\ rt' = [rt EXCEPT ![r].done = new]
                   /\ loop' = [loop EXCEPT ![new] = NewLoop(r)]
           ELSE UNCHANGED <<rt, loop>>
        /\ UNCHANGED <<hostVars, daemon, restore, opLock, deleteMu, active, mu, procVars>>

\* closedCh ends a repair goroutine that still waits for its channel.
RepairClosed(k) ==
    /\ repairs[k] > 0 /\ daemon = "closed"
    /\ repairs' = [repairs EXCEPT ![k] = @ - 1]
    /\ UNCHANGED <<hostVars, daemon, restore, opLock, deleteMu, active, rt, mu, loop, procVars>>

-----------------------------------------------------------------------------
(* The daemon process.                                                     *)

\* Server.Shutdown: no new request, no new restore attempt.
ShutdownBegin ==
    /\ daemon = "up"
    /\ daemon' = "draining"
    /\ UNCHANGED <<hostVars, restore, opLock, deleteMu, heapVars, procVars>>

\* The restore goroutine and the handlers are done in time: Manager.Shutdown
\* takes both operation mutexes, closes the manager and starts one stop
\* goroutine per published runtime.
ShutdownManager ==
    /\ daemon = "draining"
    /\ \A c \in Proc : pc[c] = "idle"
    /\ \A p \in Platform : opLock[p] = Nil
    /\ daemon' = "closed"
    /\ LET Stops(c) == c \in Platform /\ active[c] # Nil
       IN  /\ pc' = [c \in Proc |-> IF Stops(c) THEN "stop" ELSE pc[c]]
           /\ op' = [c \in Proc |-> IF Stops(c) THEN "shutdown" ELSE op[c]]
           /\ cur' = [c \in Proc |-> IF Stops(c) THEN active[c] ELSE cur[c]]
           /\ acct' = [c \in Proc |-> IF Stops(c) THEN rt[active[c]].acct ELSE acct[c]]
           /\ opLock' = [p \in Platform |-> IF Stops(p) THEN p ELSE Nil]
    /\ active' = [p \in Platform |-> Nil]
    /\ UNCHANGED <<hostVars, restore, deleteMu, rt, mu, loop, repairs>>

\* The values a daemon process starts with.
NoLocks    == [p \in Platform |-> Nil]
NoRuntimes == [r \in Runtime |-> NoRuntime]
NoMutexes  == [r \in Runtime |-> Nil]
NoLoops    == [k \in Chan |-> NoLoop]
NoRepairs  == [k \in Chan |-> 0]
AllIdle    == [c \in Proc |-> "idle"]
NoOps      == [c \in Proc |-> "none"]
NoObjects  == [c \in Proc |-> Nil]

\* The process ends: a crash, a kill, or the end of Shutdown's time budget.
\* The client containers are detached and keep running.
Terminate ==
    /\ daemon # "down"
    /\ daemon' = "down"
    /\ restore' = [todo |-> {}, left |-> 0, failed |-> FALSE]
    /\ opLock' = NoLocks /\ deleteMu' = Nil /\ active' = NoLocks
    /\ rt' = NoRuntimes /\ mu' = NoMutexes /\ loop' = NoLoops /\ repairs' = NoRepairs
    /\ pc' = AllIdle /\ op' = NoOps /\ acct' = NoObjects /\ cur' = NoObjects
    /\ stray' = client
    /\ UNCHANGED <<reg, dir, client, restarts>>

\* A new daemon opens the registry and starts its restore retry.
Restart ==
    /\ daemon = "down" /\ restarts < MaxRestarts
    /\ restarts' = restarts + 1
    /\ daemon' = "up"
    /\ reg' = OpenRegistry(reg)
    /\ restore' = [todo |-> {}, left |-> MaxAttempts, failed |-> FALSE]
    /\ UNCHANGED <<dir, client, stray, opLock, deleteMu, heapVars, procVars>>

\* The last daemon of a behaviour stays down.
Stopped ==
    /\ daemon = "down" /\ restarts = MaxRestarts
    /\ UNCHANGED vars

-----------------------------------------------------------------------------
\* A daemon starts after a reboot of the host: accounts are registered or
\* not yet, at most one per platform is requested, no container runs.
Init ==
    /\ reg \in [Account -> {FreshEntry,
                            [FreshEntry EXCEPT !.status = "present"],
                            [FreshEntry EXCEPT !.status = "present", !.active = TRUE,
                                               !.state = "LIVE"]}]
    /\ OneActivePerPlatform(reg)
    /\ dir = [a \in Account |-> reg[a].status = "present"]
    /\ client = [a \in Account |-> FALSE]
    /\ stray = [a \in Account |-> FALSE]
    /\ restarts = 0
    /\ daemon = "up"
    /\ restore = [todo |-> {}, left |-> MaxAttempts, failed |-> FALSE]
    /\ opLock = NoLocks /\ deleteMu = Nil /\ active = NoLocks
    /\ rt = NoRuntimes /\ mu = NoMutexes /\ loop = NoLoops /\ repairs = NoRepairs
    /\ pc = AllIdle /\ op = NoOps /\ acct = NoObjects /\ cur = NoObjects

\* A step that a request or the restore goroutine starts with.
Request(c) ==
    \E a \in Account :
        \/ "activate" \in Requests /\ Begin(c, "activate", a)
        \/ "deactivate" \in Requests /\ Begin(c, "deactivate", a)
        \/ "status" \in Requests /\ StatusBegin(c, a)
        \/ "read" \in Requests /\ ReadBegin(c, a)
        \/ "remove" \in Requests /\ RemoveBegin(c, a)
        \/ "add" \in Requests /\ Add(c, a)

\* The steps of an operation once it has begun.
Lifecycle(c) ==
    \/ LockTimeout(c) \/ AcquireActivate(c) \/ AcquireDeactivate(c)
    \/ StopCancel(c) \/ StopWaitDone(c) \/ StopTimeout(c) \/ StopDrain(c)
    \/ StopOk(c) \/ StopFail(c) \/ DropRuntime(c)
    \/ Register(c) \/ StartOk(c) \/ StartFail(c) \/ Unregister(c)
    \/ \E ok \in BOOLEAN : Refresh(c, ok)
    \/ \E r \in Runtime, k \in Chan, ok \in BOOLEAN : Publish(c, r, k, ok)

Observe(c) ==
    \/ StatusProbe(c) \/ StatusWrite(c)
    \/ SyncLock(c) \/ SyncDone(c) \/ ReadIndex(c)

Remove(c) == RemoveMark(c) \/ RemovePurge(c) \/ RemoveDirs(c) \/ RemoveSave(c)

Ingest(k) ==
    \/ LoopExit(k) \/ LoopBegin(k) \/ LoopLock(k) \/ LoopDone(k)
    \/ Repair(k) \/ RepairClosed(k)

RestoreRetry ==
    RestoreAttempt \/ RestoreAttemptEnd \/ \E a \in Account : RestoreNext(a)

Process == ShutdownBegin \/ ShutdownManager \/ Terminate \/ Restart \/ Stopped

Next ==
    \/ \E c \in Proc : Request(c) \/ Lifecycle(c) \/ Observe(c) \/ Remove(c)
    \/ \E k \in Chan : Ingest(k)
    \/ RestoreRetry
    \/ Process

Spec == Init /\ [][Next]_vars

-----------------------------------------------------------------------------
(* What the lifecycle must guarantee.                                      *)

OpKind == {"none", "activate", "restore", "deactivate", "shutdown",
           "status", "read", "remove"}

Label == {"idle", "lock", "rs_next", "stop", "stop_wait", "stop_mu", "stop_driver",
          "drop", "register", "start", "publish", "refresh", "unregister",
          "st_probe", "st_live", "st_stopped", "rd_sync", "rd_driver", "rd_index",
          "rm_mark", "rm_purge", "rm_dirs", "rm_save"}

RuntimeObject == [acct : Account \cup {Nil}, done : Chan \cup {Nil},
                  phase : {"up", "stopping", "stopped"}]

LoopObject == [rt : Runtime \cup {Nil},
               pc : {"none", "run", "mu", "driver", "exited"},
               cancelled : BOOLEAN]

HostType ==
    /\ reg \in Registry
    /\ dir \in [Account -> BOOLEAN]
    /\ client \in [Account -> BOOLEAN]
    /\ restarts \in 0..MaxRestarts
    /\ stray \in [Account -> BOOLEAN]

DaemonType ==
    /\ daemon \in {"up", "draining", "closed", "down"}
    /\ opLock \in [Platform -> Proc \cup {Nil}]
    /\ deleteMu \in Handler \cup {Nil}

HeapType ==
    /\ active \in [Platform -> Runtime \cup {Nil}]
    /\ rt \in [Runtime -> RuntimeObject]
    /\ mu \in [Runtime -> Proc \cup Chan \cup {Nil}]
    /\ loop \in [Chan -> LoopObject]
    /\ repairs \in [Chan -> 0..MaxRepairs]

ProcType ==
    /\ pc \in [Proc -> Label]
    /\ op \in [Proc -> OpKind]
    /\ acct \in [Proc -> Account \cup {Nil}]
    /\ cur \in [Proc -> Runtime \cup {Nil}]
    /\ restore \in [todo : SUBSET Account, left : 0..MaxAttempts, failed : BOOLEAN]

\* The shape of the state.
TypeOK == HostType /\ DaemonType /\ HeapType /\ ProcType

\* The registry never requests two accounts of one platform, and a deletion
\* marker is never undone or contradicted by a late status write, a restore
\* or a daemon restart (Store.UpdateStatus, Activate, Open).
RegistryConsistent == OneActivePerPlatform(reg) /\ DeletingIsInert(reg)

\* A published runtime belongs to the account that the registry requests on
\* that platform; in particular never to an account being deleted.
PublishedIsRequested ==
    \A p \in Platform :
        active[p] # Nil =>
            LET a == rt[active[p]].acct
            IN  a \in Account /\ PlatformOf(a) = p /\ Usable(reg, a) /\ reg[a].active

\* Where a process holds its platform's operation mutex.
LockedLabel == {"stop", "stop_wait", "stop_mu", "stop_driver", "drop",
                "register", "start", "publish", "refresh", "unregister"}

RemoveLabel == {"rm_mark", "rm_purge", "rm_dirs", "rm_save"}

\* What each process relies on between two of its steps.
Relies(c) ==
    LET a == acct[c]
        p == PlatformOf(acct[c])
    IN  /\ pc[c] \in {"lock"} \cup LockedLabel \cup RemoveLabel => a \in Account
        /\ pc[c] \in LockedLabel => opLock[p] = c /\ Usable(reg, a)
        /\ pc[c] \in {"register", "start", "publish"} => active[p] = Nil
        /\ pc[c] \in {"start", "publish"} => reg[a].active
        /\ pc[c] = "unregister" => active[p] = Nil \/ rt[active[p]].acct # a
        /\ pc[c] \in RemoveLabel => deleteMu = c
        /\ pc[c] \in RemoveLabel \ {"rm_mark"} => reg[a].deleting

\* The operation mutex protects a lifecycle operation against every other
\* one and against the deletion marker: an account that is being switched,
\* started or stopped stays usable, its slot stays as the operation left it,
\* and an account that is being removed stays marked.
LifecycleInv ==
    /\ RegistryConsistent
    /\ PublishedIsRequested
    /\ \A c \in Proc : Relies(c)

\* Who is inside the driver of runtime r with an ingest.
Ingesting(r) ==
    \/ \E k \in Chan : loop[k].rt = r /\ loop[k].pc = "driver"
    \/ \E c \in Proc : cur[c] = r /\ pc[c] = "rd_driver"

\* An ingest never runs in a driver that is stopping or stopped, and never
\* writes the index of an account that is being removed (stopRuntime drains
\* the loop and every Sync before driver.Stop).
IngestOnlyWhileUp ==
    \A r \in Runtime :
        Ingesting(r) =>
            /\ rt[r].phase = "up"
            /\ Usable(reg, rt[r].acct) /\ dir[rt[r].acct]

\* However often a stop times out, fails and is repaired, a runtime has at
\* most one ingest loop (restartIngestAfterExit's generation check).
OneIngestLoop ==
    \A j, k \in Chan :
        LoopLive(j) /\ LoopLive(k) /\ loop[j].rt = loop[k].rt => j = k

\* A reader that passed the deletion check finds the account's directory
\* until it is done (deleteMu).
ReadersKeepTheProfile ==
    \A c \in Proc : op[c] = "read" => dir[acct[c]]

\* No client container runs on a profile whose directory was removed, even
\* with containers left over from an earlier daemon (Purge's running check).
NoClientWithoutProfile ==
    \A a \in Account : client[a] => reg[a].status = "present" /\ dir[a]

\* An account that is not requested does not run, unless a failed start or an
\* ended daemon left its container: a switch or a deactivation never does, and
\* a container that a start has taken over is no longer excused.
InactiveIsStopped == \A a \in Account : client[a] => reg[a].active \/ stray[a]

\* Of the containers that were not left behind, a platform runs one.
OneClientPerPlatform ==
    \A a, b \in Account :
        /\ client[a] /\ ~stray[a] /\ client[b] /\ ~stray[b]
        /\ PlatformOf(a) = PlatformOf(b)
        => a = b

\* Only an explicit request for an account of the platform moves the
\* platform's slot: not a restore, whatever its snapshot said, not a failed
\* restore, a status write, a shutdown, a restart, or the other platform.
SlotMove ==
    \A a \in Account :
        reg[a].active # reg'[a].active =>
            \E h \in Handler :
                /\ op[h] \in {"activate", "deactivate"}
                /\ PlatformOf(acct[h]) = PlatformOf(a)
                /\ reg'[a].active => op[h] = "activate" /\ acct[h] = a

OnlyRequestsMoveTheSlot == [][SlotMove]_vars

-----------------------------------------------------------------------------
(* Liveness.  Every goroutine that can run runs: weak fairness.  A Go      *)
(* mutex is starvation-free: strong fairness where a step needs one that   *)
(* others keep taking and releasing.  Driver calls return, because they    *)
(* run under a context.  Nothing makes clients issue requests.             *)

\* What the code does on its own once a request is accepted.
RequestFairness ==
    /\ \A c \in Proc : WF_vars(Lifecycle(c) \/ Observe(c) \/ Remove(c))
    /\ \A c \in Handler : SF_vars(SyncLock(c) \/ RemoveMark(c))
    /\ \A k \in Chan : WF_vars(LoopExit(k) \/ LoopDone(k))

\* The background goroutines keep going.
IngestFairness ==
    /\ \A k \in Chan : SF_vars(LoopLock(k)) /\ SF_vars(Repair(k))
    /\ WF_vars(RestoreRetry)

FairSpec == Spec /\ RequestFairness /\ IngestFairness

\* The platform's published runtime is collecting messages.
Collecting(p) ==
    LET k == rt[active[p]].done
    IN  LoopLive(k) /\ ~loop[k].cancelled

\* A stop attempt that times out or fails never leaves a published runtime
\* without an ingest loop for good: the loop is always started again.
IngestAlwaysResumes ==
    \A p \in Platform : []<>(active[p] = Nil \/ Collecting(p))

\* Every request returns, whatever mutexes and stops it has to wait for.
RequestsReturn ==
    \A h \in Handler : pc[h] # "idle" ~> pc[h] = "idle"

\* The operator repeats the same confirmed removal, and what fails in it is
\* transient: each of its steps that can succeed again and again does.
RemovalRetried ==
    \E h \in Handler : \A a \in Account :
        /\ SF_vars(RemoveBegin(h, a))
        /\ SF_vars(RemoveMark(h) /\ pc'[h] = "rm_purge")
        /\ SF_vars(RemovePurge(h) /\ pc'[h] = "rm_dirs")
        /\ SF_vars(RemoveDirs(h) /\ pc'[h] = "rm_save")
        /\ SF_vars(RemoveSave(h) /\ reg' # reg)

\* Repeating a confirmed removal of an account marked deleting resumes the
\* cleanup wherever it failed, and completes it while the daemon runs: what
\* docs/architecture.md promises.  The code does not keep it for a WeCom account
\* (run WeComRemoval), nor for a client that was left running (RemovalResumes).
RemovalCompletes ==
    RemovalRetried =>
        \A a \in Account :
            reg[a].deleting ~> (reg[a].status = "gone" \/ daemon # "up")

\* The same for a WeChat account, in any later daemon too, but for one whose
\* container a failed start or an ended daemon left running: nothing stops that
\* one, and Purge refuses it.  Nothing else keeps a removal from being completed.
RemovalResumes ==
    RemovalRetried =>
        \A a \in Account :
            reg[a].deleting ~> (reg[a].status = "gone" \/ daemon # "up" \/ stray[a])
=============================================================================
