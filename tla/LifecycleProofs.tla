-------------------------- MODULE LifecycleProofs --------------------------
(***************************************************************************)
(* The account lifecycle: its types, and that LifecycleInv holds in every  *)
(* reachable state, for every number of accounts, handlers and restarts.   *)
(*                                                                         *)
(* A step of process c either leaves alone what the others rely on (Quiet) *)
(* or changes one platform whose operation mutex c holds or finds free     *)
(* (Local).  In both cases the others keep Relies; what is left is c's own *)
(* part, the registry and the published runtimes.                          *)
(***************************************************************************)
EXTENDS RuntimeManager, TLAPS

-----------------------------------------------------------------------------
(* Types.                                                                  *)

\* A return leaves the processes well typed.
LEMMA ReturnType ==
    ASSUME ProcType, NEW c \in Proc, NEW ok \in BOOLEAN, Return(c, ok)
    PROVE  ProcType'
  BY DEF ProcType, Return, Label, OpKind

\* So does a move to another label.
LEMMA GotoType ==
    ASSUME ProcType, NEW c \in Proc, NEW l \in Label, Goto(c, l)
    PROVE  ProcType'
  BY DEF ProcType, Goto

\* Taking the operation mutex keeps the processes and the mutexes well typed.
LEMMA EnterType ==
    ASSUME ProcType, DaemonType, NEW c \in Proc, NEW l \in Label,
           NEW r \in Runtime \cup {Nil}, Enter(c, l, r)
    PROVE  ProcType' /\ opLock' \in [Platform -> Proc \cup {Nil}]
  BY DEF ProcType, DaemonType, Enter, PlatformOf, Platform

\* So does releasing it.
LEMMA UnlockType ==
    ASSUME DaemonType, NEW a, Unlock(a)
    PROVE  opLock' \in [Platform -> Proc \cup {Nil}]
  BY DEF DaemonType, Unlock

\* Cancelling an ingest loop (stopRuntime's cancel) keeps the loops well typed.
LEMMA CancelType ==
    ASSUME HeapType, NEW k, loop' = [loop EXCEPT ![k].cancelled = TRUE]
    PROVE  loop' \in [Chan -> LoopObject]
  BY DEF HeapType, LoopObject

\* So does starting one (startIngest).
LEMMA NewLoopType ==
    ASSUME HeapType, NEW k, NEW r \in Runtime \cup {Nil}, loop' = [loop EXCEPT ![k] = NewLoop(r)]
    PROVE  loop' \in [Chan -> LoopObject]
  BY DEF HeapType, LoopObject, NewLoop

\* A step that leaves the host alone keeps its type.
LEMMA HostSame == HostType /\ UNCHANGED hostVars => HostType'
  BY DEF HostType, hostVars

\* A step that leaves the runtime objects alone keeps their type.
LEMMA HeapSame == HeapType /\ UNCHANGED heapVars => HeapType'
  BY DEF HeapType, heapVars

\* A step that leaves the processes alone keeps their type.
LEMMA ProcSame == ProcType /\ UNCHANGED <<procVars, restore>> => ProcType'
  BY DEF ProcType, procVars

\* The labels the actions mention are labels.
LEMMA Labels ==
    {"idle", "lock", "rs_next", "stop", "stop_wait", "stop_mu", "stop_driver",
     "drop", "register", "start", "publish", "refresh", "unregister",
     "st_probe", "st_live", "st_stopped", "rd_sync", "rd_driver", "rd_index",
     "rm_mark", "rm_purge", "rm_dirs", "rm_save"} \subseteq Label
  BY DEF Label

\* The type invariant and its next-state form, by parts.
LEMMA TypeParts ==
    /\ TypeOK <=> HostType /\ DaemonType /\ HeapType /\ ProcType
    /\ TypeOK' <=> HostType' /\ DaemonType' /\ HeapType' /\ ProcType'
  BY DEF TypeOK

\* Getting the operation mutex in Manager.activate keeps the types, whichever
\* way the re-check of the account goes.
LEMMA AcquireActivateType ==
    ASSUME TypeOK, NEW c \in Proc, AcquireActivate(c)
    PROVE  TypeOK'
<1> DEFINE r == active[PlatformOf(acct[c])]
<1>1. HostType' /\ HeapType' /\ daemon' = daemon /\ deleteMu' = deleteMu
  BY TypeParts, HostSame, HeapSame DEF AcquireActivate
<1>2. r \in Runtime \cup {Nil}
  BY TypeParts DEF HeapType, PlatformOf, Platform
<1>3. ProcType' /\ opLock' \in [Platform -> Proc \cup {Nil}]
  <2>1. CASE \E ok \in BOOLEAN : Return(c, ok) /\ UNCHANGED opLock
    BY <2>1, TypeParts, ReturnType DEF DaemonType
  <2>2. CASE \E l \in Label : Enter(c, l, r)
    BY <1>2, <2>2, TypeParts, EnterType
  <2> QED
    BY <2>1, <2>2, Labels DEF AcquireActivate, SwitchLabel
<1> QED
  BY <1>1, <1>3, TypeParts DEF DaemonType

\* Store.UpdateStatus returns a registry.
LEMMA UpdateStatusType ==
    ASSUME NEW g \in Registry, NEW a, NEW s \in RuntimeState
    PROVE  UpdateStatus(g, a, s) \in Registry
  BY DEF UpdateStatus, Registry, Entry

\* Store.Deactivate returns a registry.
LEMMA DeactivateType ==
    ASSUME NEW g \in Registry, NEW a
    PROVE  DeactivateAccount(g, a) \in Registry
  BY DEF DeactivateAccount, Registry, Entry, RuntimeState

\* Store.Activate returns a registry.
LEMMA ActivateType ==
    ASSUME NEW g \in Registry, NEW a
    PROVE  ActivateAccount(g, a) \in Registry
  BY DEF ActivateAccount, Registry, Entry, RuntimeState

\* Store.BeginDelete's marker gives a registry.
LEMMA MarkDeletingType ==
    ASSUME NEW g \in Registry, NEW a
    PROVE  MarkDeleting(g, a) \in Registry
  BY ZenonT(60) DEF MarkDeleting, Registry, Entry, RuntimeState

\* Store.FinalizeDelete returns a registry.
LEMMA RemoveEntryType ==
    ASSUME NEW g \in Registry, NEW a
    PROVE  RemoveEntry(g, a) \in Registry
  BY DEF RemoveEntry, Registry, Entry, RuntimeState

\* What Open normalises is a registry.
LEMMA OpenType ==
    ASSUME NEW g \in Registry
    PROVE  OpenRegistry(g) \in Registry
  BY DEF OpenRegistry, Registry, Entry, RuntimeState

\* Store.Add returns a registry.
LEMMA AddType ==
    ASSUME NEW g \in Registry, NEW a
    PROVE  AddAccount(g, a) \in Registry
  BY DEF AddAccount, Registry, Entry

\* A removal that returns keeps the processes and deleteMu well typed.
LEMMA RemoveReturnType ==
    ASSUME ProcType, NEW c \in Proc, NEW ok \in BOOLEAN, RemoveReturn(c, ok)
    PROVE  ProcType' /\ deleteMu' \in Handler \cup {Nil}
  BY ReturnType DEF RemoveReturn

\* Whatever recordActivationFailure manages to write is a registry.
LEMMA FailureRecordsType ==
    ASSUME reg \in Registry, NEW c \in Proc
    PROVE  FailureRecords(c) \subseteq Registry
  BY UpdateStatusType, DeactivateType DEF FailureRecords, RuntimeState

\* One step per action of the lifecycle operations.
LEMMA LifecycleType ==
    ASSUME TypeOK, NEW c \in Proc, Lifecycle(c)
    PROVE  TypeOK'
<1>1. CASE LockTimeout(c)
  BY <1>1, TypeParts, HostSame, HeapSame, ReturnType
     DEF LockTimeout, DaemonType
<1>2. CASE AcquireDeactivate(c)
  BY <1>2, TypeParts, HostSame, HeapSame, ReturnType, EnterType, Labels
     DEF AcquireDeactivate, DaemonType, HeapType, PlatformOf, Platform
<1>3. CASE StopCancel(c)
  BY <1>3, TypeParts, HostSame, GotoType, Labels, CancelType
     DEF StopCancel, DaemonType, HeapType
<1>4. CASE StopWaitDone(c)
  BY <1>4, TypeParts, HostSame, HeapSame, GotoType, Labels
     DEF StopWaitDone, DaemonType
<1>5. CASE StopTimeout(c)
  <2>1. repairs' \in [Chan -> 0..MaxRepairs]
    BY <1>5, TypeParts, BoundsAreNaturals DEF StopTimeout, HeapType
  <2>2. ProcType' /\ opLock' \in [Platform -> Proc \cup {Nil}]
    BY <1>5, TypeParts, ReturnType, UnlockType DEF StopTimeout
  <2> QED
    BY <1>5, <2>1, <2>2, TypeParts, HostSame DEF StopTimeout, DaemonType, HeapType
<1>6. CASE StopDrain(c)
  BY <1>6, TypeParts, HostSame, GotoType, Labels, ZenonT(60)
     DEF StopDrain, DaemonType, HeapType, RuntimeObject
<1>7. CASE StopOk(c)
  BY <1>7, TypeParts, ReturnType, GotoType, Labels, UnlockType, ZenonT(60)
     DEF StopOk, DaemonType, HostType, HeapType, RuntimeObject
<1>8. CASE StopFail(c)
  <2>1. client' \in [Account -> BOOLEAN]
    BY <1>8, TypeParts DEF StopFail, HostType
  <2>2. ProcType' /\ opLock' \in [Platform -> Proc \cup {Nil}]
    BY <1>8, TypeParts, ReturnType, UnlockType DEF StopFail
  <2>3. mu' \in [Runtime -> Proc \cup Chan \cup {Nil}]
    BY <1>8, TypeParts DEF StopFail, HeapType
  <2>4. rt' \in [Runtime -> RuntimeObject] /\ loop' \in [Chan -> LoopObject]
    <3>1. CASE RestartOnFailure(c)
      <4>1. PICK k \in Chan :
               /\ rt' = [rt EXCEPT ![cur[c]].phase = "up", ![cur[c]].done = k]
               /\ loop' = [loop EXCEPT ![k] = NewLoop(cur[c])]
        BY <1>8, <3>1 DEF StopFail
      <4>2. rt' \in [Runtime -> RuntimeObject]
        BY <4>1, TypeParts, ZenonT(60) DEF HeapType, RuntimeObject
      <4> QED
        BY <4>1, <4>2, TypeParts, NewLoopType DEF ProcType
    <3> QED
      BY <1>8, <3>1, TypeParts DEF StopFail, HeapType
  <2> QED
    BY <1>8, <2>1, <2>2, <2>3, <2>4, TypeParts DEF StopFail, HostType, DaemonType, HeapType
<1>9. CASE DropRuntime(c)
  BY <1>9, TypeParts, HostSame, Labels
     DEF DropRuntime, DaemonType, HeapType, ProcType
<1>10. CASE Register(c)
  BY <1>10, TypeParts, HeapSame, ReturnType, GotoType, Labels, UnlockType,
     ActivateType
     DEF Register, DaemonType, HostType
<1>11. CASE StartOk(c)
  BY <1>11, TypeParts, HeapSame, GotoType, Labels
     DEF StartOk, DaemonType, HostType
<1>12. CASE StartFail(c)
  <2>1. /\ reg' \in Registry /\ client' \in [Account -> BOOLEAN]
        /\ stray' \in [Account -> BOOLEAN]
    BY <1>12, TypeParts, FailureRecordsType DEF StartFail, HostType
  <2>2. ProcType' /\ opLock' \in [Platform -> Proc \cup {Nil}]
    BY <1>12, TypeParts, ReturnType, UnlockType DEF StartFail
  <2> QED
    BY <1>12, <2>1, <2>2, TypeParts, HeapSame DEF StartFail, HostType, DaemonType
<1>13. CASE Unregister(c)
  BY <1>13, TypeParts, HeapSame, ReturnType, UnlockType, DeactivateType
     DEF Unregister, DaemonType, HostType
<1>14. ASSUME NEW ok \in BOOLEAN, Refresh(c, ok) PROVE TypeOK'
  BY <1>14, TypeParts, HeapSame, ReturnType, UnlockType, UpdateStatusType
     DEF Refresh, DaemonType, HostType, RuntimeState
<1>15. ASSUME NEW r \in Runtime, NEW k \in Chan, NEW ok \in BOOLEAN,
             Publish(c, r, k, ok)
      PROVE  TypeOK'
  <2>1. reg' \in Registry
    BY <1>15, TypeParts, UpdateStatusType DEF Publish, HostType, RuntimeState
  <2>2. ProcType' /\ opLock' \in [Platform -> Proc \cup {Nil}]
    BY <1>15, TypeParts, ReturnType, UnlockType DEF Publish
  <2>3. rt' \in [Runtime -> RuntimeObject]
    BY <1>15, TypeParts DEF Publish, HeapType, ProcType, RuntimeObject
  <2>4. loop' \in [Chan -> LoopObject]
    BY <1>15, TypeParts, NewLoopType DEF Publish
  <2> QED
    BY <1>15, <2>1, <2>2, <2>3, <2>4, TypeParts
       DEF Publish, HostType, DaemonType, HeapType
<1> QED
  BY <1>1, <1>2, <1>3, <1>4, <1>5, <1>6, <1>7,
     <1>8, <1>9, <1>10, <1>11, <1>12, <1>13, <1>14, <1>15, AcquireActivateType
     DEF Lifecycle

\* Status and read requests keep the types.
LEMMA ObserveType ==
    ASSUME TypeOK, NEW c \in Proc, Observe(c)
    PROVE  TypeOK'
<1>1. CASE StatusProbe(c)
  BY <1>1, TypeParts, HostSame, HeapSame, ReturnType, GotoType, Labels
     DEF StatusProbe, DaemonType
<1>2. CASE StatusWrite(c)
  BY <1>2, TypeParts, HeapSame, ReturnType, UpdateStatusType
     DEF StatusWrite, DaemonType, HostType, RuntimeState
<1>3. CASE SyncLock(c)
  BY <1>3, TypeParts, HostSame, GotoType, Labels
     DEF SyncLock, DaemonType, HeapType
<1>4. CASE SyncDone(c)
  BY <1>4, TypeParts, HostSame, GotoType, Labels
     DEF SyncDone, DaemonType, HeapType
<1>5. CASE ReadIndex(c)
  BY <1>5, TypeParts, HostSame, HeapSame, ReturnType
     DEF ReadIndex, DaemonType
<1> QED
  BY <1>1, <1>2, <1>3, <1>4, <1>5 DEF Observe

\* The steps of a removal keep the types.
LEMMA RemoveType ==
    ASSUME TypeOK, NEW c \in Proc, Remove(c)
    PROVE  TypeOK'
<1>1. CASE RemoveMark(c)
  BY <1>1, TypeParts, HeapSame, RemoveReturnType, GotoType, Labels, MarkDeletingType
     DEF RemoveMark, DaemonType, HostType
<1>2. CASE RemovePurge(c)
  BY <1>2, TypeParts, HostSame, HeapSame, RemoveReturnType, GotoType, Labels
     DEF RemovePurge, DaemonType
<1>3. CASE RemoveDirs(c)
  BY <1>3, TypeParts, HeapSame, RemoveReturnType, GotoType, Labels
     DEF RemoveDirs, DaemonType, HostType
<1>4. CASE RemoveSave(c)
  BY <1>4, TypeParts, HeapSame, RemoveReturnType, RemoveEntryType
     DEF RemoveSave, DaemonType, HostType
<1> QED
  BY <1>1, <1>2, <1>3, <1>4 DEF Remove

\* Accepting a request keeps the types.
LEMMA RequestType ==
    ASSUME TypeOK, NEW c \in Proc, Request(c)
    PROVE  TypeOK'
<1>1. ASSUME NEW a \in Account, NEW o \in {"activate", "deactivate"}, Begin(c, o, a)
      PROVE  TypeOK'
  BY <1>1, TypeParts, HostSame, HeapSame
     DEF Begin, DaemonType, ProcType, Label, OpKind
<1>2. ASSUME NEW a \in Account, StatusBegin(c, a) PROVE TypeOK'
  BY <1>2, TypeParts, HostSame, HeapSame
     DEF StatusBegin, DaemonType, HeapType, ProcType, Label, OpKind, PlatformOf,
         Platform
<1>3. ASSUME NEW a \in Account, ReadBegin(c, a) PROVE TypeOK'
  BY <1>3, TypeParts, HostSame, HeapSame
     DEF ReadBegin, DaemonType, HeapType, ProcType, Label, OpKind, PlatformOf,
         Platform
<1>4. ASSUME NEW a \in Account, RemoveBegin(c, a) PROVE TypeOK'
  BY <1>4, TypeParts, HostSame, HeapSame
     DEF RemoveBegin, DaemonType, ProcType, Label, OpKind
<1>5. ASSUME NEW a \in Account, Add(c, a) PROVE TypeOK'
  BY <1>5, TypeParts, HeapSame, ProcSame, AddType
     DEF Add, DaemonType, HostType, procVars
<1> QED
  BY <1>1, <1>2, <1>3, <1>4, <1>5 DEF Request

\* The ingest goroutines and their repair keep the types.
LEMMA IngestType ==
    ASSUME TypeOK, NEW k \in Chan, Ingest(k)
    PROVE  TypeOK'
<1>1. CASE LoopExit(k)
  BY <1>1, TypeParts, HostSame, ProcSame
     DEF LoopExit, DaemonType, HeapType, LoopObject
<1>2. CASE LoopBegin(k)
  BY <1>2, TypeParts, HostSame, ProcSame
     DEF LoopBegin, DaemonType, HeapType, LoopObject
<1>3. CASE LoopLock(k)
  BY <1>3, TypeParts, HostSame, ProcSame
     DEF LoopLock, DaemonType, HeapType, LoopObject
<1>4. CASE LoopDone(k)
  BY <1>4, TypeParts, HostSame, ProcSame
     DEF LoopDone, DaemonType, HeapType, LoopObject
<1>5. CASE Repair(k)
  <2>1. repairs' \in [Chan -> 0..MaxRepairs]
    BY <1>5, TypeParts, BoundsAreNaturals DEF Repair, HeapType
  <2>2. rt' \in [Runtime -> RuntimeObject] /\ loop' \in [Chan -> LoopObject]
    <3>1. CASE NeedsRepair(k)
      <4>1. PICK new \in Chan :
               /\ rt' = [rt EXCEPT ![loop[k].rt].done = new]
               /\ loop' = [loop EXCEPT ![new] = NewLoop(loop[k].rt)]
        BY <1>5, <3>1 DEF Repair
      <4>2. rt' \in [Runtime -> RuntimeObject] /\ loop[k].rt \in Runtime \cup {Nil}
        BY <4>1, TypeParts, ZenonT(60) DEF HeapType, RuntimeObject, LoopObject
      <4> QED
        BY <4>1, <4>2, TypeParts, NewLoopType
    <3> QED
      BY <1>5, <3>1, TypeParts DEF Repair, HeapType
  <2> QED
    BY <1>5, <2>1, <2>2, TypeParts, HostSame, ProcSame DEF Repair, DaemonType, HeapType
<1>6. CASE RepairClosed(k)
  BY <1>6, TypeParts, HostSame, ProcSame, BoundsAreNaturals
     DEF RepairClosed, DaemonType, HeapType
<1> QED
  BY <1>1, <1>2, <1>3, <1>4, <1>5, <1>6 DEF Ingest

\* The restore goroutine keeps the types.
LEMMA RestoreRetryType ==
    ASSUME TypeOK, RestoreRetry
    PROVE  TypeOK'
<1>0. Restorer \in Proc
  BY DEF Proc
<1>1. CASE RestoreAttempt
  BY <1>0, <1>1, TypeParts, HostSame, HeapSame, BoundsAreNaturals
     DEF RestoreAttempt, DaemonType, ProcType, Label
<1>2. CASE RestoreAttemptEnd
  BY <1>0, <1>2, TypeParts, HostSame, HeapSame, BoundsAreNaturals
     DEF RestoreAttemptEnd, DaemonType, ProcType, Label
<1>3. ASSUME NEW a \in Account, RestoreNext(a) PROVE TypeOK'
  <2>1. restore' \in [todo : SUBSET Account, left : 0..MaxAttempts, failed : BOOLEAN]
    BY <1>3, TypeParts DEF RestoreNext, ProcType, Usable, Resolves
  <2> QED
    BY <1>0, <1>3, <2>1, TypeParts, HostSame, HeapSame
       DEF RestoreNext, DaemonType, ProcType, Label, OpKind
<1> QED
  BY <1>1, <1>2, <1>3 DEF RestoreRetry

\* Shutdown, termination and restart of the daemon keep the types.
LEMMA ProcessType ==
    ASSUME TypeOK, Process
    PROVE  TypeOK'
<1>1. CASE ShutdownBegin
  BY <1>1, TypeParts, HostSame, HeapSame, ProcSame DEF ShutdownBegin, DaemonType
<1>2. CASE ShutdownManager
  <2>1. ProcType'
    BY <1>2, TypeParts DEF ShutdownManager, ProcType, HeapType, RuntimeObject, Label, OpKind
  <2>2. opLock' \in [Platform -> Proc \cup {Nil}]
    BY <1>2 DEF ShutdownManager, Proc
  <2> QED
    BY <1>2, <2>1, <2>2, TypeParts, HostSame DEF ShutdownManager, DaemonType, HeapType
<1>3. CASE Terminate
  <2>1. ProcType'
    BY <1>3, BoundsAreNaturals
       DEF Terminate, ProcType, AllIdle, NoOps, NoObjects, Label, OpKind
  <2>2. rt' \in [Runtime -> RuntimeObject]
    BY <1>3 DEF Terminate, NoRuntimes, NoRuntime, RuntimeObject
  <2>3. loop' \in [Chan -> LoopObject]
    BY <1>3 DEF Terminate, NoLoops, NoLoop, LoopObject
  <2> QED
    BY <1>3, <2>1, <2>2, <2>3, TypeParts, BoundsAreNaturals
       DEF Terminate, HostType, DaemonType, HeapType, NoLocks, NoMutexes, NoRepairs
<1>4. CASE Restart
  <2>1. ProcType'
    BY <1>4, TypeParts, BoundsAreNaturals DEF Restart, ProcType, procVars
  <2> QED
    BY <1>4, <2>1, TypeParts, HeapSame, OpenType, BoundsAreNaturals
       DEF Restart, HostType, DaemonType
<1>5. CASE Stopped
  BY <1>5, TypeParts DEF Stopped, vars, HostType, DaemonType, HeapType, ProcType
<1> QED
  BY <1>1, <1>2, <1>3, <1>4, <1>5 DEF Process

\* The initial states are well typed.
LEMMA InitType == Init => TypeOK
<1> SUFFICES ASSUME Init PROVE TypeOK
  OBVIOUS
<1>1. reg \in Registry
  <2>1. /\ FreshEntry \in Entry
        /\ [FreshEntry EXCEPT !.status = "present"] \in Entry
        /\ [FreshEntry EXCEPT !.status = "present", !.active = TRUE,
                              !.state = "LIVE"] \in Entry
    BY DEF FreshEntry, Entry, RuntimeState
  <2> QED
    BY <2>1 DEF Init, Registry
<1>2. ProcType
  BY BoundsAreNaturals DEF Init, ProcType, AllIdle, NoOps, NoObjects, Label, OpKind
<1>3. rt \in [Runtime -> RuntimeObject]
  BY DEF Init, NoRuntimes, NoRuntime, RuntimeObject
<1>4. loop \in [Chan -> LoopObject]
  BY DEF Init, NoLoops, NoLoop, LoopObject
<1> QED
  BY <1>1, <1>2, <1>3, <1>4, BoundsAreNaturals
     DEF Init, TypeOK, HostType, DaemonType, HeapType, NoLocks, NoMutexes, NoRepairs

\* Every step keeps the types.
LEMMA NextType == TypeOK /\ [Next]_vars => TypeOK'
<1> SUFFICES ASSUME TypeOK, [Next]_vars PROVE TypeOK'
  OBVIOUS
<1>1. CASE Next
  BY <1>1, LifecycleType, ObserveType, RemoveType, RequestType, IngestType,
     RestoreRetryType, ProcessType
     DEF Next
<1>2. CASE UNCHANGED vars
  BY <1>2, TypeParts DEF vars, HostType, DaemonType, HeapType, ProcType
<1> QED
  BY <1>1, <1>2

\* Every variable keeps its shape, in every behaviour of the lifecycle.
THEOREM TypeCorrect == Spec => []TypeOK
  BY InitType, NextType, PTL DEF Spec

-----------------------------------------------------------------------------
(* What a step leaves to the other processes.                              *)

\* Registry h treats account b as g does, up to the state of a live account;
\* b may be new in h.
SameUse(g, h, b) ==
    /\ Resolves(g, b) => Resolves(h, b)
    /\ h[b].active = g[b].active
    /\ h[b].deleting = g[b].deleting
    /\ g[b].deleting => h[b].state = g[b].state

Others(c) ==
    /\ \A d \in Proc \ {c} : pc'[d] = pc[d] /\ acct'[d] = acct[d]
    /\ deleteMu' = deleteMu \/ deleteMu \in {c, Nil}

Quiet(c) ==
    /\ \A b \in Account : SameUse(reg, reg', b) \/ (reg[b].deleting /\ deleteMu = c)
    /\ active' = active
    /\ \A r \in Runtime : rt'[r].acct = rt[r].acct
    /\ opLock' = opLock
    /\ Others(c)

Local(c, p) ==
    /\ opLock[p] \in {c, Nil}
    /\ \A b \in Account : PlatformOf(b) # p => SameUse(reg, reg', b)
    /\ \A b \in Account : reg[b].deleting => reg'[b].deleting
    /\ \A q \in Platform \ {p} :
          /\ opLock'[q] = opLock[q] /\ active'[q] = active[q]
          /\ active[q] # Nil => rt'[active[q]].acct = rt[active[q]].acct
    /\ Others(c)

\* Every account belongs to a platform.
LEMMA PlatformType == \A a : PlatformOf(a) \in Platform
  BY DEF PlatformOf, Platform

\* No process is the missing object.
LEMMA NilIsNoProc == Nil \notin Proc /\ Nil \notin Account /\ Nil \notin Runtime
  BY PoolsDisjoint

\* A step that changes nothing the others rely on keeps what they rely on.
LEMMA QuietOthers ==
    ASSUME TypeOK, LifecycleInv, NEW c \in Proc, Quiet(c), NEW d \in Proc, d # c
    PROVE  Relies(d)'
<1>1. Relies(d) /\ pc'[d] = pc[d] /\ acct'[d] = acct[d]
  BY DEF LifecycleInv, Quiet, Others
<1>2. pc[d] \in RemoveLabel => deleteMu = d /\ deleteMu' = d /\ deleteMu # c
  BY <1>1, NilIsNoProc DEF Relies, Quiet, Others
<1>3. active[PlatformOf(acct[d])] \in Runtime \cup {Nil}
  BY TypeParts, PlatformType DEF HeapType
<1>4. ASSUME acct[d] \in Account, pc[d] \in LockedLabel \cup RemoveLabel
      PROVE  SameUse(reg, reg', acct[d])
  BY <1>1, <1>2, <1>4 DEF Quiet, Relies, Usable
<1> QED
  BY <1>1, <1>2, <1>3, <1>4
     DEF Relies, Quiet, SameUse, Usable, Resolves, LockedLabel, RemoveLabel

\* Such a step keeps the published runtimes requested.
LEMMA QuietPublished ==
    ASSUME TypeOK, LifecycleInv, NEW c \in Proc, Quiet(c)
    PROVE  PublishedIsRequested'
<1> SUFFICES ASSUME NEW p \in Platform, active'[p] # Nil
             PROVE  LET a == rt'[active'[p]].acct
                    IN  a \in Account /\ PlatformOf(a) = p /\ Usable(reg', a) /\ reg'[a].active
  BY DEF PublishedIsRequested
<1> DEFINE a == rt[active[p]].acct
<1>1. active'[p] = active[p] /\ active[p] \in Runtime
  BY TypeParts DEF Quiet, HeapType
<1>2. a \in Account /\ PlatformOf(a) = p /\ Usable(reg, a) /\ reg[a].active
  BY <1>1 DEF LifecycleInv, PublishedIsRequested
<1>3. rt'[active'[p]].acct = a /\ SameUse(reg, reg', a)
  BY <1>1, <1>2 DEF Quiet, Usable
<1> QED
  BY <1>2, <1>3 DEF SameUse, Usable, Resolves

\* A step of the holder of one platform's mutex keeps what processes of the
\* other platform, and those without a mutex, rely on.
LEMMA LocalOthers ==
    ASSUME TypeOK, LifecycleInv, NEW c \in Proc, NEW p \in Platform, Local(c, p),
           NEW d \in Proc, d # c
    PROVE  Relies(d)'
<1> DEFINE q == PlatformOf(acct[d])
<1>1. Relies(d) /\ pc'[d] = pc[d] /\ acct'[d] = acct[d]
  BY DEF LifecycleInv, Local, Others
<1>2. pc[d] \in RemoveLabel => deleteMu = d /\ deleteMu' = d
  BY <1>1, NilIsNoProc DEF Relies, Local, Others
<1>3. pc[d] \in LockedLabel => q # p /\ opLock[q] = d
  BY <1>1, NilIsNoProc DEF Relies, Local
<1>4. q \in Platform
  BY PlatformType
<1>5. ASSUME acct[d] \in Account, pc[d] \in LockedLabel
      PROVE  /\ SameUse(reg, reg', acct[d])
             /\ opLock'[q] = opLock[q] /\ active'[q] = active[q]
             /\ active[q] # Nil => rt'[active[q]].acct = rt[active[q]].acct
  BY <1>3, <1>4, <1>5 DEF Local
<1> QED
  BY <1>1, <1>2, <1>3, <1>5
     DEF Relies, Local, SameUse, Usable, Resolves, LockedLabel, RemoveLabel

\* The other platforms' published runtimes are as before.
LEMMA LocalPublished ==
    ASSUME TypeOK, LifecycleInv, NEW c \in Proc, NEW p \in Platform, Local(c, p),
           active'[p] # Nil =>
              LET a == rt'[active'[p]].acct
              IN  a \in Account /\ PlatformOf(a) = p /\ Usable(reg', a) /\ reg'[a].active
    PROVE  PublishedIsRequested'
<1> SUFFICES ASSUME NEW q \in Platform \ {p}, active'[q] # Nil
             PROVE  LET a == rt'[active'[q]].acct
                    IN  a \in Account /\ PlatformOf(a) = q /\ Usable(reg', a) /\ reg'[a].active
  BY DEF PublishedIsRequested
<1> DEFINE a == rt[active[q]].acct
<1>1. active'[q] = active[q] /\ rt'[active'[q]].acct = a
  BY DEF Local
<1>2. a \in Account /\ PlatformOf(a) = q /\ Usable(reg, a) /\ reg[a].active
  BY <1>1 DEF LifecycleInv, PublishedIsRequested
<1>3. SameUse(reg, reg', a)
  BY <1>2 DEF Local
<1> QED
  BY <1>1, <1>2, <1>3 DEF SameUse, Usable, Resolves

\* A registry that is used alike is as consistent.
LEMMA SameUseConsistent ==
    ASSUME NEW g, NEW h, OneActivePerPlatform(g), DeletingIsInert(g),
           \A b \in Account : SameUse(g, h, b)
    PROVE  OneActivePerPlatform(h) /\ DeletingIsInert(h)
  BY DEF OneActivePerPlatform, DeletingIsInert, SameUse

-----------------------------------------------------------------------------
(* What the registry's operators preserve.                                 *)

\* A status write and Store.Add change no account's use.
LEMMA StatusUse ==
    ASSUME NEW g \in Registry, NEW a \in Account, NEW s, NEW b \in Account
    PROVE  SameUse(g, UpdateStatus(g, a, s), b)
  BY DEF SameUse, UpdateStatus, Usable, Resolves, Registry, Entry

\* Store.Add changes the use of no account.
LEMMA AddUse ==
    ASSUME NEW g \in Registry, NEW a \in Account, NEW b \in Account
    PROVE  SameUse(g, AddAccount(g, a), b)
  BY DEF SameUse, AddAccount, Resolves, Registry, Entry

\* Opening a consistent registry changes nothing.
LEMMA OpenUse ==
    ASSUME NEW g \in Registry, DeletingIsInert(g), NEW b \in Account
    PROVE  SameUse(g, OpenRegistry(g), b)
  BY DEF SameUse, OpenRegistry, DeletingIsInert, Resolves, Registry, Entry

\* Store.Activate keeps the registry consistent, and leaves the other
\* platform and the markers alone.
LEMMA ActivateUse ==
    ASSUME NEW g \in Registry, NEW a \in Account,
           OneActivePerPlatform(g), DeletingIsInert(g), Usable(g, a)
    PROVE  LET h == ActivateAccount(g, a)
           IN  /\ OneActivePerPlatform(h) /\ DeletingIsInert(h)
               /\ Usable(h, a) /\ h[a].active
               /\ \A b \in Account : PlatformOf(b) # PlatformOf(a) => SameUse(g, h, b)
               /\ \A b \in Account : g[b].deleting => h[b].deleting
  BY DEF ActivateAccount, OneActivePerPlatform, DeletingIsInert, Usable, Resolves,
         SameUse, Registry, Entry

\* Store.Deactivate frees the slot of its own platform only.
LEMMA DeactivateUse ==
    ASSUME NEW g \in Registry, NEW a \in Account,
           OneActivePerPlatform(g), DeletingIsInert(g)
    PROVE  LET h == DeactivateAccount(g, a)
           IN  /\ OneActivePerPlatform(h) /\ DeletingIsInert(h)
               /\ \A b \in Account : PlatformOf(b) # PlatformOf(a) => SameUse(g, h, b)
               /\ \A b \in Account : g[b].deleting => h[b].deleting
<1> DEFINE h == DeactivateAccount(g, a)
<1>1. /\ ~h[a].active /\ h[a].state = "STOPPED" /\ h[a].deleting = g[a].deleting
      /\ \A b \in Account : b # a => h[b] = g[b]
  BY DEF DeactivateAccount, Registry, Entry
<1>2. OneActivePerPlatform(h) /\ DeletingIsInert(h)
  BY <1>1 DEF OneActivePerPlatform, DeletingIsInert
<1>3. \A b \in Account : PlatformOf(b) # PlatformOf(a) => SameUse(g, h, b)
  BY <1>1 DEF SameUse, Resolves
<1>4. \A b \in Account : g[b].deleting => h[b].deleting
  BY <1>1
<1> QED
  BY <1>2, <1>3, <1>4

\* BeginDelete's marker concerns its own account only.
LEMMA MarkUse ==
    ASSUME NEW g \in Registry, NEW a \in Account,
           OneActivePerPlatform(g), DeletingIsInert(g)
    PROVE  LET h == MarkDeleting(g, a)
           IN  /\ OneActivePerPlatform(h) /\ DeletingIsInert(h) /\ h[a].deleting
               /\ \A b \in Account : b # a => SameUse(g, h, b)
               /\ \A b \in Account : g[b].deleting => h[b].deleting
  BY DEF MarkDeleting, OneActivePerPlatform, DeletingIsInert, Resolves,
         SameUse, Registry, Entry

\* Removing an entry concerns its own account only.
LEMMA RemoveEntryUse ==
    ASSUME NEW g \in Registry, NEW a \in Account,
           OneActivePerPlatform(g), DeletingIsInert(g)
    PROVE  LET h == RemoveEntry(g, a)
           IN  /\ OneActivePerPlatform(h) /\ DeletingIsInert(h)
               /\ \A b \in Account : b # a => SameUse(g, h, b)
  BY DEF RemoveEntry, OneActivePerPlatform, DeletingIsInert, Resolves,
         SameUse, Registry, Entry

\* A registry is used like itself.
LEMMA SameRegistry ==
    ASSUME NEW g, NEW b PROVE SameUse(g, g, b)
  BY DEF SameUse

-----------------------------------------------------------------------------
(* The invariant after a step of process c.                                *)

\* A quiet step that keeps what its own process relies on keeps the invariant.
LEMMA ByQuiet ==
    ASSUME TypeOK, LifecycleInv, NEW c \in Proc, Quiet(c),
           RegistryConsistent', Relies(c)'
    PROVE  LifecycleInv'
  BY QuietOthers, QuietPublished DEF LifecycleInv

\* So does a step within one platform that leaves its published runtime right.
LEMMA ByLocal ==
    ASSUME TypeOK, LifecycleInv, NEW c \in Proc, NEW p \in Platform, Local(c, p),
           active'[p] # Nil =>
              LET a == rt'[active'[p]].acct
              IN  a \in Account /\ PlatformOf(a) = p /\ Usable(reg', a) /\ reg'[a].active,
           RegistryConsistent', Relies(c)'
    PROVE  LifecycleInv'
  BY LocalOthers, LocalPublished DEF LifecycleInv

\* A process that returns relies on nothing any more.
LEMMA ReturnRelies ==
    ASSUME ProcType, NEW c \in Proc, NEW ok, Return(c, ok)
    PROVE  /\ Relies(c)'
           /\ \A d \in Proc \ {c} : pc'[d] = pc[d] /\ acct'[d] = acct[d]
<1>1. pc'[c] \in {"idle", "rs_next"}
  BY DEF ProcType, Return
<1>2. Relies(c)'
  BY <1>1 DEF Relies, LockedLabel, RemoveLabel
<1> QED
  BY <1>2 DEF ProcType, Return

\* A move to a label moves only its own process.
LEMMA GotoMoves ==
    ASSUME ProcType, NEW c \in Proc, NEW l, Goto(c, l)
    PROVE  /\ pc'[c] = l /\ acct' = acct
           /\ \A d \in Proc \ {c} : pc'[d] = pc[d]
  BY DEF ProcType, Goto

\* Releasing a mutex leaves the other platform's alone.
LEMMA UnlockLocal ==
    ASSUME DaemonType, NEW a, Unlock(a)
    PROVE  \A q \in Platform \ {PlatformOf(a)} : opLock'[q] = opLock[q]
  BY DEF DaemonType, Unlock

\* Taking the operation mutex moves only its own process and mutex.
LEMMA EnterMoves ==
    ASSUME ProcType, DaemonType, NEW c \in Proc, NEW l, NEW r, Enter(c, l, r)
    PROVE  /\ pc'[c] = l /\ acct' = acct
           /\ \A d \in Proc \ {c} : pc'[d] = pc[d]
           /\ opLock'[PlatformOf(acct[c])] = c
           /\ \A q \in Platform \ {PlatformOf(acct[c])} : opLock'[q] = opLock[q]
  BY PlatformType DEF ProcType, DaemonType, Enter

-----------------------------------------------------------------------------
(* The steps that are Quiet.                                               *)

\* Accepting a request keeps the invariant.
LEMMA RequestInv ==
    ASSUME TypeOK, LifecycleInv, NEW c \in Proc, Request(c)
    PROVE  LifecycleInv'
<1> USE TypeParts
<1>1. ASSUME NEW a \in Account, NEW o, Begin(c, o, a)
      PROVE  LifecycleInv'
  <2>1. Quiet(c) /\ RegistryConsistent'
    BY <1>1, SameRegistry
       DEF Begin, Quiet, Others, hostVars, heapVars, ProcType, LifecycleInv, RegistryConsistent
  <2>2. Relies(c)'
    BY <1>1 DEF Begin, Relies, LockedLabel, RemoveLabel, ProcType
  <2> QED
    BY <2>1, <2>2, ByQuiet
<1>2. ASSUME NEW a \in Account, StatusBegin(c, a)
      PROVE  LifecycleInv'
  <2>1. Quiet(c) /\ RegistryConsistent'
    BY <1>2, SameRegistry
       DEF StatusBegin, Quiet, Others, hostVars, heapVars, ProcType, LifecycleInv, RegistryConsistent
  <2>2. Relies(c)'
    BY <1>2 DEF StatusBegin, Relies, LockedLabel, RemoveLabel, ProcType
  <2> QED
    BY <2>1, <2>2, ByQuiet
<1>3. ASSUME NEW a \in Account, ReadBegin(c, a)
      PROVE  LifecycleInv'
  <2>1. Quiet(c) /\ RegistryConsistent'
    BY <1>3, SameRegistry
       DEF ReadBegin, Quiet, Others, hostVars, heapVars, ProcType, LifecycleInv, RegistryConsistent
  <2>2. Relies(c)'
    BY <1>3 DEF ReadBegin, Relies, LockedLabel, RemoveLabel, ProcType
  <2> QED
    BY <2>1, <2>2, ByQuiet
<1>4. ASSUME NEW a \in Account, RemoveBegin(c, a)
      PROVE  LifecycleInv'
  <2>1. Quiet(c) /\ RegistryConsistent'
    BY <1>4, SameRegistry
       DEF RemoveBegin, Quiet, Others, hostVars, heapVars, ProcType, LifecycleInv, RegistryConsistent
  <2>2. Relies(c)'
    BY <1>4 DEF RemoveBegin, Relies, LockedLabel, RemoveLabel, ProcType
  <2> QED
    BY <2>1, <2>2, ByQuiet
<1>5. ASSUME NEW a \in Account, Add(c, a)
      PROVE  LifecycleInv'
  <2>1. \A b \in Account : SameUse(reg, reg', b)
    BY <1>5, AddUse DEF Add, HostType
  <2>2. Quiet(c) /\ RegistryConsistent'
    BY <1>5, <2>1, SameUseConsistent
       DEF Add, Quiet, Others, procVars, heapVars, LifecycleInv, RegistryConsistent
  <2>3. Relies(c)'
    BY <1>5 DEF Add, Relies, LockedLabel, RemoveLabel, procVars
  <2> QED
    BY <2>2, <2>3, ByQuiet
<1> QED
  BY <1>1, <1>2, <1>3, <1>4, <1>5 DEF Request

\* Status and read requests keep it: they write display states only.
LEMMA ObserveInv ==
    ASSUME TypeOK, LifecycleInv, NEW c \in Proc, Observe(c)
    PROVE  LifecycleInv'
<1> USE TypeParts
<1>1. \A b \in Account : SameUse(reg, reg', b)
  <2>1. CASE StatusWrite(c)
    <3>1. CASE reg' = reg
      BY <3>1, SameRegistry
    <3>2. CASE \E s : reg' = UpdateStatus(reg, acct[c], s)
      <4>1. acct[c] \in Account \/ reg' = reg
        BY <3>2, NilIsNoProc DEF UpdateStatus, HostType, Registry, Usable, Resolves
      <4> QED
        BY <3>2, <4>1, StatusUse, SameRegistry DEF HostType
    <3> QED
      BY <2>1, <3>1, <3>2 DEF StatusWrite
  <2>2. CASE ~StatusWrite(c)
    BY <2>2, SameRegistry
       DEF Observe, StatusProbe, SyncLock, SyncDone, ReadIndex, hostVars
  <2> QED
    BY <2>1, <2>2
<1>2. RegistryConsistent'
  BY <1>1, SameUseConsistent DEF LifecycleInv, RegistryConsistent
<1>3. UNCHANGED <<active, rt, opLock, deleteMu>>
  BY DEF Observe, StatusProbe, StatusWrite, SyncLock, SyncDone, ReadIndex, heapVars
<1>4. /\ Relies(c)'
      /\ \A d \in Proc \ {c} : pc'[d] = pc[d] /\ acct'[d] = acct[d]
  <2>1. ASSUME NEW ok, Return(c, ok) PROVE <1>4!1 /\ <1>4!2
    BY <2>1, ReturnRelies
  <2>2. ASSUME NEW l \in {"st_live", "st_stopped", "rd_driver", "rd_index"}, Goto(c, l)
        PROVE  <1>4!1 /\ <1>4!2
    BY <2>2, GotoMoves DEF Relies, LockedLabel, RemoveLabel
  <2> QED
    BY <2>1, <2>2 DEF Observe, StatusProbe, StatusWrite, SyncLock, SyncDone, ReadIndex
<1>5. Quiet(c)
  BY <1>1, <1>3, <1>4 DEF Quiet, Others
<1> QED
  BY <1>2, <1>4, <1>5, ByQuiet

\* The restore goroutine's own steps keep it.
LEMMA RestoreRetryInv ==
    ASSUME TypeOK, LifecycleInv, RestoreRetry
    PROVE  LifecycleInv'
<1> USE TypeParts
<1>1. Restorer \in Proc
  BY DEF Proc
<1>2. /\ UNCHANGED <<reg, active, rt, opLock, deleteMu>>
      /\ \A d \in Proc \ {Restorer} : pc'[d] = pc[d] /\ acct'[d] = acct[d]
  <2>1. UNCHANGED <<hostVars, opLock, deleteMu, heapVars>>
    BY DEF RestoreRetry, RestoreAttempt, RestoreAttemptEnd, RestoreNext
  <2>2. UNCHANGED <<reg, active, rt, opLock, deleteMu>>
    BY <2>1 DEF hostVars, heapVars
  <2>3. CASE RestoreAttempt \/ RestoreAttemptEnd
    BY <2>2, <2>3 DEF RestoreAttempt, RestoreAttemptEnd, ProcType
  <2>4. ASSUME NEW a \in Account, RestoreNext(a)
        PROVE  \A d \in Proc \ {Restorer} : pc'[d] = pc[d] /\ acct'[d] = acct[d]
    BY <2>4 DEF RestoreNext, ProcType
  <2> QED
    BY <2>2, <2>3, <2>4 DEF RestoreRetry
<1>3. Quiet(Restorer) /\ RegistryConsistent'
  BY <1>2, SameRegistry DEF Quiet, Others, LifecycleInv, RegistryConsistent
<1>4. Relies(Restorer)'
  <2>1. \/ pc'[Restorer] \in {"idle", "rs_next"}
        \/ pc'[Restorer] = "lock" /\ acct'[Restorer] \in Account
    BY <1>1, ZenonT(60) DEF RestoreRetry, RestoreAttempt, RestoreAttemptEnd, RestoreNext, ProcType
  <2> QED
    BY <2>1 DEF Relies, LockedLabel, RemoveLabel
<1> QED
  BY <1>1, <1>3, <1>4, ByQuiet

-----------------------------------------------------------------------------
(* A removal: the marker is Local, the rest is Quiet.                      *)

\* A removal that returns relies on nothing any more.
LEMMA RemoveReturnRelies ==
    ASSUME ProcType, NEW c \in Proc, NEW ok, RemoveReturn(c, ok)
    PROVE  /\ Relies(c)'
           /\ \A d \in Proc \ {c} : pc'[d] = pc[d] /\ acct'[d] = acct[d]
  BY ReturnRelies DEF RemoveReturn

\* The steps of a removal keep it: deleteMu and the marker protect the account.
LEMMA RemoveInv ==
    ASSUME TypeOK, LifecycleInv, NEW c \in Proc, Remove(c)
    PROVE  LifecycleInv'
<1> USE TypeParts
<1> DEFINE a == acct[c]
           p == PlatformOf(acct[c])
<1>1. a \in Account /\ deleteMu = c /\ p \in Platform /\ reg \in Registry
  BY PlatformType
     DEF LifecycleInv, Relies, Remove, RemoveMark, RemovePurge, RemoveDirs,
         RemoveSave, RemoveLabel, HostType
<1>2. OneActivePerPlatform(reg) /\ DeletingIsInert(reg)
  BY DEF LifecycleInv, RegistryConsistent
<1>3. UNCHANGED <<active, rt, opLock>>
  BY DEF Remove, RemoveMark, RemovePurge, RemoveDirs, RemoveSave, heapVars
<1>4. CASE RemoveMark(c)
  <2>1. CASE reg' = MarkDeleting(reg, a) /\ Goto(c, "rm_purge") /\ UNCHANGED deleteMu
    <3>1. /\ OneActivePerPlatform(reg') /\ DeletingIsInert(reg') /\ reg'[a].deleting
          /\ \A b \in Account : b # a => SameUse(reg, reg', b)
          /\ \A b \in Account : reg[b].deleting => reg'[b].deleting
      BY <1>1, <1>2, <2>1, MarkUse
    <3>2. RegistryConsistent' /\ Relies(c)'
      BY <1>1, <2>1, <3>1, GotoMoves DEF RegistryConsistent, Relies, LockedLabel, RemoveLabel
    <3>3. Local(c, p)
      BY <1>3, <1>4, <2>1, <3>1, GotoMoves DEF Local, Others, RemoveMark
    <3>4. ASSUME active'[p] # Nil
          PROVE  LET b == rt'[active'[p]].acct
                 IN  b \in Account /\ PlatformOf(b) = p /\ Usable(reg', b) /\ reg'[b].active
      <4>1. PICK b : /\ b = rt[active[p]].acct /\ b \in Account /\ PlatformOf(b) = p
                     /\ Usable(reg, b) /\ reg[b].active
        BY <1>1, <1>3, <3>4 DEF LifecycleInv, PublishedIsRequested
      <4>2. b # a
        <5>1. CanBeginDelete(reg, a)
          BY <1>4, <2>1, NilIsNoProc, GotoMoves, RemoveReturnRelies
             DEF RemoveMark, RemoveReturn, Return, Goto, ProcType
        <5> QED
          BY <4>1, <5>1 DEF CanBeginDelete
      <4> QED
        BY <1>3, <3>1, <4>1, <4>2 DEF SameUse, Usable, Resolves
    <3> QED
      BY <1>1, <3>2, <3>3, <3>4, ByLocal
  <2>2. CASE UNCHANGED reg /\ RemoveReturn(c, FALSE)
    <3>1. Quiet(c) /\ Relies(c)' /\ RegistryConsistent'
      BY <1>1, <1>2, <1>3, <2>2, RemoveReturnRelies, SameRegistry
         DEF Quiet, Others, RegistryConsistent
    <3> QED
      BY <3>1, ByQuiet
  <2> QED
    BY <1>4, <2>1, <2>2 DEF RemoveMark
<1>5. CASE RemovePurge(c) \/ RemoveDirs(c)
  <2>1. UNCHANGED reg /\ RegistryConsistent'
    BY <1>5, <1>2 DEF RemovePurge, RemoveDirs, hostVars, RegistryConsistent
  <2>2. CASE \E ok : RemoveReturn(c, ok)
    <3>1. Quiet(c) /\ Relies(c)'
      BY <1>1, <1>3, <2>1, <2>2, RemoveReturnRelies, SameRegistry DEF Quiet, Others
    <3> QED
      BY <2>1, <3>1, ByQuiet
  <2>3. CASE \E l \in {"rm_dirs", "rm_save"} : Goto(c, l) /\ UNCHANGED deleteMu
    <3>1. Quiet(c)
      BY <1>3, <2>1, <2>3, GotoMoves, SameRegistry DEF Quiet, Others
    <3>2. reg[a].deleting
      BY <1>5 DEF LifecycleInv, Relies, RemoveLabel, RemovePurge, RemoveDirs
    <3>3. Relies(c)'
      BY <1>1, <2>1, <2>3, <3>2, GotoMoves DEF Relies, LockedLabel, RemoveLabel
    <3> QED
      BY <2>1, <3>1, <3>3, ByQuiet
  <2> QED
    BY <1>5, <2>2, <2>3 DEF RemovePurge, RemoveDirs
<1>6. CASE RemoveSave(c)
  <2>1. reg[a].deleting
    BY <1>6 DEF LifecycleInv, Relies, RemoveLabel, RemoveSave
  <2>2. /\ RegistryConsistent'
        /\ \A b \in Account : b # a => SameUse(reg, reg', b)
    BY <1>1, <1>2, <1>6, RemoveEntryUse, SameRegistry DEF RemoveSave, RegistryConsistent
  <2>3. Quiet(c) /\ Relies(c)'
    BY <1>1, <1>3, <1>6, <2>1, <2>2, RemoveReturnRelies DEF RemoveSave, Quiet, Others
  <2> QED
    BY <2>2, <2>3, ByQuiet
<1> QED
  BY <1>4, <1>5, <1>6 DEF Remove

-----------------------------------------------------------------------------
(* The lifecycle operations.                                               *)

\* What a locked process knows.
LEMMA LockedKnows ==
    ASSUME TypeOK, LifecycleInv, NEW c \in Proc, pc[c] \in LockedLabel
    PROVE  /\ acct[c] \in Account /\ PlatformOf(acct[c]) \in Platform
           /\ opLock[PlatformOf(acct[c])] = c /\ Usable(reg, acct[c])
           /\ reg \in Registry /\ OneActivePerPlatform(reg) /\ DeletingIsInert(reg)
  BY TypeParts, PlatformType
     DEF LifecycleInv, RegistryConsistent, Relies, HostType

\* An operation that returns without a change of slots or registry.
LEMMA GiveUp ==
    ASSUME TypeOK, LifecycleInv, NEW c \in Proc, NEW p \in Platform, NEW ok,
           opLock[p] \in {c, Nil}, Return(c, ok),
           \A q \in Platform \ {p} : opLock'[q] = opLock[q],
           UNCHANGED <<reg, active, deleteMu>>,
           \A r \in Runtime : rt'[r].acct = rt[r].acct
    PROVE  LifecycleInv'
<1> USE TypeParts
<1>1. Relies(c)' /\ RegistryConsistent'
  BY ReturnRelies DEF LifecycleInv, RegistryConsistent
<1>2. \A q \in Platform : active[q] # Nil => active[q] \in Runtime
  BY DEF HeapType
<1>3. Local(c, p)
  BY <1>2, ReturnRelies, SameRegistry DEF Local, Others
<1>4. PublishedIsRequested'
  BY <1>2 DEF LifecycleInv, PublishedIsRequested
<1> QED
  BY <1>1, <1>3, <1>4, ByLocal DEF PublishedIsRequested

\* A step inside stopRuntime or driver.Start.
LEMMA StayLocked ==
    ASSUME TypeOK, LifecycleInv, NEW c \in Proc, NEW l,
           pc[c] \in LockedLabel, Goto(c, l),
           \/ l \in {"stop_wait", "stop_mu", "stop_driver", "drop"}
           \/ l = "publish" /\ pc[c] = "start",
           UNCHANGED <<reg, active, opLock, deleteMu>>,
           \A r \in Runtime : rt'[r].acct = rt[r].acct
    PROVE  LifecycleInv'
<1>1. Quiet(c) /\ RegistryConsistent'
  BY TypeParts, GotoMoves, SameRegistry
     DEF Quiet, Others, LifecycleInv, RegistryConsistent
<1>2. Relies(c)'
  BY LockedKnows, TypeParts, GotoMoves
     DEF LifecycleInv, Relies, LockedLabel, RemoveLabel
<1> QED
  BY <1>1, <1>2, ByQuiet

\* Getting the operation mutex keeps it, because the account is checked again
\* after the wait.
LEMMA AcquireInv ==
    ASSUME TypeOK, LifecycleInv, NEW c \in Proc, AcquireActivate(c) \/ AcquireDeactivate(c)
    PROVE  LifecycleInv'
<1> USE TypeParts
<1> DEFINE a == acct[c]
           p == PlatformOf(acct[c])
           r == active[p]
<1>1. a \in Account /\ p \in Platform
  BY PlatformType DEF LifecycleInv, Relies, AcquireActivate, AcquireDeactivate
<1>2. opLock[p] = Nil /\ UNCHANGED <<reg, active, rt, deleteMu>>
  BY DEF AcquireActivate, AcquireDeactivate, hostVars, heapVars
<1>3. CASE \E ok : Return(c, ok) /\ UNCHANGED opLock
  BY <1>1, <1>2, <1>3, GiveUp
<1>4. ASSUME NEW l \in {"register", "stop", "refresh", "unregister"}, NEW x,
             Enter(c, l, x), Usable(reg, a),
             l = "register" => r = Nil,
             l = "unregister" => r = Nil \/ rt[r].acct # a
      PROVE  LifecycleInv'
  <2>1. Local(c, p) /\ RegistryConsistent'
    BY <1>2, <1>4, EnterMoves, SameRegistry
       DEF Local, Others, LifecycleInv, RegistryConsistent
  <2>2. Relies(c)'
    BY <1>1, <1>2, <1>4, EnterMoves DEF Relies, LockedLabel, RemoveLabel
  <2>3. PublishedIsRequested'
    BY <1>2 DEF LifecycleInv, PublishedIsRequested
  <2> QED
    BY <1>1, <2>1, <2>2, <2>3, ByLocal DEF PublishedIsRequested
<1>5. CASE AcquireActivate(c)
  BY <1>3, <1>4, <1>5 DEF AcquireActivate, SwitchLabel
<1>6. CASE AcquireDeactivate(c)
  BY <1>3, <1>4, <1>6 DEF AcquireDeactivate
<1> QED
  BY <1>5, <1>6

\* stopRuntime never touches the slots.
LEMMA StopInv ==
    ASSUME TypeOK, LifecycleInv, NEW c \in Proc,
           \/ StopCancel(c) \/ StopWaitDone(c) \/ StopTimeout(c) \/ StopDrain(c)
           \/ StopOk(c) \/ StopFail(c)
    PROVE  LifecycleInv'
<1> USE TypeParts
<1> DEFINE a == acct[c]
           p == PlatformOf(acct[c])
<1>1. pc[c] \in LockedLabel
  BY DEF StopCancel, StopWaitDone, StopTimeout, StopDrain, StopOk, StopFail, LockedLabel
<1>2. p \in Platform /\ opLock[p] = c
  BY <1>1, LockedKnows
<1>3. UNCHANGED <<reg, active, deleteMu>>
  BY DEF StopCancel, StopWaitDone, StopTimeout, StopDrain, StopOk, StopFail, hostVars, heapVars
<1>4. \A r \in Runtime : rt'[r].acct = rt[r].acct
  <2>1. CASE StopFail(c)
    <3>1. CASE UNCHANGED rt
      BY <3>1
    <3>2. ASSUME NEW k, rt' = [rt EXCEPT ![cur[c]].phase = "up", ![cur[c]].done = k],
                 NEW r \in Runtime
          PROVE  rt'[r].acct = rt[r].acct
      BY <3>2 DEF HeapType, RuntimeObject
    <3> QED
      BY <2>1, <3>1, <3>2 DEF StopFail
  <2>2. CASE ~StopFail(c)
    <3>1. \/ UNCHANGED rt
          \/ \E x \in {"stopping", "stopped"} : rt' = [rt EXCEPT ![cur[c]].phase = x]
      BY <2>2 DEF StopCancel, StopWaitDone, StopTimeout, StopDrain, StopOk, heapVars
    <3> QED
      BY <3>1 DEF HeapType, RuntimeObject
  <2> QED
    BY <2>1, <2>2
<1>5. ASSUME NEW ok, Return(c, ok), Unlock(a)
      PROVE  LifecycleInv'
  BY <1>2, <1>3, <1>4, <1>5, UnlockLocal, GiveUp
<1>6. ASSUME NEW l \in {"stop_wait", "stop_mu", "stop_driver", "drop"}, Goto(c, l), UNCHANGED opLock
      PROVE  LifecycleInv'
  BY <1>1, <1>3, <1>4, <1>6, StayLocked
<1> QED
  BY <1>5, <1>6 DEF StopCancel, StopWaitDone, StopTimeout, StopDrain, StopOk, StopFail

\* Withdrawing the stopped runtime in a switch keeps it.
LEMMA DropRuntimeInv ==
    ASSUME TypeOK, LifecycleInv, NEW c \in Proc, DropRuntime(c)
    PROVE  LifecycleInv'
<1> USE TypeParts
<1> DEFINE p == PlatformOf(acct[c])
<1>1. /\ acct[c] \in Account /\ p \in Platform /\ opLock[p] = c /\ Usable(reg, acct[c])
      /\ RegistryConsistent'
  BY LockedKnows DEF DropRuntime, LockedLabel, hostVars, RegistryConsistent
<1>2. active'[p] = Nil
  BY <1>1 DEF DropRuntime, HeapType
<1>3. Local(c, p)
  BY <1>1, SameRegistry DEF DropRuntime, Local, Others, HeapType, ProcType, hostVars
<1>4. Relies(c)'
  BY <1>1, <1>2 DEF DropRuntime, Relies, LockedLabel, RemoveLabel, ProcType, hostVars
<1> QED
  BY <1>1, <1>2, <1>3, <1>4, ByLocal

\* Store.Activate in Manager.activate keeps it: the slot moves to an account
\* that is usable while the mutex is held.
LEMMA RegisterInv ==
    ASSUME TypeOK, LifecycleInv, NEW c \in Proc, Register(c)
    PROVE  LifecycleInv'
<1> USE TypeParts
<1> DEFINE a == acct[c]
           p == PlatformOf(acct[c])
<1>1. /\ a \in Account /\ p \in Platform /\ opLock[p] = c /\ Usable(reg, a)
      /\ reg \in Registry /\ OneActivePerPlatform(reg) /\ DeletingIsInert(reg)
  BY LockedKnows DEF Register, LockedLabel
<1>2. UNCHANGED <<active, rt, deleteMu>> /\ active[p] = Nil
  BY DEF Register, heapVars, LifecycleInv, Relies
<1>3. CASE UNCHANGED reg /\ Return(c, FALSE) /\ Unlock(a)
  <2>1. \A q \in Platform \ {p} : opLock'[q] = opLock[q]
    BY <1>3, UnlockLocal
  <2>2. /\ UNCHANGED <<reg, active, deleteMu>> /\ opLock[p] \in {c, Nil}
        /\ \A r \in Runtime : rt'[r].acct = rt[r].acct
    BY <1>1, <1>2, <1>3
  <2>3. PICK ok : Return(c, ok)
    BY <1>3
  <2> QED
    BY <1>1, <2>1, <2>2, <2>3, GiveUp
<1>4. CASE reg' = ActivateAccount(reg, a) /\ Goto(c, "start") /\ UNCHANGED opLock
  <2>1. /\ OneActivePerPlatform(reg') /\ DeletingIsInert(reg')
        /\ Usable(reg', a) /\ reg'[a].active
        /\ \A b \in Account : PlatformOf(b) # p => SameUse(reg, reg', b)
        /\ \A b \in Account : reg[b].deleting => reg'[b].deleting
    BY <1>1, <1>4, ActivateUse
  <2>2. Local(c, p) /\ RegistryConsistent'
    BY <1>1, <1>2, <1>4, <2>1, GotoMoves DEF Local, Others, RegistryConsistent
  <2>3. Relies(c)'
    BY <1>1, <1>2, <1>4, <2>1, GotoMoves DEF Relies, LockedLabel, RemoveLabel
  <2> QED
    BY <1>1, <1>2, <2>2, <2>3, ByLocal
<1> QED
  BY <1>3, <1>4 DEF Register

\* What a registry write under the operation mutex of platform p preserves.
Kept(p) ==
    /\ OneActivePerPlatform(reg') /\ DeletingIsInert(reg')
    /\ \A b \in Account : PlatformOf(b) # p => SameUse(reg, reg', b)
    /\ \A b \in Account : reg[b].deleting => reg'[b].deleting

\* A write that leaves every account used alike keeps the platform's facts.
LEMMA SameUseKept ==
    ASSUME OneActivePerPlatform(reg), DeletingIsInert(reg), NEW p,
           \A b \in Account : SameUse(reg, reg', b)
    PROVE  Kept(p)
<1>1. OneActivePerPlatform(reg') /\ DeletingIsInert(reg')
  BY SameUseConsistent
<1> QED
  BY <1>1 DEF Kept, SameUse

\* recordActivationFailure
LEMMA FailureKept ==
    ASSUME TypeOK, LifecycleInv, NEW c \in Proc, pc[c] \in LockedLabel,
           reg' \in FailureRecords(c)
    PROVE  Kept(PlatformOf(acct[c]))
<1> DEFINE a == acct[c]
           g == UpdateStatus(reg, a, "DEGRADED")
<1>1. a \in Account /\ reg \in Registry /\ OneActivePerPlatform(reg) /\ DeletingIsInert(reg)
  BY LockedKnows
<1>2. g \in Registry /\ \A b \in Account : SameUse(reg, g, b)
  BY <1>1, StatusUse, UpdateStatusType DEF RuntimeState
<1>3. OneActivePerPlatform(g) /\ DeletingIsInert(g)
  BY <1>1, <1>2, SameUseConsistent
<1>4. CASE reg' \in {reg, g}
  BY <1>1, <1>2, <1>4, SameRegistry, SameUseKept
<1>5. CASE reg' = DeactivateAccount(reg, a)
  BY <1>1, <1>5, DeactivateUse DEF Kept
<1>6. CASE reg' = DeactivateAccount(g, a)
  <2>1. /\ OneActivePerPlatform(reg') /\ DeletingIsInert(reg')
        /\ \A b \in Account : PlatformOf(b) # PlatformOf(a) => SameUse(g, reg', b)
        /\ \A b \in Account : g[b].deleting => reg'[b].deleting
    BY <1>1, <1>2, <1>3, <1>6, DeactivateUse
  <2> QED
    BY <1>2, <2>1 DEF Kept, SameUse
<1> QED
  BY <1>4, <1>5, <1>6 DEF FailureRecords

\* An operation that writes the registry and returns, its slot as it was.
LEMMA WriteAndReturn ==
    ASSUME TypeOK, LifecycleInv, NEW c \in Proc, NEW ok,
           pc[c] \in LockedLabel, Kept(PlatformOf(acct[c])),
           Return(c, ok), Unlock(acct[c]), UNCHANGED <<active, rt, deleteMu>>,
           \/ active[PlatformOf(acct[c])] = Nil
           \/ \A b \in Account : SameUse(reg, reg', b)
           \/ /\ \A b \in Account \ {acct[c]} : SameUse(reg, reg', b)
              /\ rt[active[PlatformOf(acct[c])]].acct # acct[c]
    PROVE  LifecycleInv'
<1> USE TypeParts
<1> DEFINE a == acct[c]
           p == PlatformOf(acct[c])
<1>1. a \in Account /\ p \in Platform /\ opLock[p] = c
  BY LockedKnows
<1>2. Local(c, p) /\ RegistryConsistent' /\ Relies(c)'
  BY <1>1, UnlockLocal, ReturnRelies DEF Kept, Local, Others, RegistryConsistent
<1>3. ASSUME active'[p] # Nil
      PROVE  LET b == rt'[active'[p]].acct
             IN  b \in Account /\ PlatformOf(b) = p /\ Usable(reg', b) /\ reg'[b].active
  <2>1. PICK b : /\ b = rt[active[p]].acct /\ b \in Account /\ PlatformOf(b) = p
                 /\ Usable(reg, b) /\ reg[b].active
    BY <1>1, <1>3 DEF LifecycleInv, PublishedIsRequested
  <2>2. SameUse(reg, reg', b)
    BY <1>3, <2>1
  <2> QED
    BY <2>1, <2>2 DEF SameUse, Usable, Resolves
<1> QED
  BY <1>1, <1>2, <1>3, ByLocal

\* A failed start keeps it, whichever of its two records were written.
LEMMA StartFailInv ==
    ASSUME TypeOK, LifecycleInv, NEW c \in Proc, StartFail(c)
    PROVE  LifecycleInv'
<1>1. pc[c] \in LockedLabel /\ active[PlatformOf(acct[c])] = Nil
  BY DEF StartFail, LockedLabel, LifecycleInv, Relies
<1>2. Kept(PlatformOf(acct[c]))
  BY <1>1, FailureKept DEF StartFail
<1> QED
  BY <1>1, <1>2, WriteAndReturn DEF StartFail, heapVars

\* The refresh of a runtime that is already active keeps it.
LEMMA RefreshInv ==
    ASSUME TypeOK, LifecycleInv, NEW c \in Proc, NEW ok \in BOOLEAN, Refresh(c, ok)
    PROVE  LifecycleInv'
<1>1. pc[c] \in LockedLabel
  BY DEF Refresh, LockedLabel
<1>2. \A b \in Account : SameUse(reg, reg', b)
  BY <1>1, LockedKnows, StatusUse, SameRegistry DEF Refresh
<1>3. Kept(PlatformOf(acct[c]))
  BY <1>1, <1>2, LockedKnows, SameUseKept
<1> QED
  BY <1>1, <1>2, <1>3, WriteAndReturn DEF Refresh, heapVars

\* Giving the slot up in Deactivate keeps it.
LEMMA UnregisterInv ==
    ASSUME TypeOK, LifecycleInv, NEW c \in Proc, Unregister(c)
    PROVE  LifecycleInv'
<1> DEFINE a == acct[c]
           p == PlatformOf(acct[c])
<1>1. /\ pc[c] \in LockedLabel
      /\ active[p] = Nil \/ rt[active[p]].acct # a
  BY DEF Unregister, LockedLabel, LifecycleInv, Relies
<1>2. CASE reg' = DeactivateAccount(reg, a)
  <2>1. Kept(p)
    BY <1>1, <1>2, LockedKnows, DeactivateUse DEF Kept
  <2>2. \A b \in Account \ {a} : SameUse(reg, reg', b)
    BY <1>1, <1>2, LockedKnows DEF DeactivateAccount, SameUse, Resolves, Registry, Entry
  <2> QED
    BY <1>1, <2>1, <2>2, WriteAndReturn DEF Unregister, heapVars
<1>3. CASE UNCHANGED reg
  <2>1. \A b \in Account : SameUse(reg, reg', b)
    BY <1>3, SameRegistry
  <2>2. Kept(p)
    BY <1>1, <2>1, LockedKnows, SameUseKept
  <2> QED
    BY <1>1, <2>1, <2>2, WriteAndReturn DEF Unregister, heapVars
<1> QED
  BY <1>2, <1>3 DEF Unregister

\* Publishing the started runtime keeps it.
LEMMA PublishInv ==
    ASSUME TypeOK, LifecycleInv, NEW c \in Proc,
           NEW r \in Runtime, NEW k \in Chan, NEW ok \in BOOLEAN, Publish(c, r, k, ok)
    PROVE  LifecycleInv'
<1> USE TypeParts
<1> DEFINE a == acct[c]
           p == PlatformOf(acct[c])
<1>1. /\ a \in Account /\ p \in Platform /\ opLock[p] = c /\ Usable(reg, a)
      /\ reg \in Registry /\ OneActivePerPlatform(reg) /\ DeletingIsInert(reg)
      /\ reg[a].active
  BY LockedKnows DEF Publish, LockedLabel, LifecycleInv, Relies
<1>2. \A b \in Account : SameUse(reg, reg', b)
  BY <1>1, StatusUse, SameRegistry DEF Publish
<1>3. Kept(p)
  BY <1>1, <1>2, SameUseKept
<1>4. active'[p] = r /\ rt'[r].acct = a
  BY <1>1 DEF Publish, HeapType
<1>5. \A q \in Platform \ {p} :
          /\ active'[q] = active[q]
          /\ active[q] # Nil => rt'[active[q]] = rt[active[q]]
  BY <1>1 DEF Publish, FreeRuntime, HeapType
<1>6. Local(c, p) /\ RegistryConsistent' /\ Relies(c)'
  BY <1>1, <1>3, <1>5, UnlockLocal, ReturnRelies
     DEF Publish, Kept, Local, Others, RegistryConsistent
<1>7. Usable(reg', a) /\ reg'[a].active
  BY <1>1, <1>2 DEF SameUse, Usable, Resolves
<1> QED
  BY <1>1, <1>4, <1>6, <1>7, ByLocal

\* Every step of an activation, restore, deactivation or shutdown keeps it.
LEMMA LifecycleStep ==
    ASSUME TypeOK, LifecycleInv, NEW c \in Proc, Lifecycle(c)
    PROVE  LifecycleInv'
<1>1. CASE LockTimeout(c)
  <2>1. Quiet(c) /\ RegistryConsistent' /\ Relies(c)'
    BY <1>1, TypeParts, ReturnRelies, SameRegistry
       DEF LockTimeout, Quiet, Others, hostVars, heapVars, LifecycleInv, RegistryConsistent
  <2> QED
    BY <2>1, ByQuiet
<1>2. CASE StartOk(c)
  BY <1>2, StayLocked DEF StartOk, LockedLabel, heapVars
<1> QED
  BY <1>1, <1>2, AcquireInv, StopInv, DropRuntimeInv, RegisterInv, StartFailInv,
     RefreshInv, UnregisterInv, PublishInv
     DEF Lifecycle

-----------------------------------------------------------------------------
(* The ingest goroutines and the daemon process.                           *)

\* A step that moves no slot, lock, marker, account or process.
LEMMA Unmoved ==
    ASSUME TypeOK, LifecycleInv, UNCHANGED <<active, opLock, deleteMu, pc, acct>>,
           \A b \in Account : SameUse(reg, reg', b),
           \A r \in Runtime : rt'[r].acct = rt[r].acct
    PROVE  LifecycleInv'
<1>1. Restorer \in Proc /\ Quiet(Restorer)
  BY DEF Proc, Quiet, Others
<1>2. RegistryConsistent'
  BY SameUseConsistent DEF LifecycleInv, RegistryConsistent
<1>3. Relies(Restorer)'
  <2>1. CASE UNCHANGED rt /\ UNCHANGED reg
    BY <1>1, <2>1 DEF LifecycleInv, Relies
  <2>2. active[PlatformOf(acct[Restorer])] \in Runtime \cup {Nil}
    BY TypeParts, PlatformType DEF HeapType
  <2>3. Relies(Restorer)
    BY <1>1 DEF LifecycleInv
  <2> QED
    BY <2>2, <2>3 DEF Relies, SameUse, Usable, Resolves, LockedLabel, RemoveLabel
<1> QED
  BY <1>1, <1>2, <1>3, ByQuiet

\* The ingest goroutines touch nothing it mentions.
LEMMA IngestInv ==
    ASSUME TypeOK, LifecycleInv, NEW k \in Chan, Ingest(k)
    PROVE  LifecycleInv'
<1>1. UNCHANGED <<reg, active, opLock, deleteMu, pc, acct>>
  BY DEF Ingest, LoopExit, LoopBegin, LoopLock, LoopDone, Repair, RepairClosed,
         hostVars, procVars
<1>2. ASSUME NEW new, rt' = [rt EXCEPT ![loop[k].rt].done = new], NEW r \in Runtime
      PROVE  rt'[r].acct = rt[r].acct
  BY <1>2, TypeParts DEF HeapType, RuntimeObject
<1>3. \A r \in Runtime : rt'[r].acct = rt[r].acct
  BY <1>2 DEF Ingest, LoopExit, LoopBegin, LoopLock, LoopDone, Repair, RepairClosed
<1> QED
  BY <1>1, <1>3, SameRegistry, Unmoved

\* Manager.Shutdown hands each operation mutex to the platform's stop.
LEMMA ShutdownInv ==
    ASSUME TypeOK, LifecycleInv, ShutdownManager
    PROVE  LifecycleInv'
<1>1. UNCHANGED reg /\ active' = [p \in Platform |-> Nil]
  BY DEF ShutdownManager, hostVars
<1>2. ASSUME NEW c \in Proc PROVE Relies(c)'
  <2>1. CASE c \in Platform /\ active[c] # Nil
    <3>1. /\ pc'[c] = "stop" /\ acct'[c] = rt[active[c]].acct /\ opLock'[c] = c
      BY <2>1 DEF ShutdownManager
    <3>2. /\ acct'[c] \in Account /\ PlatformOf(acct'[c]) = c /\ Usable(reg, acct'[c])
      BY <2>1, <3>1 DEF LifecycleInv, PublishedIsRequested
    <3> QED
      BY <1>1, <3>1, <3>2 DEF Relies, LockedLabel, RemoveLabel
  <2>2. CASE ~(c \in Platform /\ active[c] # Nil)
    <3>1. pc'[c] = "idle"
      BY <2>2 DEF ShutdownManager
    <3> QED
      BY <3>1 DEF Relies, LockedLabel, RemoveLabel
  <2> QED
    BY <2>1, <2>2
<1> QED
  BY <1>1, <1>2 DEF LifecycleInv, RegistryConsistent, PublishedIsRequested

\* Shutdown, termination and restart of the daemon keep it.
LEMMA ProcessInv ==
    ASSUME TypeOK, LifecycleInv, Process
    PROVE  LifecycleInv'
<1>1. CASE ShutdownBegin \/ Stopped
  BY <1>1, SameRegistry, Unmoved DEF ShutdownBegin, Stopped, vars, hostVars, heapVars, procVars
<1>2. CASE Terminate
  <2>1. ASSUME NEW c \in Proc PROVE Relies(c)'
    BY <1>2 DEF Terminate, AllIdle, Relies, LockedLabel, RemoveLabel
  <2> QED
    BY <1>2, <2>1
       DEF Terminate, hostVars, NoLocks, LifecycleInv, RegistryConsistent, PublishedIsRequested
<1>3. CASE Restart
  <2>1. \A b \in Account : SameUse(reg, reg', b)
    BY <1>3, OpenUse, TypeParts DEF Restart, HostType, LifecycleInv, RegistryConsistent
  <2> QED
    BY <1>3, <2>1, Unmoved DEF Restart, heapVars, procVars
<1> QED
  BY <1>1, <1>2, <1>3, ShutdownInv DEF Process

\* It holds initially.
LEMMA InitInv == Init => LifecycleInv
<1> SUFFICES ASSUME Init PROVE LifecycleInv
  OBVIOUS
<1>1. RegistryConsistent
  <2>1. \A a \in Account : ~reg[a].deleting
    <3> SUFFICES ASSUME NEW a \in Account PROVE ~reg[a].deleting
      OBVIOUS
    <3>1. /\ ~FreshEntry.deleting
          /\ ~[FreshEntry EXCEPT !.status = "present"].deleting
          /\ ~[FreshEntry EXCEPT !.status = "present", !.active = TRUE,
                                 !.state = "LIVE"].deleting
      BY DEF FreshEntry
    <3> QED
      BY <3>1 DEF Init
  <2> QED
    BY <2>1 DEF Init, RegistryConsistent, DeletingIsInert
<1>2. ASSUME NEW c \in Proc PROVE Relies(c)
  BY DEF Init, AllIdle, Relies, LockedLabel, RemoveLabel
<1> QED
  BY <1>1, <1>2 DEF Init, NoLocks, LifecycleInv, PublishedIsRequested

\* Every step keeps it.
LEMMA NextInv == TypeOK /\ LifecycleInv /\ [Next]_vars => LifecycleInv'
<1> SUFFICES ASSUME TypeOK, LifecycleInv, [Next]_vars PROVE LifecycleInv'
  OBVIOUS
<1>1. CASE Next
  BY <1>1, RequestInv, LifecycleStep, ObserveInv, RemoveInv, IngestInv,
     RestoreRetryInv, ProcessInv
     DEF Next
<1>2. CASE UNCHANGED vars
  BY <1>2, SameRegistry, Unmoved DEF vars
<1> QED
  BY <1>1, <1>2

\* Whatever operations, restores, shutdowns and crashes interleave, the
\* operation mutex protects the slot, the account and the marker a process
\* works on, from the moment it takes it.
THEOREM LifecycleCorrect == Spec => []LifecycleInv
  BY InitInv, NextInv, TypeCorrect, PTL DEF Spec

\* The registry never requests two accounts of a platform, and a deletion
\* marker is never contradicted.
THEOREM RegistryCorrect == Spec => []RegistryConsistent
<1>1. LifecycleInv => RegistryConsistent
  BY DEF LifecycleInv
<1> QED
  BY <1>1, LifecycleCorrect, PTL

\* A published runtime is always the one the registry requests.
THEOREM PublishedCorrect == Spec => []PublishedIsRequested
<1>1. LifecycleInv => PublishedIsRequested
  BY DEF LifecycleInv
<1> QED
  BY <1>1, LifecycleCorrect, PTL

\* With a consistent registry, containers that run only where the registry
\* requests them, or were left behind, are one per platform but for the latter.
LEMMA OneClient == RegistryConsistent /\ InactiveIsStopped => OneClientPerPlatform
  BY DEF RegistryConsistent, OneActivePerPlatform, InactiveIsStopped, OneClientPerPlatform
=============================================================================
