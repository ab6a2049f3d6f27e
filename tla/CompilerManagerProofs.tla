----------------------- MODULE CompilerManagerProofs -----------------------
(***************************************************************************)
(* Proofs about CompilerManager for any finite pool and any finite set of  *)
(* sessions: the safety invariants of the runs, from the inductive         *)
(* invariant PoolInv, and the refinement of CompileService.                *)
(***************************************************************************)
EXTENDS CompilerManager, FiniteSetTheorems, TLAPS

(* The pool has at least one thread.                                       *)
LEMMA PoolSizePositive == PoolSize \in Nat \ {0}
  BY CompilerManagerAssumption, FS_CardinalityType, FS_EmptySet DEF PoolSize

(* The workers holding a job are finitely many, and a worker that holds    *)
(* none leaves a slot of the pool free (the wait predicate's second test). *)
LEMMA FreeSlot ==
  /\ IsFiniteSet(BusyWorkers)
  /\ Cardinality(BusyWorkers) \in Nat
  /\ Cardinality(BusyWorkers) <= PoolSize
  /\ \A w \in Workers : pc[w] \notin Busy => Cardinality(BusyWorkers) < PoolSize
<1>1. BusyWorkers \in SUBSET Workers
  BY DEF BusyWorkers
<1>2. /\ IsFiniteSet(BusyWorkers)
      /\ Cardinality(BusyWorkers) \in Nat
      /\ Cardinality(BusyWorkers) <= PoolSize
  BY <1>1, CompilerManagerAssumption, FS_Subset, FS_CardinalityType DEF PoolSize
<1>3. ASSUME NEW w \in Workers, pc[w] \notin Busy
      PROVE  Cardinality(BusyWorkers) < PoolSize
  <2>1. w \notin BusyWorkers
    BY <1>3 DEF BusyWorkers
  <2>2. Cardinality(BusyWorkers) # PoolSize
    BY <1>1, <1>3, <2>1, CompilerManagerAssumption, FS_Subset DEF PoolSize
  <2> QED
    BY <1>2, <2>2, PoolSizePositive
<1> QED
  BY <1>2, <1>3

(* A worker that takes a job adds itself to the busy workers, one whose    *)
(* compiler ended removes itself: fetch_add and fetch_sub keep the count.  *)
LEMMA TakeSlot ==
  ASSUME NEW w \in Workers, w \notin BusyWorkers,
         BusyWorkers' = BusyWorkers \cup {w}
  PROVE  Cardinality(BusyWorkers') = Cardinality(BusyWorkers) + 1
  BY FreeSlot, FS_AddElement

(* Releasing a slot lowers the number of busy workers by one.              *)
LEMMA GiveSlotBack ==
  ASSUME NEW w \in Workers, w \in BusyWorkers,
         BusyWorkers' = BusyWorkers \ {w}
  PROVE  /\ Cardinality(BusyWorkers') = Cardinality(BusyWorkers) - 1
         /\ Cardinality(BusyWorkers) >= 1
<1>1. Cardinality(BusyWorkers) >= 1
  BY FreeSlot, FS_EmptySet
<1>2. Cardinality(BusyWorkers \ {w}) = Cardinality(BusyWorkers) - 1
  BY FreeSlot, FS_RemoveElement
<1> QED
  BY <1>1, <1>2

-----------------------------------------------------------------------------
(* The invariant holds initially.                                          *)
LEMMA PoolInvInit == Init => PoolInv
<1> SUFFICES ASSUME Init PROVE PoolInv
  OBVIOUS
<1>1. TypeOK
  <2>1. compile_task_queue \in Seq(Request)
    BY DEF Init
  <2>2. pc \in [Workers -> PcStates]
    BY DEF Init, PcStates
  <2>3. loaded \in [Workers -> Nat]
    BY DEF Init
  <2>4. compile_task \in [Workers -> Sessions \cup {NoSession}]
    BY DEF Init
  <2> QED
    BY <2>1, <2>2, <2>3, <2>4, CompilerManagerAssumption DEF Init, TypeOK
<1>2. BusyWorkers = {}
  BY DEF Init, BusyWorkers, Busy
<1>3. SlotAccounting
  BY <1>2, FS_EmptySet DEF Init, SlotAccounting
<1>4. /\ NoLostWakeup /\ ShutdownDrains /\ StopMatchesDestructor
      /\ ExitedAfterStop /\ ReleaseReportsFreeJob
  BY DEF Init, NoLostWakeup, ShutdownDrains, StopMatchesDestructor,
         ExitedAfterStop, ReleaseReportsFreeJob
<1>5. TaskHeld
  BY CompilerManagerAssumption DEF Init, TaskHeld, Busy, Finishing
<1>6. ZeroIsTransient
  BY CompilerManagerAssumption DEF Init, ZeroIsTransient
<1> QED
  BY <1>1, <1>3, <1>4, <1>5, <1>6 DEF PoolInv

(* TypeOK: the only delicate case is the free-job count, a Nat because the *)
(* counter never exceeds the size of the pool.                             *)
LEMMA TypeStep ==
  ASSUME PoolInv, [Next]_vars
  PROVE  TypeOK'
<1> USE DEF TypeOK
<1>0. /\ TypeOK /\ active_compile_jobs = Cardinality(BusyWorkers)
      /\ active_compile_jobs <= PoolSize
  BY FreeSlot DEF PoolInv, SlotAccounting
<1>1. ASSUME NEW s \in Sessions, add_compilation_request(s) PROVE TypeOK'
  <2>1. [session |-> s, invalidated |-> FALSE] \in Request
    BY DEF Request
  <2>2. compile_task_queue' \in Seq(Request)
    BY <1>0, <1>1, <2>1 DEF add_compilation_request
  <2>3. pc' \in [Workers -> PcStates]
    BY <1>0, <1>1 DEF add_compilation_request, NotifyOne, PcStates
  <2> QED
    BY <1>0, <1>1, <2>2, <2>3 DEF add_compilation_request
<1>2. ASSUME NEW s \in Sessions, invalidate_requests_for_session(s) PROVE TypeOK'
  <2>1. [session |-> s, invalidated |-> TRUE] \in Request
    BY DEF Request
  <2>2. compile_task_queue' \in Seq(Request)
    <3>1. /\ DOMAIN compile_task_queue = 1 .. Len(compile_task_queue)
          /\ Len(compile_task_queue) \in Nat
          /\ \A i \in DOMAIN compile_task_queue : compile_task_queue[i] \in Request
      BY <1>0
    <3>2. compile_task_queue' \in [1 .. Len(compile_task_queue) -> Request]
      BY <1>2, <2>1, <3>1 DEF invalidate_requests_for_session
    <3> QED
      BY <3>1, <3>2
  <2> QED
    BY <1>0, <1>2, <2>2 DEF invalidate_requests_for_session
<1>3. ASSUME NEW w \in Workers, WorkerStep(w) PROVE TypeOK'
  <2>1. CASE Wait(w) \/ ExitLoop(w) \/ AnnounceStore(w) \/ ReleaseStore(w)
    BY <1>0, <2>1 DEF Wait, ExitLoop, AnnounceStore, ReleaseStore, StoreFreeJobs,
       Goto, PcStates, Busy, Finishing
  <2>2. CASE DropInvalidated(w)
    BY <1>0, <2>2 DEF DropInvalidated, MayPop
  <2>3. CASE StartTask(w)
    <3>1. Head(compile_task_queue) \in Request /\ Tail(compile_task_queue) \in Seq(Request)
      BY <1>0, <2>3 DEF StartTask, MayPop
    <3> QED
      BY <1>0, <2>3, <3>1 DEF StartTask, Goto, PcStates, Busy, Request
  <2>4. CASE AnnounceLoad(w) \/ ReleaseLoad(w)
    <3>1. PoolSize - active_compile_jobs \in Nat
      BY <1>0, PoolSizePositive
    <3> QED
      BY <1>0, <2>4, <3>1 DEF AnnounceLoad, ReleaseLoad, LoadFreeJobs, Goto,
         PcStates, Busy, Finishing
  <2>5. CASE CompileSrc(w)
    <3>1. w \in BusyWorkers
      BY <2>5 DEF CompileSrc, BusyWorkers, Busy
    <3>2. active_compile_jobs - 1 \in Nat
      BY <1>0, <3>1, FreeSlot, FS_EmptySet
    <3> QED
      BY <1>0, <2>5, <3>2 DEF CompileSrc, Goto, PcStates, Finishing
  <2>6. CASE NotifyAll(w)
    BY <1>0, <2>6 DEF NotifyAll, WakeAll, PcStates, Busy, Finishing
  <2>7. CASE Publish(w)
    <3>1. compile_task[w] \in Sessions
      BY <2>7 DEF Publish, PoolInv, TaskHeld, Finishing
    <3> QED
      BY <1>0, <2>7, <3>1 DEF Publish, Goto, PcStates
  <2> QED
    BY <1>3, <2>1, <2>2, <2>3, <2>4, <2>5, <2>6, <2>7 DEF WorkerStep
<1>4. ASSUME NEW w \in Workers, SpuriousWakeup(w) PROVE TypeOK'
  BY <1>0, <1>4 DEF SpuriousWakeup, Goto, PcStates
<1>5. CASE Destructor
  BY <1>0, <1>5 DEF Destructor, SetStop, NotifyStop, JoinWorkers, WakeAll, PcStates
<1>6. CASE UNCHANGED vars
  BY <1>0, <1>6 DEF vars
<1> QED
  BY <1>1, <1>2, <1>3, <1>4, <1>5, <1>6 DEF Next, SessionCall

(* The counter follows the busy workers: only StartTask and CompileSrc move*)
(* a worker into or out of Busy, and they are the steps that count.        *)
LEMMA SlotStep ==
  ASSUME PoolInv, [Next]_vars
  PROVE  SlotAccounting'
<1>0. TypeOK /\ active_compile_jobs = Cardinality(BusyWorkers)
  BY DEF PoolInv, SlotAccounting
<1>1. ASSUME BusyWorkers' = BusyWorkers,
             active_compile_jobs' = active_compile_jobs
      PROVE  SlotAccounting'
  BY <1>0, <1>1 DEF SlotAccounting
<1>2. ASSUME NEW s \in Sessions, SessionCall(s) PROVE SlotAccounting'
  <2>1. BusyWorkers' = BusyWorkers
    BY <1>0, <1>2 DEF SessionCall, add_compilation_request, NotifyOne,
       invalidate_requests_for_session, BusyWorkers, Busy, TypeOK
  <2> QED
    BY <1>1, <1>2, <2>1 DEF SessionCall, add_compilation_request,
       invalidate_requests_for_session
<1>3. ASSUME NEW w \in Workers, WorkerStep(w) PROVE SlotAccounting'
  <2>1. CASE StartTask(w)
    <3>1. w \notin BusyWorkers /\ BusyWorkers' = BusyWorkers \cup {w}
      BY <1>0, <2>1 DEF StartTask, MayPop, Goto, BusyWorkers, Busy, TypeOK
    <3> QED
      BY <1>0, <2>1, <3>1, TakeSlot DEF StartTask, SlotAccounting
  <2>2. CASE CompileSrc(w)
    <3>1. w \in BusyWorkers /\ BusyWorkers' = BusyWorkers \ {w}
      BY <1>0, <2>2 DEF CompileSrc, Goto, BusyWorkers, Busy, TypeOK
    <3> QED
      BY <1>0, <2>2, <3>1, GiveSlotBack DEF CompileSrc, SlotAccounting
  <2>3. CASE Wait(w) \/ ExitLoop(w) \/ DropInvalidated(w) \/ Publish(w)
    <3>1. BusyWorkers' = BusyWorkers
      BY <1>0, <2>3 DEF Wait, ExitLoop, DropInvalidated, Publish, Goto,
         BusyWorkers, Busy, TypeOK
    <3> QED
      BY <1>1, <2>3, <3>1 DEF Wait, ExitLoop, DropInvalidated, Publish
  <2>4. CASE AnnounceLoad(w) \/ AnnounceStore(w) \/ ReleaseLoad(w) \/ ReleaseStore(w)
    <3>1. BusyWorkers' = BusyWorkers
      BY <1>0, <2>4 DEF AnnounceLoad, AnnounceStore, ReleaseLoad, ReleaseStore,
         LoadFreeJobs, StoreFreeJobs, Goto, BusyWorkers, Busy, TypeOK
    <3> QED
      BY <1>1, <2>4, <3>1 DEF AnnounceLoad, AnnounceStore, ReleaseLoad,
         ReleaseStore, LoadFreeJobs, StoreFreeJobs
  <2>5. CASE NotifyAll(w)
    <3>1. BusyWorkers' = BusyWorkers
      BY <1>0, <2>5 DEF NotifyAll, WakeAll, BusyWorkers, Busy, TypeOK
    <3> QED
      BY <1>1, <2>5, <3>1 DEF NotifyAll
  <2> QED
    BY <1>3, <2>1, <2>2, <2>3, <2>4, <2>5 DEF WorkerStep
<1>4. ASSUME NEW w \in Workers, SpuriousWakeup(w) PROVE SlotAccounting'
  <2>1. BusyWorkers' = BusyWorkers
    BY <1>0, <1>4 DEF SpuriousWakeup, Goto, BusyWorkers, Busy, TypeOK
  <2> QED
    BY <1>1, <1>4, <2>1 DEF SpuriousWakeup
<1>5. CASE Destructor
  <2>1. BusyWorkers' = BusyWorkers
    BY <1>0, <1>5 DEF Destructor, SetStop, NotifyStop, JoinWorkers, WakeAll,
       BusyWorkers, Busy, TypeOK
  <2> QED
    BY <1>1, <1>5, <2>1 DEF Destructor, SetStop, NotifyStop, JoinWorkers
<1>6. CASE UNCHANGED vars
  BY <1>1, <1>6 DEF vars, BusyWorkers
<1> QED
  BY <1>2, <1>3, <1>4, <1>5, <1>6 DEF Next

(* The wake-up argument: a request is queued together with a notification, *)
(* and a worker goes to sleep only when the queue is empty, because its own*)
(* idleness leaves a slot free (FreeSlot).                                 *)
LEMMA WakeupStep ==
  ASSUME PoolInv, [Next]_vars
  PROVE  NoLostWakeup'
<1>0. /\ TypeOK /\ active_compile_jobs = Cardinality(BusyWorkers) /\ NoLostWakeup
      /\ Workers # {}
  BY CompilerManagerAssumption DEF PoolInv, SlotAccounting
<1>1. ASSUME NEW s \in Sessions, add_compilation_request(s) PROVE NoLostWakeup'
  BY <1>0, <1>1 DEF add_compilation_request, NotifyOne, NoLostWakeup, TypeOK
<1>2. ASSUME NEW s \in Sessions, invalidate_requests_for_session(s)
      PROVE  NoLostWakeup'
  BY <1>0, <1>2 DEF invalidate_requests_for_session, NoLostWakeup, TypeOK
<1>3. ASSUME NEW w \in Workers, WorkerStep(w) PROVE NoLostWakeup'
  <2>1. CASE Wait(w)
    <3>1. active_compile_jobs < PoolSize
      BY <1>0, <2>1, FreeSlot DEF Wait, Busy
    <3>2. compile_task_queue = <<>> /\ UNCHANGED compile_task_queue
      BY <2>1, <3>1 DEF Wait, WaitPredicate
    <3> QED
      BY <3>2 DEF NoLostWakeup
  <2>2. CASE ~Wait(w)
    <3>1. pc'[w] # "waiting"
      BY <1>0, <1>3, <2>2 DEF WorkerStep, ExitLoop, DropInvalidated, StartTask,
         MayPop, AnnounceLoad, AnnounceStore, CompileSrc, NotifyAll, ReleaseLoad,
         ReleaseStore, Publish, LoadFreeJobs, StoreFreeJobs, Goto, WakeAll, TypeOK
    <3> QED
      BY <3>1 DEF NoLostWakeup
  <2> QED
    BY <2>1, <2>2
<1>4. ASSUME NEW w \in Workers, SpuriousWakeup(w) PROVE NoLostWakeup'
  BY <1>0, <1>4 DEF SpuriousWakeup, Goto, NoLostWakeup, TypeOK
<1>5. CASE Destructor
  BY <1>0, <1>5 DEF Destructor, SetStop, NotifyStop, JoinWorkers, WakeAll,
     NoLostWakeup, TypeOK
<1>6. CASE UNCHANGED vars
  BY <1>0, <1>6 DEF vars, NoLostWakeup
<1> QED
  BY <1>1, <1>2, <1>3, <1>4, <1>5, <1>6 DEF Next, SessionCall

(* A worker leaves only after the destructor set the flag and the queue was*)
(* seen empty; from then on nobody adds a request.                         *)
LEMMA ShutdownStep ==
  ASSUME PoolInv, [Next]_vars
  PROVE  ShutdownDrains' /\ StopMatchesDestructor' /\ ExitedAfterStop'
<1> DEFINE Shut == ShutdownDrains /\ StopMatchesDestructor /\ ExitedAfterStop
<1> USE DEF ShutdownDrains, StopMatchesDestructor, ExitedAfterStop
<1>0. TypeOK /\ Shut
  BY DEF PoolInv
<1>1. ASSUME NEW s \in Sessions, add_compilation_request(s) PROVE Shut'
  BY <1>0, <1>1 DEF add_compilation_request, NotifyOne, TypeOK
<1>2. ASSUME NEW s \in Sessions, invalidate_requests_for_session(s) PROVE Shut'
  BY <1>0, <1>2 DEF invalidate_requests_for_session, TypeOK
<1>3. ASSUME NEW w \in Workers, WorkerStep(w) PROVE Shut'
  <2>1. CASE Wait(w) \/ CompileSrc(w) \/ Publish(w)
    BY <1>0, <2>1 DEF Wait, CompileSrc, Publish, Goto, TypeOK
  <2>2. CASE ExitLoop(w)
    BY <1>0, <2>2 DEF ExitLoop, Goto, TypeOK
  <2>3. CASE NotifyAll(w)
    BY <1>0, <2>3 DEF NotifyAll, WakeAll, TypeOK
  <2>4. CASE DropInvalidated(w) \/ StartTask(w)
    BY <1>0, <2>4 DEF DropInvalidated, StartTask, MayPop, Goto, TypeOK
  <2>5. CASE AnnounceLoad(w) \/ AnnounceStore(w) \/ ReleaseLoad(w) \/ ReleaseStore(w)
    BY <1>0, <2>5 DEF AnnounceLoad, AnnounceStore, ReleaseLoad, ReleaseStore,
       LoadFreeJobs, StoreFreeJobs, Goto, TypeOK
  <2> QED
    BY <1>3, <2>1, <2>2, <2>3, <2>4, <2>5 DEF WorkerStep
<1>4. ASSUME NEW w \in Workers, SpuriousWakeup(w) PROVE Shut'
  BY <1>0, <1>4 DEF SpuriousWakeup, Goto, TypeOK
<1>5. CASE Destructor
  BY <1>0, <1>5 DEF Destructor, SetStop, NotifyStop, JoinWorkers, WakeAll, TypeOK
<1>6. CASE UNCHANGED vars
  BY <1>0, <1>6 DEF vars
<1> QED
  BY <1>1, <1>2, <1>3, <1>4, <1>5, <1>6 DEF Next, SessionCall

(* A worker has a task exactly while it compiles it or delivers its result.*)
LEMMA TaskStep ==
  ASSUME PoolInv, [Next]_vars
  PROVE  TaskHeld'
<1> USE CompilerManagerAssumption DEF TaskHeld, Busy, Finishing
<1>0. TypeOK /\ TaskHeld
  BY DEF PoolInv
<1>1. ASSUME NEW s \in Sessions, SessionCall(s) PROVE TaskHeld'
  BY <1>0, <1>1 DEF SessionCall, add_compilation_request, NotifyOne,
     invalidate_requests_for_session, TypeOK
<1>2. ASSUME NEW w \in Workers, WorkerStep(w) PROVE TaskHeld'
  <2>1. CASE Wait(w) \/ ExitLoop(w) \/ DropInvalidated(w)
    BY <1>0, <2>1 DEF Wait, ExitLoop, DropInvalidated, MayPop, Goto, TypeOK
  <2>2. CASE StartTask(w)
    <3>1. Head(compile_task_queue).session \in Sessions
      <4>1. Head(compile_task_queue) \in Request
        BY <1>0, <2>2 DEF StartTask, MayPop, TypeOK
      <4> QED
        BY <4>1 DEF Request
    <3> QED
      BY <1>0, <2>2, <3>1 DEF StartTask, MayPop, Goto, TypeOK
  <2>3. CASE CompileSrc(w) \/ NotifyAll(w) \/ Publish(w)
    BY <1>0, <2>3 DEF CompileSrc, NotifyAll, WakeAll, Publish, Goto, TypeOK
  <2>4. CASE AnnounceLoad(w) \/ AnnounceStore(w) \/ ReleaseLoad(w) \/ ReleaseStore(w)
    BY <1>0, <2>4 DEF AnnounceLoad, AnnounceStore, ReleaseLoad, ReleaseStore,
       LoadFreeJobs, StoreFreeJobs, Goto, TypeOK
  <2> QED
    BY <1>2, <2>1, <2>2, <2>3, <2>4 DEF WorkerStep
<1>3. ASSUME NEW w \in Workers, SpuriousWakeup(w) PROVE TaskHeld'
  BY <1>0, <1>3 DEF SpuriousWakeup, Goto, TypeOK
<1>4. CASE Destructor
  BY <1>0, <1>4 DEF Destructor, SetStop, NotifyStop, JoinWorkers, WakeAll, TypeOK
<1>5. CASE UNCHANGED vars
  BY <1>0, <1>5 DEF vars
<1> QED
  BY <1>1, <1>2, <1>3, <1>4, <1>5 DEF Next

(* A worker that reports after its compiler ended reports at least its own *)
(* slot, so a stored zero comes from a worker that will report again.      *)
LEMMA AdvertiseStep ==
  ASSUME PoolInv, [Next]_vars
  PROVE  ReleaseReportsFreeJob' /\ ZeroIsTransient'
<1> DEFINE Adv == ReleaseReportsFreeJob /\ ZeroIsTransient
<1> USE DEF ReleaseReportsFreeJob, ZeroIsTransient
<1>0. TypeOK /\ Adv /\ active_compile_jobs = Cardinality(BusyWorkers)
  BY DEF PoolInv, SlotAccounting
<1>1. ASSUME NEW s \in Sessions, SessionCall(s) PROVE Adv'
  BY <1>0, <1>1 DEF SessionCall, add_compilation_request, NotifyOne,
     invalidate_requests_for_session, TypeOK
<1>2. ASSUME NEW w \in Workers, WorkerStep(w) PROVE Adv'
  <2>1. CASE Wait(w) \/ ExitLoop(w) \/ DropInvalidated(w) \/ StartTask(w) \/ Publish(w)
    BY <1>0, <2>1 DEF Wait, ExitLoop, DropInvalidated, StartTask, MayPop,
       Publish, Goto, TypeOK
  <2>2. CASE CompileSrc(w) \/ NotifyAll(w)
    BY <1>0, <2>2 DEF CompileSrc, NotifyAll, WakeAll, Goto, TypeOK
  <2>3. CASE AnnounceLoad(w)
    BY <1>0, <2>3 DEF AnnounceLoad, LoadFreeJobs, Goto, TypeOK
  <2>4. CASE ReleaseLoad(w)
    <3>1. PoolSize - active_compile_jobs >= 1
      BY <1>0, <2>4, FreeSlot, PoolSizePositive DEF ReleaseLoad, LoadFreeJobs, Busy
    <3> QED
      BY <1>0, <2>4, <3>1 DEF ReleaseLoad, LoadFreeJobs, Goto, TypeOK
  <2>5. CASE AnnounceStore(w)
    BY <1>0, <2>5 DEF AnnounceStore, StoreFreeJobs, Goto, TypeOK
  <2>6. CASE ReleaseStore(w)
    BY <1>0, <2>6 DEF ReleaseStore, StoreFreeJobs, Goto, TypeOK
  <2> QED
    BY <1>2, <2>1, <2>2, <2>3, <2>4, <2>5, <2>6 DEF WorkerStep
<1>3. ASSUME NEW w \in Workers, SpuriousWakeup(w) PROVE Adv'
  BY <1>0, <1>3 DEF SpuriousWakeup, Goto, TypeOK
<1>4. CASE Destructor
  BY <1>0, <1>4 DEF Destructor, SetStop, NotifyStop, JoinWorkers, WakeAll, TypeOK
<1>5. CASE UNCHANGED vars
  BY <1>0, <1>5 DEF vars
<1> QED
  BY <1>1, <1>2, <1>3, <1>4, <1>5 DEF Next

-----------------------------------------------------------------------------
(* PoolInv is an invariant of the pool (compiler_manager.cpp 13-74).       *)
THEOREM PoolInvariant == Spec => []PoolInv
<1>1. Init => PoolInv
  BY PoolInvInit
<1>2. PoolInv /\ [Next]_vars => PoolInv'
  BY TypeStep, SlotStep, WakeupStep, ShutdownStep, TaskStep, AdvertiseStep
  DEF PoolInv
<1> QED
  BY <1>1, <1>2, PTL DEF Spec

(* The pool is type correct; in particular the size_t free-job count is    *)
(* never the wrapped-around difference of a counter above the pool size.   *)
THEOREM TypeCorrect == Spec => []TypeOK
<1>1. PoolInv => TypeOK
  BY DEF PoolInv
<1> QED
  BY <1>1, PoolInvariant, PTL

(* The atomic counter is the number of workers holding a job.              *)
THEOREM CounterExact == Spec => []SlotAccounting
<1>1. PoolInv => SlotAccounting
  BY DEF PoolInv
<1> QED
  BY <1>1, PoolInvariant, PTL

(* add_compilation_request never leaves a request to a pool that sleeps.   *)
THEOREM WakeupNotLost == Spec => []NoLostWakeup
<1>1. PoolInv => NoLostWakeup
  BY DEF PoolInv
<1> QED
  BY <1>1, PoolInvariant, PTL

(* Workers exit only after the queue has been drained.                     *)
THEOREM DrainedAtShutdown == Spec => []ShutdownDrains
<1>1. PoolInv => ShutdownDrains
  BY DEF PoolInv
<1> QED
  BY <1>1, PoolInvariant, PTL

(* A pool in which no compiler runs advertises at least one free job, in   *)
(* every interleaving of the unsynchronised loads and stores.              *)
THEOREM IdlePoolAdvertises == Spec => []IdleAdvertises
<1>1. PoolInv => IdleAdvertises
  BY DEF PoolInv, TypeOK, ZeroIsTransient, IdleAdvertises
<1> QED
  BY <1>1, PoolInvariant, PTL

-----------------------------------------------------------------------------
(* CompilerManager implements CompileService.                              *)

(* What popping the front of the queue leaves: the other requests, each    *)
(* one place nearer to the front.                                          *)
LEMMA PopFront ==
  ASSUME NEW q \in Seq(Request), q # <<>>
  PROVE  /\ 1 \in DOMAIN q /\ Head(q) = q[1] /\ q[1] \in Request
         /\ Tail(q) \in Seq(Request)
         /\ \A i \in DOMAIN Tail(q) : i + 1 \in DOMAIN q /\ Tail(q)[i] = q[i + 1]
         /\ \A i \in DOMAIN q : i = 1 \/ (i - 1 \in DOMAIN Tail(q) /\ Tail(q)[i - 1] = q[i])
  OBVIOUS

(* What push_back leaves: the requests that were there, and the new one.   *)
LEMMA PushBack ==
  ASSUME NEW q \in Seq(Request), NEW r \in Request
  PROVE  /\ Append(q, r) \in Seq(Request)
         /\ \A i \in DOMAIN q : i \in DOMAIN Append(q, r) /\ Append(q, r)[i] = q[i]
         /\ Len(q) + 1 \in DOMAIN Append(q, r) /\ Append(q, r)[Len(q) + 1] = r
         /\ Len(q) + 1 \notin DOMAIN q
         /\ \A i \in DOMAIN Append(q, r) : i \in DOMAIN q \/ i = Len(q) + 1
  OBVIOUS

(* PlaceInv holds initially.                                               *)
LEMMA PlaceInit == Init => PlaceInv
  BY CompilerManagerAssumption DEF Init, PlaceInv

(* Every step of the pool keeps PlaceInv.                                  *)
LEMMA PlaceStep ==
  ASSUME PoolInv, PlaceInv, [Next]_vars
  PROVE  PlaceInv'
<1>0. TypeOK /\ TaskHeld
  BY DEF PoolInv
<1>1. ASSUME NEW s \in Sessions, add_compilation_request(s) PROVE PlaceInv'
  <2>1. [session |-> s, invalidated |-> FALSE] \in Request
    BY DEF Request
  <2> DEFINE r == [session |-> s, invalidated |-> FALSE]
             q == compile_task_queue
             n == Len(q) + 1
  <2>2. /\ compile_task_queue' = Append(q, r) /\ r.session = s
        /\ requested' = requested \cup {s} /\ s \notin requested
        /\ UNCHANGED <<compile_task, published>>
    BY <1>1 DEF add_compilation_request
  <2>3. /\ \A i \in DOMAIN q : q'[i] = q[i] /\ q[i].session # s
        /\ \A i \in DOMAIN q' : i \in DOMAIN q \/ i = n
        /\ q'[n].session = s
    BY <1>0, <2>1, <2>2, PushBack DEF PlaceInv, TypeOK
  <2>4. s \notin published /\ \A w \in Workers : compile_task[w] # s
    BY <1>0, <2>2 DEF PlaceInv, TypeOK, PoolInv
  <2> QED
    BY <2>2, <2>3, <2>4 DEF PlaceInv
<1>2. ASSUME NEW s \in Sessions, invalidate_requests_for_session(s) PROVE PlaceInv'
  <2>1. DOMAIN compile_task_queue' = DOMAIN compile_task_queue
    BY <1>2 DEF invalidate_requests_for_session
  <2>2. \A i \in DOMAIN compile_task_queue :
          compile_task_queue'[i].session = compile_task_queue[i].session
    BY <1>2 DEF invalidate_requests_for_session
  <2>3. UNCHANGED <<compile_task, requested, published>>
    BY <1>2 DEF invalidate_requests_for_session
  <2> QED
    BY <2>1, <2>2, <2>3 DEF PlaceInv
<1>3. ASSUME NEW w \in Workers, WorkerStep(w) PROVE PlaceInv'
  <2>1. CASE DropInvalidated(w)
    BY <1>0, <2>1, PopFront DEF DropInvalidated, MayPop, PlaceInv, TypeOK
  <2>2. CASE StartTask(w)
    BY <1>0, <2>2, PopFront DEF StartTask, MayPop, PlaceInv, TypeOK
  <2>3. CASE Publish(w)
    <3>1. compile_task[w] \in Sessions
      BY <1>0, <2>3 DEF Publish, TaskHeld, Finishing
    <3> QED
      BY <1>0, <2>3, <3>1, CompilerManagerAssumption DEF Publish, PlaceInv, TypeOK
  <2>4. CASE UNCHANGED <<compile_task_queue, compile_task, requested, published>>
    BY <2>4 DEF PlaceInv
  <2> QED
    BY <1>3, <2>1, <2>2, <2>3, <2>4 DEF WorkerStep, Wait, ExitLoop, AnnounceLoad,
       AnnounceStore, CompileSrc, NotifyAll, ReleaseLoad, ReleaseStore,
       LoadFreeJobs, StoreFreeJobs
<1>4. CASE UNCHANGED <<compile_task_queue, compile_task, requested, published>>
  BY <1>4 DEF PlaceInv
<1> QED
  BY <1>1, <1>2, <1>3, <1>4 DEF Next, SessionCall, Destructor, SetStop,
     NotifyStop, JoinWorkers, SpuriousWakeup, vars

-----------------------------------------------------------------------------
(* Where a request is seen by CompileService, in terms of its place.       *)
LEMMA JobUnchanged ==
  ASSUME UNCHANGED <<requested, published>>,
         NEW s \in Sessions,
         Held(s, Busy)' = Held(s, Busy),
         Held(s, Finishing)' = Held(s, Finishing),
         InQueue(s, FALSE)' = InQueue(s, FALSE),
         InQueue(s, TRUE)' = InQueue(s, TRUE)
  PROVE  JobOf(s)' = JobOf(s)
  BY DEF JobOf

(* Steps that move no worker between idle, Busy and Finishing and touch    *)
(* neither tasks nor queue are invisible to the sessions.                  *)
LEMMA Invisible ==
  ASSUME UNCHANGED <<compile_task_queue, compile_task, requested, published>>,
         \A w \in Workers : /\ pc'[w] \in Busy <=> pc[w] \in Busy
                            /\ pc'[w] \in Finishing <=> pc[w] \in Finishing
  PROVE  jobMap' = jobMap
<1>1. ASSUME NEW s \in Sessions PROVE JobOf(s)' = JobOf(s)
  BY DEF JobOf, Held, InQueue
<1> QED
  BY <1>1 DEF jobMap

(* No more sessions are running than workers are busy: each busy worker    *)
(* runs one session's request.                                             *)
LEMMA RunningBounded ==
  ASSUME PoolInv, PlaceInv
  PROVE  Cardinality(CS!JobsIn("running")) <= active_compile_jobs
<1> DEFINE Running == CS!JobsIn("running")
           Tasks == {compile_task[w] : w \in BusyWorkers}
<1>1. IsFiniteSet(Tasks) /\ Cardinality(Tasks) <= Cardinality(BusyWorkers)
  <2> DEFINE f == [w \in BusyWorkers |-> compile_task[w]]
  <2>1. f \in Surjection(BusyWorkers, Tasks)
    BY DEF Surjection
  <2> QED
    BY <2>1, FreeSlot, FS_Surjection
<1>2. Running \in SUBSET Tasks
  <2> SUFFICES ASSUME NEW s \in Sessions, jobMap[s] = "running" PROVE s \in Tasks
    BY DEF CS!JobsIn
  <2>1. Held(s, Busy)
    BY DEF jobMap, JobOf
  <2> QED
    BY <2>1 DEF Held, BusyWorkers
<1>3. IsFiniteSet(Running) /\ Cardinality(Running) <= Cardinality(Tasks)
  BY <1>1, <1>2, FS_Subset
<1>4. Cardinality(Running) \in Nat /\ Cardinality(Tasks) \in Nat
      /\ Cardinality(BusyWorkers) \in Nat
  BY <1>1, <1>3, FreeSlot, FS_CardinalityType
<1> QED
  BY <1>1, <1>3, <1>4 DEF PoolInv, SlotAccounting

(* push_back by session s is the abstract Request({s}).                    *)
LEMMA RequestMaps ==
  ASSUME PoolInv, PlaceInv, NEW s \in Sessions, add_compilation_request(s)
  PROVE  CS!Request({s})
<1> DEFINE r == [session |-> s, invalidated |-> FALSE]
<1>1. /\ compile_task_queue' = Append(compile_task_queue, r)
      /\ compile_task_queue \in Seq(Request) /\ r \in Request
      /\ s \notin requested /\ requested' = requested \cup {s}
      /\ UNCHANGED <<compile_task, published>>
      /\ \A w \in Workers : /\ pc'[w] \in Busy <=> pc[w] \in Busy
                            /\ pc'[w] \in Finishing <=> pc[w] \in Finishing
  BY DEF PoolInv, TypeOK, Request, add_compilation_request, NotifyOne, Busy, Finishing
<1>2. JobOf(s) = "none"
  BY <1>1 DEF JobOf
<1>3. JobOf(s)' = "queued"
  <2>1. s \notin published /\ \A w \in Workers : compile_task[w] # s
    BY <1>1 DEF PlaceInv
  <2>2. InQueue(s, FALSE)'
    BY <1>1, PushBack DEF InQueue
  <2> QED
    BY <1>1, <2>1, <2>2 DEF JobOf, Held
<1>4. ASSUME NEW t \in Sessions, t # s PROVE JobOf(t)' = JobOf(t)
  <2>1. \A b \in BOOLEAN : r # [session |-> t, invalidated |-> b]
    BY <1>4
  <2>2. ASSUME NEW b \in BOOLEAN PROVE InQueue(t, b)' <=> InQueue(t, b)
    <3> DEFINE q == compile_task_queue
    <3>1. /\ \A i \in DOMAIN q : i \in DOMAIN q' /\ q'[i] = q[i]
          /\ \A i \in DOMAIN q' : i \in DOMAIN q \/ q'[i] = r
      BY <1>1, PushBack
    <3> HIDE DEF r
    <3> QED
      BY <2>1, <3>1 DEF InQueue
  <2>3. \A L \in {Busy, Finishing} : Held(t, L)' <=> Held(t, L)
    BY <1>1 DEF Held
  <2> QED
    BY <1>1, <1>4, <2>2, <2>3 DEF JobOf
<1> QED
  BY <1>2, <1>3, <1>4 DEF CS!Request, CS!JobsIn, jobMap

(* The invalidation of a queued request is the abstract Cancel(s).         *)
LEMMA InvalidateMaps ==
  ASSUME PoolInv, PlaceInv, NEW s \in Sessions, invalidate_requests_for_session(s)
  PROVE  CS!Cancel(s)
<1> DEFINE q == compile_task_queue
<1>1. /\ q \in Seq(Request)
      /\ UNCHANGED <<pc, compile_task, requested, published>>
      /\ DOMAIN q' = DOMAIN q
      /\ \A i \in DOMAIN q : q'[i] = IF q[i].session = s
                                     THEN [session |-> s, invalidated |-> TRUE]
                                     ELSE q[i]
  BY DEF PoolInv, TypeOK, invalidate_requests_for_session
<1>2. PICK k \in DOMAIN q : q[k] = [session |-> s, invalidated |-> FALSE]
  BY DEF invalidate_requests_for_session
<1>3. s \in requested \ published /\ \A w \in Workers : compile_task[w] # s
  BY <1>2 DEF PlaceInv
<1>4. JobOf(s) = "queued"
  BY <1>2, <1>3 DEF JobOf, Held, InQueue
<1>5. JobOf(s)' = "cancelled"
  <2>1. ~InQueue(s, FALSE)'
    BY <1>1 DEF InQueue
  <2>2. InQueue(s, TRUE)'
    <3>1. q'[k] = [session |-> s, invalidated |-> TRUE] /\ k \in DOMAIN q'
      BY <1>1, <1>2
    <3> QED
      BY <3>1 DEF InQueue
  <2> QED
    BY <1>1, <1>3, <2>1, <2>2 DEF JobOf, Held
<1>6. ASSUME NEW t \in Sessions, t # s PROVE JobOf(t)' = JobOf(t)
  <2>1. \A b \in BOOLEAN : InQueue(t, b)' <=> InQueue(t, b)
    BY <1>1, <1>6 DEF InQueue
  <2> QED
    BY <1>1, <2>1 DEF JobOf, Held
<1> QED
  BY <1>4, <1>5, <1>6 DEF CS!Cancel, CS!Move, jobMap

(* What a pop does to the other sessions: nothing.                         *)
LEMMA PopOthers ==
  ASSUME PoolInv, PlaceInv, compile_task_queue # <<>>,
         compile_task_queue' = Tail(compile_task_queue),
         NEW s, s = Head(compile_task_queue).session
  PROVE  /\ s \in Sessions /\ s \in requested \ published
         /\ \A w \in Workers : compile_task[w] # s
         /\ InQueue(s, Head(compile_task_queue).invalidated)
         /\ ~InQueue(s, ~Head(compile_task_queue).invalidated)
         /\ \A b \in BOOLEAN : ~InQueue(s, b)'
         /\ \A t \in Sessions \ {s}, b \in BOOLEAN : InQueue(t, b)' <=> InQueue(t, b)
<1> DEFINE q == compile_task_queue
<1>1. q \in Seq(Request)
  BY DEF PoolInv, TypeOK
<1>2. /\ 1 \in DOMAIN q /\ Head(q) = q[1] /\ q[1] \in Request
      /\ \A i \in DOMAIN q' : i \in Nat /\ i + 1 \in DOMAIN q /\ i + 1 # 1 /\ q'[i] = q[i + 1]
      /\ \A i \in DOMAIN q : i = 1 \/ (i - 1 \in DOMAIN q' /\ q'[i - 1] = q[i])
  BY <1>1, PopFront
<1>3. /\ s \in Sessions /\ s \in requested \ published
      /\ \A w \in Workers : compile_task[w] # s
  BY <1>2 DEF Request, PlaceInv
<1>4. q[1] = [session |-> s, invalidated |-> q[1].invalidated]
  BY <1>2 DEF Request
<1>5. \A i \in DOMAIN q : i # 1 => q[i].session # s
  BY <1>2 DEF PlaceInv
<1>6. InQueue(s, q[1].invalidated) /\ ~InQueue(s, ~q[1].invalidated)
  BY <1>2, <1>4, <1>5 DEF InQueue, Request
<1>7. \A b \in BOOLEAN : ~InQueue(s, b)'
  BY <1>2, <1>5 DEF InQueue
<1>8. ASSUME NEW t \in Sessions \ {s}, NEW b \in BOOLEAN
      PROVE  InQueue(t, b)' <=> InQueue(t, b)
  <2> DEFINE r == [session |-> t, invalidated |-> b]
  <2>1. q[1] # r
    BY <1>4
  <2>2. ASSUME NEW i \in DOMAIN q', q'[i] = r PROVE InQueue(t, b)
    BY <1>2, <2>2 DEF InQueue
  <2>3. ASSUME NEW i \in DOMAIN q, q[i] = r PROVE InQueue(t, b)'
    <3>1. i - 1 \in DOMAIN q' /\ q'[i - 1] = r
      BY <1>2, <2>1, <2>3
    <3> QED
      BY <3>1 DEF InQueue
  <2> QED
    BY <2>2, <2>3 DEF InQueue
<1> QED
  BY <1>2, <1>3, <1>6, <1>7, <1>8

(* Popping an invalidated request is the abstract Drop of its session.     *)
LEMMA DropMaps ==
  ASSUME PoolInv, PlaceInv, NEW w \in Workers, DropInvalidated(w)
  PROVE  \E s \in Sessions : CS!Drop(s)
<1>1. /\ compile_task_queue # <<>> /\ compile_task_queue' = Tail(compile_task_queue)
      /\ Head(compile_task_queue).invalidated = TRUE
      /\ UNCHANGED <<pc, compile_task, requested, published>>
  <2>1. Head(compile_task_queue) \in Request
    BY PopFront DEF DropInvalidated, MayPop, PoolInv, TypeOK
  <2> QED
    BY <2>1 DEF DropInvalidated, MayPop, Request
<1>2. PICK s \in Sessions : s = Head(compile_task_queue).session
  BY <1>1, PopOthers
<1>3. JobOf(s) = "cancelled" /\ JobOf(s)' = "dropped"
  BY <1>1, <1>2, PopOthers DEF JobOf, Held
<1>4. ASSUME NEW t \in Sessions, t # s PROVE JobOf(t)' = JobOf(t)
  BY <1>1, <1>2, <1>4, PopOthers DEF JobOf, Held
<1> QED
  BY <1>3, <1>4 DEF CS!Drop, CS!Move, jobMap

(* Popping a valid request and counting it is the abstract Start: the      *)
(* counter test leaves room for one more compiler.                         *)
LEMMA StartMaps ==
  ASSUME PoolInv, PlaceInv, NEW w \in Workers, StartTask(w)
  PROVE  \E s \in Sessions : CS!Start(s)
<1>1. /\ compile_task_queue # <<>> /\ compile_task_queue' = Tail(compile_task_queue)
      /\ Head(compile_task_queue).invalidated = FALSE
      /\ compile_task' =
            [compile_task EXCEPT ![w] = Head(compile_task_queue).session]
      /\ pc[w] = "loop" /\ pc' = [pc EXCEPT ![w] = "announce"]
      /\ active_compile_jobs < PoolSize
      /\ UNCHANGED <<requested, published>>
  <2>1. Head(compile_task_queue) \in Request
    BY PopFront DEF StartTask, MayPop, PoolInv, TypeOK
  <2> QED
    BY <2>1 DEF StartTask, MayPop, Request, Goto
<1>2. /\ compile_task \in [Workers -> Sessions \cup {NoSession}]
      /\ pc \in [Workers -> PcStates]
      /\ compile_task[w] \notin Sessions
  BY <1>1 DEF PoolInv, TypeOK, TaskHeld, Busy, Finishing
<1>3. PICK s \in Sessions : s = Head(compile_task_queue).session
  BY <1>1, PopOthers
<1>4. JobOf(s) = "queued"
  BY <1>1, <1>3, PopOthers DEF JobOf, Held
<1>5. JobOf(s)' = "running"
  <2>1. Held(s, Busy)'
    BY <1>1, <1>2, <1>3 DEF Held, Busy
  <2> QED
    BY <1>1, <1>3, <2>1, PopOthers DEF JobOf
<1>6. ASSUME NEW t \in Sessions, t # s PROVE JobOf(t)' = JobOf(t)
  <2>1. \A L \in {Busy, Finishing} : Held(t, L)' <=> Held(t, L)
    BY <1>1, <1>2, <1>3, <1>6 DEF Held
  <2> QED
    BY <1>1, <1>3, <1>6, <2>1, PopOthers DEF JobOf
<1>7. Cardinality(CS!JobsIn("running")) < PoolSize
  <2>1. IsFiniteSet(CS!JobsIn("running"))
    BY CompilerManagerAssumption, FS_Subset DEF CS!JobsIn
  <2> QED
    BY <1>1, <2>1, RunningBounded, FS_CardinalityType, PoolSizePositive DEF PoolInv, TypeOK
<1>8. CS!Move(s, "queued", "running")
  BY <1>4, <1>5, <1>6 DEF CS!Move, jobMap
<1> QED
  BY <1>7, <1>8 DEF CS!Start, CS!Cardinality, Cardinality

(* The end of the compiler process is the abstract Finish, the call of     *)
(* publish_compilation_results the abstract Publish.                       *)
LEMMA FinishMaps ==
  ASSUME PoolInv, PlaceInv, NEW w \in Workers, CompileSrc(w)
  PROVE  \E s \in Sessions : CS!Finish(s)
<1>1. /\ pc[w] = "compiling" /\ pc' = [pc EXCEPT ![w] = "notify"]
      /\ pc \in [Workers -> PcStates]
      /\ UNCHANGED <<compile_task_queue, compile_task, requested, published>>
  BY DEF CompileSrc, Goto, PoolInv, TypeOK
<1>2. PICK s \in Sessions : s = compile_task[w]
  BY <1>1 DEF PoolInv, TaskHeld, Busy
<1>3. s \in requested \ published /\ \A v \in Workers : compile_task[v] = s => v = w
  BY <1>2 DEF PlaceInv
<1>4. JobOf(s) = "running"
  BY <1>1, <1>2, <1>3 DEF JobOf, Held, Busy
<1>5. JobOf(s)' = "finished"
  <2>1. ~Held(s, Busy)' /\ Held(s, Finishing)'
    BY <1>1, <1>2, <1>3 DEF Held, Busy, Finishing
  <2> QED
    BY <1>1, <1>3, <2>1 DEF JobOf
<1>6. ASSUME NEW t \in Sessions, t # s PROVE JobOf(t)' = JobOf(t)
  BY <1>1, <1>2, <1>6 DEF JobOf, Held, InQueue
<1> QED
  BY <1>4, <1>5, <1>6 DEF CS!Finish, CS!Move, jobMap

(* Publishing the result is Publish of the abstract service.               *)
LEMMA PublishMaps ==
  ASSUME PoolInv, PlaceInv, NEW w \in Workers, Publish(w)
  PROVE  \E s \in Sessions : CS!Publish(s)
<1>1. /\ pc[w] = "publish" /\ pc' = [pc EXCEPT ![w] = "loop"]
      /\ pc \in [Workers -> PcStates]
      /\ compile_task \in [Workers -> Sessions \cup {NoSession}]
      /\ compile_task' = [compile_task EXCEPT ![w] = NoSession]
      /\ published' = published \cup {compile_task[w]}
      /\ UNCHANGED <<compile_task_queue, requested>>
  BY DEF Publish, Goto, PoolInv, TypeOK
<1>2. PICK s \in Sessions : s = compile_task[w]
  BY <1>1 DEF PoolInv, TaskHeld, Finishing
<1>3. s \in requested \ published /\ \A v \in Workers : compile_task[v] = s => v = w
  BY <1>2 DEF PlaceInv
<1>4. JobOf(s) = "finished"
  BY <1>1, <1>2, <1>3 DEF JobOf, Held, Busy, Finishing
<1>5. JobOf(s)' = "published"
  BY <1>1, <1>2, <1>3 DEF JobOf
<1>6. ASSUME NEW t \in Sessions, t # s PROVE JobOf(t)' = JobOf(t)
  <2>1. \A L \in {Busy, Finishing} : Held(t, L)' <=> Held(t, L)
    BY <1>1, <1>2, <1>6, CompilerManagerAssumption DEF Held
  <2> QED
    BY <1>1, <1>2, <1>6, <2>1 DEF JobOf, InQueue
<1> QED
  BY <1>4, <1>5, <1>6 DEF CS!Publish, CS!Move, jobMap

-----------------------------------------------------------------------------
(* Every step of the pool is a step of the service or a stutter.           *)
LEMMA StepMaps ==
  ASSUME PoolInv, PlaceInv, [Next]_vars
  PROVE  [CS!Next]_jobMap
<1>0. pc \in [Workers -> PcStates]
  BY DEF PoolInv, TypeOK
<1>1. ASSUME NEW s \in Sessions, add_compilation_request(s) PROVE CS!Next
  BY <1>1, RequestMaps DEF CS!Next
<1>2. ASSUME NEW s \in Sessions, invalidate_requests_for_session(s) PROVE CS!Next
  BY <1>2, InvalidateMaps DEF CS!Next
<1>3. ASSUME NEW w \in Workers, WorkerStep(w) PROVE [CS!Next]_jobMap
  <2>1. CASE DropInvalidated(w)
    BY <2>1, DropMaps DEF CS!Next
  <2>2. CASE StartTask(w)
    BY <2>2, StartMaps DEF CS!Next
  <2>3. CASE CompileSrc(w)
    BY <2>3, FinishMaps DEF CS!Next
  <2>4. CASE Publish(w)
    BY <2>4, PublishMaps DEF CS!Next
  <2>5. CASE Wait(w) \/ ExitLoop(w) \/ NotifyAll(w)
    BY <1>0, <2>5, Invisible DEF Wait, ExitLoop, NotifyAll, WakeAll, Goto, Busy, Finishing
  <2>6. CASE AnnounceLoad(w) \/ AnnounceStore(w) \/ ReleaseLoad(w) \/ ReleaseStore(w)
    BY <1>0, <2>6, Invisible DEF AnnounceLoad, AnnounceStore, ReleaseLoad,
       ReleaseStore, LoadFreeJobs, StoreFreeJobs, Goto, Busy, Finishing
  <2> QED
    BY <1>3, <2>1, <2>2, <2>3, <2>4, <2>5, <2>6 DEF WorkerStep
<1>4. ASSUME NEW w \in Workers, SpuriousWakeup(w) PROVE jobMap' = jobMap
  BY <1>0, <1>4, Invisible DEF SpuriousWakeup, Goto, Busy, Finishing
<1>5. CASE Destructor
  BY <1>0, <1>5, Invisible DEF Destructor, SetStop, NotifyStop, JoinWorkers,
     WakeAll, Busy, Finishing
<1>6. CASE UNCHANGED vars
  BY <1>6, Invisible DEF vars
<1> QED
  BY <1>1, <1>2, <1>3, <1>4, <1>5, <1>6 DEF Next, SessionCall

(* Every behaviour of the thread pool is a behaviour of CompileService:    *)
(* one request per session, never more than PoolSize compilers, no start of*)
(* a cancelled request, one publication after the compiler ended.          *)
THEOREM PoolImplementsService == Spec => ImplementsCompileService
<1>1. Init => PoolInv /\ PlaceInv
  BY PoolInvInit, PlaceInit
<1>2. PoolInv /\ PlaceInv /\ [Next]_vars => PoolInv' /\ PlaceInv'
  BY TypeStep, SlotStep, WakeupStep, ShutdownStep, TaskStep, AdvertiseStep,
     PlaceStep DEF PoolInv
<1>3. Init => CS!Init
  BY DEF Init, CS!Init, jobMap, JobOf
<1>4. PoolInv /\ PlaceInv /\ [Next]_vars => [CS!Next]_jobMap
  BY StepMaps
<1> QED
  BY <1>1, <1>2, <1>3, <1>4, PTL DEF Spec, CS!Spec, ImplementsCompileService
=============================================================================
