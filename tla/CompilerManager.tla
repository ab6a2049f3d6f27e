-------------------------- MODULE CompilerManager --------------------------
(***************************************************************************)
(* The server's compiler thread pool (compiler_manager.hpp/.cpp): the task *)
(* deque, the mutex and condition variable around it, the counter of       *)
(* active jobs, the worker loop, the destructor, and the number of free    *)
(* jobs the workers store into the ResourceBroadcaster.                    *)
(*                                                                         *)
(* A critical section of _mtx is one step; everything a worker does        *)
(* outside the mutex on shared state (the load of the counter, the store   *)
(* into the broadcaster, the notification) is a step of its own.           *)
(*                                                                         *)
(* Every compiler can be started: an exception of the child's constructor  *)
(* would leave the worker's thread and end the server, and with it every   *)
(* behaviour of this module.                                               *)
(***************************************************************************)
EXTENDS Naturals, Sequences, FiniteSets

CONSTANTS
    Workers,      \* the threads of _worker_threads
    Sessions,     \* the ServerSessions that may request a compilation
    NoSession,    \* the requester of a default-constructed CompilationRequest
    Verbose,      \* sessions whose compiler writes more than a pipe can hold
    InitialJobs   \* _available_jobs before any worker stored it (8 in the code)

ASSUME CompilerManagerAssumption ==
    /\ IsFiniteSet(Workers) /\ Workers # {}
    /\ IsFiniteSet(Sessions)
    /\ NoSession \notin Sessions
    /\ Verbose \subseteq Sessions
    /\ InitialJobs \in Nat \ {0}

VARIABLES
    compile_task_queue,   \* deque of CompilationRequest
    active_compile_jobs,  \* the atomic counter
    stop_threads,         \* set by the destructor
    pc,                   \* where each worker is in _worker_loop
    compile_task,         \* each worker's local compile_task (its session)
    loaded,               \* the free-job count a worker computed, not yet stored
    available_jobs,       \* ResourceBroadcaster::_available_jobs
    dtor,                 \* how far ~CompilerManager has come
    requested,            \* sessions whose _is_compiler_running is set
    published             \* sessions whose publish_compilation_results ran

vars == <<compile_task_queue, active_compile_jobs, stop_threads, pc,
          compile_task, loaded, available_jobs, dtor, requested, published>>

PoolSize == Cardinality(Workers)

Request == [session : Sessions, invalidated : BOOLEAN]

(* The worker holds a job: between fetch_add and fetch_sub.                *)
Busy == {"announce", "announce_store", "compiling"}

(* The worker's compiler has ended and its result is not published yet.    *)
Finishing == {"notify", "release", "release_store", "publish"}

PcStates == {"loop", "waiting", "exited"} \cup Busy \cup Finishing

BusyWorkers == {w \in Workers : pc[w] \in Busy}

TypeOK ==
    /\ compile_task_queue \in Seq(Request)
    /\ active_compile_jobs \in Nat
    /\ stop_threads \in BOOLEAN
    /\ pc \in [Workers -> PcStates]
    /\ compile_task \in [Workers -> Sessions \cup {NoSession}]
    /\ loaded \in [Workers -> Nat]
    /\ available_jobs \in Nat
    /\ dtor \in {"alive", "notify", "join", "joined"}
    /\ requested \in SUBSET Sessions
    /\ published \in SUBSET Sessions

Init ==
    /\ compile_task_queue = <<>>
    /\ active_compile_jobs = 0
    /\ stop_threads = FALSE
    /\ pc = [w \in Workers |-> "loop"]
    /\ compile_task = [w \in Workers |-> NoSession]
    /\ loaded = [w \in Workers |-> 0]
    /\ available_jobs = InitialJobs
    /\ dtor = "alive"
    /\ requested = {}
    /\ published = {}

-----------------------------------------------------------------------------
(* Calls of other threads.                                                 *)

(* Mutant: the notification is forgotten.                                  *)
NotifyOne_Forgotten == pc' = pc

(***************************************************************************)
(* notify_one: some waiting thread, if there is one, leaves the wait and   *)
(* evaluates the predicate again.                                          *)
(***************************************************************************)
NotifyOne ==
    \/ /\ \A w \in Workers : pc[w] # "waiting"
       /\ pc' = pc
    \/ \E w \in Workers :
          /\ pc[w] = "waiting"
          /\ pc' = [pc EXCEPT ![w] = "loop"]

WakeAll(p) == [w \in Workers |-> IF p[w] = "waiting" THEN "loop" ELSE p[w]]

(***************************************************************************)
(* A session calls this once in its life: try_request_src_compilation      *)
(* tests and sets _is_compiler_running, which is never reset. The server   *)
(* destroys the pool after its I/O threads have been joined, so no call    *)
(* comes once the destructor runs.                                         *)
(***************************************************************************)
add_compilation_request(s) ==
    /\ dtor = "alive"
    /\ s \notin requested
    /\ requested' = requested \cup {s}
    /\ compile_task_queue' =
          Append(compile_task_queue, [session |-> s, invalidated |-> FALSE])
    /\ NotifyOne
    /\ UNCHANGED <<active_compile_jobs, stop_threads, compile_task, loaded,
                   available_jobs, dtor, published>>

(***************************************************************************)
(* The scan does not take _mtx. It is one step here: what a worker popping *)
(* an element in the middle of it can observe is the request marked or not *)
(* marked, the two orders of the steps. (That the unlocked scan may also   *)
(* read a deque node being freed is outside the model.)                    *)
(***************************************************************************)
invalidate_requests_for_session(s) ==
    /\ dtor = "alive"
    /\ \E i \in DOMAIN compile_task_queue :
          compile_task_queue[i] = [session |-> s, invalidated |-> FALSE]
    /\ compile_task_queue' =
          [i \in DOMAIN compile_task_queue |->
             IF compile_task_queue[i].session = s
             THEN [session |-> s, invalidated |-> TRUE]
             ELSE compile_task_queue[i]]
    /\ UNCHANGED <<active_compile_jobs, stop_threads, pc, compile_task, loaded,
                   available_jobs, dtor, requested, published>>

(* ~CompilerManager: flag under the mutex, notify_all outside it, join.    *)
SetStop ==
    /\ dtor = "alive"
    /\ dtor' = "notify"
    /\ stop_threads' = TRUE
    /\ UNCHANGED <<compile_task_queue, active_compile_jobs, pc, compile_task,
                   loaded, available_jobs, requested, published>>

(* Mutant: the destructor joins without notifying.                         *)
NotifyStop_Forgotten ==
    /\ dtor = "notify"
    /\ dtor' = "join"
    /\ UNCHANGED <<compile_task_queue, active_compile_jobs, stop_threads, pc,
                   compile_task, loaded, available_jobs, requested, published>>

NotifyStop ==
    /\ dtor = "notify"
    /\ dtor' = "join"
    /\ pc' = WakeAll(pc)
    /\ UNCHANGED <<compile_task_queue, active_compile_jobs, stop_threads,
                   compile_task, loaded, available_jobs, requested, published>>

JoinWorkers ==
    /\ dtor = "join"
    /\ \A w \in Workers : pc[w] = "exited"
    /\ dtor' = "joined"
    /\ UNCHANGED <<compile_task_queue, active_compile_jobs, stop_threads, pc,
                   compile_task, loaded, available_jobs, requested, published>>

-----------------------------------------------------------------------------
(* _worker_loop, one action per step of thread w.                          *)

(* Mutant: off by one in the test for a free slot.                         *)
WaitPredicate_OffByOne ==
    \/ stop_threads
    \/ compile_task_queue # <<>> /\ active_compile_jobs + 1 < PoolSize

WaitPredicate ==
    \/ stop_threads
    \/ compile_task_queue # <<>> /\ active_compile_jobs < PoolSize

Goto(w, label) == pc' = [pc EXCEPT ![w] = label]

Wait(w) ==
    /\ pc[w] = "loop"
    /\ ~WaitPredicate
    /\ Goto(w, "waiting")
    /\ UNCHANGED <<compile_task_queue, active_compile_jobs, stop_threads,
                   compile_task, loaded, available_jobs, dtor, requested,
                   published>>

SpuriousWakeup(w) ==
    /\ pc[w] = "waiting"
    /\ Goto(w, "loop")
    /\ UNCHANGED <<compile_task_queue, active_compile_jobs, stop_threads,
                   compile_task, loaded, available_jobs, dtor, requested,
                   published>>

(* Mutant: a worker leaves as soon as the flag is set.                     *)
ExitLoop_WithoutDraining(w) ==
    /\ pc[w] = "loop"
    /\ stop_threads
    /\ Goto(w, "exited")
    /\ UNCHANGED <<compile_task_queue, active_compile_jobs, stop_threads,
                   compile_task, loaded, available_jobs, dtor, requested,
                   published>>

ExitLoop(w) ==
    /\ pc[w] = "loop"
    /\ WaitPredicate
    /\ stop_threads /\ compile_task_queue = <<>>
    /\ Goto(w, "exited")
    /\ UNCHANGED <<compile_task_queue, active_compile_jobs, stop_threads,
                   compile_task, loaded, available_jobs, dtor, requested,
                   published>>

(***************************************************************************)
(* The front of the queue is popped only when a slot is free; the test is  *)
(* made a second time after the wait because the predicate holds whatever  *)
(* the counter is once stop_threads is set.                                *)
(***************************************************************************)
MayPop(w) ==
    /\ pc[w] = "loop"
    /\ WaitPredicate
    /\ compile_task_queue # <<>>
    /\ active_compile_jobs < PoolSize

DropInvalidated(w) ==
    /\ MayPop(w)
    /\ Head(compile_task_queue).invalidated
    /\ compile_task_queue' = Tail(compile_task_queue)
    /\ UNCHANGED <<active_compile_jobs, stop_threads, pc, compile_task, loaded,
                   available_jobs, dtor, requested, published>>

(* Mutants: invalidated requests are compiled; the counter is forgotten.   *)
StartTask_EvenInvalidated(w) ==
    /\ MayPop(w)
    /\ compile_task' = [compile_task EXCEPT ![w] = Head(compile_task_queue).session]
    /\ compile_task_queue' = Tail(compile_task_queue)
    /\ active_compile_jobs' = active_compile_jobs + 1
    /\ Goto(w, "announce")
    /\ UNCHANGED <<stop_threads, loaded, available_jobs, dtor, requested,
                   published>>

StartTask_NotCounted(w) ==
    /\ MayPop(w)
    /\ ~Head(compile_task_queue).invalidated
    /\ compile_task' = [compile_task EXCEPT ![w] = Head(compile_task_queue).session]
    /\ compile_task_queue' = Tail(compile_task_queue)
    /\ Goto(w, "announce")
    /\ UNCHANGED <<active_compile_jobs, stop_threads, loaded, available_jobs,
                   dtor, requested, published>>

StartTask(w) ==
    /\ MayPop(w)
    /\ ~Head(compile_task_queue).invalidated
    /\ compile_task' = [compile_task EXCEPT ![w] = Head(compile_task_queue).session]
    /\ compile_task_queue' = Tail(compile_task_queue)
    /\ active_compile_jobs' = active_compile_jobs + 1
    /\ Goto(w, "announce")
    /\ UNCHANGED <<stop_threads, loaded, available_jobs, dtor, requested,
                   published>>

(* Mutant: the worker counts its own job twice.                            *)
LoadFreeJobs_CountsItselfTwice(w, from, to) ==
    /\ pc[w] = from
    /\ loaded' = [loaded EXCEPT ![w] = PoolSize - active_compile_jobs - 1]
    /\ Goto(w, to)
    /\ UNCHANGED <<compile_task_queue, active_compile_jobs, stop_threads,
                   compile_task, available_jobs, dtor, requested, published>>

(***************************************************************************)
(* set_available_compiler_jobs(_thread_pool_sz - _active_compile_jobs):    *)
(* the argument is computed from one atomic load and stored by another     *)
(* atomic operation. Both are size_t; the difference is never negative     *)
(* (TypeOK, SlotAccounting), so no wrap-around is modelled.                *)
(***************************************************************************)
LoadFreeJobs(w, from, to) ==
    /\ pc[w] = from
    /\ loaded' = [loaded EXCEPT ![w] = PoolSize - active_compile_jobs]
    /\ Goto(w, to)
    /\ UNCHANGED <<compile_task_queue, active_compile_jobs, stop_threads,
                   compile_task, available_jobs, dtor, requested, published>>

StoreFreeJobs(w, from, to) ==
    /\ pc[w] = from
    /\ available_jobs' = loaded[w]
    /\ Goto(w, to)
    /\ UNCHANGED <<compile_task_queue, active_compile_jobs, stop_threads,
                   compile_task, loaded, dtor, requested, published>>

AnnounceLoad(w)  == LoadFreeJobs(w, "announce", "announce_store")

AnnounceStore(w) == StoreFreeJobs(w, "announce_store", "compiling")

(***************************************************************************)
(* _compile_src waits for the compiler process before it reads the pipes   *)
(* its output goes to: a compiler that fills a pipe never ends. For the    *)
(* others the step includes the fetch_sub under the mutex.                 *)
(***************************************************************************)
CompileSrc(w) ==
    /\ pc[w] = "compiling"
    /\ compile_task[w] \notin Verbose
    /\ active_compile_jobs' = active_compile_jobs - 1
    /\ Goto(w, "notify")
    /\ UNCHANGED <<compile_task_queue, stop_threads, compile_task, loaded,
                   available_jobs, dtor, requested, published>>

NotifyAll(w) ==
    /\ pc[w] = "notify"
    /\ pc' = [WakeAll(pc) EXCEPT ![w] = "release"]
    /\ UNCHANGED <<compile_task_queue, active_compile_jobs, stop_threads,
                   compile_task, loaded, available_jobs, dtor, requested,
                   published>>

ReleaseLoad(w)  == LoadFreeJobs(w, "release", "release_store")

(* Mutant: the freed job is not announced.                                 *)
ReleaseStore_Forgotten(w) ==
    /\ pc[w] = "release_store"
    /\ Goto(w, "publish")
    /\ UNCHANGED <<compile_task_queue, active_compile_jobs, stop_threads,
                   compile_task, loaded, available_jobs, dtor, requested,
                   published>>

ReleaseStore(w) == StoreFreeJobs(w, "release_store", "publish")

(* The end of an iteration also ends the life of the local compile_task.   *)
Publish(w) ==
    /\ pc[w] = "publish"
    /\ published' = published \cup {compile_task[w]}
    /\ compile_task' = [compile_task EXCEPT ![w] = NoSession]
    /\ Goto(w, "loop")
    /\ UNCHANGED <<compile_task_queue, active_compile_jobs, stop_threads,
                   loaded, available_jobs, dtor, requested>>

WorkerStep(w) ==
    \/ Wait(w) \/ ExitLoop(w) \/ DropInvalidated(w) \/ StartTask(w)
    \/ AnnounceLoad(w) \/ AnnounceStore(w) \/ CompileSrc(w) \/ NotifyAll(w)
    \/ ReleaseLoad(w) \/ ReleaseStore(w) \/ Publish(w)

SessionCall(s) ==
    \/ add_compilation_request(s)
    \/ invalidate_requests_for_session(s)

Destructor == SetStop \/ NotifyStop \/ JoinWorkers

Next ==
    \/ \E s \in Sessions : SessionCall(s)
    \/ \E w \in Workers : WorkerStep(w) \/ SpuriousWakeup(w)
    \/ Destructor

Spec == Init /\ [][Next]_vars

(***************************************************************************)
(* Every thread is scheduled again and again, and a mutex that is free     *)
(* again and again is obtained; the destructor runs to its end once it has *)
(* begun. Nothing is assumed about the sessions' calls or when the         *)
(* destructor begins.                                                      *)
(***************************************************************************)
FairSpec ==
    /\ Spec
    /\ \A w \in Workers : WF_vars(WorkerStep(w))
    /\ WF_vars(NotifyStop \/ JoinWorkers)

-----------------------------------------------------------------------------
(* Properties.                                                             *)

(* _active_compile_jobs, changed with relaxed atomics on both sides of the *)
(* compiler call, is at every moment the number of workers that hold a     *)
(* job: the size_t difference the broadcaster gets never wraps around.     *)
SlotAccounting == active_compile_jobs = Cardinality(BusyWorkers)

(* No lost wake-up: while a request is queued, some worker is awake to take*)
(* it (_cv.notify_one under the mutex, the wait predicate, and the counter *)
(* that the predicate also tests).                                         *)
NoLostWakeup ==
    compile_task_queue # <<>> => \E w \in Workers : pc[w] # "waiting"

(* A server whose workers are all done compiling does not go on            *)
(* advertising zero free jobs, which clients would never pick again,       *)
(* although every worker loads the counter and stores the result in two    *)
(* steps that other workers' loads and stores come between.                *)
IdleAdvertises ==
    (\A w \in Workers : pc[w] \in {"loop", "waiting", "publish", "exited"})
        => available_jobs >= 1

(* The destructor loses no accepted request: a worker leaves its loop only *)
(* when the queue has been drained, and it stays drained.                  *)
ShutdownDrains ==
    (\E w \in Workers : pc[w] = "exited") => compile_task_queue = <<>>

(* Where the abstract service sees the request of session s.               *)
Held(s, labels) ==
    \E w \in Workers : compile_task[w] = s /\ pc[w] \in labels

InQueue(s, invalidated) ==
    \E i \in DOMAIN compile_task_queue :
        compile_task_queue[i] = [session |-> s, invalidated |-> invalidated]

JobOf(s) ==
    IF s \notin requested THEN "none"
    ELSE IF s \in published THEN "published"
    ELSE IF Held(s, Busy) THEN "running"
    ELSE IF Held(s, Finishing) THEN "finished"
    ELSE IF InQueue(s, FALSE) THEN "queued"
    ELSE IF InQueue(s, TRUE) THEN "cancelled"
    ELSE "dropped"

(* The pool keeps the contract the sessions rely on: every step of the     *)
(* threads is a step of CompileService or leaves it unchanged.             *)
jobMap == [s \in Sessions |-> JobOf(s)]

CS == INSTANCE CompileService WITH job <- jobMap

ImplementsCompileService == CS!Spec

(* Every request that is neither invalidated nor one of those that hang    *)
(* the compiler has its result published, though Verbose requests occupy   *)
(* workers for ever, as long as they cannot occupy all of them.            *)
EveryRequestServed ==
    \A s \in Sessions \ Verbose :
        s \in requested ~> (s \in published \/ JobOf(s) \in {"cancelled", "dropped"})

(* ~CompilerManager returns from its joins unless a compiler hangs.        *)
DestructorReturns ==
    stop_threads ~> (dtor = "joined"
                     \/ \E w \in Workers : compile_task[w] \in Verbose)

(* The strengthening that makes the invariants above inductive.            *)
StopMatchesDestructor == stop_threads <=> dtor # "alive"

ExitedAfterStop == \A w \in Workers : pc[w] = "exited" => stop_threads

TaskHeld ==
    \A w \in Workers : compile_task[w] \in Sessions <=> pc[w] \in Busy \cup Finishing

ReleaseReportsFreeJob ==
    \A w \in Workers : pc[w] = "release_store" => loaded[w] >= 1

ZeroIsTransient ==
    available_jobs = 0 =>
        \E w \in Workers :
            pc[w] \in {"compiling", "notify", "release", "release_store"}

PoolInv ==
    /\ TypeOK /\ SlotAccounting /\ NoLostWakeup /\ ShutdownDrains
    /\ StopMatchesDestructor /\ ExitedAfterStop /\ TaskHeld
    /\ ReleaseReportsFreeJob /\ ZeroIsTransient

(* A session's only request is in one place: the queue, a worker's hands,  *)
(* or (published) nowhere. The refinement of CompileService rests on it.   *)
PlaceInv ==
    /\ published \subseteq requested
    /\ \A i, j \in DOMAIN compile_task_queue :
          compile_task_queue[i].session = compile_task_queue[j].session => i = j
    /\ \A i \in DOMAIN compile_task_queue :
          /\ compile_task_queue[i].session \in requested \ published
          /\ \A w \in Workers : compile_task[w] # compile_task_queue[i].session
    /\ \A w \in Workers : compile_task[w] \in Sessions =>
          /\ compile_task[w] \in requested \ published
          /\ \A v \in Workers : compile_task[v] = compile_task[w] => v = w
=============================================================================
