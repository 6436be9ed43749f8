----------------------------- MODULE ThreadPool -----------------------------
(***************************************************************************)
(* clunk::search::ThreadPool (include/clunk/Search/ThreadPool.h).          *)
(*                                                                         *)
(* A fixed set of worker threads drains one FIFO of packaged tasks that a  *)
(* mutex and a condition variable protect.  A thread that has submitted    *)
(* tasks waits for their futures with run_until(), which pops and runs     *)
(* queued tasks on the waiting thread (work stealing), so a task may run   *)
(* on top of another one on the same thread's call stack, and a task may   *)
(* itself submit tasks and wait for them.  The destructor raises           *)
(* `shutdown', wakes every worker and joins them.                          *)
(*                                                                         *)
(* The pool has two users.  HoleSynth submits its work items, which refer  *)
(* to its stack frame, in batches of the number of workers, waits for each *)
(* batch with run_until() and may leave between two batches when its time  *)
(* is up.  EvolutionarySearch submits a whole population, waits with get() *)
(* and drops its futures when its time is up.                              *)
(*                                                                         *)
(* A critical section of the mutex is one step; what the code does after   *)
(* it unlocks (notify_one, notify_all, running the task) is a later step.  *)
(***************************************************************************)
EXTENDS Naturals, Sequences, FiniteSets

CONSTANTS Workers,      \* the threads created by the constructor
          Clients,      \* threads outside the pool that submit to it
          Tasks,        \* the packaged tasks
          Program,      \* what a client, or a running task, submits, in order
          MayAbandon    \* the clients that are an EvolutionarySearch

Threads == Workers \cup Clients
Jobs    == Tasks \cup Clients     \* what a stack frame executes

(***************************************************************************)
(* One packaged_task comes from one submit() call: no task occurs twice in *)
(* the programs.                                                           *)
(***************************************************************************)
ASSUME PoolAssumption ==
  /\ Workers # {}
  /\ IsFiniteSet(Workers) /\ IsFiniteSet(Clients)
  /\ Workers \cap Clients = {} /\ Tasks \cap Clients = {}
  /\ Program \in [Jobs -> Seq(Tasks)]
  /\ \A j, k \in Jobs : \A m \in DOMAIN Program[j], n \in DOMAIN Program[k] :
       Program[j][m] = Program[k][n] => j = k /\ m = n
  /\ MayAbandon \subseteq Clients

VARIABLES
  queue,      \* tasks_: the FIFO of tasks not yet taken
  shutdown,   \* shutdown_
  future,     \* state of the task and its future's shared state
  stack,      \* per thread, the jobs on its call stack, innermost first
  sent,       \* per job, how many tasks of its program it has submitted
  joined,     \* per job, how many of their futures it has waited for
  pc,         \* per thread, where it stands
  dtor        \* progress of ~ThreadPool on the owning thread

vars == <<queue, shutdown, future, stack, sent, joined, pc, dtor>>

(***************************************************************************)
(* "idle"    worker about to lock the mutex in worker_loop                 *)
(* "asleep"  worker blocked in cv_.wait                                    *)
(* "run"     executing the job on top of its stack                         *)
(* "notify"  in submit(), after the unlock and before cv_.notify_one       *)
(* "help"    in run_until(), the future was found not ready                *)
(* "exited"  returned from worker_loop, or a client that has finished      *)
(***************************************************************************)
PCs == {"idle", "asleep", "run", "notify", "help", "exited"}

\* wait_for(0) finds the future ready: it holds a value or a broken promise.
Ready(k) == future[k] \in {"done", "broken"}

Top(t)        == Head(stack[t])
NextToSend(j) == Program[j][sent[j] + 1]
NextToJoin(j) == Program[j][joined[j] + 1]
AllSent(j)    == sent[j] = Len(Program[j])
AllJoined(j)  == joined[j] = sent[j]

\* A batch is as large as there are workers, a population is one batch.
InBatch(j)    == j \in MayAbandon \/ sent[j] % Cardinality(Workers) # 0

\* The next batch is begun when all futures of the last are joined.
Submitting(j) == ~AllSent(j) /\ (AllJoined(j) \/ InBatch(j))

Init ==
  /\ queue = <<>>
  /\ shutdown = FALSE
  /\ future = [k \in Tasks |-> "new"]
  /\ stack = [t \in Threads |-> IF t \in Clients THEN <<t>> ELSE <<>>]
  /\ sent = [j \in Jobs |-> 0]
  /\ joined = [j \in Jobs |-> 0]
  /\ pc = [t \in Threads |-> IF t \in Clients THEN "run" ELSE "idle"]
  /\ dtor = "alive"

-----------------------------------------------------------------------------
(* submit() *)

Enqueue(t) ==
  /\ pc[t] = "run"
  /\ Submitting(Top(t))
  /\ ~shutdown
  /\ LET k == NextToSend(Top(t)) IN
       /\ queue' = Append(queue, k)
       /\ future' = [future EXCEPT ![k] = "queued"]
  /\ sent' = [sent EXCEPT ![Top(t)] = @ + 1]
  /\ pc' = [pc EXCEPT ![t] = "notify"]
  /\ UNCHANGED <<shutdown, stack, joined, dtor>>

\* shutdown_ is set: submit() returns without queueing; the last reference to
\* the packaged_task goes away, which stores a broken promise in the future.
Refuse(t) ==
  /\ pc[t] = "run"
  /\ Submitting(Top(t))
  /\ shutdown
  /\ future' = [future EXCEPT ![NextToSend(Top(t))] = "broken"]
  /\ sent' = [sent EXCEPT ![Top(t)] = @ + 1]
  /\ UNCHANGED <<queue, shutdown, stack, joined, pc, dtor>>

\* notify_one wakes one sleeping worker, if there is one.
NotifyOne(t) ==
  /\ pc[t] = "notify"
  /\ \/ \E w \in Workers :
          /\ pc[w] = "asleep"
          /\ pc' = [pc EXCEPT ![t] = "run", ![w] = "idle"]
     \/ /\ \A w \in Workers : pc[w] # "asleep"
        /\ pc' = [pc EXCEPT ![t] = "run"]
  /\ UNCHANGED <<queue, shutdown, future, stack, sent, joined, dtor>>

-----------------------------------------------------------------------------
(* Taking the task at the front of the queue and calling it *)

\* Mutant: the front is copied under one lock and popped under none.
StartFront_NoPop(t) ==
  /\ queue # <<>>
  /\ future' = [future EXCEPT ![Head(queue)] = "running"]
  /\ stack' = [stack EXCEPT ![t] = <<Head(queue)>> \o @]
  /\ pc' = [pc EXCEPT ![t] = "run"]
  /\ UNCHANGED <<queue, shutdown, sent, joined, dtor>>

\* Mutant: the newest task is taken first.
StartFront_Newest(t) ==
  /\ queue # <<>>
  /\ queue' = SubSeq(queue, 1, Len(queue) - 1)
  /\ future' = [future EXCEPT ![queue[Len(queue)]] = "running"]
  /\ stack' = [stack EXCEPT ![t] = <<queue[Len(queue)]>> \o @]
  /\ pc' = [pc EXCEPT ![t] = "run"]
  /\ UNCHANGED <<shutdown, sent, joined, dtor>>

StartFront(t) ==
  /\ queue # <<>>
  /\ queue' = Tail(queue)
  /\ future' = [future EXCEPT ![Head(queue)] = "running"]
  /\ stack' = [stack EXCEPT ![t] = <<Head(queue)>> \o @]
  /\ pc' = [pc EXCEPT ![t] = "run"]
  /\ UNCHANGED <<shutdown, sent, joined, dtor>>

\* Mutant: a thread whose stack empties always goes back to worker_loop.
Return_ToLoop(t) ==
  /\ future' = IF Top(t) \in Tasks THEN [future EXCEPT ![Top(t)] = "done"] ELSE future
  /\ stack' = [stack EXCEPT ![t] = Tail(@)]
  /\ pc' = [pc EXCEPT ![t] = IF Tail(stack[t]) = <<>> THEN "idle" ELSE "run"]
  /\ UNCHANGED <<queue, shutdown, sent, joined, dtor>>

\* The job on top returns: a task fulfils its future, a client is finished.
Return(t) ==
  LET j == Top(t) IN
  /\ future' = IF j \in Tasks THEN [future EXCEPT ![j] = "done"] ELSE future
  /\ stack' = [stack EXCEPT ![t] = Tail(@)]
  /\ pc' = [pc EXCEPT ![t] = IF j \in Clients THEN "exited"
                             ELSE IF Tail(stack[t]) = <<>> THEN "idle"
                             ELSE "run"]
  /\ UNCHANGED <<queue, shutdown, sent, joined, dtor>>

\* Mutant: the submitter returns without run_until() on its futures.
Finish_NoWait(t) ==
  pc[t] = "run" /\ AllSent(Top(t)) /\ Return(t)

Finish(t) ==
  /\ pc[t] = "run"
  /\ AllSent(Top(t)) /\ AllJoined(Top(t))
  /\ Return(t)

\* The time is up before the next batch is submitted (HoleSynth).
StopEarly(t) ==
  /\ pc[t] = "run"
  /\ ~AllSent(Top(t)) /\ AllJoined(Top(t)) /\ Top(t) \notin MayAbandon
  /\ Return(t)

\* The time is up before the next future is waited for
\* (EvolutionarySearch::evaluate_population_parallel).
Abandon(t) ==
  /\ pc[t] = "run"
  /\ Top(t) \in MayAbandon
  /\ AllSent(Top(t)) /\ ~AllJoined(Top(t))
  /\ Return(t)

-----------------------------------------------------------------------------
(* run_until(): poll the future; if it is not ready, run one queued task.   *)
(* A search that may give up waits with get() instead, which only blocks.   *)

Await(t) ==
  /\ pc[t] = "run"
  /\ ~Submitting(Top(t)) /\ ~AllJoined(Top(t))
  /\ \/ /\ Ready(NextToJoin(Top(t)))
        /\ joined' = [joined EXCEPT ![Top(t)] = @ + 1]
        /\ UNCHANGED pc
     \/ /\ ~Ready(NextToJoin(Top(t))) /\ Top(t) \notin MayAbandon
        /\ pc' = [pc EXCEPT ![t] = "help"]
        /\ UNCHANGED joined
  /\ UNCHANGED <<queue, shutdown, future, stack, sent, dtor>>

\* Mutant: run_until() only sleeps and polls.
Steal_SleepOnly(t) ==
  /\ pc[t] = "help"
  /\ pc' = [pc EXCEPT ![t] = "run"]
  /\ UNCHANGED <<queue, shutdown, future, stack, sent, joined, dtor>>

Steal(t) == pc[t] = "help" /\ StartFront(t)

\* Nothing to steal: wait_for(1ms), then look at the future again.
Poll(t) ==
  /\ pc[t] = "help"
  /\ queue = <<>>
  /\ pc' = [pc EXCEPT ![t] = "run"]
  /\ UNCHANGED <<queue, shutdown, future, stack, sent, joined, dtor>>

-----------------------------------------------------------------------------
(* worker_loop() *)

Take(w) == pc[w] = "idle" /\ StartFront(w)

Sleep(w) ==
  /\ pc[w] = "idle"
  /\ queue = <<>> /\ ~shutdown
  /\ pc' = [pc EXCEPT ![w] = "asleep"]
  /\ UNCHANGED <<queue, shutdown, future, stack, sent, joined, dtor>>

\* Mutant: a worker leaves as soon as it sees shutdown_.
Exit_Eager(w) ==
  /\ pc[w] = "idle" /\ shutdown
  /\ pc' = [pc EXCEPT ![w] = "exited"]
  /\ UNCHANGED <<queue, shutdown, future, stack, sent, joined, dtor>>

Exit(w) ==
  /\ pc[w] = "idle"
  /\ queue = <<>> /\ shutdown
  /\ pc' = [pc EXCEPT ![w] = "exited"]
  /\ UNCHANGED <<queue, shutdown, future, stack, sent, joined, dtor>>

\* A condition variable may wake a waiter for no reason.
SpuriousWakeup(w) ==
  /\ pc[w] = "asleep"
  /\ pc' = [pc EXCEPT ![w] = "idle"]
  /\ UNCHANGED <<queue, shutdown, future, stack, sent, joined, dtor>>

-----------------------------------------------------------------------------
(* ~ThreadPool(): no client may still use the pool when its owner destroys it *)

RaiseShutdown ==
  /\ dtor = "alive"
  /\ \A c \in Clients : pc[c] = "exited"
  /\ shutdown' = TRUE
  /\ dtor' = "notify"
  /\ UNCHANGED <<queue, future, stack, sent, joined, pc>>

NotifyAll ==
  /\ dtor = "notify"
  /\ pc' = [t \in Threads |-> IF pc[t] = "asleep" THEN "idle" ELSE pc[t]]
  /\ dtor' = "joining"
  /\ UNCHANGED <<queue, shutdown, future, stack, sent, joined>>

JoinAll ==
  /\ dtor = "joining"
  /\ \A w \in Workers : pc[w] = "exited"
  /\ dtor' = "gone"
  /\ UNCHANGED <<queue, shutdown, future, stack, sent, joined, pc>>

Destroyed == dtor = "gone" /\ UNCHANGED vars

-----------------------------------------------------------------------------
Proceed(t)    == \/ Enqueue(t) \/ Refuse(t) \/ NotifyOne(t) \/ Finish(t)
                 \/ StopEarly(t) \/ Await(t) \/ Steal(t) \/ Poll(t)
JobStep(t)    == Proceed(t) \/ Abandon(t)
WorkerStep(w) == Take(w) \/ Sleep(w) \/ Exit(w)
DtorStep      == RaiseShutdown \/ NotifyAll \/ JoinAll

Next == \/ \E t \in Threads : JobStep(t)
        \/ \E w \in Workers : WorkerStep(w) \/ SpuriousWakeup(w)
        \/ DtorStep
        \/ Destroyed

Spec == Init /\ [][Next]_vars

\* The operating system schedules every thread that can run; wakeups without
\* a notification, and giving up on futures, are never owed to anybody.
FairSpec ==
  /\ Spec
  /\ \A t \in Threads : WF_vars(Proceed(t))
  /\ \A w \in Workers : WF_vars(WorkerStep(w))
  /\ WF_vars(DtorStep)

-----------------------------------------------------------------------------
TypeOK ==
  /\ queue \in Seq(Tasks)
  /\ shutdown \in BOOLEAN
  /\ future \in [Tasks -> {"new", "queued", "running", "done", "broken"}]
  /\ stack \in [Threads -> Seq(Jobs)]
  /\ sent \in [Jobs -> Nat]
  /\ joined \in [Jobs -> Nat]
  /\ pc \in [Threads -> PCs]
  /\ dtor \in {"alive", "notify", "joining", "gone"}
  /\ \A t \in Threads :
       pc[t] \in {"run", "notify", "help"} <=> stack[t] # <<>>
  /\ \A c \in Clients : pc[c] \notin {"idle", "asleep"}

(***************************************************************************)
(* No task is lost and none runs twice: a queued task is at exactly one    *)
(* place of the queue, a running task is one frame of one thread's stack,  *)
(* and a task in any other state is in neither (submit, try_run_one and    *)
(* worker_loop race for the same queue).                                   *)
(***************************************************************************)
QueueExact ==
  /\ \A i \in DOMAIN queue : future[queue[i]] = "queued"
  /\ \A i, k \in DOMAIN queue : queue[i] = queue[k] => i = k
  /\ \A k \in Tasks : future[k] = "queued" => \E i \in DOMAIN queue : queue[i] = k

StackExact ==
  /\ \A t \in Threads : \A i \in DOMAIN stack[t] :
       stack[t][i] \in Tasks => future[stack[t][i]] = "running"
  /\ \A t, u \in Threads : \A i \in DOMAIN stack[t], k \in DOMAIN stack[u] :
       stack[t][i] = stack[u][k] => t = u /\ i = k
  /\ \A k \in Tasks : future[k] = "running" =>
       \E t \in Threads : \E i \in DOMAIN stack[t] : stack[t][i] = k

NoTaskLostOrRunTwice == QueueExact /\ StackExact

(***************************************************************************)
(* When the destructor returns, every task that submit() accepted has run  *)
(* to its end, the abandoned ones included: nothing that a task refers to  *)
(* can be touched after the pool is gone.  The header promises less:       *)
(* "Pending tasks are NOT guaranteed to run; callers that need completion  *)
(* must wait on their futures before the pool destructs" (ThreadPool.h:    *)
(* 31-32).  worker_loop leaves only with an empty queue (204), so the code *)
(* drains it.                                                              *)
(***************************************************************************)
DestroyedMeansDrained ==
  dtor = "gone" => \A k \in Tasks : future[k] \in {"new", "done", "broken"}

\* The job's own frame is gone.
Returned(j) == IF j \in Tasks THEN future[j] = "done" ELSE pc[j] = "exited"

(***************************************************************************)
(* A job that waits with run_until(), a client of the pool or a task that  *)
(* runs on it, returns only after every task that it submitted has         *)
(* settled, also when its time is up between two batches: the references   *)
(* to its stack frame that HoleSynth's work items capture (HoleSynth.cpp:  *)
(* 733, 867-874) never outlive it.                                         *)
(***************************************************************************)
ScopedTasksSettled ==
  \A j \in Jobs \ MayAbandon : Returned(j) =>
    \A i \in 1..sent[j] : Ready(Program[j][i])

(***************************************************************************)
(* What the pool promises to its users, whoever runs the tasks: see        *)
(* TaskExecutor.  The future's states "done" and "broken" are the          *)
(* executor's completed and rejected tasks.                                *)
(***************************************************************************)
Executor == INSTANCE TaskExecutor WITH
  pending   <- queue,
  running   <- {k \in Tasks : future[k] = "running"},
  completed <- {k \in Tasks : future[k] = "done"},
  rejected  <- {k \in Tasks : future[k] = "broken"},
  closed    <- shutdown,
  retired   <- dtor = "gone"

ImplementsExecutor == Executor!Spec

\* run_until() always returns: threads that wait for nested tasks never end
\* up waiting for each other, and the destructor's join terminates.
PoolEventuallyGone == <>(dtor = "gone")

=============================================================================
