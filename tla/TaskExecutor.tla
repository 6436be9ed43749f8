---------------------------- MODULE TaskExecutor ----------------------------
(***************************************************************************)
(* What clunk::search::ThreadPool promises (the class comment and the      *)
(* comments of submit() and ~ThreadPool in Search/ThreadPool.h), without   *)
(* threads, locks or call stacks: accepted tasks start in the order of     *)
(* their acceptance, each once; a task that has started completes; once    *)
(* closed the executor rejects new tasks, and it retires only when nothing *)
(* it accepted is left.                                                    *)
(***************************************************************************)
EXTENDS Sequences

CONSTANT Tasks

VARIABLES pending,     \* accepted tasks that have not started, in order
          running,     \* started and not completed
          completed,
          rejected,
          closed,
          retired

evars == <<pending, running, completed, rejected, closed, retired>>

Started == running \cup completed
Unknown(k) == k \notin Started \cup rejected /\ \A i \in DOMAIN pending : pending[i] # k

Init ==
  /\ pending = <<>>
  /\ running = {} /\ completed = {} /\ rejected = {}
  /\ closed = FALSE /\ retired = FALSE

Accept(k) ==
  /\ ~closed /\ Unknown(k)
  /\ pending' = Append(pending, k)
  /\ UNCHANGED <<running, completed, rejected, closed, retired>>

Reject(k) ==
  /\ closed /\ Unknown(k)
  /\ rejected' = rejected \cup {k}
  /\ UNCHANGED <<pending, running, completed, closed, retired>>

Start ==
  /\ pending # <<>>
  /\ pending' = Tail(pending)
  /\ running' = running \cup {Head(pending)}
  /\ UNCHANGED <<completed, rejected, closed, retired>>

Complete(k) ==
  /\ k \in running
  /\ running' = running \ {k}
  /\ completed' = completed \cup {k}
  /\ UNCHANGED <<pending, rejected, closed, retired>>

Close ==
  /\ ~closed
  /\ closed' = TRUE
  /\ UNCHANGED <<pending, running, completed, rejected, retired>>

Retire ==
  /\ closed /\ ~retired
  /\ pending = <<>> /\ running = {}
  /\ retired' = TRUE
  /\ UNCHANGED <<pending, running, completed, rejected, closed>>

Next == \/ \E k \in Tasks : Accept(k) \/ Reject(k) \/ Complete(k)
        \/ Start \/ Close \/ Retire

SafeSpec == Init /\ [][Next]_evars

Spec == SafeSpec /\ WF_evars(Start) /\ \A k \in Tasks : WF_evars(Complete(k))

=============================================================================
