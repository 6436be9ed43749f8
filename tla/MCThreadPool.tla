---------------------------- MODULE MCThreadPool ----------------------------
(***************************************************************************)
(* An instance of ThreadPool for TLC: two workers, so that batches are of  *)
(* two.  The client c1 is a HoleSynth with a batch and a half of work      *)
(* items; the client c2 is an EvolutionarySearch with one task, which it   *)
(* may give up on.  One task of each submits a task of its own and waits   *)
(* for it, the least work with which every worker can be waiting for a     *)
(* nested task at the same time.                                           *)
(***************************************************************************)
EXTENDS ThreadPool

CONSTANTS c1, c2, outer1, outer2, inner1, inner2, plain, last

NestedProgram ==
  [j \in {c1, c2, outer1, outer2, inner1, inner2, plain, last} |->
     CASE j = c1     -> <<outer1, plain, last>>
       [] j = c2     -> <<outer2>>
       [] j = outer1 -> <<inner1>>
       [] j = outer2 -> <<inner2>>
       [] OTHER      -> <<>>]

=============================================================================
