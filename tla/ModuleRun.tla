----------------------------- MODULE ModuleRun ------------------------------
(***************************************************************************)
(* Pipeline::run (src/Pipeline.cpp) after its module-level pre-passes: the *)
(* functions of a module, sorted callees first, are handed out to worker   *)
(* threads through an atomic index; each worker inlines callees, refines   *)
(* its function (FunctionRefiner is that part in detail) and reports       *)
(* progress to a user interface (src/cli/tui.cpp, TUI::handle_event).      *)
(*                                                                         *)
(* A full event is filled with the module's counters first and delivered   *)
(* under progress_mutex_ afterwards, so another worker's events may come   *)
(* between; a minimal event (report_progress) carries no counters.         *)
(***************************************************************************)
EXTENDS Naturals, FiniteSets, Sequences

CONSTANTS RunWorkers,   \* dedicated workers; one stands for the sequential loop
          Order,        \* fns: the functions in the order of processing
          Declarations, \* functions without a body
          TooLarge,     \* functions above the limits that are passed through
          HasBudget,    \* time_budget > 0
          CleansUp,     \* enable_multiblock_inliner && opt_level >= 2
          MayCycle      \* functions that inlining may leave with a chain of
                        \* branches into a cycle of branches (BlockMerge)

MaxCleanups == 3        \* cleanup_round < 3

N         == Len(Order)
Indices   == 1..N
ModuleFunctions == {Order[i] : i \in Indices}

ASSUME RunAssumption ==
  /\ RunWorkers # {} /\ IsFiniteSet(RunWorkers)
  /\ Order \in Seq(ModuleFunctions) /\ N > 0
  /\ \A i, j \in Indices : Order[i] = Order[j] => i = j
  /\ Declarations \subseteq ModuleFunctions /\ TooLarge \subseteq ModuleFunctions
  /\ {HasBudget, CleansUp} \subseteq BOOLEAN
  /\ MayCycle \subseteq ModuleFunctions

VARIABLES
  next,       \* the atomic index; next = i + 1 once index i is handed out
  pc,         \* per worker, where it stands in process()
  item,       \* per worker, the index it was handed
  event,      \* per worker, the full event that it filled last
  results,    \* fn_results
  doneCount,  \* module_done_functions_
  expired,    \* remaining_seconds() <= 0
  callerAt,   \* where the thread that called run() stands, one of Places
  toClean,    \* functions whose blocks the clean-up round has still to merge
  cleanups,   \* cleanup_round + 1 once the clean-up has begun
  rows,       \* the interface's row of each function
  total,      \* module_total_functions as the interface knows it
  shownDone   \* module_done_functions as the interface knows it

ui      == <<rows, total, shownDone>>
closing == <<callerAt, toClean, cleanups>>
runVars == <<next, pc, item, event, results, doneCount, expired, closing, ui>>

\* The workers are joined before "assembled"; the last two are final, the very
\* last in a merging of blocks that does not end.
Places == {"running", "assembled", "cleaning", "cleaned", "returned", "spinning"}

PCs == {"pull", "announce", "fillStart", "start", "budget", "inline", "enter",
        "restart", "patterns", "refine", "skip", "done", "last", "store", "exited"}
Stages   == {"start", "round", "done", "skip"}
Outcomes == {"none", "unchanged", "refined"}
NoEvent  == [stage |-> "none", total |-> 0, done |-> 0]

\* Positions in process() after module_done_functions_ was incremented.
Counted == {"skip", "done", "last", "store"}

Fn(w) == Order[item[w]]

RunInit ==
  /\ next = 1
  /\ pc = [w \in RunWorkers |-> "pull"]
  /\ item = [w \in RunWorkers |-> 0]
  /\ event = [w \in RunWorkers |-> NoEvent]
  /\ results = [i \in Indices |-> "none"]
  /\ doneCount = 0
  /\ expired = FALSE
  /\ callerAt = "running"
  /\ toClean = {} /\ cleanups = 0
  /\ rows = [f \in ModuleFunctions |-> "absent"]
  /\ total = 0 /\ shownDone = 0

GoTo(w, place) == pc' = [pc EXCEPT ![w] = place]

-----------------------------------------------------------------------------
(* Events *)

\* Mutant: a new row's index is taken to be the first one's.
Show_FirstRow(f, stage) ==
  rows' = [rows EXCEPT ![Order[1]] =
             IF stage \in {"start", "done", "skip"} \/ @ \notin {"done", "skip"}
               THEN stage ELSE @]

\* TUI::handle_event for an event with a function's row: done and skip are
\* always shown, and so is start; other stages do not replace done or skip.
Show(f, stage) ==
  rows' = [rows EXCEPT ![f] =
             IF stage \in {"start", "done", "skip"} \/ @ \notin {"done", "skip"}
               THEN stage ELSE @]

\* fill_module_progress: the counters as they are now.
Fill(w, stage) ==
  event' = [event EXCEPT ![w] = [stage |-> stage, total |-> N, done |-> doneCount]]

Deliver(w) ==
  /\ Show(Fn(w), event[w].stage)
  /\ total' = event[w].total
  /\ shownDone' = event[w].done

\* report_progress: the counters of a minimal event are the defaults.
DeliverMinimal ==
  total' = 0 /\ shownDone' = 0

-----------------------------------------------------------------------------
(* The worker loop *)

\* Mutant: off by one in the test for the end.
Pull_PastEnd(w) ==
  /\ pc[w] = "pull" /\ next <= N + 1
  /\ item' = [item EXCEPT ![w] = next]
  /\ next' = next + 1
  /\ GoTo(w, "announce")
  /\ UNCHANGED <<event, results, doneCount, expired, closing, ui>>

Pull(w) ==
  /\ pc[w] = "pull" /\ next <= N
  /\ item' = [item EXCEPT ![w] = next]
  /\ next' = next + 1
  /\ GoTo(w, "announce")
  /\ UNCHANGED <<event, results, doneCount, expired, closing, ui>>

\* Once the index is past the end its value no longer matters.
Leave(w) ==
  /\ pc[w] = "pull" /\ next > N
  /\ GoTo(w, "exited")
  /\ UNCHANGED <<next, item, event, results, doneCount, expired, closing, ui>>

\* report_progress("pipeline", ...): no row.
Announce(w) ==
  /\ pc[w] = "announce"
  /\ DeliverMinimal
  /\ GoTo(w, "fillStart")
  /\ UNCHANGED <<next, item, event, results, doneCount, expired, closing, rows>>

FillStart(w) ==
  /\ pc[w] = "fillStart"
  /\ Fill(w, "start")
  /\ GoTo(w, "start")
  /\ UNCHANGED <<next, item, results, doneCount, expired, closing, ui>>

DeliverStart(w) ==
  /\ pc[w] = "start"
  /\ Deliver(w)
  /\ GoTo(w, "budget")
  /\ UNCHANGED <<next, item, event, results, doneCount, expired, closing>>

\* The function is passed through unchanged: count it, then tell.
PassThrough(w) ==
  /\ doneCount' = doneCount + 1
  /\ GoTo(w, "skip")
  /\ UNCHANGED <<next, item, event, results, expired, closing, ui>>

\* The wall-clock budget is exhausted.
SkipOutOfTime(w) == pc[w] = "budget" /\ HasBudget /\ expired /\ PassThrough(w)

HasTime(w) ==
  /\ pc[w] = "budget" /\ ~(HasBudget /\ expired)
  /\ GoTo(w, "inline")
  /\ UNCHANGED <<next, item, event, results, doneCount, expired, closing, ui>>

\* inline_calls reads the callees' bodies in the work module.
Inline(w) ==
  /\ pc[w] = "inline"
  /\ GoTo(w, "enter")
  /\ UNCHANGED <<next, item, event, results, doneCount, expired, closing, ui>>

\* run_on_function: no body, or too large for the search.
SkipUnsearchable(w) ==
  /\ pc[w] = "enter"
  /\ Fn(w) \in Declarations \cup TooLarge
  /\ PassThrough(w)

\* run_on_function fires a start event of its own.
Enter(w) ==
  /\ pc[w] = "enter"
  /\ Fn(w) \notin Declarations \cup TooLarge
  /\ Fill(w, "start")
  /\ GoTo(w, "restart")
  /\ UNCHANGED <<next, item, results, doneCount, expired, closing, ui>>

DeliverRestart(w) ==
  /\ pc[w] = "restart"
  /\ Deliver(w)
  /\ GoTo(w, "patterns")
  /\ UNCHANGED <<next, item, event, results, doneCount, expired, closing>>

\* A minimal event with a row; "round" stands for every stage in between.
ReportStage(w) ==
  /\ Show(Fn(w), "round")
  /\ DeliverMinimal
  /\ UNCHANGED <<next, item, event, results, doneCount, expired, closing>>

\* report_progress("patterns", ...), then those of the rounds.
ReportPatterns(w) == pc[w] = "patterns" /\ ReportStage(w) /\ GoTo(w, "refine")

Refining(w) == pc[w] = "refine" /\ event[w].stage # "round"

ReportRound(w) == Refining(w) /\ ReportStage(w) /\ UNCHANGED pc

\* A full event for an adopted improvement.
FillAdopted(w) ==
  /\ Refining(w)
  /\ Fill(w, "round")
  /\ UNCHANGED <<next, pc, item, results, doneCount, expired, closing, ui>>

DeliverAdopted(w) ==
  /\ pc[w] = "refine" /\ event[w].stage = "round"
  /\ Deliver(w)
  /\ event' = [event EXCEPT ![w] = NoEvent]
  /\ UNCHANGED <<next, pc, item, results, doneCount, expired, closing>>

\* Mutant: the counter is not advanced for a function that was searched.
Refined_NotCounted(w) ==
  /\ Refining(w)
  /\ GoTo(w, "done")
  /\ UNCHANGED <<next, item, event, results, doneCount, expired, closing, ui>>

Refined(w) ==
  /\ Refining(w)
  /\ doneCount' = doneCount + 1
  /\ GoTo(w, "done")
  /\ UNCHANGED <<next, item, event, results, expired, closing, ui>>

\* The counters are read after the increment, not with it.
FillFinal(w) ==
  /\ pc[w] \in {"skip", "done"}
  /\ Fill(w, pc[w])
  /\ GoTo(w, "last")
  /\ UNCHANGED <<next, item, results, doneCount, expired, closing, ui>>

DeliverFinal(w) ==
  /\ pc[w] = "last"
  /\ Deliver(w)
  /\ GoTo(w, "store")
  /\ UNCHANGED <<next, item, event, results, doneCount, expired, closing>>

\* fn_results[i] is assigned after the last event of the function.
StoreResult(w) ==
  /\ pc[w] = "store"
  /\ results' = [results EXCEPT ![item[w]] =
                   IF event[w].stage = "done" THEN "refined" ELSE "unchanged"]
  /\ event' = [event EXCEPT ![w] = NoEvent]
  /\ GoTo(w, "pull")
  /\ UNCHANGED <<next, item, doneCount, expired, closing, ui>>

-----------------------------------------------------------------------------
(* The thread that called run() *)

\* Joins the workers, then copies fn_results into the output module.
JoinAndAssemble ==
  /\ callerAt = "running"
  /\ \A w \in RunWorkers : pc[w] = "exited"
  /\ callerAt' = "assembled"
  /\ UNCHANGED <<next, pc, item, event, results, doneCount, expired, toClean, cleanups, ui>>

\* Once more calls are inlined, blocks merged and constants folded, in the
\* output module; the deadline is not consulted.
NeedsCleanup == CleansUp /\ N > 1
Defined      == ModuleFunctions \ Declarations

StartCleanup ==
  /\ callerAt = "assembled" /\ NeedsCleanup
  /\ callerAt' = "cleaning"
  /\ toClean' = Defined
  /\ cleanups' = 1
  /\ UNCHANGED <<next, pc, item, event, results, doneCount, expired, ui>>

\* One function's blocks are merged and its constants folded (BlockMerge).  Of
\* a function that a round's DFE removed nothing is left to do: the step is
\* none.
CleanFunction(f) ==
  /\ callerAt = "cleaning" /\ f \in toClean
  /\ toClean' = toClean \ {f}
  /\ UNCHANGED <<next, pc, item, event, results, doneCount, expired, callerAt, cleanups, ui>>

\* The resolution of merge_map follows a cycle of branches for ever.
MergeForever ==
  /\ callerAt = "cleaning" /\ toClean \cap MayCycle # {}
  /\ callerAt' = "spinning"
  /\ UNCHANGED <<next, pc, item, event, results, doneCount, expired, toClean, cleanups, ui>>

\* any_change: another round.
CleanAgain ==
  /\ callerAt = "cleaning" /\ toClean = {} /\ cleanups < MaxCleanups
  /\ cleanups' = cleanups + 1
  /\ toClean' = Defined
  /\ UNCHANGED <<next, pc, item, event, results, doneCount, expired, callerAt, ui>>

CleanupDone ==
  /\ callerAt = "cleaning" /\ toClean = {}
  /\ callerAt' = "cleaned"
  /\ UNCHANGED <<next, pc, item, event, results, doneCount, expired, toClean, cleanups, ui>>

\* report_progress("pipeline", "done", 1.0).
ReturnResult ==
  /\ \/ callerAt = "cleaned"
     \/ callerAt = "assembled" /\ ~NeedsCleanup
  /\ DeliverMinimal
  /\ callerAt' = "returned"
  /\ UNCHANGED <<next, pc, item, event, results, doneCount, expired, toClean, cleanups, rows>>

\* The deadline passes at any moment.
Expire ==
  /\ HasBudget /\ ~expired /\ callerAt = "running"
  /\ expired' = TRUE
  /\ UNCHANGED <<next, pc, item, event, results, doneCount, closing, ui>>

\* The thread has returned, or never will.
Ended == callerAt \in {"returned", "spinning"} /\ UNCHANGED runVars

-----------------------------------------------------------------------------
\* What a worker does of its own accord until it leaves the loop.
Advance(w) ==
  \/ Pull(w) \/ Leave(w) \/ Announce(w) \/ FillStart(w) \/ DeliverStart(w)
  \/ SkipOutOfTime(w) \/ HasTime(w) \/ Inline(w) \/ SkipUnsearchable(w)
  \/ Enter(w) \/ DeliverRestart(w) \/ ReportPatterns(w) \/ DeliverAdopted(w)
  \/ Refined(w) \/ FillFinal(w) \/ DeliverFinal(w) \/ StoreResult(w)

RunNext == \/ \E w \in RunWorkers : Advance(w) \/ ReportRound(w) \/ FillAdopted(w)
           \/ JoinAndAssemble \/ StartCleanup
           \/ \E f \in toClean : CleanFunction(f)
           \/ MergeForever \/ CleanAgain \/ CleanupDone
           \/ ReturnResult \/ Expire \/ Ended

RunSpec == RunInit /\ [][RunNext]_runVars

-----------------------------------------------------------------------------
RunTypeOK ==
  /\ next \in 1..(N + 1)
  /\ pc \in [RunWorkers -> PCs]
  /\ item \in [RunWorkers -> 0..N]
  /\ event \in [RunWorkers -> [stage : Stages \cup {"none"}, total : {0, N}, done : 0..N]]
  /\ results \in [Indices -> Outcomes]
  /\ doneCount \in 0..N
  /\ expired \in BOOLEAN
  /\ callerAt \in Places
  /\ toClean \subseteq Defined /\ cleanups \in 0..MaxCleanups
  /\ rows \in [ModuleFunctions -> Stages \cup {"absent"}]
  /\ total \in {0, N} /\ shownDone \in 0..N
  /\ \A w \in RunWorkers : pc[w] \notin {"pull", "exited"} => item[w] \in Indices

Busy == {w \in RunWorkers : pc[w] \notin {"pull", "exited"}}

\* An index below `next' is either in the hands of exactly one worker or has its
\* result: fn_results, which no lock protects, is written by one thread per slot.
EachFunctionOnce ==
  /\ \A v, w \in Busy : item[v] = item[w] => v = w
  /\ \A i \in Indices :
       /\ results[i] # "none" => i < next /\ \A w \in Busy : item[w] # i
       /\ i < next /\ results[i] = "none" => \E w \in Busy : item[w] = i

\* module_done_functions_ counts the functions with a result and those whose
\* last event is on its way, over the four places that advance it.
DoneCountExact ==
  doneCount = Cardinality({i \in Indices : results[i] # "none"})
              + Cardinality({w \in RunWorkers : pc[w] \in Counted})

\* By the time the output is assembled no event was lost or overtaken by an
\* older one of its function ("so the TUI doesn't leave this function stuck on
\* pending").
AssembledMeansComplete ==
  callerAt # "running" =>
    /\ doneCount = N
    /\ \A i \in Indices : results[i] # "none"
    /\ \A f \in ModuleFunctions : rows[f] \in {"done", "skip"}

(***************************************************************************)
(* Work is neither lost nor done twice, and what is reported agrees with   *)
(* what is done: every function is refined by one worker, once, the counter*)
(* is exact whichever way a function ended, and the module is assembled    *)
(* from complete results, with every row at its end.                       *)
(***************************************************************************)
ProgressExact == EachFunctionOnce /\ DoneCountExact /\ AssembledMeansComplete

(***************************************************************************)
(* handle_event's comment: "Don't let a start overwrite a done/skip".  The *)
(* handler does overwrite; that it never happens rests on the order of the *)
(* events of run().                                                        *)
(***************************************************************************)
FinishedRowsStay ==
  [][\A f \in ModuleFunctions : rows[f] \in {"done", "skip"} => rows'[f] = rows[f]]_runVars

=============================================================================
