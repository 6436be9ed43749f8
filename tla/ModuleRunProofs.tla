--------------------------- MODULE ModuleRunProofs ---------------------------
(***************************************************************************)
(* Theorems about ModuleRun, for every number of workers, every order of   *)
(* the functions, every set of functions that are passed through, and with *)
(* or without a deadline.                                                  *)
(***************************************************************************)
EXTENDS ModuleRun, FiniteSetTheorems, TLAPS

\* What is in a worker's hands was handed out.
HandedOut == \A w \in Busy : item[w] < next

\* The indices module_done_functions_ stands for: those with a result, and
\* those whose worker has advanced it and not yet stored the result.
CountedIndices ==
  {i \in Indices : \/ results[i] # "none"
                   \/ \E w \in RunWorkers : pc[w] \in Counted /\ item[w] = i}

CountAgrees == doneCount = Cardinality(CountedIndices)

\* The event a worker is about to deliver is of the stage it has reached.
EventsInOrder ==
  \A w \in RunWorkers :
    /\ pc[w] \in {"start", "restart"} => event[w].stage = "start"
    /\ pc[w] \in {"last", "store"} => event[w].stage \in {"skip", "done"}

\* A row is at its end from the last event of its function on, never before.
RowsFinal ==
  \A i \in Indices :
    rows[Order[i]] \in {"done", "skip"} <=>
      \/ results[i] # "none"
      \/ \E w \in RunWorkers : pc[w] = "store" /\ item[w] = i

\* Workers leave when nothing is left, and the caller goes on when they left.
Closing ==
  /\ \A w \in RunWorkers : pc[w] = "exited" => next > N
  /\ callerAt # "running" => \A w \in RunWorkers : pc[w] = "exited"

Inv == RunTypeOK /\ HandedOut /\ EachFunctionOnce /\ CountAgrees /\ EventsInOrder
       /\ RowsFinal /\ Closing

-----------------------------------------------------------------------------
\* The steps of a worker between taking an index and storing its result.
Process(w) ==
  \/ Announce(w) \/ FillStart(w) \/ DeliverStart(w) \/ SkipOutOfTime(w)
  \/ HasTime(w) \/ Inline(w) \/ SkipUnsearchable(w) \/ Enter(w)
  \/ DeliverRestart(w) \/ ReportPatterns(w) \/ ReportRound(w) \/ FillAdopted(w)
  \/ DeliverAdopted(w) \/ Refined(w) \/ FillFinal(w) \/ DeliverFinal(w)

Cleanup == \/ StartCleanup \/ MergeForever \/ CleanAgain \/ CleanupDone
           \/ \E f \in toClean : CleanFunction(f)

Caller == JoinAndAssemble \/ Cleanup \/ ReturnResult \/ Expire

LEMMA OrderFacts ==
  /\ N \in Nat /\ N > 0 /\ Indices \subseteq Nat
  /\ \A i \in Indices : Order[i] \in ModuleFunctions
  /\ \A i, j \in Indices : Order[i] = Order[j] => i = j
BY RunAssumption DEF N, Indices, ModuleFunctions

LEMMA StepCases ==
  ASSUME [RunNext]_runVars
  PROVE  \/ \E w \in RunWorkers : Pull(w) \/ Leave(w) \/ Process(w) \/ StoreResult(w)
         \/ Caller
         \/ UNCHANGED runVars
BY DEF RunNext, Advance, Process, Caller, Cleanup, Ended

\* The thread that called run() touches nothing of the workers', and goes on
\* only when they have left.
LEMMA CallerShape ==
  ASSUME Caller \/ UNCHANGED runVars
  PROVE  /\ UNCHANGED <<next, pc, item, event, results, doneCount, rows>>
         /\ callerAt' # "running" =>
              callerAt # "running" \/ \A w \in RunWorkers : pc[w] = "exited"
BY DEF Caller, Cleanup, JoinAndAssemble, StartCleanup, CleanFunction, MergeForever,
       CleanAgain, CleanupDone, ReturnResult, Expire, DeliverMinimal, runVars, ui, closing

LEMMA CallerType ==
  ASSUME RunTypeOK, Caller \/ UNCHANGED runVars
  PROVE  /\ expired' \in BOOLEAN /\ callerAt' \in Places
         /\ toClean' \subseteq Defined /\ cleanups' \in 0..MaxCleanups
         /\ total' \in {0, N} /\ shownDone' \in 0..N
<1> USE DEF ui, closing
<1>1. CASE Cleanup
  BY <1>1 DEF RunTypeOK, Cleanup, StartCleanup, CleanFunction, MergeForever, CleanAgain,
              CleanupDone, Places, MaxCleanups
<1>2. CASE JoinAndAssemble \/ ReturnResult \/ UNCHANGED runVars
  <2>1. expired' = expired
    BY <1>2 DEF JoinAndAssemble, ReturnResult, runVars
  <2>2. QED
    BY <1>2, <2>1, OrderFacts DEF RunTypeOK, JoinAndAssemble, ReturnResult, DeliverMinimal,
                                  Places, runVars
<1>3. CASE Expire
  BY <1>3 DEF RunTypeOK, Expire
<1>4. QED
  BY <1>1, <1>2, <1>3 DEF Caller

\* What is common to the steps of Process: a busy worker stays busy with the
\* index it has.
LEMMA ProcessShape ==
  ASSUME RunTypeOK, NEW w \in RunWorkers, Process(w)
  PROVE  /\ w \in Busy /\ item[w] \in Indices
         /\ pc' \in [RunWorkers -> PCs]
         /\ pc'[w] \notin {"pull", "exited"}
         /\ \A v \in RunWorkers \ {w} : pc'[v] = pc[v] /\ event'[v] = event[v]
         /\ UNCHANGED <<next, item, results, expired, closing, Busy>>
<1> USE DEF GoTo, ui, closing, PCs
<1>1. /\ pc[w] \notin {"pull", "exited"} /\ pc'[w] \notin {"pull", "exited"}
      /\ pc' \in [RunWorkers -> PCs]
      /\ \A v \in RunWorkers \ {w} : pc'[v] = pc[v]
  BY DEF RunTypeOK, Process, Announce, FillStart, DeliverStart, SkipOutOfTime, HasTime, Inline,
         SkipUnsearchable, Enter, DeliverRestart, ReportPatterns, ReportRound, FillAdopted,
         DeliverAdopted, Refined, FillFinal, DeliverFinal, PassThrough, Refining, ReportStage
<1>2. UNCHANGED <<next, item, results, expired, closing>>
  BY DEF Process, Announce, FillStart, DeliverStart, SkipOutOfTime, HasTime, Inline,
         SkipUnsearchable, Enter, DeliverRestart, ReportPatterns, ReportRound, FillAdopted,
         DeliverAdopted, Refined, FillFinal, DeliverFinal, PassThrough, ReportStage
<1>3. \A v \in RunWorkers \ {w} : event'[v] = event[v]
  BY DEF RunTypeOK, Process, Announce, FillStart, DeliverStart, SkipOutOfTime, HasTime, Inline,
         SkipUnsearchable, Enter, DeliverRestart, ReportPatterns, ReportRound, FillAdopted,
         DeliverAdopted, Refined, FillFinal, DeliverFinal, PassThrough, ReportStage, Fill
<1>4. Busy' = Busy
  BY <1>1 DEF Busy
<1>5. QED
  BY <1>1, <1>2, <1>3, <1>4 DEF RunTypeOK, Busy

-----------------------------------------------------------------------------
(* Every function is handled once *)

LEMMA OnceStep ==
  ASSUME RunTypeOK, HandedOut, EachFunctionOnce, [RunNext]_runVars
  PROVE  HandedOut' /\ EachFunctionOnce'
<1> USE OrderFacts DEF GoTo, ui, closing
<1>1. CASE \E w \in RunWorkers : Pull(w)
  <2>1. PICK w \in RunWorkers : Pull(w)
    BY <1>1
  <2>2. /\ next' = next + 1 /\ next \in Indices /\ results' = results
        /\ item' = [item EXCEPT ![w] = next] /\ Busy' = Busy \cup {w} /\ w \notin Busy
    BY <2>1 DEF Pull, RunTypeOK, Busy, Indices
  <2>3. QED
    BY <2>2 DEF HandedOut, EachFunctionOnce, RunTypeOK, Busy, Indices
<1>2. CASE \E w \in RunWorkers : Leave(w)
  <2>1. Busy' = Busy /\ UNCHANGED <<next, item, results>>
    BY <1>2 DEF Leave, RunTypeOK, Busy
  <2>2. QED
    BY <2>1 DEF HandedOut, EachFunctionOnce
<1>3. CASE \E w \in RunWorkers : Process(w)
  <2>1. UNCHANGED <<next, item, results, Busy>>
    BY <1>3, ProcessShape
  <2>2. QED
    BY <2>1 DEF HandedOut, EachFunctionOnce
<1>4. CASE \E w \in RunWorkers : StoreResult(w)
  <2>1. PICK w \in RunWorkers : StoreResult(w)
    BY <1>4
  <2>2. /\ w \in Busy /\ Busy' = Busy \ {w} /\ item[w] \in Indices
        /\ UNCHANGED <<next, item>>
        /\ results' \in [Indices -> Outcomes]
        /\ \A i \in Indices : results'[i] = "none" <=> i # item[w] /\ results[i] = "none"
    BY <2>1 DEF StoreResult, RunTypeOK, Busy, Outcomes
  <2>3. HandedOut'
    BY <2>2 DEF HandedOut
  <2>4. \A v, u \in Busy' : item'[v] = item'[u] => v = u
    BY <2>2 DEF EachFunctionOnce
  <2>5. ASSUME NEW i \in Indices, results'[i] # "none"
        PROVE  i < next' /\ \A v \in Busy' : item'[v] # i
    BY <2>2, <2>5 DEF EachFunctionOnce, HandedOut
  <2>6. ASSUME NEW i \in Indices, i < next', results'[i] = "none"
        PROVE  \E v \in Busy' : item'[v] = i
    BY <2>2, <2>6 DEF EachFunctionOnce
  <2>7. QED
    BY <2>3, <2>4, <2>5, <2>6 DEF EachFunctionOnce
<1>5. CASE Caller \/ UNCHANGED runVars
  BY <1>5, CallerShape DEF HandedOut, EachFunctionOnce, Busy
<1>6. QED
  BY <1>1, <1>2, <1>3, <1>4, <1>5, StepCases

-----------------------------------------------------------------------------
(* The counter *)

LEMMA CountedFinite ==
  /\ IsFiniteSet(Indices) /\ Cardinality(Indices) = N
  /\ IsFiniteSet(CountedIndices) /\ Cardinality(CountedIndices) \in 0..N
<1>1. IsFiniteSet(Indices) /\ Cardinality(Indices) = N
  BY OrderFacts, FS_Interval DEF Indices
<1>2. CountedIndices \in SUBSET Indices
  BY DEF CountedIndices
<1>3. IsFiniteSet(CountedIndices) /\ Cardinality(CountedIndices) <= N
  BY <1>1, <1>2, FS_Subset
<1>4. QED
  BY <1>1, <1>3, FS_CardinalityType, OrderFacts

\* A worker enters the counted places exactly when it advances the counter.
LEMMA ProcessCounts ==
  ASSUME RunTypeOK, NEW w \in RunWorkers, Process(w)
  PROVE  \/ doneCount' = doneCount /\ (pc[w] \in Counted <=> pc'[w] \in Counted)
         \/ doneCount' = doneCount + 1 /\ pc[w] \notin Counted /\ pc'[w] \in Counted
BY DEF GoTo, ui, closing, PCs, Counted, RunTypeOK, Process, Announce, FillStart, DeliverStart,
       SkipOutOfTime, HasTime, Inline, SkipUnsearchable, Enter, DeliverRestart,
       ReportPatterns, ReportRound, FillAdopted, DeliverAdopted, Refined, FillFinal,
       DeliverFinal, PassThrough, Refining, ReportStage

LEMMA CountStep ==
  ASSUME RunTypeOK, EachFunctionOnce, CountAgrees, [RunNext]_runVars
  PROVE  CountAgrees' /\ doneCount' \in 0..N
<1> USE OrderFacts DEF GoTo, ui, closing
<1>1. Cardinality(CountedIndices') \in 0..N
  <2>1. IsFiniteSet(Indices) /\ CountedIndices' \in SUBSET Indices
    BY CountedFinite DEF CountedIndices
  <2>2. IsFiniteSet(CountedIndices') /\ Cardinality(CountedIndices') <= Cardinality(Indices)
    BY <2>1, FS_Subset
  <2>3. QED
    BY <2>2, FS_CardinalityType, CountedFinite
<1>2. CASE \E w \in RunWorkers : Pull(w) \/ Leave(w)
  <2>1. CountedIndices' = CountedIndices /\ doneCount' = doneCount
    BY <1>2 DEF Pull, Leave, RunTypeOK, CountedIndices, Counted
  <2>2. QED
    BY <1>1, <2>1 DEF CountAgrees
<1>3. CASE \E w \in RunWorkers : Process(w)
  <2>1. PICK w \in RunWorkers : Process(w)
    BY <1>3
  <2> DEFINE i == item[w]
  <2>2. /\ w \in Busy /\ i \in Indices /\ UNCHANGED <<item, results>>
        /\ \A v \in RunWorkers \ {w} : pc'[v] = pc[v]
    BY <2>1, ProcessShape
  <2>3. CASE doneCount' = doneCount /\ (pc[w] \in Counted <=> pc'[w] \in Counted)
    <3>1. CountedIndices' = CountedIndices
      BY <2>2, <2>3 DEF CountedIndices
    <3>2. QED
      BY <1>1, <2>3, <3>1 DEF CountAgrees
  <2>4. CASE doneCount' = doneCount + 1 /\ pc[w] \notin Counted /\ pc'[w] \in Counted
    <3>1. CountedIndices' = CountedIndices \cup {i}
      BY <2>2, <2>4 DEF CountedIndices
    <3>2. i \notin CountedIndices
      <4>1. results[i] = "none"
        BY <2>2 DEF EachFunctionOnce
      <4>2. ASSUME NEW v \in RunWorkers, pc[v] \in Counted, item[v] = i
            PROVE  FALSE
        BY <2>2, <2>4, <4>2 DEF EachFunctionOnce, Busy, Counted
      <4>3. QED
        BY <4>1, <4>2 DEF CountedIndices
    <3>3. Cardinality(CountedIndices') = Cardinality(CountedIndices) + 1
      BY <3>1, <3>2, CountedFinite, FS_AddElement
    <3>4. QED
      BY <1>1, <2>4, <3>3 DEF CountAgrees
  <2>5. QED
    BY <2>1, <2>3, <2>4, ProcessCounts
<1>4. CASE \E w \in RunWorkers : StoreResult(w)
  <2>1. CountedIndices' = CountedIndices /\ doneCount' = doneCount
    BY <1>4 DEF StoreResult, RunTypeOK, CountedIndices, Counted
  <2>2. QED
    BY <1>1, <2>1 DEF CountAgrees
<1>5. CASE Caller \/ UNCHANGED runVars
  <2>1. CountedIndices' = CountedIndices /\ doneCount' = doneCount
    BY <1>5, CallerShape DEF CountedIndices
  <2>2. QED
    BY <1>1, <2>1 DEF CountAgrees
<1>6. QED
  BY <1>2, <1>3, <1>4, <1>5, StepCases


-----------------------------------------------------------------------------
(* Types and events *)

LEMMA TypeStep ==
  ASSUME RunTypeOK, EventsInOrder, doneCount' \in 0..N, [RunNext]_runVars
  PROVE  RunTypeOK'
<1> USE OrderFacts DEF GoTo, ui, closing, NoEvent, Stages, PCs, Outcomes
<1>1. CASE \E w \in RunWorkers : Pull(w) \/ Leave(w)
  <2>1. PICK w \in RunWorkers : Pull(w) \/ Leave(w)
    BY <1>1
  <2>2. next' \in 1..(N + 1) /\ pc' \in [RunWorkers -> PCs]
    BY <2>1 DEF RunTypeOK, Pull, Leave
  <2>3. /\ item' \in [RunWorkers -> 0..N]
        /\ \A v \in RunWorkers : pc'[v] \notin {"pull", "exited"} => item'[v] \in Indices
    <3>1. CASE Pull(w)
      <4>1. next \in Indices /\ next \in 0..N
        BY <3>1 DEF RunTypeOK, Pull, Indices
      <4>2. QED
        BY <3>1, <4>1 DEF RunTypeOK, Pull
    <3>2. CASE Leave(w)
      BY <3>2 DEF RunTypeOK, Leave
    <3>3. QED
      BY <2>1, <3>1, <3>2
  <2>4. UNCHANGED <<event, results, expired, closing, rows, total, shownDone>>
    BY <2>1 DEF Pull, Leave
  <2>5. QED
    BY <2>2, <2>3, <2>4 DEF RunTypeOK
<1>2. CASE \E w \in RunWorkers : StoreResult(w)
  <2>1. PICK w \in RunWorkers : StoreResult(w)
    BY <1>2
  <2>2. /\ pc' \in [RunWorkers -> PCs] /\ results' \in [Indices -> Outcomes]
        /\ \A v \in RunWorkers : pc'[v] \notin {"pull", "exited"} => item'[v] \in Indices
    BY <2>1 DEF RunTypeOK, StoreResult
  <2>3. event' \in [RunWorkers -> [stage : Stages \cup {"none"}, total : {0, N}, done : 0..N]]
    <3>1. NoEvent \in [stage : Stages \cup {"none"}, total : {0, N}, done : 0..N]
      OBVIOUS
    <3>2. QED
      BY <2>1, <3>1 DEF RunTypeOK, StoreResult
  <2>4. UNCHANGED <<next, item, expired, closing, rows, total, shownDone>>
    BY <2>1 DEF StoreResult
  <2>5. QED
    BY <2>2, <2>3, <2>4 DEF RunTypeOK
<1>3. CASE \E w \in RunWorkers : Process(w)
  <2>1. PICK w \in RunWorkers : Process(w)
    BY <1>3
  <2>2. /\ item[w] \in Indices /\ pc' \in [RunWorkers -> PCs]
        /\ \A v \in RunWorkers \ {w} : pc'[v] = pc[v]
        /\ UNCHANGED <<next, item, results, expired, closing>>
    BY <2>1, ProcessShape
  <2>3. event' \in [RunWorkers -> [stage : Stages \cup {"none"}, total : {0, N}, done : 0..N]]
    BY <2>1 DEF RunTypeOK, Process, Announce, FillStart, DeliverStart, SkipOutOfTime, HasTime,
                Inline, SkipUnsearchable, Enter, DeliverRestart, ReportPatterns, ReportRound,
                FillAdopted, DeliverAdopted, Refined, FillFinal, DeliverFinal, PassThrough,
                ReportStage, Fill
  <2>4. /\ rows' \in [ModuleFunctions -> Stages \cup {"absent"}]
        /\ total' \in {0, N} /\ shownDone' \in 0..N
    <3>1. CASE DeliverStart(w) \/ DeliverRestart(w) \/ DeliverAdopted(w) \/ DeliverFinal(w)
      <4>1. /\ event[w].stage \in Stages /\ event[w].total \in {0, N} /\ event[w].done \in 0..N
            /\ Deliver(w)
        BY <3>1 DEF DeliverStart, DeliverRestart, DeliverAdopted, DeliverFinal,
                    EventsInOrder, RunTypeOK
      <4>2. QED
        BY <4>1, <2>2 DEF Deliver, Show, RunTypeOK, Fn
    <3>2. CASE ReportPatterns(w) \/ ReportRound(w)
      BY <3>2, <2>2 DEF ReportPatterns, ReportRound, ReportStage, Show, DeliverMinimal,
                        RunTypeOK, Fn
    <3>3. CASE UNCHANGED rows /\ (UNCHANGED <<total, shownDone>> \/ DeliverMinimal)
      BY <3>3 DEF RunTypeOK, DeliverMinimal
    <3>4. QED
      BY <2>1, <3>1, <3>2, <3>3
         DEF Process, Announce, FillStart, SkipOutOfTime, HasTime, Inline, SkipUnsearchable,
             Enter, FillAdopted, Refined, FillFinal, PassThrough
  <2>5. QED
    BY <2>2, <2>3, <2>4, <2>1, ProcessShape DEF RunTypeOK
<1>4. CASE Caller \/ UNCHANGED runVars
  BY <1>4, CallerShape, CallerType DEF RunTypeOK
<1>5. QED
  BY <1>1, <1>2, <1>3, <1>4, StepCases

LEMMA EventsStep ==
  ASSUME RunTypeOK, EventsInOrder, [RunNext]_runVars
  PROVE  EventsInOrder'
<1> USE DEF GoTo, ui, closing, NoEvent
<1>1. CASE \E w \in RunWorkers : Pull(w) \/ Leave(w) \/ StoreResult(w)
  BY <1>1 DEF RunTypeOK, EventsInOrder, Pull, Leave, StoreResult
<1>2. CASE \E w \in RunWorkers : Process(w)
  <2>1. PICK w \in RunWorkers : Process(w)
    BY <1>2
  <2>2. \A v \in RunWorkers \ {w} : pc'[v] = pc[v] /\ event'[v] = event[v]
    BY <2>1, ProcessShape
  <2>3. /\ pc'[w] \in {"start", "restart"} => event'[w].stage = "start"
        /\ pc'[w] \in {"last", "store"} => event'[w].stage \in {"skip", "done"}
    BY <2>1 DEF EventsInOrder, RunTypeOK, Process, Announce, FillStart, DeliverStart,
                SkipOutOfTime, HasTime, Inline, SkipUnsearchable, Enter, DeliverRestart,
                ReportPatterns, ReportRound, FillAdopted, DeliverAdopted, Refined, FillFinal,
                DeliverFinal, PassThrough, Refining, ReportStage, Fill
  <2>4. QED
    BY <2>2, <2>3 DEF EventsInOrder
<1>3. CASE Caller \/ UNCHANGED runVars
  BY <1>3, CallerShape DEF EventsInOrder
<1>4. QED
  BY <1>1, <1>2, <1>3, StepCases

LEMMA ClosingStep ==
  ASSUME RunTypeOK, Closing, [RunNext]_runVars
  PROVE  Closing'
<1> USE OrderFacts DEF GoTo, ui, closing
<1>1. CASE \E w \in RunWorkers : Pull(w) \/ Leave(w) \/ StoreResult(w)
  BY <1>1 DEF RunTypeOK, Closing, Pull, Leave, StoreResult
<1>2. CASE \E w \in RunWorkers : Process(w)
  <2>1. PICK w \in RunWorkers : Process(w)
    BY <1>2
  <2>2. /\ pc[w] # "exited" /\ pc'[w] # "exited"
        /\ \A v \in RunWorkers \ {w} : pc'[v] = pc[v]
        /\ UNCHANGED <<next, callerAt>>
    BY <2>1, ProcessShape DEF Busy
  <2>3. QED
    BY <2>2 DEF Closing
<1>3. CASE Caller \/ UNCHANGED runVars
  BY <1>3, CallerShape DEF Closing
<1>4. QED
  BY <1>1, <1>2, <1>3, StepCases

-----------------------------------------------------------------------------
(* Rows *)

\* The row of a function is at its end.
Final(f) == rows[f] \in {"done", "skip"}

\* While a function is in a worker's hands its row is final from the delivery
\* of the last event on.
LEMMA BusyRow ==
  ASSUME EachFunctionOnce, RowsFinal, NEW w \in Busy, item[w] \in Indices
  PROVE  Final(Fn(w)) <=> pc[w] = "store"
<1>1. results[item[w]] = "none"
  BY DEF EachFunctionOnce
<1>2. \A v \in RunWorkers : pc[v] = "store" /\ item[v] = item[w] => v = w
  BY DEF EachFunctionOnce, Busy
<1>3. QED
  BY <1>1, <1>2 DEF RowsFinal, Final, Fn, Busy

\* A step of Process touches no row but that of the function in hand, and that
\* row is final afterwards exactly if the last event was delivered.
LEMMA ProcessRow ==
  ASSUME RunTypeOK, EachFunctionOnce, EventsInOrder, RowsFinal, NEW w \in RunWorkers, Process(w)
  PROVE  /\ \A f \in ModuleFunctions \ {Fn(w)} : rows'[f] = rows[f]
         /\ Final(Fn(w))' <=> pc'[w] = "store"
         /\ ~Final(Fn(w)) /\ pc[w] # "store"
<1> USE OrderFacts DEF GoTo, ui, closing
<1>1. w \in Busy /\ item[w] \in Indices /\ item' = item /\ Fn(w) \in ModuleFunctions
  BY ProcessShape DEF Fn
<1>2. pc[w] # "store" /\ pc \in [RunWorkers -> PCs] /\ rows \in [ModuleFunctions -> Stages \cup {"absent"}]
  BY DEF RunTypeOK, Process, Announce, FillStart, DeliverStart, SkipOutOfTime, HasTime, Inline,
         SkipUnsearchable, Enter, DeliverRestart, ReportPatterns, ReportRound, FillAdopted,
         DeliverAdopted, Refined, FillFinal, DeliverFinal, Refining
<1>3. ~Final(Fn(w)) /\ Fn(w)' = Fn(w)
  BY <1>1, <1>2, BusyRow DEF Fn
<1>4. CASE DeliverFinal(w)
  <2>1. event[w].stage \in {"skip", "done"} /\ pc'[w] = "store"
    BY <1>2, <1>4 DEF DeliverFinal, EventsInOrder
  <2>2. QED
    BY <1>1, <1>2, <1>3, <1>4, <2>1 DEF DeliverFinal, Deliver, Show, Final
<1>5. CASE DeliverStart(w) \/ DeliverRestart(w) \/ DeliverAdopted(w)
  <2>1. Deliver(w) /\ event[w].stage \in {"start", "round"} /\ pc'[w] # "store"
    BY <1>2, <1>5 DEF DeliverStart, DeliverRestart, DeliverAdopted, EventsInOrder
  <2>2. QED
    BY <1>1, <1>2, <1>3, <2>1 DEF Deliver, Show, Final
<1>6. CASE ReportPatterns(w) \/ ReportRound(w)
  <2>1. Show(Fn(w), "round") /\ pc'[w] # "store"
    BY <1>2, <1>6 DEF ReportPatterns, ReportRound, ReportStage
  <2>2. QED
    BY <1>1, <1>2, <1>3, <2>1 DEF Show, Final
<1>7. CASE rows' = rows /\ pc'[w] # "store"
  BY <1>2, <1>3, <1>7 DEF Final
<1>8. QED
  BY <1>2, <1>4, <1>5, <1>6, <1>7
     DEF Process, Announce, FillStart, SkipOutOfTime, HasTime, Inline, SkipUnsearchable,
         Enter, FillAdopted, Refined, FillFinal, PassThrough


LEMMA OtherRows ==
  ASSUME [RunNext]_runVars, \A w \in RunWorkers : ~Process(w)
  PROVE  rows' = rows
BY StepCases, CallerShape DEF Pull, Leave, StoreResult, ui

LEMMA RowsStep ==
  ASSUME RunTypeOK, EachFunctionOnce, EventsInOrder, RowsFinal, [RunNext]_runVars
  PROVE  RowsFinal'
<1> USE OrderFacts DEF GoTo, ui, closing
<1>1. CASE \E w \in RunWorkers : Process(w)
  <2>1. PICK w \in RunWorkers : Process(w)
    BY <1>1
  <2>2. /\ w \in Busy /\ item[w] \in Indices /\ UNCHANGED <<item, results>>
        /\ \A v \in RunWorkers \ {w} : pc'[v] = pc[v]
    BY <2>1, ProcessShape
  <2>3. /\ \A f \in ModuleFunctions \ {Fn(w)} : rows'[f] = rows[f]
        /\ rows'[Fn(w)] \in {"done", "skip"} <=> pc'[w] = "store"
        /\ pc[w] # "store"
    BY <2>1, <2>2, ProcessRow DEF Final, Fn
  <2>4. results[item[w]] = "none" /\ \A v \in RunWorkers : pc[v] = "store" => item[v] # item[w]
    BY <2>2, <2>3 DEF EachFunctionOnce, Busy
  <2>5. SUFFICES ASSUME NEW i \in Indices
                 PROVE  rows'[Order[i]] \in {"done", "skip"} <=>
                          \/ results'[i] # "none"
                          \/ \E v \in RunWorkers : pc'[v] = "store" /\ item'[v] = i
    BY DEF RowsFinal
  <2>6. CASE i = item[w]
    BY <2>2, <2>3, <2>4, <2>6 DEF Fn
  <2>7. CASE i # item[w]
    <3>1. Order[i] \in ModuleFunctions \ {Fn(w)}
      BY <2>2, <2>7 DEF Fn
    <3>2. QED
      BY <2>2, <2>3, <2>7, <3>1 DEF RowsFinal
  <2>8. QED
    BY <2>6, <2>7
<1>2. CASE \E w \in RunWorkers : Pull(w) \/ Leave(w)
  <2>1. PICK w \in RunWorkers : Pull(w) \/ Leave(w)
    BY <1>2
  <2>2. /\ rows' = rows /\ results' = results /\ pc[w] # "store" /\ pc'[w] # "store"
        /\ \A v \in RunWorkers \ {w} : pc'[v] = pc[v] /\ item'[v] = item[v]
    BY <2>1 DEF Pull, Leave, RunTypeOK
  <2>3. \A i \in Indices : (\E v \in RunWorkers : pc'[v] = "store" /\ item'[v] = i)
                         <=> (\E v \in RunWorkers : pc[v] = "store" /\ item[v] = i)
    BY <2>2
  <2>4. QED
    BY <2>2, <2>3 DEF RowsFinal
<1>3. CASE \E w \in RunWorkers : StoreResult(w)
  <2>1. PICK w \in RunWorkers : StoreResult(w)
    BY <1>3
  <2>2. /\ rows' = rows /\ item' = item /\ pc[w] = "store" /\ pc'[w] # "store"
        /\ item[w] \in Indices
        /\ \A v \in RunWorkers \ {w} : pc'[v] = pc[v]
        /\ \A i \in Indices : results'[i] # "none" <=> i = item[w] \/ results[i] # "none"
    BY <2>1 DEF StoreResult, RunTypeOK
  <2>3. QED
    BY <2>2 DEF RowsFinal
<1>4. CASE Caller \/ UNCHANGED runVars
  <2>1. UNCHANGED <<pc, item, results, rows>>
    BY <1>4, CallerShape
  <2>2. QED
    BY <2>1 DEF RowsFinal
<1>5. QED
  BY <1>1, <1>2, <1>3, <1>4, StepCases

-----------------------------------------------------------------------------
(* The invariant *)

LEMMA InitInv == RunInit => Inv
<1> SUFFICES ASSUME RunInit PROVE Inv
  OBVIOUS
<1> USE OrderFacts DEF RunInit
<1>1. Busy = {} /\ HandedOut /\ EachFunctionOnce /\ Closing
  BY DEF Busy, HandedOut, EachFunctionOnce, Closing, Indices
<1>2. RunTypeOK
  <2>1. expired \in BOOLEAN
    OBVIOUS
  <2>2. event \in [RunWorkers -> [stage : Stages \cup {"none"}, total : {0, N}, done : 0..N]]
    BY DEF NoEvent
  <2>3. /\ pc \in [RunWorkers -> PCs] /\ results \in [Indices -> Outcomes]
        /\ item \in [RunWorkers -> 0..N] /\ rows \in [ModuleFunctions -> Stages \cup {"absent"}]
    BY DEF PCs, Stages, Outcomes
  <2>4. QED
    BY <2>1, <2>2, <2>3 DEF RunTypeOK, Places, MaxCleanups
<1>3. CountedIndices = {}
  BY DEF CountedIndices, Counted
<1>4. CountAgrees
  BY <1>3, FS_EmptySet DEF CountAgrees
<1>5. EventsInOrder /\ RowsFinal
  BY DEF EventsInOrder, RowsFinal
<1>6. QED
  BY <1>1, <1>2, <1>4, <1>5 DEF Inv

LEMMA StepInv == Inv /\ [RunNext]_runVars => Inv'
BY TypeStep, OnceStep, CountStep, EventsStep, RowsStep, ClosingStep DEF Inv

LEMMA SpecInv == RunSpec => []Inv
BY InitInv, StepInv, PTL DEF RunSpec

\* Every variable keeps its type; in particular the index a busy worker holds
\* is one of fn_results, and no counter exceeds the number of functions.
THEOREM RunTypeCorrect == RunSpec => []RunTypeOK
<1>1. Inv => RunTypeOK
  BY DEF Inv
<1>2. QED
  BY <1>1, SpecInv, PTL

\* The functions counted and not stored correspond to the workers between.
LEMMA CountExact ==
  ASSUME Inv
  PROVE  DoneCountExact
<1> USE OrderFacts DEF Inv
<1> DEFINE Stored  == {i \in Indices : results[i] # "none"}
           Holders == {w \in RunWorkers : pc[w] \in Counted}
           Held    == {i \in Indices : \E w \in Holders : item[w] = i}
           holds   == [w \in Holders |-> item[w]]
<1>1. Holders \subseteq Busy /\ \A w \in Holders : item[w] \in Indices
  BY DEF Busy, Counted, RunTypeOK
<1>2. holds \in Bijection(Holders, Held)
  <2>1. holds \in Injection(Holders, Held)
    BY <1>1 DEF EachFunctionOnce, Injection, IsInjective
  <2>2. holds \in Surjection(Holders, Held)
    BY <1>1 DEF Surjection
  <2>3. QED
    BY <2>1, <2>2 DEF Bijection
<1>3. IsFiniteSet(Holders)
  BY RunAssumption, FS_Subset
<1>4. Cardinality(Held) = Cardinality(Holders)
  BY <1>2, <1>3, FS_Bijection DEF ExistsBijection
<1>5. IsFiniteSet(Stored) /\ IsFiniteSet(Held)
  BY CountedFinite, FS_Subset
<1>6. CountedIndices = Stored \cup Held
  BY DEF CountedIndices
<1>7. Stored \cap Held = {}
  BY <1>1 DEF EachFunctionOnce
<1>8. Cardinality(Stored \cup Held) = Cardinality(Stored) + Cardinality(Held)
  <2>1. Cardinality(Stored) \in Nat /\ Cardinality(Held) \in Nat
    BY <1>5, FS_CardinalityType
  <2>2. /\ Cardinality(Stored \cap Held) = 0
        /\ Cardinality(Stored \cup Held)
             = Cardinality(Stored) + Cardinality(Held) - Cardinality(Stored \cap Held)
    BY <1>5, <1>7, FS_Union, FS_EmptySet
  <2>3. QED
    BY <2>1, <2>2
<1>9. QED
  BY <1>4, <1>6, <1>8 DEF CountAgrees, DoneCountExact

LEMMA Assembled ==
  ASSUME Inv
  PROVE  AssembledMeansComplete
<1> SUFFICES ASSUME callerAt # "running"
             PROVE  /\ doneCount = N
                    /\ \A i \in Indices : results[i] # "none"
                    /\ \A f \in ModuleFunctions : rows[f] \in {"done", "skip"}
  BY DEF AssembledMeansComplete
<1> USE OrderFacts DEF Inv
<1>1. Busy = {} /\ next > N
  BY RunAssumption DEF Closing, Busy
<1>2. \A i \in Indices : results[i] # "none"
  BY <1>1 DEF EachFunctionOnce, Indices, RunTypeOK
<1>3. CountedIndices = Indices
  BY <1>2 DEF CountedIndices
<1>4. \A f \in ModuleFunctions : rows[f] \in {"done", "skip"}
  BY <1>2 DEF ModuleFunctions, RowsFinal
<1>5. QED
  BY <1>2, <1>3, <1>4, CountedFinite DEF CountAgrees

\* Pipeline::run hands every function to one worker, once, counts it exactly
\* whichever way it ended, and assembles the module from complete results with
\* every row of the interface at its end.
THEOREM RunProgressExact == RunSpec => []ProgressExact
<1>1. Inv => ProgressExact
  BY CountExact, Assembled DEF Inv, ProgressExact
<1>2. QED
  BY <1>1, SpecInv, PTL

\* TUI::handle_event overwrites a row unconditionally for some stages, yet no
\* event that reaches it takes a row away from "done" or "skip".
THEOREM RunFinishedRowsStay == RunSpec => FinishedRowsStay
<1> DEFINE A == \A f \in ModuleFunctions : rows[f] \in {"done", "skip"} => rows'[f] = rows[f]
<1>1. Inv /\ [RunNext]_runVars => [A]_runVars
  <2> SUFFICES ASSUME Inv, [RunNext]_runVars, NEW f \in ModuleFunctions, rows[f] \in {"done", "skip"}
               PROVE  rows'[f] = rows[f]
    OBVIOUS
  <2>1. CASE \E w \in RunWorkers : Process(w)
    <3>1. PICK w \in RunWorkers : Process(w)
      BY <2>1
    <3>2. f # Fn(w) /\ \A g \in ModuleFunctions \ {Fn(w)} : rows'[g] = rows[g]
      BY <3>1, ProcessRow DEF Inv, Final
    <3>3. QED
      BY <3>2
  <2>2. CASE \A w \in RunWorkers : ~Process(w)
    BY <2>2, OtherRows
  <2>3. QED
    BY <2>1, <2>2
<1>2. QED
  BY <1>1, SpecInv, PTL DEF RunSpec, FinishedRowsStay


=============================================================================
