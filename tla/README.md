# A TLA+ verification project for Clunk

Clunk is a superoptimiser for LLVM IR in C++17.  It reads a module, searches
for better versions of each function by many methods, verifies candidates with
an SMT prover, an external checker (alive-tv) or an interpreter, and writes
the module with the best versions it may trust.  This directory holds TLA+
models of it: of its control (what runs concurrently, what is remembered, what
is trusted, what is lost when something fails) and of the rewriting it does,
down to what a function means before and after.

Source positions are relative to the root of the repository, for instance
`src/Pipeline.cpp`, `include/clunk/Pipeline.h`.

## 1. Inventory

| Part | State | Operations | Talks to |
|---|---|---|---|
| Command line (`src/cli/main.cpp`) | options | parse, run, write | Pipeline, TUI |
| Terminal interface (`src/cli/tui.cpp`) | rows, module counters, selection, quit flag | `handle_event`, `run_loop`, `handle_key`, `mark_done` | called back by pipeline workers under a mutex |
| Pipeline (`src/Pipeline.cpp`) | deadline, counters, pool, cache, per-worker `Searchers` | `run`, `run_on_function`, one method per phase, `verify_and_select` | everything below |
| ThreadPool (`include/clunk/Search/ThreadPool.h`) | FIFO of tasks, shutdown flag | `submit`, `try_run_one`, `run_until`, destructor | EvolutionarySearch, HoleSynth |
| RewriteCache (`src/Search/RewriteCache.cpp`) | LRU, file index, append-only file | `open_file`, `lookup`, `put`, `warmup`, `flush` | SMTVerifier of every worker |
| SMTVerifier (`src/Search/SMTVerifier.cpp`) | Z3 context, statistics | `verify`, batches, conditional queries, CEGIS | RewriteCache, Z3 |
| AliveVerifier (`src/Search/AliveVerifier.cpp`) | found backend | `verify` through a subprocess | `verify_and_select` |
| Stochastic search (`src/Search/StochasticSearch.cpp`) | live function, temperature, candidates, score cache, `MutationScope` | `search`, the mutations twice over | scores, interpreter, patterns |
| Evolutionary search, hole synthesis, vector synthesis | populations, enumerations | `search`, `synthesise` | pool, scores, verifier |
| Peephole miner (`src/Search/PeepholeMiner.cpp`) | best win of a job | `optimise`: slice, enumerate, prove, splice | interpreter, verifier |
| E-graph rewriter (`src/Search/EgraphRewriter.cpp`) | union-find, memo, classes | lower, saturate, extract | patterns; its candidate is adopted without a proof |
| Algorithm preprocessor (`src/Search/AlgoPreprocessor.cpp`) | the module | probe, fit a closed form, prove, replace | interpreter, verifier |
| Passes without a prover: loops, memory, pruning, powers of two, inliners, cross-function, block merging | none | one function or module in, one out | analyses; adopted without a proof |
| Evaluation (`src/Evaluator/`) | shared score cache, cost tables, llvm-mca measurements | `analyse`, `score_candidate`, `measure`, `interpret` | everybody who compares functions |
| Analyses (`src/Analysis/`) | call graph, known bits, powers of two | `build`, queries | passes, module order |
| IR and parser (`src/IR/`, `src/Parser/`) | the data | construction, printing, cloning | everybody |
| Pattern library (`src/Pattern/`) | rule table | `match`, `apply` | `apply_patterns`, stochastic search, e-graph |
| GPU back end (`src/GPU/`) | none across calls | liveness, occupancy, divergence, PTX, launch tuning | last stage of a function |

Hard behaviour, and where it is:

* Threads.  The pipeline hands functions to dedicated workers through an
  atomic index; searches inside the workers share one pool whose waiting
  threads run each other's tasks; progress events of all workers reach one
  interface; all verifiers share one cache.
* Trust.  A function's baseline is replaced many times, on evidence of
  different kinds against different anchors (the original or the current
  baseline), with memory that spans rounds and is keyed by hashes.  A good part
  of the rewriting is trusted "by construction" and is never proved at run time.
* Exactness.  Two's complement values live in 64-bit host words; flags make
  poison; formulas and the interpreter must agree with what the IR means, at
  every width and at every boundary of it.
* Editing in place.  Mutations edit the live function and are taken back by
  position; kept candidates, caches and marks must not notice.
* Time.  Deadlines end anything at any moment; futures are abandoned, the rest
  of a module is passed through; every query may run out of time.
* Failure.  A process that dies inside an append, or a disk that fills up,
  leaves a torn line in the cache file, and the next process appends to it.

What makes each part correct:

* ThreadPool: every accepted task runs exactly once, in order of start; no
  thread waits for ever; nothing is left when the destructor returns.
* Refinement: every baseline refines the original unless the user gave that
  up; nothing refuted is adopted; the score only rises; the rounds end.
* Module run: every function is refined by one worker and stored once;
  counters and rows agree with it; the output is complete.
* Cache and verifier: the tiers agree; a verdict that was flushed is found
  again; nothing is read that was not put; a cached answer is the answer to
  the question asked.
* Passes over one function: whatever their order, the function means what it
  meant; the facts they use are true.
* Memory optimiser: whatever the pointers are, every call sees the values it saw.
* Preprocessor: a closed form that fits the probes by accident changes nothing.
* Encoder: for every input, the formula has the value the function returns.
* Synthesis: what is found refines; giving up means nothing of the pool would
  do; the rounds end.  Batches: the answers are those of single queries.
* Miner: pruning loses nothing; splices that were proved one by one, some under
  conditions only, are right together.
* Stochastic search: a rejected edit leaves no trace; kept candidates stay what
  they were; the best is kept; the mark "sound" is true.
* E-graph: what is extracted refines, in whatever order classes were merged.

`PROJECT.json` lists every component, also those without a module, and every
hazard with the properties about it.

## 2. Modules

Control:

| Module | What it is |
|---|---|
| `TaskExecutor` | abstract: what a pool promises, without threads or stacks |
| `ThreadPool` | the pool, its workers, clients and call stacks; implements `TaskExecutor` |
| `ThreadPoolProofs` | theorems about `ThreadPool` |
| `FunctionRefiner` | `run_on_function`, `apply_patterns`, the phases' guards, `verify_and_select` |
| `FunctionRefinerProofs` | theorems about `FunctionRefiner` |
| `ModuleRun` | `Pipeline::run` after its pre-passes, with the interface's rows |
| `ModuleRunProofs` | theorems about `ModuleRun` |
| `RewriteCache` | both tiers and the file, through deaths and full disks |
| `CachedVerifier` | several `SMTVerifier::verify` over one `RewriteCache` (extends it) |
| `CachedVerifierProofs` | theorems about `CachedVerifier` and the cache below it |

Functions and what is computed about them:

| Module | What it is |
|---|---|
| `ClunkIR` | functions, their shape, and what they mean; everything below extends it |
| `Interpreter` | `interpret`, in host words |
| `KnownBits` | known bits, powers of two, strength reduction of remainders |
| `CostModel` | the score by which searches compare |
| `SMTEncoder` | the formulas of `SMTVerifier`, `verify` and the conditional query |

Rewriting:

| Module | What it is |
|---|---|
| `DataflowPrune`, `LoopOpt`, `Inliner` | the passes, as operators from functions to functions |
| `FunctionPasses` | the order in which the pipeline takes them over one function |
| `MemOpt` | the alias oracle and the memory optimiser |
| `AlgoPreprocessor` | closed forms over a module |
| `CrossFunction` | dead-function elimination and constant propagation over a module |
| `SccOrder` | Tarjan's components of the call graph and the order of processing |
| `SccOrderProofs` | theorems about `SccOrder` |
| `BlockMerge` | the cleanup of a function's blocks after assembly |
| `ModulePassesProofs` | theorems about `CrossFunction`, `BlockMerge` and `MemOpt` |
| `Synthesis` | `synthesize_with_cegis` over `SMTEncoder` |
| `SynthesisProofs` | theorems about `Synthesis`, `AlgoPreprocessor` and `BatchVerifier` |
| `BatchVerifier` | `verify_batch` over `SMTEncoder` |
| `PeepholeMiner` | slices, enumeration, proof and splicing over `SMTEncoder` and `Interpreter` |
| `Mutations` | both variants of the mutations, and `MutationScope` |
| `PatternLibrary` | matching and applying patterns, and the seeded ones |
| `StochasticSearch` | the annealing loop over `Mutations`, `PatternLibrary`, `CostModel`, `Interpreter` |
| `StochasticSearchProofs` | theorems about `StochasticSearch` |
| `EgraphRewriter` | equality saturation over `PatternLibrary` |

`MC...` are instances for TLC.  Those that hold several independent components
(`MCModulePasses`, `MCRewrites`, `MCSolver`, `MCSearch`) give one of them
something interesting in each behaviour, and the others the least they can be
given.  In `MCPipeline`, which holds `FunctionRefiner`, `ModuleRun` and
`CachedVerifier`, each behaviour is the turn of one of them.

Operators named `X_Something` after a definition `X`, with a comment that
starts with "Mutant", are deliberately wrong variants of `X`: with the variant
in its place, the property it is meant for fails.  They are not part of any
specification.

### ThreadPool

One variable per field (`queue`, `shutdown`), the state of each task's future,
one call stack per thread, and the progress of each job through its program:
the tasks it submits in order and then waits for in order.  A critical section
of the mutex is one step; `notify_one`, `notify_all` and running a task are
later steps, so that every schedule the code allows between an unlock and a
notification exists.  `Enqueue`/`Refuse`/`NotifyOne` are `submit()`;
`Await`/`Steal`/`Poll` are `run_until()`; `Take`/`Sleep`/`Exit` are
`worker_loop()`; `RaiseShutdown`/`NotifyAll`/`JoinAll` are the destructor.
The jobs are the two users of the pool.  HoleSynth submits in batches as large as
the pool (`InBatch`), waits for each with `run_until`, and may stop between two
batches when its time is up (`StopEarly`).  EvolutionarySearch submits a whole
population, waits without helping, and may drop its futures
(`MayAbandon`, `Abandon`).  `Finish` is the ordinary return of both.  The bounded
retries of `try_run_one` inside `run_until` are one attempt.

### FunctionRefiner

Functions are model values.  What a phase finds on a baseline, what the prover
may answer, what alive-tv and the interpreter say, scores, hashes and the
refinement relation are constants: the module says what the pipeline makes of
them.  The three switches that decide what may justify an adoption (a prover,
`trust_unverified`, alive-tv) are the variable `mode`, chosen initially from
the constant `Modes` and fixed, so that one run covers several modes.  One
action per step of the code: a pattern applied, a round started or refused, a
phase run or skipped (with its guards and its remembered hash), the shortlist
of `verify_and_select` with its ranking by llvm-mca, then one action per
outcome of the examination of one candidate.  The clock has three values
because the code compares the time left with 50 ms and with 0; the e-graph
phase's 10 ms is not distinguished from 0.

What this module takes as given, the modules about rewriting look into: its
assumption that phases mark as sound only what refines their baseline is
`MeaningKept`, `SoundMeansRefines` and `EgraphSound` there, and that the
prover's answers are true is `EncoderExact` and `BatchAgrees`.

### ModuleRun

The worker loop step by step: the index is pulled, the start event is filled
and delivered in two steps (the code reads the counters before it takes the
lock), the function is skipped, passed through or refined, the counter is
advanced, the last event filled and delivered, and the result stored.  The
interface keeps a row per function and the two module counters.  The stages
between start and done are all called "round".  Refining a function is the
abstraction of `FunctionRefiner`: some number of reports, then an end.

When the workers are joined the calling thread assembles the output and cleans it
up, at most three times over all functions, before it returns (`StartCleanup`,
`CleanFunction`, `CleanAgain`, `CleanupDone`).  What happens to a function there is
`BlockMerge` and `FunctionPasses`; here it takes its turn, and functions of
`MayCycle` may keep the thread for ever (`MergeForever`): no deadline is looked at.
So there is no property that `run()` returns.

### RewriteCache and CachedVerifier

The public methods hold one mutex and are one step each.  A line of the file
is a sequence of fragments because what is appended after a torn line continues
it; the position of a cut decides what the parser makes of the line.  Digits
are not modelled: the five positions are those the parser tells apart.  Death
of the process and a full disk are actions.  `last`, `session`, `durable` and
`offered` are history variables for the properties.  A process opens the file
once, as the pipeline's constructor does (open, then `warmup`); if it cannot,
the pipeline runs without a cache, which is not modelled.  `flush()` is public
and modelled, though the program never calls it.  `Place` and `MoveToFront` are
the two edits of the LRU list, `Remember` is what `put` and a hit do to it, and
`AppendAll` writes one line after the other.

In `CachedVerifier` a worker looks its pair up, on a miss asks the solver without
holding anything, and puts the answer.  The solver is sound and may answer Unknown.
`KeyOf` is any function from pairs to keys, because keys are hashes: pairs may
collide, and a hit is returned as it stands.  The batch path and conditional queries
bypass the cache and are in `BatchVerifier` and `PeepholeMiner`.

### ClunkIR and Interpreter

A function is its arguments, its blocks in order and their instructions; names
are the model values that also stand for the objects.  `Meaning(f, xs)` is
what LLVM says a function returns: an integer, poison, or nothing at all where
the behaviour is undefined.  Values are unsigned residues of their width.
`Refines(g, f, inputs)` compares two functions input by input.  Only integer
types occur, and one memory cell per `alloca`.

`Interpreter` is the program's own idea of the same: values are signed host
words of `HostBits` bits (64 in the program) whatever the type, masked where the
code masks them, and the answer may be "refused".  It is kept apart from
`Meaning` because the two differ (section 5), and everything that filters with
the interpreter must be right in spite of that.

### FunctionPasses and its operators

`DataflowPrune`, `LoopOpt`, `Inliner` and the strength reduction of `KnownBits` are
operators: each pass maps a function to the new one, or to itself where the code
returns null.  Passes that go over a function instruction by instruction are folds
over the state that the code's loop carries.  `FunctionPasses` has one action per
place of `Pipeline::run` and `run_on_function` where one of them is taken, in the
pipeline's order, with rounds; the cost gates before an adoption are choices.

`MemOpt` has a block of loads, stores, calls and pointers given away; a pointer
is what the oracle sees of it: its root and the element accesses on the way to it,
each with its element type and one or several indices.  `flat` is the number of the
element that several indices mean; the oracle does not compute it, and compares
the indices one by one.  The code's sweep over
the block is one step per instruction.  A layout gives pointers the addresses the
oracle does not know, and memory is a function of bytes, so that accesses may
overlap.  `MemoryAssumption` says what blocks and layouts are: names are
read once and used after that, and an access stays within its object
(`LayoutFormed`), so that local variables share no byte with what the caller knows.

`AlgoPreprocessor` probes with the code's own sequence of inputs, fits the
three forms in the code's order, and compares the result with the solver, which
may run out of time.

### CrossFunction, SccOrder and BlockMerge

`CrossFunction` is `CrossFunctionPasses::run`: a batch of dead functions is
found, removed one by one, and looked for again; candidates are collected once,
taken by name and position, checked again on the present calls, cloned, and all
callers redirected.  A function is its linkage ("weak" stands for all linkages
that are visible but not External, and for kernels), its calls with constants,
parameters or computed arguments, whether it calls through a pointer, and the
functions whose address it uses.
What a module may do is the set of its contexts: which function is reached, from
outside or on from there, with which known constants (`Contexts`).  A function
whose address is used may be called by anybody with anything.  A clone
counts as its original with the constant.  The limit of clones per function (4)
is left out because a function whose callers were redirected has none left to
be cloned for.

`SccOrder` is `compute_sccs` step by step: one turn over one callee is one
step.  Pushing a frame and numbering its node, which is the first thing the
next turn does, are one step.

`BlockMerge` is one function's way through the cleanup.  A block is its branch,
the labels of its phis, and whether anything else is in it.  `merge_map` is an
unordered map, so its chains are resolved in any order, each walk step by step.
What the analyses fold or find dead is any choice, and so is whether another
function changed and another round follows.  The history `meant` holds the
branches as they were given.  Switches do not occur: the parser gives them an
opcode that is not a terminator.  Phis with several operands per predecessor
are one.  Inlining and pruning around it are in `FunctionPasses`.

### SMTEncoder, Synthesis, BatchVerifier, PeepholeMiner

A formula over the arguments is modelled by its value for each input:
`encode_function` maps a function and an input to the values, poison flags and
path conditions the formulas have there, in the code's two encodings (with
flags for poison and without).  A query is satisfiable if an input makes it
true; any query may also run out of time.  Counterexamples are read back as the
code reads numerals.

`Synthesis` is one action per query: the synthesis query, the verification query, the
next value of the pool.  The enumeration is entered with one or two placeholders, so
that `total_attempts` is the pool's size or its square, and an attempt's number has at
most two digits in base of that size (`Decoded`).  `BatchVerifier` has one action per
candidate that the incremental path asks about and one per query of the joint path.
`PeepholeMiner` has one action per job: a slice is chosen by one of the three ways the
code lifts them (windows, arms of selects, values below branches), candidates are
enumerated with the code's pruning and tests, the solver is the gate, the win is
spliced, and the next slice is taken from the result.  Which of the wins comes first
depends on scores and time and is left open.

### CostModel, Mutations, PatternLibrary, StochasticSearch

A mutation is the set of its outcomes on a function, because the generator of
random numbers decides.  Each exists twice, as in the code: on a copy, and on
the live function with a scope that records undo actions by position.
`StochasticSearch` has one action per kind of turn of the loop; `MutateInPlace`
edits the live function, judges it, and keeps or undoes.  Kept candidates are
objects, one of which may be the live function itself, because the code keeps
pointers.  The temperature is the number of decays left.  Scores are cached
under the code's canonical hash, which some different functions share.  The
returned list is any list in the order of scores (`SortedByScore`): `std::sort`
leaves candidates of one score in any order.  `max_candidates` is positive, as
the command line makes it (0 there means no limit).

`PatternLibrary` gives the windows where a pattern matches, with the operands
it binds, and the function after applying it there.  Its table holds the seeded
patterns; an instance may add patterns as a file would.

### EgraphRewriter

Nodes are hash-consed in a memo, classes are sets of nodes under a union-find,
and `rebuild` restores congruence from a work list in the code's order.  One
step tries one pattern on all classes.  The library is an unordered map, so
that instances give it in several orders.  `rebuild` reads nodes it has moved
and destroyed; the choice `destroyed` says how they read.

## 3. Runs

| Run | Instance | Shows |
|---|---|---|
| `pool` | 2 workers, 2 clients (one in batches, one that may give up), 6 tasks, 2 of them nested; fairness | the pool's safety invariants; no frame is left with tasks at large; it implements `TaskExecutor`; it is always torn down |
| `pipeline` | one function: prover with alive-tv, prover with `trust_unverified`, no prover; llvm-mca, deadline, per-function cap; fairness | sound chain, rising score, every adoption justified (`AdoptionJustified`), the rounds end |
| | one module: 2 workers, 4 functions, deadline, cleanup that may spin | each function once, counter exact, output complete (`ProgressExact`), rows final |
| | the verifier: 2 workers, 3 pairs of which 2 share a key, an LRU of 1, 3 appends, 1 torn | tiers agree, nothing invented and at most one later put lost (`DamageContained`), decisions are the solver's about a pair of the key, nothing asked twice |
| `passes` | 4 050 modules of 3 functions, 3 000 call graphs of 4 nodes, 909 control-flow graphs of 4 blocks | contexts kept, components exact and callees first (`OrderExact`), branches kept, merging ends |
| `rewrites` | 1 759 functions for the passes, 1 600 blocks for the memory optimiser in every layout, 694 modules for the preprocessor | meaning kept, facts true, memory kept, closed forms proved |
| `solver` | 98 problems of three bits for the synthesis, 7 batches, 19 functions for the miner | formulas exact, synthesis sound and complete for its pool, batches agree, splices and pruning right, the search advances |
| `search` | 14 functions under 6 configurations (36 pairs); 12 functions for the e-graph with 7 lists of patterns | what is called sound refines, rejected edits leave no trace, kept candidates are not edited, the best is kept |
| `alive_gate_claim` | the prover with alive-tv, which refutes a candidate of the loop phase | it is adopted, alive-tv unasked |
| `merge_hang_claim` | two branches into a loop of two | the walk never ends |
| `dfe_address_claim` | `main` passes a function's address on | that function is removed |
| `inline_labels_claim` | calls in an arm of a branch | the phi of the join has no value for the arm |
| `mem_bytes_claim` | two-byte accesses one byte apart | a store survives one that overlaps it |
| `smt_ub_claim` | a division that is masked away | undefined behaviour is answered Equivalent |

Why the bounds are enough.  Two workers that both wait for a nested task are
the least for which stealing is necessary; three tasks of one client are a batch
and a half; the second client adds abandonment
and a race for the front of the queue.  The refinement instances contain, for
each tier, a good and a bad candidate, one that the prover proves or a phase
derives and alive-tv refutes, a derivation of length two from an
unverified baseline, and two functions that share a hash; rounds are bounded
only by convergence.  Four functions suffice for a declaration, a leaf, an oversized
function and their caller, and two workers for every race of the index
and of the events.  One torn line, its victim and a line after the victim are
three appends, and an LRU smaller than the set of keys evicts at each put; two
pairs with one key and different answers, and a third pair, are a collision and
something to tell it from.

For the passes over modules, two functions below `main` give every order of
elimination and cloning, two argument positions a candidate that is stale when
its turn comes; three in five of the modules use an address or call through a
pointer, so that functions are kept, cloned or redirected while their
address is in use; four nodes every kind of edge Tarjan's algorithm distinguishes,
and three blocks behind the entry a chain longer than one that ends at a loop of
one.  The graphs of `passes` have no two blocks without effects on a cycle: on
such a cycle the code loses both blocks (or, see `merge_hang_claim`, does not
end), and `BranchesKept` is not true.  This is `NoIdleCycles`, which the instance asserts of
the graphs of `passes` (`GraphsMergeable`).  They also have an entry that does more
than branch (section 5).

`rewrites`: values of two bits, three for loops, so that every sign, wrap and shift
out of range occurs, and every function is compared on every input.  A chain of masked
operands, a combination and another mask reaches each transfer function of the known
bits and what uses it.  Loops run up to four times (`max_trip`) or longer than that,
so that unrolling is done and refused; a callee of several blocks is called before a
branch and in a join; `max_inlines_per_function` is 2 with two calls, and up to two
sound candidates are adopted (`MaxRounds` of `FunctionPasses`).  Three kinds of
functions are left out, for each of which the meaning is not kept (section 5): callers
that share names with a callee, loops that compute a value twice that a phi takes, and
functions where a block that ends in a branch to phis has a call that the inliner of
several blocks splices (`LabelsSurvive`, which TLC evaluates; `inline_labels_claim`
shows what becomes of such a function).  Accesses of the memory optimiser have the
size of the elements they index, for the reason of `mem_bytes_claim`.  The
preprocessor's functions are four bits wide, wide enough for a closed form that fits
all probes and is wrong elsewhere; hosts have 8 bits.

`solver`: host words of three bits for the synthesis (`HostBits`), so that the
extraction of numerals meets its limits; at most `CEGIS_MAX_ITERS` 3 rounds and a pool
of five values, so that rounds end in every way.  Batches are over two bits, without
the flags and shifts on which the code's two encodings differ (section 5).  The
miner's slices are two bits wide; candidates have one operation (`max_length`) of
`sub`, `and`, and two predicates; slices are taken from up to four windows, and
`trust_unverified_slices` is on, so that a result is also taken when the last proof
ran out of time.  `SynthesisSound` is about goals and templates that cannot be
undefined; `smt_ub_claim` shows why.

`search`: two bits in host words of three; one immediate bit makes a constant
large; functions of two to ten instructions with a cap of 8 (and a floor of 7
for what is "near" it), so that the forced deletion happens.  Four turns (five
in the crowded configuration), a restart after one or two, at most two
candidates, and a cooling of five decays give an accepted edit, a rejected one
behind it, a full list and a restart in one walk.  `Drawn` names the two opcodes
that insertion may draw.  The e-graph's functions are straight-line, over
integers of one width; its libraries are the seeded patterns of
integers, all of them or without `strength_reduce_mul`, in both directions, with
patterns as from a file, and its functions have products and have none.
`EgraphSound` is stated for functions without a product and for libraries without
that pattern, for it is not true otherwise (section 5).

`MaxRounds` and `MaxMerges` of `BlockMerge` are the code's own limits, and so are
`kMaxRebuildMerges` and `SaturationRounds` of the e-graph.  `MaxWrites` and
`MaxTears` bound the cache's file; `MaxHops` bounds the blocks a run of the
interpreter visits, as the code's limit does; `Fresh`, `EgNames`, `StokeNames`
and `Temps` are the names for new instructions, more than any behaviour uses.
`MaxRounds` of `FunctionRefiner` saturates the round counter.

Fairness.  Threads are scheduled (`WF` of each thread's own steps, never of a
spurious wakeup, and never of giving up).  In `FunctionRefiner` the worker keeps
running; time need not pass; `RefinementEnds` is `RefinementTerminates` in the
behaviours where it is a function's turn.  The passes
are sequential code: `MCModulePasses` assumes that the next step is taken.
Nothing is assumed of `ModuleRun`, of which safety alone is stated.
`SearchAdvances` needs no fairness: it says that a rank grows with every step.

Deadlock is checked in `pool`, `pipeline` and `passes`: the
final states have a self-loop of their own (`Destroyed`, `Done`, `Ended`), so
that anything else that stops is an error.  `rewrites`, `solver` and `search` are
computations that end, each in a state where nothing is left to do.

## 4. Proofs

`ThreadPoolProofs`, for any finite sets of workers and clients and any
programs that satisfy `PoolAssumption`:

* `PoolTypeCorrect`, `PoolNoTaskLostOrRunTwice`, `PoolDestroyedMeansDrained`:
  from one inductive invariant of three parts.  `Shape`: the types, a job
  never submits more than its program, and a client's own frame is at the
  bottom of its stack.  `Closing`: the destructor's phases, the flag and the
  threads' exits go together; without it a client could submit after the join.
  `Exact`: tasks not yet submitted are new, and queue and stacks hold exactly
  the queued and the running tasks.  `DestroyedMeansDrained` needs all three:
  a worker leaves only on an empty queue, and after the flag nothing is queued.
* `PoolImplementsExecutor`: initial states map to initial states, and each
  step maps to a step of `TaskExecutor` or to a stutter.
* `PoolScopedTasksSettled`: what a job submitted has settled when the job is done,
  be it a client's or a task's, unless it is one that may give its futures up.
  The invariant (`JoinedSettled`) says that a job counts only settled futures as
  joined, however stolen tasks lie between it and the top of the stack, and that
  a settled future never changes (`ReadyStays`, which needs `Exact`).

`FunctionRefinerProofs`, for any functions, phases, patterns and answers:

* `RefinerTypeCorrect`; the invariant adds that nothing is pending outside of
  the stage that handles it.
* `RefinerBaselineImproves`: all that is being examined, the fallback
  included, beats the baseline (`ContendersImprove`).
* `RefinerSound`: with a prover, without `trust_unverified`, and assuming that
  refinement is a preorder, that phases mark as sound only what refines their
  baseline, that patterns refine and that the prover's answers are true, every
  baseline refines the original.  The assumptions name exactly what the
  pipeline relies on; the runs show what happens when one is given up.
* `RefinerAdoptionJustified` (if `PhasesSound`): whatever `verify_and_select`
  adopts refines the baseline as a candidate marked sound in its own round, was
  proved and not refuted by an alive-tv that was asked, or passed the differential
  in a mode that takes that for enough.  The invariant `Grounds` says it of the fallback
  too, which is adopted many steps after it was found.

`ModuleRunProofs`, for any number of workers, any order of the functions
(`RunAssumption`: a sequence without repetition) and any of them passed
through, with or without a deadline:

* `RunTypeCorrect`, `RunProgressExact`: the invariant adds to the property that
  what a worker holds was handed out and held by no other (`EachFunctionOnce`),
  that the counter is the number of indices counted, whose worker may not have
  stored the result yet (`CountAgrees`), that an event in a worker's hands is of its
  function and stage (`EventsInOrder`), that rows are final once the result is
  stored (`RowsFinal`), and that threads exit only when the index is past the end
  (`Closing`).  Counting is the hard part: the counter and the set it counts
  change in different steps of different workers.
* `RunFinishedRowsStay`: no delivered event takes a row back from its end.

`CachedVerifierProofs`, for any workers, pairs, keys, capacity and places where an
append may be cut:

* `VerifierTypeCorrect`, `VerifierHitIsLatest`, `VerifierNeverAsksAgain`: both tiers
  answer a key with the process's last verdict, through evictions, full disks and
  flushes; what was answered in the process is never asked again.
* `VerifierDamageContained`: the invariant needs the notion of what a file says
  *firmly*, that is, what it will still say when its torn last line is continued
  by the next append (`FirmLoad`).  `LossCounted` counts the verdicts that are
  durable and not firm, plus one for a torn line that has cost none yet, against
  the torn appends; `LossSettled` says which losses are final.
* `VerifierVerdictsSound`, without hypotheses: a decision returned by `verify` is the
  truth about some pair with the key of the pair asked about.  It is the truth about
  that very pair where keys do not collide, and another's otherwise (section 5).

`SynthesisProofs`; about `Synthesis`, for any problems, pool (not empty) and limit of
rounds:

* `SynthesisAdvances`: `SearchAdvances`.
* `SynthesisFindsSound` (if `EquivalentMeansWorks`): what is found may replace the
  goal.  The invariant says that the values in hand were offered by a query or the
  pool, so that the hypothesis applies to them.
* `SynthesisFailureMeans` (if `WorksMeansEquivalent`): without a timeout and with
  one or two placeholders, failure means that no values of the pool work.  The
  invariant (`TriedRefuted`) is about the attempts so far; that attempts are
  all the pool is the lemma `AttemptsCoverPool`, which decodes numbers.

  Both hypotheses are about `verify` on the templates of the instance; the instance
  of run `solver` states them as an assumption (`VerifierTrusted`) that TLC
  evaluates.  The first excludes goals that may be undefined, for which
  `smt_ub_claim` refutes it.

In the same module, about `AlgoPreprocessor`:

* `AlgoTypeCorrect`, and `AlgoKeepsMeaning` (`ClosedFormsProved`), for any module
  whose functions have the shape of `ClunkIR` (`AlgoAssumption`), any probes and any
  answers of the solver.  Refining is a preorder; a closed form takes the
  arguments of the function it replaces, so both have the same inputs; the
  solver calls equivalent only what refines.  The invariant (`AlgoInv`) says that each
  function refines the one given with its name and arguments: the second
  walk rewrites what the first has replaced, and the two steps compose.

And about `BatchVerifier`, for any batches, any joint answers and any sets that the
solver takes for its unsat core:

* `BatchAddsNoAnswer`: each answer is one that asking about that candidate alone
  could have given, by `verify` or by a single query by values.  An input on which all
  of the candidates differ refutes each of them (`JointRefutes`), and nothing
  follows from the core, which is only left unasked.
* `BatchAddsNoMistake` (if `LegacyAgrees`): `BatchAgrees`.  The hypothesis says that
  a single query by values answers nothing that `verify` could not; it fails for
  candidates that only drop a flag (section 5), and the instance of run `solver`,
  whose batches have no flags and no shifts, states it as an assumption
  (`EncodingsTrusted`) that TLC evaluates.

`StochasticSearchProofs`, for any functions and patterns made of lists of
instructions (`FormedAssumption`), any configurations with a place in the list
(`SearchAssumption`), any probes and costs:

* `SearchKeptNeverEdited`, without hypotheses: the invariant is that where
  functions are edited in place no candidate is the live one (`ListInv`), and that
  hashes in the list are distinct and in `seen_hashes`, so that a hash that
  comes again is not a second candidate's.
* `SearchRejectedLeavesNoTrace`, without hypotheses: the live function has the form
  of a function (`FormedInv`; every mutation, pattern and undoing keeps it), and the
  scope's log leads back from it to the function as it was (`LeadsBack`), after
  every action of every kind of mutation (`MutationBack`).  The work is in the
  folds: swapping the users of a value for clones and taking back the log go
  through a function place by place, so each fold is first unfolded into
  the chain of its steps (`CloneSteps`, `BlockSteps`, `UndoSteps`, by a least
  counterexample on sets of places), and a log with one action more is taken back
  by that action and then the rest (`UndoneLast`).
* `SearchKeepsBest`, for a space of functions that have scores and that mutations
  and patterns do not lead out of (`SearchSpace`; that of all functions
  reachable from the originals is one): each candidate is better than the baseline,
  none better than the best score, and one has it (`Scored`).  An eviction takes the
  worst, which is the best only if all are.
* `SearchSoundMeansRefines`, if in that space a sound kind of mutation refines what
  it edits (`SoundMoves`): the marks of the live function and of every candidate are
  true.  That the mutations are so is what run `search` looks into with the same
  property; the theorem says that the loop adds no mistake of its own.

`ModulePassesProofs`:

* `PassesKeepContexts`, for any modules whose calls pass all arguments
  (`CrossAssumption`), with addresses taken and calls through pointers, and any limit
  of clones, as long as no function that can be reached uses the address of one that
  was removed (`AddressesKept`, which `dfe_address_claim` refutes). `Contexts` recurs
  over sets; the lemma `ContextsLeast` identifies it with the least closed set, by
  induction on what is missing. Two lemmas do the work: a function without callers
  that is not visible is in no context (`RemovedContexts`), and the contexts of a
  module with a clone are those of the module without it, once the clone is read as
  its original with the constant (`CloneContexts`), which needs that all calls
  redirected pass the constant. The invariant (`CrossInv`) adds that what was found
  dead stays without callers while the rest of the batch is removed, and that no clone
  is a candidate.
* `CleanUpKeepsBranches` (if `NoIdleCycles`: blocks without effects share no cycle
  of branches).  Without the hypothesis it is false, and merging may not end
  (`merge_hang_claim`).  The invariant (`MergeInv`) carries a rank that falls along
  branches between blocks without effects.  It says that a chain resolved or half
  resolved leads where the block itself led, that a block that is removed only
  jumped, and that what was folded or pruned is out of reach.  Where a branch
  leads is defined without recursion (`Landing`), so that merging away the
  jumps in between is shown not to move it.
* `AliasOracleSound`, for any block (`BlockFormed`), any layout of its objects
  (`LayoutFormed`) and accesses that are no wider than the element that their pointer
  points to (`AccessesFit`).  What the oracle calls the same has one address, and
  what it keeps apart shares no byte.  `AccessesFit` also says that element accesses
  with the same indices on one object mean the same element, because the oracle does
  not compare array types (section 5).  An address is the sum of the offsets along a
  chain of pointers; with at most one element access on it, that is the one
  offset (`OffsetSum`), and different indices are at least an element apart
  (`ElementsApart`).
* `MemOptKeepsMemory` (`MemoryKept`), if `AccessesFit`.  TLC evaluates the hypothesis on
  the blocks of run `rewrites` (`BlocksFit`); without it the theorem is false,
  which `mem_bytes_claim` shows.  The property is about the end, when the code is put
  together; the invariant (`MemInv`) says after every instruction what holds
  of two runs of what has been looked at.  The run of the block as it is
  (`Arrived`): memory holds every available value, and a deleted load has read what
  its replacement is.  The run of what is left (`Simulated`): whichever of the stores
  that are still pending are left out too, it has shown every call the same, and
  its memory is the same except where those stores wrote (`Match`).  That is
  needed because a store is found dead only later, when what came after it has
  been looked at already: a load that may read a pending store marks it, so that
  a pending store is one that nothing has read.  At the end no store need be
  left out, and the run of the code that was kept is that run (`KeptRuns`).  The
  folds are unfolded into their steps as above (`ThoseSteps`, `ChainSteps`,
  `SumSteps`, `RunSteps`).

`SccOrderProofs`:

* `SearchOrdersExactly` (`OrderExact`), for any call graph whose calls name its nodes
  (`SccAssumption`).  The invariant (`SccInv`) is Tarjan's argument: numbers rise along the
  stack; the nodes with a frame are a chain of calls; such a node leads to all that is
  above it, and all that is on the stack leads back to a frame (`Connected`);
  a link is the number of a node that can be come to, and no more than that of
  any node on the stack that was called by the frame's node or by what was left since
  (`Links`).  So nothing above a root calls below it, which makes what is popped a
  complete component (`RootComplete`).  A node that is no root has a node with a
  lower number behind it, so that it still leads back to a frame when its own is
  popped.  The order is a recursive function over the components; the
  invariant carries its steps (`Strung`).

Only model-checked:

* `MeaningKept`, `FactsSound`, `EncoderExact`, `SplicesSound`,
  `PruningLosesNothing`: they are about what folds over a function's
  instructions compute on words of a given width.  A proof would be by induction over
  the function; the library's induction theorems cannot be instantiated here, so
  each fold takes a least counterexample of its own (as for
  `SearchRejectedLeavesNoTrace` and `MemOptKeepsMemory`).  And powers of two are not
  known to the provers, so that nothing about shifts, masks and wrapping follows.
  `EgraphSound` is in a module with recursive operators.
* Liveness (`PoolEventuallyGone`, the fairness of `TaskExecutor`,
  `RefinementEnds`, `MergeEnds`), which is out of the proof
  system's reach.

The type invariants that no run checks (`MergeTypeOK` of `BlockMerge`, `PassTypeOK`,
`SynthesisTypeOK`, `BatchTypeOK`, `MinerTypeOK` and others) are stated for
the proofs that need them.

## 5. Where code and comments disagree

The runs named `..._claim` state what a comment says and find it violated.
`PROJECT.json` quotes each comment with its line.

* `merge_hang_claim`: merging blocks may never end.  On a module with such a
  function the program does not come back.
* `alive_gate_claim`: a candidate that alive-tv would refute becomes the baseline,
  because candidates marked sound are returned before alive-tv is asked.
* `dfe_address_claim`: a function whose address is in use is removed.
* `inline_labels_claim`: the inliner of several blocks, which takes callees of one
  block too, splits the caller's block; the phis of its successors keep the label of
  the first half, which is no longer a predecessor.  `validate_function` does not look
  at labels, and the result is adopted on its cost.
* `mem_bytes_claim`: overlapping accesses are taken for disjoint.
* `smt_ub_claim`: a candidate with undefined behaviour that the original does
  not have is answered Equivalent.

Observed in the code while modelling, and kept by no run:

Trust and order.

* `include/clunk/Pipeline.h:451`, `verified`, "was the current best SMT-verified?":
  with `trust_unverified` it may be set on a chain that was never anchored.
* `src/Pipeline.cpp:311-313`: "when a caller's inliner runs, its callees have
  already been optimised".  With several workers they need not have been.
* `src/Pipeline.cpp:320-321`: "We preserve module order within each SCC".  The
  members come in the order in which Tarjan's algorithm pops them, the last
  visited first (`Popped`).
* `src/Pipeline.cpp:1927-1929`: "The candidate's structural hash uniquely
  identifies it".  Stochastic candidates carry a hash without constants, so that
  a provable one is skipped for another's rejection.
* `src/Pipeline.cpp:2012` says that a candidate proved not equivalent is never
  adopted, in any mode: with `trust_unverified` it can be, under another label or
  as a sound derivation of an unverified baseline.
* `include/clunk/Pipeline.h:136-145` says that every candidate which the prover or a
  sound rewrite has blessed is shown to alive-tv.  Those marked sound
  (`src/Pipeline.cpp:2085-2088`), those adopted after the differential, and the
  patterns never are (`alive_gate_claim`).  `AdoptionJustified` asks for its opinion
  where the code does.
* `src/Pipeline.cpp:1268-1311`: the results of patterns become the baseline on their
  score alone, before any round; neither the prover nor alive-tv sees them.
  `RefinerSound` assumes that patterns refine (`PatternsSound`), which
  `strength_reduce_mul` does not (below).
* `include/clunk/Search/AlgoPreprocessor.h:46-47`, "When the candidate fails SMT
  (NotEquivalent), the original is preserved", and the same in
  `include/clunk/Pipeline.h:121-123`: with `trust_unverified` a refuted closed form
  replaces the function.  `ClosedFormsProved` is stated without it.
* `src/Pipeline.cpp:2250-2252`: "so the TUI always has up-to-date module-level
  stats".  `report_progress` sends an event whose counters are zero.
* `include/clunk/Search/ThreadPool.h:31-32`: "Pending tasks are NOT guaranteed to
  run; callers that need completion must wait on their futures before the pool
  destructs."  The code guarantees more than that: a worker leaves only when the
  queue is empty (line 204), so that every task accepted runs before the destructor
  returns.  `DestroyedMeansDrained` states what the code does.  EvolutionarySearch
  rests on it: its abandoned tasks read the search object that owns the pool.
* `include/clunk/Search/ThreadPool.h:154-155`: "Both helpers honour shutdown_".
  Neither reads it; a task that waits still runs queued tasks after shutdown.

Cache.

* `src/Search/RewriteCache.cpp:36-37`, "a crash after `put` does not lose data":
  a flushed verdict that was appended to a torn line is lost.
* `include/clunk/Search/RewriteCache.h:139-143`: a collision "would at worst cause a
  wrong cache hit - which the SMT verifier downstream would catch (the cache is an
  optimisation, not a soundness gate)".  Nothing downstream catches it:
  `verify()` returns the hit as it is (`src/Search/SMTVerifier.cpp:2016-2033`).
  `VerdictsSound` says what is left: the decision is about some pair of that key.  In
  the instance two pairs collide, and one is answered with the other's verdict.
* `src/Search/RewriteCache.cpp:92-94` says that a truncated line is rejected: one
  that was cut after the first digit of `lhs_hash` and continued by the next
  line's digits is read, under a key of no pair; `DamageContained` is about the
  keys of pairs.

Passes.

* `src/Pipeline.cpp:569-570`, "Sound by construction": merging blocks gives phis
  wrong labels (a loop whose header becomes the entry still has a phi), and an
  entry that only branches is merged away, after which the block that stands next
  in the text becomes the entry, wherever the branch led.
* `src/IR/DataflowPrune.cpp:503`: duplicates are merged for what follows in the text.
  In a loop that computes its next value twice the phi of the header keeps the name of
  the one that was dropped.  Such loops are not in the instance of `MeaningKept`.
* `src/Search/MemOpt.cpp:185-189`: element accesses with the same indices and the same
  element type are MustAlias, also if one goes into an array of rows of two and the
  other into rows of three.  `AccessesFit` excludes that.
* `src/Search/Inliner.cpp:567-574`: the map from the callee's names to the
  caller's values is applied to the caller's own instructions behind the call.  A
  caller that uses a name which the callee also uses reads the wrong value.

Interpreter, encoder and synthesis.

* The interpreter's `lshr`, `udiv` and `urem` on negative values of narrow types,
  `sext` of one bit, and phis (read one after the other) differ from the IR; the
  test vectors of the searches pass 64-bit probes to narrow arguments, so that
  sound candidates may be filtered out.
* `src/Search/SMTVerifier.cpp:3290-3294`: "we parse as unsigned then cast".
  `strtoll` saturates; placeholders of 2^63 and more are read as 2^63 - 1, and are
  then refuted (`SynthesisSound`).
* The batch encoding has no flags for poison and takes shifts out of range as
  SMT-LIB does: a batch may answer NotEquivalent for a candidate that only drops
  a flag, against `include/clunk/Search/SMTVerifier.h:228-231`, "all candidates
  are definitely unequivalent".
* A counterexample that differs from the last only by poison excludes nothing,
  and the rounds go on to their limit.
* `src/Search/SMTVerifier.cpp:3563` speaks of 16 and line 3600 of 24 constants;
  the pool is larger.
* `src/Search/PeepholeMiner.cpp:1995-2005` counts distinct users: in
  `select c, a, a` the value is observable on both arms and counts as one user.

Searches.

* `src/Evaluator/EvaluationEngine.cpp:424-431`: the optimisation bonuses are added
  to the cost that is then negated, and so make a function worse.
* `include/clunk/Search/StochasticSearch.h:353-358`: "functions that are
  structurally identical up to renaming share a canonical hash".  So do functions
  that differ in constants, predicates or widths, and a cached score may be of
  another function.  `BestIsKept` is about the scores the search believes.
* `include/clunk/Search/StochasticSearch.h:115-117`: the second phase starts "from
  the best phase-1 candidate".  It starts from the live function.
* An insertion at the end of a block lands behind its terminator; with
  `max_candidates` 0 the best score is reported with no candidate; swapping may
  move a division over a call that does not return.
* `src/Pipeline.cpp:1868-1876`: "All pattern-library patterns are sound".
  `strength_reduce_mul`, which every library contains, replaces a product by a shift
  without operands.  The e-graph merges that shift with every product, and extracts it
  where no other rule makes the product cheaper still, as `mul_one_elim` does of x * 1.
  The tests know of it and avoid products (`tests/test_cross_function.cpp:61`, 177).
  `EgraphSound` excludes these functions; without that, TLC finds the malformed
  candidate at once.  The e-graph is off by default; `apply_patterns` is not.
* `include/clunk/Search/EgraphRewriter.h:76-77`: identical nodes need not have the
  same type (casts and constants of several widths are merged); labels of phis
  and calls' effects are no part of a node.

## 6. Plan

Done: all modules of section 2; the theorems of section 4.

To prove: `SoundMoves`, mutation by mutation.

To model: the order that `SccOrder` produces as the order that `ModuleRun` takes
as a constant; the evolutionary search's generations over `ThreadPool`; the
parallel enumeration of hole synthesis with its shared limits; the evaluation
cache and the order of look-up, computation and store; the interface's session
(render loop, keys, `mark_done`).

## 7. Not modelled

* Floats, vectors and switches: `ClunkIR` has integers and single cells of
  memory.  With them go vector synthesis, the scalariser and the lane-by-lane
  queries.
* The parser and all printing; files of patterns and mined rules; the learning of
  patterns: text.
* The terms of the cost model that need memory, loop frequencies or hardware, the
  cost tables and the llvm-mca subprocess.  The properties hold for any cost:
  in `FunctionPasses` and `PeepholeMiner` the score decides nothing, and
  `StochasticSearch` takes `CostOf` as a constant.
* The bindings of Z3, the solver itself, and alive-tv's subprocess: the solver is
  what a sound solver with timeouts may answer.
* Bounded unrolling inside `verify` and the random simulation before a query.
* The GPU back end, which runs after the candidates were chosen.
* Vendored code, benchmarks, examples and scripts, which are not part of the
  program.
