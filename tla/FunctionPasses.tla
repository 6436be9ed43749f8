--------------------------- MODULE FunctionPasses ---------------------------
(***************************************************************************)
(* What Pipeline::run does to one function without asking a prover: the    *)
(* folding of the whole module, the two inliners behind their cost gates,  *)
(* the candidates that the loop, prune and powers-of-two phases mark as    *)
(* sound, which rounds of refinement adopt as they come, and the inlining  *)
(* and folding of the optimised module at the end.  The cost model is a    *)
(* choice: every gate may open or stay shut.                               *)
(***************************************************************************)
EXTENDS DataflowPrune, LoopOpt, Inliner

CONSTANTS Functions,     \* the functions a module may give
          MaxRounds      \* bounds the adoptions of sound candidates

ASSUME MaxRoundsAssumption == MaxRounds \in Nat

VARIABLES original,      \* the function, as it was given
          baseline,      \* the function, as it is now
          stage,         \* where Pipeline::run is
          adopted        \* the sound candidates adopted so far

passVars == <<original, baseline, stage, adopted>>

\* prune_dataflow: at most four iterations, until one changes nothing.
prune_dataflow(f) == Iterate(PruneOnce, f, 4)

FunctionInit ==
  /\ original \in Functions /\ baseline = original
  /\ stage = "given" /\ adopted = 0

Goes(from, to) == stage = from /\ stage' = to /\ UNCHANGED <<original, adopted>>

\* The module-level folding; it calls prune_dataflow up to three times.
Fold ==
  /\ Goes("given", "folded")
  /\ baseline' = Iterate(prune_dataflow, baseline, 3)

\* Both inliners, each kept only if the result scores better.
InlineBlock ==
  /\ Goes("folded", "inlining")
  /\ baseline' \in {baseline, inline_calls(baseline)}
InlineBlocks ==
  /\ Goes("inlining", "refining")
  /\ baseline' \in {baseline, inline_calls_multiblock(baseline)}

\* The candidates marked sound.  The loop phase offers the hoisted function
\* and the unrolled one, made from it.
has_back_edge(f) == LoopHeaders(f) # {}
loop_phase(f) ==
  IF has_back_edge(f)
  THEN {hoist_invariants(f), unroll_constant_loops(hoist_invariants(f))} ELSE {}
dataflow_prune_phase(f) == {prune_dataflow(f)}
pow2_phase(f)           == {simplify_pow2_strength_reduce(f)}
SoundCandidates(f) ==
  (loop_phase(f) \cup dataflow_prune_phase(f) \cup pow2_phase(f)) \ {f}

\* A round adopts one of them, whichever scores best.
AdoptSound ==
  /\ stage = "refining" /\ adopted < MaxRounds
  /\ baseline' \in SoundCandidates(baseline)
  /\ adopted' = adopted + 1
  /\ UNCHANGED <<original, stage>>

\* The clean-up of the optimised module: inlining again, folding again.
Cleanup ==
  /\ Goes("refining", "assembled")
  /\ \E inlined \in {baseline, inline_calls_multiblock(baseline)} :
       baseline' = prune_dataflow(inlined)

PassNext == Fold \/ InlineBlock \/ InlineBlocks \/ AdoptSound \/ Cleanup
PassSpec == FunctionInit /\ [][PassNext]_passVars

-----------------------------------------------------------------------------
InputsOf(f) ==
  {ins \in [DOMAIN f.args -> 0..7] : \A n \in DOMAIN f.args : ins[n] < 2^f.args[n].w}

PassTypeOK ==
  /\ adopted \in 0..MaxRounds /\ Validated(baseline)
  /\ stage \in {"given", "folded", "inlining", "refining", "assembled"}

\* Whatever the passes do one after the other, and whatever the cost gates
\* let through, the function means what was given: for every input for which
\* that has a meaning the result is the same.  Nothing proves this at run time:
\* the candidates are adopted as "sound" (src/Pipeline.cpp:1714, 1775), the
\* clean-up is "Sound by construction (inlining + prune_dataflow + DFE are all
\* exact)" (:571).  It fails for functions where a phi reads an arm with a call
\* that is spliced: its label is left behind.
MeaningKept == baseline = original \/ Refines(baseline, original, InputsOf(original))

\* The facts of the known-bits analysis hold for every value that a run binds,
\* whatever order its blocks are visited in: a fact that is one bit too many
\* would fold a branch or drop a mask that matters.
FactsSound ==
  LET env == analyse_known_bits(baseline)
      Sound(s) == \A x \in DOMAIN s.env \cap DOMAIN env :
                    s.env[x] # Poison => Allows(env[x], s.env[x])
  IN  \A ins \in InputsOf(baseline) :
        \A t \in Range(RunOf(baseline, ins)) : Sound(t)

=============================================================================
