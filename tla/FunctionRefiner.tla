-------------------------- MODULE FunctionRefiner ---------------------------
(***************************************************************************)
(* Pipeline::run_on_function and Pipeline::verify_and_select               *)
(* (src/Pipeline.cpp): how one function is refined.                        *)
(*                                                                         *)
(* Pattern rewrites come first; then rounds.  A round runs the search      *)
(* phases on the current baseline, collects their candidates, and adopts   *)
(* at most one as the next baseline: a sound-by-construction one, one the  *)
(* SMT prover proves equivalent to the original, or, when unverified       *)
(* results are trusted, one on which a test-vector differential agrees.    *)
(*                                                                         *)
(* Functions are model values.  What the phases find, what the prover and  *)
(* alive-tv answer, and which functions refine which are constants, so the *)
(* module says what the pipeline makes of them, right or wrong.            *)
(***************************************************************************)
EXTENDS Integers, Sequences, FiniteSets

CONSTANTS
  Functions, Original, None,
  Refines,       \* set of pairs <<f, g>>: g refines f
  Score,         \* EvaluationEngine::analyse(f).score, higher is better
  StructHash,    \* StochasticSearch::structural_hash
  CanonHash,     \* StochasticSearch::canonical_structural_hash
  Pattern,       \* Pattern[f]: the best-matching pattern's rewrite, or None
  Offers,        \* Offers[phase][f]: [fn, sound] candidates of the phase on f
  Verdicts,      \* Verdicts[f]: what SMTVerifier::verify(Original, f) may say
  AliveRefutes,  \* the functions alive-tv refutes against Original
  ProbesAgree,   \* the functions the interpreter differential accepts
  GpuRewrites    \* GpuRewrites[f]: what gpu_optimise may turn f into

\* PipelineConfig.
CONSTANTS
  Modes,         \* [z3, trust, alive]: how candidates may be justified
  OptLevel, Enabled, Oversized, MCA,
  MCARatio,      \* MCARatio[f][g]: compare(f, g) in percent, 0 = unmeasurable
  Convergence, MaxRounds, MaxSmtAttempts, MaxMeasured, MaxPatternPasses,
  HasDeadline, HasFunctionCap

\* The phases of a round, in the order in which run_on_function calls them.
PhaseOrder == <<"vector", "loop", "mem", "prune", "pow2", "stochastic",
                "evolutionary", "mining", "egraph", "hole">>
Phases     == {PhaseOrder[i] : i \in DOMAIN PhaseOrder}

\* Searches driven by a random number generator, the others are deterministic.
Randomised == {"stochastic", "evolutionary"}

ProverAnswers == {"Equivalent", "NotEquivalent", "Unknown", "Error"}
Hashes   == {StructHash[f] : f \in Functions} \cup {CanonHash[f] : f \in Functions}
Offer    == [fn : Functions, sound : BOOLEAN]
Candidates == [fn : Functions, sound : BOOLEAN, hash : Hashes]

ASSUME RefinerAssumption ==
  /\ Original \in Functions /\ None \notin Functions
  /\ Refines \subseteq Functions \X Functions
  /\ Score \in [Functions -> Int]
  /\ Pattern \in [Functions -> Functions \cup {None}]
  /\ Offers \in [Phases -> [Functions -> SUBSET Offer]]
  /\ Verdicts \in [Functions -> SUBSET ProverAnswers]
  /\ GpuRewrites \in [Functions -> SUBSET Functions]
  /\ Enabled \subseteq Phases
  /\ Modes \subseteq [z3 : BOOLEAN, trust : BOOLEAN, alive : BOOLEAN]
  /\ {Oversized, MCA, HasDeadline, HasFunctionCap} \subseteq BOOLEAN
  /\ Convergence \in Nat \ {0} /\ MaxSmtAttempts \in Nat \ {0}
  /\ {MaxRounds, MaxPatternPasses, MaxMeasured, OptLevel} \subseteq Nat

VARIABLES
  mode,       \* the run's member of Modes, fixed
  stage,      \* where run_on_function stands
  current,    \* the refinement baseline
  verified,   \* result.verified
  passes,     \* result.patterns_applied
  round, stagnant,
  phase,      \* index in PhaseOrder of the next phase of the round
  lastHash,   \* s.last_<phase>_hash; None initially
  pool,       \* all_candidates
  scored,     \* the candidates verify_and_select still has to examine
  measured,   \* candidate -> llvm-mca ratio used for ranking
  attempts,   \* smt_attempts
  fallback,   \* unknown_fallback
  rejected,   \* s.rejected_hashes
  clock,      \* remaining_seconds(): "ample" > 50ms, "short" > 0, "over"
  optimised   \* result.optimised, None until run_on_function returns

chain   == <<current, verified, passes>>
rounds  == <<round, stagnant>>
search  == <<phase, lastHash, pool>>
choice  == <<scored, measured, attempts, fallback>>
vars == <<mode, stage, chain, rounds, search, choice, rejected, clock, optimised>>

HasZ3 == mode.z3      \* a prover is available
Trust == mode.trust   \* trust_unverified
Alive == mode.alive   \* alive-tv gives a second opinion

Init ==
  /\ mode \in Modes
  /\ stage = "patterns"
  /\ current = Original
  /\ verified = FALSE
  /\ passes = 0
  /\ round = 0 /\ stagnant = 0
  /\ phase = 1
  /\ lastHash = [p \in Phases |-> None]
  /\ pool = {} /\ scored = {} /\ measured = [c \in {} |-> 0]
  /\ attempts = 0
  /\ fallback = None
  /\ rejected = {}
  /\ clock = "ample"
  /\ optimised = None

-----------------------------------------------------------------------------
\* Wall-clock time passes at any moment, if there is a deadline at all.
TimePasses ==
  /\ HasDeadline /\ stage # "done" /\ clock # "over"
  /\ clock' = IF clock = "ample" THEN "short" ELSE "over"
  /\ UNCHANGED <<mode, stage, chain, rounds, search, choice, rejected, optimised>>

-----------------------------------------------------------------------------
(* apply_patterns: keep the best match's rewrite while it scores better *)

PatternHelps ==
  /\ OptLevel > 0 /\ ~Oversized
  /\ passes < MaxPatternPasses
  /\ Pattern[current] # None
  /\ Score[Pattern[current]] > Score[current]

ApplyPattern ==
  /\ stage = "patterns" /\ PatternHelps
  /\ current' = Pattern[current]
  /\ passes' = passes + 1
  /\ UNCHANGED <<stage, verified, rounds, search, choice, rejected, clock, optimised>>

PatternsDone ==
  /\ stage = "patterns" /\ ~PatternHelps
  /\ stage' = IF OptLevel >= 2 THEN "round" ELSE "finish"
  /\ UNCHANGED <<chain, rounds, search, choice, rejected, clock, optimised>>

-----------------------------------------------------------------------------
(* The round loop of run_on_function *)

OutOfRounds ==
  \/ stagnant >= Convergence
  \/ MaxRounds > 0 /\ round >= MaxRounds
  \/ clock # "ample"

StartRound ==
  /\ stage = "round" /\ ~OutOfRounds
  /\ stage' = "search"
  /\ phase' = 1 /\ pool' = {}
  /\ UNCHANGED <<chain, rounds, lastHash, choice, rejected, clock, optimised>>

\* The per-function time cap may end the loop before any round.
StopRounds ==
  /\ stage = "round"
  /\ OutOfRounds \/ HasFunctionCap
  /\ stage' = "finish"
  /\ UNCHANGED <<chain, rounds, search, choice, rejected, clock, optimised>>

\* gpu_optimise runs last, on the result of the rounds.
Finish ==
  /\ stage = "finish"
  /\ stage' = "done"
  /\ optimised' \in IF GpuRewrites[current] = {} THEN {current} ELSE GpuRewrites[current]
  /\ UNCHANGED <<chain, rounds, search, choice, rejected, clock>>

-----------------------------------------------------------------------------
(* One search phase.  The deterministic phases are skipped on a baseline   *)
(* with the hash they saw last; a phase that is disabled, or has no time   *)
(* left, does not record the hash.                                         *)

\* Phases a function above max_function_size does not get.
SizeLimited == {"stochastic", "evolutionary", "egraph", "hole"}

Starved(p) ==
  IF p \in Randomised \cup {"egraph"} THEN clock = "over" ELSE clock # "ample"

Runnable(p) ==
  /\ p \in Enabled
  /\ p \in SizeLimited => ~Oversized
  /\ p = "mining" => HasZ3
  /\ ~Starved(p)

Seen(p) == p \notin Randomised /\ lastHash[p] = StructHash[current]

\* The simulated-annealing search labels its candidates with the canonical
\* hash, every other phase with the structural one.
Labelled(p, o) ==
  [fn |-> o.fn, sound |-> o.sound,
   hash |-> IF p = "stochastic" THEN CanonHash[o.fn] ELSE StructHash[o.fn]]

RunPhase ==
  /\ stage = "search" /\ phase <= Len(PhaseOrder)
  /\ LET p == PhaseOrder[phase] IN
       /\ Runnable(p) /\ ~Seen(p)
       /\ \E found \in IF p \in Randomised THEN SUBSET Offers[p][current]
                       ELSE {Offers[p][current]} :
            pool' = pool \cup {Labelled(p, o) : o \in found}
       /\ lastHash' = IF p \in Randomised THEN lastHash
                      ELSE [lastHash EXCEPT ![p] = StructHash[current]]
  /\ phase' = phase + 1
  /\ UNCHANGED <<stage, chain, rounds, choice, rejected, clock, optimised>>

SkipPhase ==
  /\ stage = "search" /\ phase <= Len(PhaseOrder)
  /\ ~Runnable(PhaseOrder[phase]) \/ Seen(PhaseOrder[phase])
  /\ phase' = phase + 1
  /\ UNCHANGED <<stage, chain, rounds, lastHash, pool, choice, rejected, clock, optimised>>

-----------------------------------------------------------------------------
(* verify_and_select *)

\* Mutant: a candidate only has to beat the original.
Improves_OnOriginal(c) == Score[c.fn] > Score[Original]

Improves(c) == Score[c.fn] > Score[current]

\* Candidates that improve on the baseline and whose hash was not rejected.
Shortlist == {c \in pool : Improves(c) /\ c.hash \notin rejected}

\* llvm-mca measures the MaxMeasured best-scoring candidates; ties are
\* ordered by std::sort, that is, anyhow.
TopScored(M) ==
  /\ M \subseteq Shortlist
  /\ Cardinality(M) = IF Cardinality(Shortlist) < MaxMeasured
                        THEN Cardinality(Shortlist) ELSE MaxMeasured
  /\ \A c \in M, d \in Shortlist \ M : Score[c.fn] >= Score[d.fn]

RatioIn(M, c) == IF c \in M THEN MCARatio[current][c.fn] ELSE 0

\* Measured and not faster than the baseline: dropped.
Slower(M, c) == RatioIn(M, c) > 0 /\ RatioIn(M, c) <= 100

Select ==
  /\ stage = "search" /\ phase > Len(PhaseOrder)
  /\ stage' = "verify"
  /\ \E M \in IF MCA THEN {S \in SUBSET Shortlist : TopScored(S)} ELSE {{}} :
       /\ scored' = {c \in Shortlist : ~Slower(M, c)}
       /\ measured' = [c \in scored' |-> RatioIn(M, c)]
  /\ attempts' = 0
  /\ fallback' = None
  /\ UNCHANGED <<chain, rounds, search, rejected, clock, optimised>>

\* c comes no later than d: by measured ratio, then by score.
Before(c, d) ==
  \/ measured[c] > measured[d]
  \/ measured[c] = measured[d] /\ Score[c.fn] >= Score[d.fn]

\* The next candidate of the adoption loop; equals come in any order.
IsNext(c) == c \in scored /\ \A d \in scored : Before(c, d)

\* round saturates at MaxRounds, the only number it is compared with.
EndRound == /\ stage' = "round"
            /\ round' = IF round < MaxRounds THEN round + 1 ELSE round
            /\ pool' = {} /\ scored' = {} /\ measured' = [c \in {} |-> 0]

\* The chosen candidate becomes the baseline.
Adopt(f, ver) ==
  /\ current' = f
  /\ verified' = ver
  /\ stagnant' = 0
  /\ EndRound
  /\ UNCHANGED <<passes, phase, lastHash, attempts, fallback, clock, optimised>>

\* The loop goes on to the next candidate.
Discard(c) ==
  /\ scored' = scored \ {c}
  /\ UNCHANGED <<stage, chain, rounds, search, measured, clock, optimised>>

\* Tier 1: sound by construction, no prover is asked.
AdoptSound(c) ==
  /\ stage = "verify" /\ IsNext(c)
  /\ c.sound
  /\ Adopt(c.fn, TRUE)
  /\ UNCHANGED rejected

\* No prover: the interpreter differential decides.
AdoptByProbes(c) ==
  /\ stage = "verify" /\ IsNext(c) /\ ~HasZ3
  /\ ~c.sound /\ c.fn \in ProbesAgree
  /\ Adopt(c.fn, FALSE)
  /\ UNCHANGED rejected

FailProbes(c) ==
  /\ stage = "verify" /\ IsNext(c) /\ ~HasZ3
  /\ ~c.sound /\ c.fn \notin ProbesAgree
  /\ Discard(c)
  /\ UNCHANGED <<attempts, fallback, rejected>>

\* The per-round cap on prover calls is used up.
SkipUnasked(c) ==
  /\ stage = "verify" /\ IsNext(c) /\ HasZ3
  /\ ~c.sound /\ attempts >= MaxSmtAttempts
  /\ Discard(c)
  /\ UNCHANGED <<attempts, fallback, rejected>>

\* Mutant: off by one in the cap on prover calls.
Asked_OneMore(c, status) ==
  /\ stage = "verify" /\ IsNext(c) /\ HasZ3
  /\ ~c.sound /\ attempts <= MaxSmtAttempts
  /\ status \in Verdicts[c.fn]

Asked(c, status) ==
  /\ stage = "verify" /\ IsNext(c) /\ HasZ3
  /\ ~c.sound /\ attempts < MaxSmtAttempts
  /\ status \in Verdicts[c.fn]

\* Mutant: an answer that is not NotEquivalent counts as safe.
AdoptProved_UnlessRefuted(c) ==
  /\ Asked(c, "Equivalent") \/ Asked(c, "Unknown") \/ Asked(c, "Error")
  /\ Alive => c.fn \notin AliveRefutes
  /\ Adopt(c.fn, TRUE)
  /\ UNCHANGED rejected

\* Mutant: the second opinion is not waited for.
AdoptProved_SMTAlone(c) ==
  /\ Asked(c, "Equivalent")
  /\ Adopt(c.fn, TRUE)
  /\ UNCHANGED rejected

\* Tier 2: proved equivalent to the original, and not refuted by alive-tv.
AdoptProved(c) ==
  /\ Asked(c, "Equivalent")
  /\ Alive => c.fn \notin AliveRefutes
  /\ Adopt(c.fn, TRUE)
  /\ UNCHANGED rejected

RejectRefutedByAlive(c) ==
  /\ Asked(c, "Equivalent")
  /\ Alive /\ c.fn \in AliveRefutes
  /\ rejected' = rejected \cup {c.hash}
  /\ attempts' = attempts + 1
  /\ Discard(c)
  /\ UNCHANGED fallback

RejectNotEquivalent(c) ==
  /\ Asked(c, "NotEquivalent")
  /\ rejected' = rejected \cup {c.hash}
  /\ attempts' = attempts + 1
  /\ Discard(c)
  /\ UNCHANGED fallback

\* Tier 3: no proof; remembered as a fallback if unverified results are
\* trusted, none is remembered yet and the differential agrees.
RejectUnknown(c) ==
  /\ Asked(c, "Unknown") \/ Asked(c, "Error")
  /\ rejected' = rejected \cup {c.hash}
  /\ attempts' = attempts + 1
  /\ fallback' = IF Trust /\ fallback = None /\ c.fn \in ProbesAgree
                   THEN c.fn ELSE fallback
  /\ Discard(c)

AdoptFallback ==
  /\ stage = "verify" /\ scored = {} /\ fallback # None
  /\ Adopt(fallback, FALSE)
  /\ UNCHANGED rejected

\* Mutant: a round without an improvement is not counted.
KeepBaseline_NotCounted ==
  /\ stage = "verify" /\ scored = {} /\ fallback = None
  /\ EndRound
  /\ UNCHANGED <<chain, stagnant, phase, lastHash, attempts, fallback, rejected, clock, optimised>>

KeepBaseline ==
  /\ stage = "verify" /\ scored = {} /\ fallback = None
  /\ stagnant' = stagnant + 1
  /\ EndRound
  /\ UNCHANGED <<chain, phase, lastHash, attempts, fallback, rejected, clock, optimised>>

Examine(c) ==
  \/ AdoptSound(c) \/ AdoptByProbes(c) \/ FailProbes(c) \/ SkipUnasked(c)
  \/ AdoptProved(c) \/ RejectRefutedByAlive(c)
  \/ RejectNotEquivalent(c) \/ RejectUnknown(c)

-----------------------------------------------------------------------------
Done == stage = "done" /\ UNCHANGED vars

Work == /\ \/ ApplyPattern \/ PatternsDone \/ StartRound \/ StopRounds \/ Finish
           \/ RunPhase \/ SkipPhase \/ Select
           \/ \E c \in scored : Examine(c)
           \/ AdoptFallback \/ KeepBaseline
        /\ UNCHANGED mode

Next == Work \/ TimePasses \/ Done

Spec == Init /\ [][Next]_vars

\* The worker that runs the function keeps running; time need not pass.
FairSpec == Spec /\ WF_vars(Work)

-----------------------------------------------------------------------------
(* What is assumed of the parts around this one *)

\* Refinement is a preorder.
RefinementLaws ==
  /\ \A f \in Functions : <<f, f>> \in Refines
  /\ \A f, g, h \in Functions :
       <<f, g>> \in Refines /\ <<g, h>> \in Refines => <<f, h>> \in Refines

\* A candidate marked sound refines the baseline it was derived from.
PhasesSound ==
  \A p \in Phases : \A f \in Functions : \A o \in Offers[p][f] :
    o.sound => <<f, o.fn>> \in Refines

\* The prover's answers are true.
ProverSound ==
  \A f \in Functions :
    /\ "Equivalent" \in Verdicts[f] => <<Original, f>> \in Refines
    /\ "NotEquivalent" \in Verdicts[f] => <<Original, f>> \notin Refines

PatternsSound ==
  \A f \in Functions : Pattern[f] # None => <<f, Pattern[f]>> \in Refines

-----------------------------------------------------------------------------
TypeOK ==
  /\ mode \in Modes
  /\ stage \in {"patterns", "round", "search", "verify", "finish", "done"}
  /\ current \in Functions
  /\ verified \in BOOLEAN
  /\ passes \in Nat /\ round \in Nat /\ stagnant \in Nat /\ attempts \in Nat
  /\ phase \in 1..(Len(PhaseOrder) + 1)
  /\ lastHash \in [Phases -> Hashes \cup {None}]
  /\ pool \subseteq Candidates
  /\ scored \subseteq pool
  /\ DOMAIN measured \subseteq pool /\ scored \subseteq DOMAIN measured
  /\ fallback \in Functions \cup {None}
  /\ rejected \subseteq Hashes
  /\ clock \in {"ample", "short", "over"}
  /\ optimised \in Functions \cup {None}
  /\ stage = "verify" => attempts <= MaxSmtAttempts

(***************************************************************************)
(* Soundness of the refinement chain (verify_and_select, "SMT-verified     *)
(* candidates are always proved against the ORIGINAL function"): with a    *)
(* prover and without trust_unverified every baseline refines the          *)
(* original, although sound-by-construction steps are only relative to the *)
(* baseline they start from.                                               *)
(***************************************************************************)
BaselineRefinesOriginal == HasZ3 /\ ~Trust => <<Original, current>> \in Refines

(***************************************************************************)
(* Every adoption rests on something: the sound derivation, from the       *)
(* baseline at hand, of a candidate of this very round; a proof that       *)
(* alive-tv, if it is asked, has not refuted; or, only where the user or   *)
(* the lack of a prover allows it, a differential that agrees.  The second *)
(* opinion stands with the proof alone, as in the code                     *)
(* (Pipeline.cpp:2085-2127): AliveRefutedNeverAdopted is what the header   *)
(* makes of it.                                                            *)
(***************************************************************************)
AdoptionJustified ==
  [][stage = "verify" /\ current' # current =>
       \/ \E c \in scored :
            c.sound /\ c.fn = current' /\ <<current, current'>> \in Refines
       \/ /\ HasZ3 /\ "Equivalent" \in Verdicts[current']
          /\ Alive => current' \notin AliveRefutes
       \/ (Trust \/ ~HasZ3) /\ current' \in ProbesAgree]_vars

(***************************************************************************)
(* "When enabled, every candidate that SMTVerifier (or a                   *)
(* sound-by-construction rewrite) already blessed is additionally checked  *)
(* with alive-tv before being adopted. ...  A candidate alive-tv REFUTES   *)
(* is never adopted" (include/clunk/Pipeline.h:136-145), where a prover is *)
(* at hand and unverified results are not trusted.  A candidate marked     *)
(* sound is adopted before alive-tv is asked (Pipeline.cpp:2085-2088).     *)
(***************************************************************************)
AliveRefutedNeverAdopted ==
  [][stage = "verify" /\ current' # current /\ HasZ3 /\ Alive /\ ~Trust =>
       current' \notin AliveRefutes]_vars

(***************************************************************************)
(* The baseline only ever gets better, also when it is the fallback that   *)
(* was put aside while other candidates were examined: rounds cannot       *)
(* oscillate between two versions.                                         *)
(***************************************************************************)
BaselineImproves ==
  [][current' # current => Score[current'] > Score[current]]_vars

(***************************************************************************)
(* Without any deadline or round limit the rounds converge and the         *)
(* function is finished.                                                   *)
(***************************************************************************)
RefinementTerminates == <>(stage = "done")

=============================================================================
