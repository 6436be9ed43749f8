-------------------------- MODULE StochasticSearch --------------------------
(***************************************************************************)
(* StochasticSearch::search (src/Search/StochasticSearch.cpp): simulated   *)
(* annealing over the mutations of a function.  One action is one turn of  *)
(* its loop.                                                               *)
(*                                                                         *)
(* The temperature is the number of decays that are left before it falls   *)
(* below min_temperature.  The mutation sites and the instruction count of *)
(* current_fn are computed again wherever it or the phase changes, and are *)
(* operators of them.  Scores are cached under a hash that identifies      *)
(* functions which differ in constants, predicates or widths.              *)
(*                                                                         *)
(* A kept candidate is an object: "live" says that it is the one that      *)
(* current_fn points to, so that an edit of current_fn edits it too.       *)
(***************************************************************************)
EXTENDS Mutations, PatternLibrary, CostModel

CONSTANTS Originals,     \* the functions that are searched
          Configs,       \* StochasticConfig, one for each search
          Probes,        \* kProbe: the arguments tests are made from
          Cooling,       \* the decays from temperature to min_temperature
          CheckEvery,    \* 32: the iterations between two looks at the clock
          target_arch,
          ExtraPatterns  \* the patterns loaded besides the seeded ones

ASSUME FormedAssumption ==
  /\ \A f \in Originals : Formed(f)
  /\ \A p \in ExtraPatterns : IsSequence(p.source) /\ IsSequence(p.replacement)
ASSUME SearchAssumption == \A c \in Configs : c.max_candidates \in Nat \ {0}

VARIABLES original, config,
          current_fn, current_score, current_sound, score_cache_,
          candidates,          \* [fn, score, hash, sound, live]
          seen_hashes, best_score, last_best_score, stagnation_counter,
          heat, iter, allow_unsound, next_stoke_name,
          mutations_accepted, stagnation_restarts,   \* of stats_
          returned

vars == <<original, config, current_fn, current_score, current_sound, score_cache_, candidates, seen_hashes, best_score,
          last_best_score, stagnation_counter, heat, iter, allow_unsound, next_stoke_name,
          mutations_accepted, stagnation_restarts, returned>>

-----------------------------------------------------------------------------
(* What a candidate is judged by.                                           *)

\* Names by the place of their definition, constants by the place where a
\* value of that width is first used; blocks without their names.
DefinitionOf(f, all, n, v) ==
  LET before == {m \in 1..(n - 1) : all[m].name = v}
      params == {m \in DOMAIN f.args : f.args[m].name = v}
  IN  IF before # {} THEN <<"value", Max(before)>>
      ELSE IF params # {} THEN <<"value", -Max(params)>> ELSE <<"undefined", 0>>
FirstUse(all, n, k) ==
  LET like == {m \in 1..n : \E j \in DOMAIN all[m].args :
                              /\ all[m].args[j] = all[n].args[k]
                              /\ OperandWidth(all[m], j) = OperandWidth(all[n], k)}
      m == Min(like)
  IN  <<m, Min({j \in DOMAIN all[m].args : /\ all[m].args[j] = all[n].args[k]
                                         /\ OperandWidth(all[m], j) = OperandWidth(all[n], k)})>>
CanonicalOperand(f, all, n, k) ==
  IF IsNamed(all[n].args[k]) THEN DefinitionOf(f, all, n, all[n].args[k])
  ELSE <<"constant", FirstUse(all, n, k)>>
CanonicalCode(f, all) ==
  [n \in DOMAIN all |-> <<Opcode(all[n]), all[n].flags,
                          [k \in DOMAIN all[n].args |-> CanonicalOperand(f, all, n, k)]>>]
canonical_structural_hash(f) ==
  [args |-> Len(f.args), sizes |-> [k \in DOMAIN f.order |-> Len(f.body[f.order[k]])],
   code |-> CanonicalCode(f, Instructions(f))]

\* The first argument is a probe and the others are the ones after it.  The
\* filter stops at the first vector that one of the functions refuses.
TestVector(n, nargs) == [j \in 1..nargs |-> Probes[((n + j - 2) % Len(Probes)) + 1]]
Verdicts(f, g, count) ==
  [n \in 1..(IF f.args = <<>> THEN 1 ELSE count) |->
     <<interpret(f, TestVector(n, Len(f.args))), interpret(g, TestVector(n, Len(f.args)))>>]
FirstDecision(verdicts) ==
  SelectSeq(verdicts, LAMBDA v : <<>> \in Range(v) \/ v[1] # v[2])
passes_test_vectors(f, g, count) ==
  \/ count = 0 \/ Len(f.args) # Len(g.args)
  \/ FirstDecision(Verdicts(f, g, count)) = <<>>
  \/ <<>> \in Range(FirstDecision(Verdicts(f, g, count))[1])

-----------------------------------------------------------------------------
(* Candidates.                                                              *)

baseline_score == Score(original)

\* The score that is cached for a hash, else that of the function.
ScoreUnder(h, f) == IF h \in DOMAIN score_cache_ THEN score_cache_[h] ELSE Score(f)
score_with_cache(f) == ScoreUnder(canonical_structural_hash(f), f)
Remember(f) ==
  score_cache_' = [h \in DOMAIN score_cache_ \cup {canonical_structural_hash(f)} |-> ScoreUnder(h, f)]

\* What the edit of the live function does to the candidates that are it.
Edited(cands, f) == [n \in DOMAIN cands |-> IF cands[n].live THEN [cands[n] EXCEPT !.fn = f]
                                            ELSE cands[n]]
LetGo(cands)     == [n \in DOMAIN cands |-> [cands[n] EXCEPT !.live = FALSE]]

Candidate(f, sound, live) ==
  [fn |-> f, score |-> score_with_cache(f), hash |-> canonical_structural_hash(f), sound |-> sound,
   live |-> live]
WorstOf(cands) ==
  CHOOSE n \in DOMAIN cands :
    /\ \A m \in DOMAIN cands : cands[n].score <= cands[m].score
    /\ \A m \in 1..(n - 1) : cands[m].score > cands[n].score

Considered(c) ==
  /\ c.score > baseline_score
  /\ c.hash \notin seen_hashes
  /\ passes_test_vectors(original, c.fn, config.test_vector_count)
\* Mutant: the oldest makes room.
Kept_Oldest(cands, c) ==
  IF Len(cands) < config.max_candidates THEN Append(cands, c)
  ELSE IF cands # <<>> /\ c.score > cands[WorstOf(cands)].score
  THEN [cands EXCEPT ![1] = c] ELSE cands
\* When the list is full the worst makes room, if it is worse.
Kept(cands, c) ==
  IF Len(cands) < config.max_candidates THEN Append(cands, c)
  ELSE IF cands # <<>> /\ c.score > cands[WorstOf(cands)].score
  THEN [cands EXCEPT ![WorstOf(cands)] = c] ELSE cands

\* The candidates, the hashes and the best score after c was looked at.
consider_candidate(cands, c) ==
  IF ~Considered(c) THEN <<cands, seen_hashes, best_score>>
  ELSE <<Kept(cands, c),
         IF Kept(cands, c) = cands THEN seen_hashes ELSE seen_hashes \cup {c.hash},
         IF c.score > best_score THEN c.score ELSE best_score>>

\* A better one is always taken, a worse one sometimes.
accept(from, to) == IF to >= from THEN {TRUE} ELSE {TRUE, FALSE}

-----------------------------------------------------------------------------
(* The loop.                                                                *)

Init ==
  /\ original \in Originals /\ config \in Configs
  /\ current_fn = original /\ current_score = baseline_score /\ current_sound = TRUE
  /\ score_cache_ = [h \in {} |-> 0]
  /\ candidates = <<>> /\ seen_hashes = {}
  /\ best_score = baseline_score /\ last_best_score = best_score /\ stagnation_counter = 0
  /\ heat = Cooling /\ iter = 0
  /\ allow_unsound = (config.allow_unsound_mutations \/ config.two_phase_mode)
  /\ next_stoke_name = 1 /\ mutations_accepted = 0 /\ stagnation_restarts = 0
  /\ returned = FALSE

\* The first turn of the second phase allows sound mutations only.
effective_allow_unsound ==
  allow_unsound /\ ~(config.two_phase_mode /\ iter = config.phase1_iters /\ iter > 0)

TargetReached == \E t \in config.target_score : best_score >= t
\* Sorted by score, the best first; equal ones in any order.
SortedByScore(cands) ==
  {[n \in DOMAIN cands |-> cands[order[n]]] :
     order \in {p \in Bijection(DOMAIN cands, DOMAIN cands) :
                 \A m, n \in DOMAIN cands : m < n => cands[p[m]].score >= cands[p[n]].score}}
Return ==
  /\ ~returned
  /\ \/ iter >= config.max_iterations \/ heat = 0 \/ TargetReached
     \/ config.time_budget /\ iter % CheckEvery = 0
  /\ returned' = TRUE
  /\ candidates' \in SortedByScore(candidates)
  /\ UNCHANGED <<original, config, current_fn, current_score, current_sound, score_cache_,
                 seen_hashes, best_score, last_best_score, stagnation_counter, heat, iter,
                 allow_unsound, next_stoke_name, mutations_accepted, stagnation_restarts>>

Oversized == count_instructions(current_fn) > max_instruction_count
Turn ==
  /\ ~returned /\ iter < config.max_iterations /\ heat > 0 /\ ~TargetReached
  /\ iter' = iter + 1 /\ allow_unsound' = effective_allow_unsound
  /\ UNCHANGED <<original, config, returned>>

\* A turn that is cut short cools, and does nothing else.
CutShort ==
  /\ heat' = heat - 1
  /\ UNCHANGED <<current_sound, seen_hashes, best_score, last_best_score, stagnation_counter,
                 next_stoke_name, stagnation_restarts>>

\* Too large a function loses its first instruction, if that is dead.
Forced == Site("DeleteInstruction", Entry(current_fn), 1, 0)
ForcedOutcomes ==
  apply_mutation_impl(current_fn, Forced, next_stoke_name, count_instructions(current_fn))
ForceDelete ==
  /\ Turn /\ Oversized /\ CutShort
  /\ \/ \E g \in ForcedOutcomes : \E ok \in accept(current_score, score_with_cache(g)) :
          /\ Remember(g)
          /\ current_fn' = IF ok THEN g ELSE current_fn
          /\ current_score' = IF ok THEN score_with_cache(g) ELSE current_score
          /\ candidates' = IF ok THEN LetGo(candidates) ELSE candidates
          /\ mutations_accepted' = mutations_accepted + (IF ok THEN 1 ELSE 0)
     \/ /\ ForcedOutcomes = {}
        /\ UNCHANGED <<current_fn, current_score, score_cache_, candidates, mutations_accepted>>

\* Any site, any kind at any place, or a pattern.
Picks == collect_mutation_sites(current_fn, effective_allow_unsound)
           \cup blind_random_mutation(current_fn, effective_allow_unsound)
Outcomes(m) ==
  apply_mutation_impl(current_fn, m, next_stoke_name, count_instructions(current_fn))
OutcomesInPlace(m) ==
  apply_mutation_in_place(ScopeOf(current_fn), m, next_stoke_name, count_instructions(current_fn))

Library == IF config.use_pattern_library THEN seed_builtin_patterns \cup ExtraPatterns ELSE {}
pattern_guided_mutate(p, at) ==
  IF mutation_allowed_near_cap("PatternGuided", count_instructions(current_fn))
  THEN apply(current_fn, at[1], at[2], p) ELSE {}

\* A mutation that does not apply, a pattern that matches nowhere or whose
\* replacement is refused.
Inapplicable ==
  \/ \E m \in Picks : Outcomes(m) = {}
  \/ /\ Library # {}
     /\ \/ \A p \in Library : match(current_fn, p, target_arch) = {}
        \/ \E p \in Library : \E at \in match(current_fn, p, target_arch) :
             pattern_guided_mutate(p, at) = {}
Skip ==
  /\ Turn /\ ~Oversized /\ Inapplicable /\ CutShort
  /\ UNCHANGED <<current_fn, current_score, score_cache_, candidates, mutations_accepted>>

\* The end of a full turn: a search that stagnates begins again, and hot.
Stagnates(best) == IF best > last_best_score THEN 0 ELSE stagnation_counter + 1
Restarts(best)  == config.stagnation_limit > 0 /\ Stagnates(best) >= config.stagnation_limit
\* Mutant: the new beginning keeps the mark of the old end.
EndOfTurn_KeepsMark(f, score, sound, cands, best) ==
  /\ best_score' = best
  /\ last_best_score' = IF best > last_best_score THEN best ELSE last_best_score
  /\ stagnation_counter' = IF Restarts(best) THEN 0 ELSE Stagnates(best)
  /\ stagnation_restarts' = stagnation_restarts + (IF Restarts(best) THEN 1 ELSE 0)
  /\ current_fn' = IF Restarts(best) THEN original ELSE f
  /\ current_score' = IF Restarts(best) THEN baseline_score ELSE score
  /\ current_sound' = (sound \/ current_sound)
  /\ candidates' = IF Restarts(best) THEN LetGo(cands) ELSE cands
  /\ heat' = (IF Restarts(best) THEN Cooling ELSE heat) - 1
EndOfTurn(f, score, sound, cands, best) ==
  /\ best_score' = best
  /\ last_best_score' = IF best > last_best_score THEN best ELSE last_best_score
  /\ stagnation_counter' = IF Restarts(best) THEN 0 ELSE Stagnates(best)
  /\ stagnation_restarts' = stagnation_restarts + (IF Restarts(best) THEN 1 ELSE 0)
  /\ current_fn' = IF Restarts(best) THEN original ELSE f
  /\ current_score' = IF Restarts(best) THEN baseline_score ELSE score
  /\ current_sound' = (Restarts(best) \/ sound)
  /\ candidates' = IF Restarts(best) THEN LetGo(cands) ELSE cands
  /\ heat' = (IF Restarts(best) THEN Cooling ELSE heat) - 1

NamesTaken(m) == next_stoke_name' = next_stoke_name + (IF m.kind = "InstructionInsert" THEN 1 ELSE 0)

\* The live function is edited; what is kept is a copy, made before an edit
\* that is not accepted is taken back.
JudgedInPlace(s, score, sound, ok, k) ==
  /\ seen_hashes' = k[2]
  /\ mutations_accepted' = mutations_accepted + (IF ok THEN 1 ELSE 0)
  /\ IF ok THEN EndOfTurn(s.fn, score, sound, k[1], k[3])
     ELSE EndOfTurn(undo_all(s), current_score, current_sound, Edited(k[1], undo_all(s)), k[3])
EditedInPlace(s, c) ==
  \E ok \in accept(current_score, c.score) :
    /\ Remember(s.fn)
    /\ JudgedInPlace(s, c.score, c.sound, ok, consider_candidate(Edited(candidates, s.fn), c))
MutateInPlace ==
  /\ Turn /\ ~Oversized /\ config.use_in_place_mutation
  /\ \E m \in Picks : \E s \in OutcomesInPlace(m) :
       /\ EditedInPlace(s, Candidate(s.fn, current_sound /\ is_sound_kind(m.kind), FALSE))
       /\ NamesTaken(m)

\* A copy is edited, and takes the place of the live function when accepted.
\* It is kept as it is only when functions are never edited in place.
JudgedCopy(g, score, sound, ok, k) ==
  /\ seen_hashes' = k[2]
  /\ mutations_accepted' = mutations_accepted + (IF ok THEN 1 ELSE 0)
  /\ IF ok THEN EndOfTurn(g, score, sound, k[1], k[3])
     ELSE EndOfTurn(current_fn, current_score, current_sound, k[1], k[3])
\* Mutant: what is kept is the function the search goes on with.
SharesLive_Always(ok) == ok
SharesLive(ok) == ok /\ ~config.use_in_place_mutation
CopyMade(c) ==
  \E ok \in accept(current_score, c.score) :
    /\ Remember(c.fn)
    /\ JudgedCopy(c.fn, c.score, c.sound, ok,
         consider_candidate(IF ok THEN LetGo(candidates) ELSE candidates,
                            [c EXCEPT !.live = SharesLive(ok)]))
OnCopy(g, kind) == CopyMade(Candidate(g, current_sound /\ is_sound_kind(kind), FALSE))
MutateCopy ==
  /\ Turn /\ ~Oversized /\ ~config.use_in_place_mutation
  /\ \E m \in Picks : (\E g \in Outcomes(m) : OnCopy(g, m.kind)) /\ NamesTaken(m)
MutateByPattern ==
  /\ Turn /\ ~Oversized /\ UNCHANGED next_stoke_name
  /\ \E p \in Library : \E at \in match(current_fn, p, target_arch) :
       \E g \in pattern_guided_mutate(p, at) : OnCopy(g, "PatternGuided")

SearchNext == Return \/ ForceDelete \/ Skip \/ MutateInPlace \/ MutateCopy \/ MutateByPattern
SearchSpec == Init /\ [][SearchNext]_vars

-----------------------------------------------------------------------------
(* Properties.                                                              *)

\* What is called sound refines the function that was searched: candidates
\* with that mark are adopted without a proof, and the mark is handed from turn
\* to turn, over rejected edits, phases and restarts.
SoundMeansRefines ==
  /\ current_sound => Refines(current_fn, original, PatternInputs(original))
  /\ \A c \in Range(candidates) : c.sound => Refines(c.fn, original, PatternInputs(original))

\* An edit that is not accepted leaves no trace in the live function: the
\* scope takes its actions back so that positions are right again.
RejectedLeavesNoTrace ==
  [][mutations_accepted' = mutations_accepted /\ stagnation_restarts' = stagnation_restarts
       => current_fn' = current_fn]_vars

\* A candidate that is kept stays what it was when its score was taken, while
\* the search goes on editing the live function.
KeptNeverEdited ==
  [][\A c \in Range(candidates), d \in Range(candidates') : c.hash = d.hash => c.fn = d.fn]_vars

\* The best score that is reported, and that ends a search with a target, is
\* that of a candidate in the list, however often the list was full; no two of
\* them are the same up to names, and the returned list begins with the best.
BestIsKept ==
  /\ best_score > baseline_score => \E c \in Range(candidates) : c.score = best_score
  /\ Len(candidates) <= config.max_candidates
  /\ \A m, n \in DOMAIN candidates : m # n => candidates[m].hash # candidates[n].hash
  /\ returned /\ candidates # <<>> => candidates[1].score = best_score

=============================================================================
