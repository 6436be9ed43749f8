------------------------------ MODULE Synthesis ------------------------------
(***************************************************************************)
(* Synthesis of constants (SMTVerifier::synthesize_with_cegis): values for *)
(* the placeholders of a template are sought in rounds of a synthesis and  *)
(* a verification query, counterexamples of the second constraining the    *)
(* first; when that fails, the values of a pool are tried in order.  Every *)
(* query may run out of time.                                              *)
(***************************************************************************)
EXTENDS SMTEncoder

CONSTANTS CEGIS_MAX_ITERS,
          POOL,         \* the constants to try, in order
          Problems      \* [goal, template, placeholders], names of operands of the template

ASSUME SynthesisAssumption ==
  /\ CEGIS_MAX_ITERS \in Nat \ {0}
  /\ POOL \in Seq(Int) /\ POOL # <<>>
  /\ \A p \in Problems : p.placeholders \in Seq(Range(p.placeholders))

VARIABLES problem, cegis, cex_set, iter, model, attempt,
          timed_out     \* whether some query did
synthesisVars == <<problem, cegis, cex_set, iter, model, attempt, timed_out>>

Goal     == problem.goal
Template == problem.template
Count    == Len(problem.placeholders)
Unused   == [n \in DOMAIN problem.placeholders |-> 0]
PlaceholderWidth(p) ==
  (CHOOSE i \in Range(Instructions(Template)) : p \in Names(i)).ow

\* Values for the placeholders of a problem, and its template with them.
ChosenFor(pr, values) ==
  [p \in Range(pr.placeholders) |->
     values[CHOOSE n \in DOMAIN pr.placeholders : pr.placeholders[n] = p]]
instantiated(pr, values) ==
  [pr.template EXCEPT !.body = [b \in DOMAIN @ |->
     [n \in DOMAIN @[b] |-> Resolved(@[b][n], ChosenFor(pr, values))]]]
instantiate(values) == instantiated(problem, values)

\* strtoll stops at the largest signed host word.
extract_int64(v) == Min({v, 2^(HostBits - 1) - 1})

\* The template agrees with the goal on the counterexamples, poison left aside.
Fits(values) ==
  \A cex \in cex_set :
    encode_function(Goal, shared_args(Goal, cex), Refining).ret[1].value =
      encode_function(Template, ChosenFor(problem, values) @@ shared_args(Template, cex), Refining).ret[1].value

\* What the solver may give the placeholders, each of its own width.
Models == {values \in [1..Count -> 0..(2^HostBits - 1)] :
             /\ \A n \in 1..Count : values[n] < 2^PlaceholderWidth(problem.placeholders[n])
             /\ Fits(values)}

SynthesisInit ==
  /\ problem \in Problems
  /\ cegis = "start" /\ cex_set = {} /\ iter = 0 /\ model = Unused
  /\ attempt = 0 /\ timed_out = FALSE

\* Enumeration is not for more than two placeholders.
GiveUp == cegis' = IF Count > 2 THEN "failed" ELSE "enumerate"

Start ==
  /\ cegis = "start"
  /\ IF Count = 0 THEN cegis' = "failed" /\ UNCHANGED cex_set
     ELSE IF \/ function_has_unsupported_ops(Goal) \/ function_has_unsupported_ops(Template)
             \/ Len(Goal.args) # Len(Template.args)
     THEN GiveUp /\ UNCHANGED cex_set
     ELSE cegis' = "synthesise" /\ cex_set' = {[n \in DOMAIN Goal.args |-> 0]}
  /\ UNCHANGED <<problem, iter, model, attempt, timed_out>>

Synthesise ==
  /\ cegis = "synthesise" /\ iter < CEGIS_MAX_ITERS
  /\ \/ \E values \in Models :
          /\ cegis' = "verify"
          /\ model' = [n \in 1..Count |-> extract_int64(values[n])]
          /\ UNCHANGED timed_out
     \/ Models = {} /\ GiveUp /\ UNCHANGED <<model, timed_out>>
     \/ GiveUp /\ timed_out' = TRUE /\ UNCHANGED model
  /\ UNCHANGED <<problem, cex_set, iter, attempt>>

\* Mutant: a round that finds a counterexample is not counted.
NextRound_NotCounted(cex) == cex_set' = cex_set \cup {cex} /\ UNCHANGED iter
NextRound(cex) == cex_set' = cex_set \cup {cex} /\ iter' = iter + 1

\* Mutant: what is not refuted is taken for proved.
Converged_NotRefuted(a) == a.status # "NotEquivalent"
\* The values of the query do, by the answer about the template with them.
Converged(a) == a.status = "Equivalent"

Verify ==
  /\ cegis = "verify"
  /\ \E a \in verify(Goal, instantiate(model)) :
       /\ timed_out' = (timed_out \/ a.status = "Unknown")
       /\ CASE Converged(a) -> cegis' = "found" /\ UNCHANGED <<cex_set, iter>>
            [] a.status = "NotEquivalent" /\ a.counterexample # <<>> ->
                 cegis' = "synthesise" /\ NextRound(a.counterexample)
            [] OTHER -> GiveUp /\ UNCHANGED <<cex_set, iter>>
  /\ UNCHANGED <<problem, model, attempt>>

NotConverged ==
  /\ cegis = "synthesise" /\ iter = CEGIS_MAX_ITERS
  /\ GiveUp
  /\ UNCHANGED <<problem, cex_set, iter, model, attempt, timed_out>>

\* The values of an attempt, for one placeholder or two; the first one changes
\* fastest.
PoolSize == Len(POOL)
Decoded(n) ==
  [k \in 1..Count |-> POOL[((IF k = 1 THEN n ELSE n \div PoolSize) % PoolSize) + 1]]

\* Mutant: the last attempt is not made.
total_attempts_OneLess == (IF Count = 1 THEN PoolSize ELSE PoolSize * PoolSize) - 1
total_attempts == IF Count = 1 THEN PoolSize ELSE PoolSize * PoolSize

Enumerate ==
  /\ cegis = "enumerate"
  /\ IF attempt = total_attempts
     THEN cegis' = "failed" /\ UNCHANGED <<model, attempt, timed_out>>
     ELSE /\ model' = Decoded(attempt) /\ attempt' = attempt + 1
          /\ \E a \in verify(Goal, instantiate(Decoded(attempt))) :
               /\ timed_out' = (timed_out \/ a.status = "Unknown")
               /\ cegis' = IF Converged(a) THEN "found" ELSE cegis
  /\ UNCHANGED <<problem, cex_set, iter>>

SynthesisNext == Start \/ Synthesise \/ Verify \/ NotConverged \/ Enumerate
SynthesisEnded == cegis \in {"found", "failed"}

SynthesisSpec == SynthesisInit /\ [][SynthesisNext]_synthesisVars

-----------------------------------------------------------------------------
(* What the search relies on: the answers for the templates it asks about.  *)

\* The values the search may ask about: a solver's, read as host words, and the
\* pool's.
Offered(pr) ==
  [1..Len(pr.placeholders) ->
     {extract_int64(v) : v \in 0..(2^HostBits - 1)} \cup Range(POOL)]
Works(pr, values) == Refines(instantiated(pr, values), pr.goal, InputSpace(pr.goal))

\* What is called equivalent may replace the goal.
EquivalentMeansWorks ==
  \A pr \in Problems : \A values \in Offered(pr) :
    \A a \in verify(pr.goal, instantiated(pr, values)) :
      a.status = "Equivalent" => Works(pr, values)
\* What may replace the goal is called equivalent unless time runs out.
WorksMeansEquivalent ==
  \A pr \in Problems : \A values \in [1..Len(pr.placeholders) -> Range(POOL)] :
    \A a \in verify(pr.goal, instantiated(pr, values)) :
      Works(pr, values) => a.status \in {"Equivalent", "Unknown"}

-----------------------------------------------------------------------------
SynthesisTypeOK ==
  /\ problem \in Problems /\ iter \in 0..CEGIS_MAX_ITERS /\ timed_out \in BOOLEAN
  /\ cegis \in {"start", "synthesise", "verify", "enumerate", "found", "failed"}
  /\ cex_set \subseteq InputSpace(Goal) /\ attempt \in 0..total_attempts

\* What the encoder says of the goal for an input is what the goal means there,
\* flags and all: the value if it has one, and otherwise poison, as long as
\* there is neither a branch nor a division that could have no meaning at all.
EncodedAs(m, r) ==
  IF m # <<>> THEN r.value = m[1] /\ ~r.poison
  ELSE r.poison \/ Len(Goal.order) > 1
       \/ \E i \in Range(Instructions(Goal)) : i.op \in {"udiv", "sdiv", "urem", "srem"}
EncoderExact ==
  \A ins \in InputSpace(Goal) :
    EncodedAs(Meaning(Goal, ins), encode_function(Goal, shared_args(Goal, ins), Refining).ret[1])

\* What is found may replace the goal, although the synthesis query looks at
\* values only, reads numerals that do not fit, and starts from an input for
\* which the goal may have no meaning.
SynthesisSound ==
  cegis = "found" => Refines(instantiate(model), Goal, InputSpace(Goal))

\* What is found is well defined on every input on which the goal is, as the
\* comment on refinement mode says (SMTVerifier.h, 209-213).
FoundIsDefined ==
  cegis = "found" =>
    \A ins \in InputSpace(Goal) : Meaning(Goal, ins) # <<>> => Meaning(instantiate(model), ins) # <<>>

\* However the rounds went, if no query ran out of time a failure means that no
\* values of the pool would have done.
FailureExhaustsPool ==
  cegis = "failed" /\ ~timed_out /\ Count \in 1..2 =>
    \A values \in [1..Count -> Range(POOL)] :
      ~Refines(instantiate(values), Goal, InputSpace(Goal))

\* Every step takes the search further: although a counterexample that differs
\* by poison alone excludes no values, the rounds are counted, and none comes
\* after the enumeration.  With the bounds of the rank the search ends.
Rank == CASE cegis = "start"      -> 0
          [] cegis = "synthesise" -> 1 + 2 * iter
          [] cegis = "verify"     -> 2 + 2 * iter
          [] cegis = "enumerate"  -> 2 + 2 * CEGIS_MAX_ITERS + attempt
          [] SynthesisEnded       -> 3 + 2 * CEGIS_MAX_ITERS + total_attempts
SearchAdvances == [][Rank' > Rank]_synthesisVars

=============================================================================
