--------------------------- MODULE SynthesisProofs ---------------------------
(***************************************************************************)
(* Proofs about the components that make up replacements and have them     *)
(* proved.  The synthesis of constants, for every problem, every pool and  *)
(* every limit of rounds: the search only ever advances, what it finds is  *)
(* right if the verifier's word is, and a failure without a timeout means  *)
(* that the whole pool was tried.  The algorithmic preprocessor, for every *)
(* module, every sequence of probes and every answer of the solver: a      *)
(* function is replaced only by what refines it, and what refines it then  *)
(* still refines what was given.  The batches of candidates, for every     *)
(* batch, every joint answer and every core: no candidate gets an answer   *)
(* that asking about it alone could not give.                              *)
(***************************************************************************)
EXTENDS Synthesis, AlgoPreprocessor, BatchVerifier, TLAPS

-----------------------------------------------------------------------------
(* The numbering of the attempts.                                           *)

\* The number of placeholders of a problem.
LEMMA CountNat ==
  ASSUME problem \in Problems
  PROVE  Count \in Nat /\ DOMAIN problem.placeholders = 1..Count
BY SynthesisAssumption DEF Count

\* The pool has constants, which are integers.
LEMMA PoolFacts ==
  /\ PoolSize \in Nat \ {0}
  /\ \A j \in 1..PoolSize : POOL[j] \in Range(POOL)
  /\ \A v \in Range(POOL) : \E j \in 1..PoolSize : v = POOL[j]
  /\ total_attempts \in Nat \ {0}
<1>1. PoolSize \in Nat \ {0} /\ DOMAIN POOL = 1..PoolSize
  BY SynthesisAssumption DEF PoolSize
<1>2. PoolSize * PoolSize \in Nat \ {0}
  BY <1>1
<1>3. total_attempts \in Nat \ {0}
  BY <1>1, <1>2 DEF total_attempts
<1> QED
  BY <1>1, <1>3 DEF Range

\* The digits of a number with two digits in a base.
LEMMA TwoDigits ==
  ASSUME NEW P \in Nat \ {0}, NEW i \in 0..(P - 1), NEW j \in 0..(P - 1)
  PROVE  /\ i + P * j \in 0..(P * P - 1)
         /\ (i + P * j) % P = i
         /\ (i + P * j) \div P = j
         /\ i % P = i /\ j % P = j
<1>1. P * j \in Nat /\ i + P * j \in Nat
  OBVIOUS
<1>2. (i + P * j) % P = i /\ (i + P * j) \div P = j
  BY <1>1
<1>3. i % P = i /\ j % P = j
  OBVIOUS
<1>4. P * j <= P * (P - 1)
  OBVIOUS
<1>5. P * (P - 1) = P * P - P
  OBVIOUS
<1>6. i + P * j <= P * P - 1
  BY <1>1, <1>4, <1>5
<1> QED
  BY <1>1, <1>2, <1>3, <1>6

\* Every choice from the pool is an attempt.
LEMMA AttemptsCoverPool ==
  ASSUME problem \in Problems, Count \in 1..2,
         NEW values \in [1..Count -> Range(POOL)]
  PROVE  \E n \in 0..(total_attempts - 1) : Decoded(n) = values
<1>1. \A k \in 1..Count : \E i \in 0..(PoolSize - 1) : values[k] = POOL[i + 1]
  <2> TAKE k \in 1..Count
  <2>1. PICK j \in 1..PoolSize : values[k] = POOL[j]
    BY PoolFacts
  <2>2. j - 1 \in 0..(PoolSize - 1) /\ (j - 1) + 1 = j
    BY PoolFacts
  <2> QED
    BY <2>1, <2>2
<1>2. PICK i \in 0..(PoolSize - 1) : values[1] = POOL[i + 1]
  BY <1>1
<1>3. CASE Count = 1
  <2>1. i \in 0..(total_attempts - 1)
    BY <1>2, <1>3 DEF total_attempts
  <2>2. i % PoolSize = i
    BY <1>2, PoolFacts
  <2>3. \A k \in 1..Count : Decoded(i)[k] = values[k]
    BY <1>2, <1>3, <2>2 DEF Decoded
  <2>4. Decoded(i) = values
    BY <2>3 DEF Decoded
  <2> QED
    BY <2>1, <2>4
<1>4. CASE Count = 2
  <2>1. PICK j \in 0..(PoolSize - 1) : values[2] = POOL[j + 1]
    BY <1>1, <1>4
  <2> DEFINE n == i + PoolSize * j
  <2>2. /\ n \in 0..(PoolSize * PoolSize - 1)
        /\ n % PoolSize = i /\ n \div PoolSize = j /\ j % PoolSize = j
    <3>1. PoolSize \in Nat \ {0}
      BY PoolFacts
    <3> QED
      BY <3>1, TwoDigits
  <2>3. n \in 0..(total_attempts - 1)
    BY <1>4, <2>2 DEF total_attempts
  <2> HIDE DEF n
  <2>4. \A k \in 1..Count : Decoded(n)[k] = values[k]
    BY <1>2, <1>4, <2>1, <2>2 DEF Decoded
  <2>5. Decoded(n) = values
    BY <2>4 DEF Decoded
  <2> QED
    BY <2>3, <2>5
<1> QED
  BY <1>3, <1>4

\* Every attempt is a choice from the pool.
LEMMA AttemptsFromPool ==
  ASSUME problem \in Problems, NEW n \in Nat, Count \in 1..2
  PROVE  Decoded(n) \in [1..Count -> Range(POOL)]
<1>1. n % PoolSize \in 0..(PoolSize - 1) /\ n \div PoolSize \in Nat
  BY PoolFacts
<1>2. (n \div PoolSize) % PoolSize \in 0..(PoolSize - 1)
  BY <1>1, PoolFacts
<1>3. \A k \in 1..Count :
        ((IF k = 1 THEN n ELSE n \div PoolSize) % PoolSize) + 1 \in 1..PoolSize
  BY <1>1, <1>2, PoolFacts
<1> QED
  BY <1>3, PoolFacts DEF Decoded

-----------------------------------------------------------------------------
(* The search.                                                              *)

\* The values the state takes, and how far the search has got: whoever verifies
\* has a round left, and only the enumeration counts attempts.
SearchInv ==
  /\ problem \in Problems /\ iter \in 0..CEGIS_MAX_ITERS /\ timed_out \in BOOLEAN
  /\ cegis \in {"start", "synthesise", "verify", "enumerate", "found", "failed"}
  /\ attempt \in 0..total_attempts
  /\ cegis = "start" => iter = 0
  /\ cegis = "verify" => iter < CEGIS_MAX_ITERS
  /\ cegis \in {"start", "synthesise", "verify"} => attempt = 0
  /\ cegis \notin {"start", "failed"} => Count >= 1
  /\ cegis = "enumerate" => Count \in 1..2

LEMMA SearchInvInit == SynthesisInit => SearchInv
<1> SUFFICES ASSUME SynthesisInit PROVE SearchInv
  OBVIOUS
<1>1. total_attempts \in Nat \ {0} /\ CEGIS_MAX_ITERS \in Nat \ {0}
  BY PoolFacts, SynthesisAssumption
<1>2. problem \in Problems /\ cegis = "start" /\ iter = 0 /\ attempt = 0 /\ timed_out = FALSE
  BY DEF SynthesisInit
<1>3. iter \in 0..CEGIS_MAX_ITERS /\ attempt \in 0..total_attempts
  BY <1>1, <1>2
<1>4. timed_out \in BOOLEAN
  BY <1>2
<1> QED
  BY <1>2, <1>3, <1>4 DEF SearchInv

\* What each action leaves alone, and its effect on the counts.
LEMMA SearchInvStep ==
  ASSUME SearchInv, [SynthesisNext]_synthesisVars
  PROVE  SearchInv'
<1> USE DEF SearchInv
<1>1. CASE UNCHANGED synthesisVars
  BY <1>1 DEF synthesisVars, Count, total_attempts, PoolSize
<1>2. ASSUME SynthesisNext PROVE SearchInv'
  <2>1. problem' = problem
    BY <1>2 DEF SynthesisNext, Start, Synthesise, Verify, NotConverged, Enumerate
  <2>2. Count' = Count /\ total_attempts' = total_attempts /\ Count \in Nat
    BY <2>1, CountNat DEF Count, total_attempts, PoolSize
  <2>3. total_attempts \in Nat \ {0} /\ CEGIS_MAX_ITERS \in Nat \ {0}
    BY PoolFacts, SynthesisAssumption
  <2>4. CASE Start
    BY <2>1, <2>2, <2>3, <2>4 DEF Start, GiveUp
  <2>5. CASE Synthesise
    <3>1. /\ cegis = "synthesise" /\ iter < CEGIS_MAX_ITERS /\ attempt = 0
          /\ iter' = iter /\ attempt' = attempt
      BY <2>5 DEF Synthesise
    <3>2. timed_out' \in BOOLEAN
      BY <2>5 DEF Synthesise
    <3>3. \/ cegis' = "verify"
          \/ cegis' = "failed"
          \/ cegis' = "enumerate" /\ ~(Count > 2)
      BY <2>5 DEF Synthesise, GiveUp
    <3>4. iter' \in 0..CEGIS_MAX_ITERS /\ attempt' \in 0..total_attempts
      BY <3>1
    <3>5. Count >= 1
      BY <3>1
    <3> QED
      BY <2>1, <2>2, <3>1, <3>2, <3>3, <3>4, <3>5
  <2>6. CASE Verify
    BY <2>1, <2>2, <2>3, <2>6 DEF Verify, GiveUp, NextRound
  <2>7. CASE NotConverged
    BY <2>1, <2>2, <2>3, <2>7 DEF NotConverged, GiveUp
  <2>8. CASE Enumerate
    <3>1. /\ cegis = "enumerate" /\ iter' = iter /\ Count \in 1..2
      BY <2>8 DEF Enumerate
    <3>2. CASE attempt = total_attempts
      BY <2>1, <2>2, <2>3, <2>8, <3>1, <3>2 DEF Enumerate
    <3>3. CASE attempt # total_attempts
      <4>1. PICK a \in verify(Goal, instantiate(Decoded(attempt))) :
              /\ timed_out' = (timed_out \/ a.status = "Unknown")
              /\ cegis' = IF a.status = "Equivalent" THEN "found" ELSE cegis
        BY <2>8, <3>3 DEF Enumerate, Converged
      <4>2. timed_out' \in BOOLEAN
        BY <4>1
      <4>3. cegis' \in {"found", "enumerate"}
        BY <3>1, <4>1
      <4>4. attempt' = attempt + 1 /\ attempt' \in 0..total_attempts
        BY <2>3, <2>8, <3>3 DEF Enumerate
      <4> QED
        BY <2>1, <2>2, <2>3, <3>1, <4>2, <4>3, <4>4
    <3> QED
      BY <3>2, <3>3
  <2> QED
    BY <1>2, <2>4, <2>5, <2>6, <2>7, <2>8 DEF SynthesisNext
<1> QED
  BY <1>1, <1>2

LEMMA SearchInvariant == SynthesisSpec => []SearchInv
<1>1. SearchInv /\ [SynthesisNext]_synthesisVars => SearchInv'
  BY SearchInvStep
<1> QED
  BY SearchInvInit, <1>1, PTL DEF SynthesisSpec

-----------------------------------------------------------------------------
(* Every step takes the search further.                                     *)

\* Every step of the search raises its rank, so that a round that excludes no
\* values cannot be repeated for ever and nothing comes after the enumeration.
THEOREM SynthesisAdvances == SynthesisSpec => SearchAdvances
<1>1. ASSUME SearchInv, [SynthesisNext]_synthesisVars
      PROVE  [Rank' > Rank]_synthesisVars
  <2> SUFFICES ASSUME SynthesisNext PROVE Rank' > Rank
    BY <1>1
  <2>1. problem' = problem
    BY DEF SynthesisNext, Start, Synthesise, Verify, NotConverged, Enumerate
  <2>2. total_attempts' = total_attempts
    BY <2>1 DEF total_attempts, Count, PoolSize
  <2>3. total_attempts \in Nat \ {0} /\ CEGIS_MAX_ITERS \in Nat \ {0}
    BY PoolFacts, SynthesisAssumption
  <2>4. iter \in 0..CEGIS_MAX_ITERS /\ attempt \in 0..total_attempts
    BY <1>1 DEF SearchInv
  <2>5. /\ cegis = "start" => iter = 0
        /\ cegis = "verify" => iter < CEGIS_MAX_ITERS
        /\ cegis \in {"start", "synthesise", "verify"} => attempt = 0
    BY <1>1 DEF SearchInv
  <2>6. CASE Start
    <3>1. cegis = "start" /\ iter' = 0 /\ attempt' = 0
      BY <2>5, <2>6 DEF Start
    <3>2. cegis' \in {"failed", "enumerate", "synthesise"}
      BY <2>6 DEF Start, GiveUp
    <3> QED
      BY <2>2, <2>3, <3>1, <3>2 DEF Rank, SynthesisEnded
  <2>7. CASE Synthesise
    <3>1. cegis = "synthesise" /\ iter < CEGIS_MAX_ITERS /\ iter' = iter /\ attempt' = 0
      BY <2>5, <2>7 DEF Synthesise
    <3>2. cegis' \in {"failed", "enumerate", "verify"}
      BY <2>7 DEF Synthesise, GiveUp
    <3> QED
      BY <2>2, <2>3, <2>4, <3>1, <3>2 DEF Rank, SynthesisEnded
  <2>8. CASE Verify
    <3>1. cegis = "verify" /\ iter < CEGIS_MAX_ITERS /\ attempt' = 0
      BY <2>5, <2>8 DEF Verify
    <3>2. \/ cegis' = "synthesise" /\ iter' = iter + 1
          \/ cegis' \in {"found", "failed", "enumerate"} /\ iter' = iter
      BY <2>8 DEF Verify, GiveUp, NextRound
    <3> QED
      BY <2>2, <2>3, <2>4, <3>1, <3>2 DEF Rank, SynthesisEnded
  <2>9. CASE NotConverged
    <3>1. cegis = "synthesise" /\ iter = CEGIS_MAX_ITERS /\ iter' = iter /\ attempt' = 0
      BY <2>5, <2>9 DEF NotConverged
    <3>2. cegis' \in {"failed", "enumerate"}
      BY <2>9 DEF NotConverged, GiveUp
    <3> QED
      BY <2>2, <2>3, <2>4, <3>1, <3>2 DEF Rank, SynthesisEnded
  <2>10. CASE Enumerate
    <3>1. cegis = "enumerate" /\ iter' = iter
      BY <2>10 DEF Enumerate
    <3>2. \/ cegis' \in {"found", "failed"} /\ Rank' = 3 + 2 * CEGIS_MAX_ITERS + total_attempts
          \/ cegis' = "enumerate" /\ attempt' = attempt + 1
      <4>1. \/ cegis' \in {"found", "failed"}
            \/ cegis' = "enumerate" /\ attempt' = attempt + 1
        BY <2>10, <3>1 DEF Enumerate
      <4> QED
        BY <2>2, <4>1 DEF Rank, SynthesisEnded
    <3> QED
      BY <2>2, <2>3, <2>4, <3>1, <3>2 DEF Rank, SynthesisEnded
  <2> QED
    BY <2>6, <2>7, <2>8, <2>9, <2>10 DEF SynthesisNext
<1> QED
  BY SearchInvariant, <1>1, PTL DEF SynthesisSpec, SearchAdvances

-----------------------------------------------------------------------------
(* What is found.                                                           *)

\* The values last asked about are a solver's or the pool's.
ModelOffered == cegis \in {"verify", "found"} => model \in Offered(problem)
FoundInv == ModelOffered /\ SynthesisSound

\* The values of an attempt are among those that may be asked about.
LEMMA AttemptOffered ==
  ASSUME SearchInv, cegis = "enumerate"
  PROVE  Decoded(attempt) \in Offered(problem)
<1>1. Count \in 1..2 /\ attempt \in Nat /\ problem \in Problems
  BY PoolFacts DEF SearchInv
<1>2. Decoded(attempt) \in [1..Count -> Range(POOL)]
  BY <1>1, AttemptsFromPool
<1> QED
  BY <1>2 DEF Offered, Count

\* An answer of the verifier for values that may be asked about.
LEMMA AnswerTrusted ==
  ASSUME EquivalentMeansWorks, problem \in Problems,
         NEW values \in Offered(problem),
         NEW a \in verify(Goal, instantiate(values)), a.status = "Equivalent"
  PROVE  Refines(instantiate(values), Goal, InputSpace(Goal))
BY DEF EquivalentMeansWorks, Works, Goal, instantiate

\* What is found may replace the goal, whether a round or the enumeration found
\* it, as long as the verifier calls equivalent only what may.
THEOREM SynthesisFindsSound ==
  ASSUME EquivalentMeansWorks
  PROVE  SynthesisSpec => []SynthesisSound
<1>1. SynthesisInit => FoundInv
  BY DEF SynthesisInit, FoundInv, ModelOffered, SynthesisSound
<1>2. ASSUME SearchInv, FoundInv, [SynthesisNext]_synthesisVars
      PROVE  FoundInv'
  <2>1. CASE UNCHANGED synthesisVars
    BY <1>2, <2>1 DEF synthesisVars, FoundInv, ModelOffered, SynthesisSound, Goal, instantiate
  <2>2. ASSUME SynthesisNext PROVE FoundInv'
    <3>1. problem' = problem /\ problem \in Problems /\ Goal' = Goal
      BY <1>2, <2>2
      DEF SynthesisNext, Start, Synthesise, Verify, NotConverged, Enumerate, SearchInv, Goal
    <3>2. CASE Start
      BY <3>2 DEF Start, GiveUp, FoundInv, ModelOffered, SynthesisSound
    <3>3. CASE Synthesise
      <4>1. ASSUME cegis' = "verify" PROVE model' \in Offered(problem)
        <5>1. PICK values \in Models :
                model' = [n \in 1..Count |-> extract_int64(values[n])]
          BY <3>3, <4>1 DEF Synthesise, GiveUp
        <5>2. \A n \in 1..Count : values[n] \in 0..(2^HostBits - 1)
          BY <5>1 DEF Models
        <5>3. \A n \in 1..Count :
                extract_int64(values[n]) \in {extract_int64(v) : v \in 0..(2^HostBits - 1)}
          BY <5>2
        <5> HIDE DEF SynthesisSound
        <5> QED
          BY <5>1, <5>3, Zenon DEF Offered, Count
      <4>2. cegis' # "found"
        BY <3>3 DEF Synthesise, GiveUp
      <4> QED
        BY <3>1, <4>1, <4>2 DEF FoundInv, ModelOffered, SynthesisSound
    <3>4. CASE Verify
      <4>1. PICK a \in verify(Goal, instantiate(model)) :
              cegis' = "found" => a.status = "Equivalent"
        BY <3>4 DEF Verify, GiveUp, Converged
      <4>2. model' = model /\ model \in Offered(problem) /\ cegis' # "verify"
        BY <1>2, <3>4 DEF Verify, GiveUp, FoundInv, ModelOffered
      <4>3. cegis' = "found" => Refines(instantiate(model), Goal, InputSpace(Goal))
        BY <3>1, <4>1, <4>2, AnswerTrusted
      <4> QED
        BY <3>1, <4>2, <4>3 DEF FoundInv, ModelOffered, SynthesisSound, instantiate
    <3>5. CASE NotConverged
      BY <3>5 DEF NotConverged, GiveUp, FoundInv, ModelOffered, SynthesisSound
    <3>6. CASE Enumerate
      <4>1. cegis' # "verify"
        BY <3>6 DEF Enumerate
      <4>2. ASSUME cegis' = "found"
            PROVE  /\ model' = Decoded(attempt)
                   /\ \E a \in verify(Goal, instantiate(Decoded(attempt))) :
                        a.status = "Equivalent"
        BY <3>6, <4>2 DEF Enumerate, Converged
      <4>3. Decoded(attempt) \in Offered(problem)
        BY <1>2, <3>6, AttemptOffered DEF Enumerate
      <4>4. cegis' = "found" =>
              Refines(instantiate(Decoded(attempt)), Goal, InputSpace(Goal))
        BY <3>1, <4>2, <4>3, AnswerTrusted
      <4> QED
        BY <3>1, <4>1, <4>2, <4>3, <4>4 DEF FoundInv, ModelOffered, SynthesisSound, instantiate
    <3> QED
      BY <2>2, <3>2, <3>3, <3>4, <3>5, <3>6 DEF SynthesisNext
  <2> QED
    BY <1>2, <2>1, <2>2
<1>3. FoundInv => SynthesisSound
  BY DEF FoundInv
<1> QED
  BY SearchInvariant, <1>1, <1>2, <1>3, PTL DEF SynthesisSpec

-----------------------------------------------------------------------------
(* What a failure means.                                                    *)

AttemptFails(n) == ~Refines(instantiate(Decoded(n)), Goal, InputSpace(Goal))

\* As long as no query ran out of time every attempt made was refuted, and the
\* enumeration has failed only when all were made.
TriedRefuted ==
  /\ cegis = "enumerate" /\ ~timed_out => \A n \in 0..(attempt - 1) : AttemptFails(n)
  /\ cegis = "failed" /\ ~timed_out /\ Count \in 1..2 =>
       \A n \in 0..(total_attempts - 1) : AttemptFails(n)

\* An attempt without an answer of either kind was not worth finding.
LEMMA AttemptRefuted ==
  ASSUME WorksMeansEquivalent, SearchInv, cegis = "enumerate",
         NEW a \in verify(Goal, instantiate(Decoded(attempt))),
         a.status \notin {"Equivalent", "Unknown"}
  PROVE  AttemptFails(attempt)
<1>1. Count \in 1..2 /\ attempt \in Nat /\ problem \in Problems
  BY PoolFacts DEF SearchInv
<1>2. Decoded(attempt) \in [1..Len(problem.placeholders) -> Range(POOL)]
  BY <1>1, AttemptsFromPool DEF Count
<1> QED
  BY <1>1, <1>2 DEF WorksMeansEquivalent, Works, AttemptFails, Goal, instantiate

LEMMA TriedRefutedStep ==
  ASSUME WorksMeansEquivalent, SearchInv, TriedRefuted, [SynthesisNext]_synthesisVars
  PROVE  TriedRefuted'
<1>1. CASE UNCHANGED synthesisVars
  <2>1. /\ UNCHANGED <<cegis, timed_out, attempt>>
        /\ Count' = Count /\ total_attempts' = total_attempts
        /\ \A n : AttemptFails(n)' = AttemptFails(n)
    BY <1>1
    DEF synthesisVars, Count, total_attempts, PoolSize, AttemptFails, instantiate, Decoded, Goal
  <2> QED
    BY <2>1 DEF TriedRefuted
<1>2. ASSUME SynthesisNext PROVE TriedRefuted'
  <2>1. problem' = problem /\ Count' = Count /\ total_attempts' = total_attempts
    BY <1>2
    DEF SynthesisNext, Start, Synthesise, Verify, NotConverged, Enumerate, Count, total_attempts, PoolSize
  <2>2. \A n : AttemptFails(n)' = AttemptFails(n)
    BY <2>1 DEF AttemptFails, instantiate, Decoded, Goal, Count
  <2>3. attempt \in 0..total_attempts /\ total_attempts \in Nat /\ Count \in Nat
    BY PoolFacts, CountNat DEF SearchInv
  <2>4. ASSUME cegis # "enumerate", attempt' = attempt, attempt = 0,
               cegis' = "failed" => Count \notin 1..2
        PROVE  TriedRefuted'
    BY <2>1, <2>4 DEF TriedRefuted
  <2>5. CASE Start
    BY <2>3, <2>4, <2>5 DEF Start, GiveUp, SearchInv
  <2>6. CASE Synthesise
    BY <2>3, <2>4, <2>6 DEF Synthesise, GiveUp, SearchInv
  <2>7. CASE Verify
    BY <2>3, <2>4, <2>7 DEF Verify, GiveUp, SearchInv
  <2>8. CASE NotConverged
    BY <2>3, <2>4, <2>8 DEF NotConverged, GiveUp, SearchInv
  <2>9. CASE Enumerate
    <3>1. cegis = "enumerate"
      BY <2>9 DEF Enumerate
    <3>2. CASE attempt = total_attempts
      <4>1. cegis' = "failed" /\ timed_out' = timed_out
        BY <2>9, <3>2 DEF Enumerate
      <4> QED
        BY <2>1, <2>2, <3>1, <3>2, <4>1 DEF TriedRefuted
    <3>3. CASE attempt # total_attempts
      <4>1. PICK a \in verify(Goal, instantiate(Decoded(attempt))) :
              /\ timed_out' = (timed_out \/ a.status = "Unknown")
              /\ cegis' = IF a.status = "Equivalent" THEN "found" ELSE cegis
        BY <2>9, <3>3 DEF Enumerate, Converged
      <4>2. attempt' = attempt + 1
        BY <2>9, <3>3 DEF Enumerate
      <4>3. cegis' # "failed"
        BY <3>1, <4>1
      <4>4. ASSUME cegis' = "enumerate", ~timed_out'
            PROVE  \A n \in 0..(attempt' - 1) : AttemptFails(n)'
        <5>1. ~timed_out /\ a.status \notin {"Equivalent", "Unknown"}
          BY <4>1, <4>4
        <5>2. AttemptFails(attempt)
          BY <3>1, <5>1, AttemptRefuted
        <5>3. \A n \in 0..(attempt - 1) : AttemptFails(n)
          BY <3>1, <5>1 DEF TriedRefuted
        <5>4. \A n \in 0..(attempt' - 1) : n = attempt \/ n \in 0..(attempt - 1)
          BY <2>3, <4>2
        <5> QED
          BY <2>2, <5>2, <5>3, <5>4
      <4> QED
        BY <4>3, <4>4 DEF TriedRefuted
    <3> QED
      BY <3>2, <3>3
  <2> QED
    BY <1>2, <2>5, <2>6, <2>7, <2>8, <2>9 DEF SynthesisNext
<1> QED
  BY <1>1, <1>2

\* When no query ran out of time, a failure with one placeholder or two means
\* that no constants of the pool would have done, however the rounds went, as
\* long as the verifier calls what may replace the goal equivalent.
THEOREM SynthesisFailureMeans ==
  ASSUME WorksMeansEquivalent
  PROVE  SynthesisSpec => []FailureExhaustsPool
<1>1. SynthesisInit => TriedRefuted
  BY DEF SynthesisInit, TriedRefuted
<1>2. SearchInv /\ TriedRefuted /\ [SynthesisNext]_synthesisVars => TriedRefuted'
  BY TriedRefutedStep
<1>3. ASSUME SearchInv, TriedRefuted PROVE FailureExhaustsPool
  <2> SUFFICES ASSUME cegis = "failed", ~timed_out, Count \in 1..2,
                      NEW values \in [1..Count -> Range(POOL)]
               PROVE  ~Refines(instantiate(values), Goal, InputSpace(Goal))
    BY DEF FailureExhaustsPool
  <2>1. PICK n \in 0..(total_attempts - 1) : Decoded(n) = values
    BY <1>3, AttemptsCoverPool DEF SearchInv
  <2>2. AttemptFails(n)
    BY <1>3, <2>1 DEF TriedRefuted
  <2> QED
    BY <2>1, <2>2 DEF AttemptFails
<1> QED
  BY SearchInvariant, <1>1, <1>2, <1>3, PTL DEF SynthesisSpec

-----------------------------------------------------------------------------
(* Functions and what may stand for them.                                   *)

IsFunction(f) == f = [args |-> f.args, order |-> f.order, body |-> f.body]
IsEntry(e)    == e = [name |-> e.name, fn |-> e.fn] /\ IsFunction(e.fn)

\* Every function refines itself, and what refines a refinement refines.
LEMMA RefinesPreorder ==
  ASSUME NEW inputs
  PROVE  /\ \A f : Refines(f, f, inputs)
         /\ \A f, g, h : Refines(g, f, inputs) /\ Refines(h, g, inputs) => Refines(h, f, inputs)
BY DEF Refines

\* A closed form takes the arguments of the function it replaces, and so has the
\* same inputs.
LEMMA ClosedFormShape ==
  ASSUME NEW f, IsFunction(f), NEW k
  PROVE  LET g == build_affine_candidate(f, k)
         IN  IsFunction(g) /\ g.args = f.args /\ AllInputs(g) = AllInputs(f)
<1>1. PICK b : build_affine_candidate(f, k) = [f EXCEPT !.body = b]
  BY DEF build_affine_candidate
<1>2. [f EXCEPT !.body = b] = [args |-> f.args, order |-> f.order, body |-> b]
  BY DEF IsFunction
<1>3. PICK g : g = build_affine_candidate(f, k)
  OBVIOUS
<1>4. IsFunction(g) /\ g.args = f.args
  BY <1>1, <1>2, <1>3 DEF IsFunction
<1>5. AllInputs(g) = AllInputs(f)
  BY <1>4 DEF AllInputs
<1> QED
  BY <1>3, <1>4, <1>5

\* The solver calls equivalent only what refines.
LEMMA EquivalentRefines ==
  ASSUME NEW f, NEW g, "Equivalent" \in Verdicts(f, g)
  PROVE  Refines(g, f, AllInputs(f))
BY DEF Verdicts

-----------------------------------------------------------------------------
(* The module.                                                              *)

\* The n-th function of the module, of the same inputs as the one given.
Replaces(now, n) ==
  /\ IsEntry(now) /\ now.name = source[n].name /\ now.fn.args = source[n].fn.args
  /\ ~trust_unverified => Refines(now.fn, source[n].fn, AllInputs(source[n].fn))
AlgoInv ==
  /\ algo_at \in Nat \ {0} /\ algo_at <= Len(algo_fns) + 1
  /\ any_change \in BOOLEAN /\ collapsing \in BOOLEAN
  /\ algo_fns \in Seq(Range(algo_fns)) /\ Len(algo_fns) = Len(source)
  /\ source \in Seq(Range(source))
  /\ \A n \in 1..Len(source) : Replaces(algo_fns[n], n)

LEMMA AlgoStart == AlgoInit => AlgoInv
<1> SUFFICES ASSUME AlgoInit PROVE AlgoInv
  OBVIOUS
<1>1. source \in Seq(Range(source)) /\ algo_fns = source
  BY AlgoAssumption DEF AlgoInit, AlgoAssumption
<1>2. Len(source) \in Nat /\ DOMAIN source = 1..Len(source)
  BY <1>1
<1>3. \A n \in 1..Len(source) : IsEntry(source[n])
  BY <1>2, AlgoAssumption DEF AlgoInit, AlgoAssumption, IsEntry, IsFunction
<1>4. \A n \in 1..Len(source) : Replaces(algo_fns[n], n)
  BY <1>1, <1>3, RefinesPreorder DEF Replaces
<1>5. algo_at = 1 /\ any_change = FALSE /\ collapsing = FALSE
  BY DEF AlgoInit
<1>6. algo_at \in Nat \ {0} /\ algo_at <= Len(source) + 1 /\ Len(algo_fns) = Len(source)
  BY <1>1, <1>2, <1>5
<1>7. algo_fns \in Seq(Range(algo_fns))
  BY <1>1
<1> QED
  BY <1>1, <1>4, <1>5, <1>6, <1>7 DEF AlgoInv

\* One turn of a walk: whatever the probes suggested, the function that is looked
\* at stays or is replaced by what refines it.
LEMMA WalkStep ==
  ASSUME AlgoInv, NEW conjecture, Walk(conjecture),
         conjecture # <<>> => \E k : conjecture[1] = build_affine_candidate(Looked, k)
  PROVE  AlgoInv'
<1>1. /\ algo_at \in 1..Len(source) /\ algo_at' = algo_at + 1 /\ Len(algo_fns) = Len(source)
      /\ Len(source) \in Nat /\ DOMAIN algo_fns = 1..Len(source)
  BY DEF Walk, Advance, AlgoInv
<1>2. source' = source /\ collapsing' = collapsing /\ trust_unverified' = trust_unverified
  BY DEF Walk
<1>3. CASE UNCHANGED <<algo_fns, any_change>>
  BY <1>1, <1>2, <1>3 DEF AlgoInv, Replaces
<1>4. CASE ~ UNCHANGED <<algo_fns, any_change>>
  <2>1. conjecture # <<>>
    BY <1>4 DEF Walk
  <2>2. PICK v \in (IF z3_available THEN Verdicts(Looked, conjecture[1]) ELSE {"None"}) :
          Replace(conjecture[1], v)
    BY <2>1 DEF Walk
  <2>3. PICK f, g : f = Looked /\ g = conjecture[1]
    OBVIOUS
  <2>4. IsFunction(f) /\ f.args = source[algo_at].fn.args /\ Replaces(algo_fns[algo_at], algo_at)
    BY <1>1, <2>3 DEF AlgoInv, Replaces, IsEntry, Looked
  <2>5. IsFunction(g) /\ g.args = f.args
    BY <2>1, <2>3, <2>4, ClosedFormShape
  <2>6. /\ v = "Equivalent" \/ trust_unverified
        /\ algo_fns' = [algo_fns EXCEPT ![algo_at].fn = g] /\ any_change' = TRUE
    BY <1>4, <2>2, <2>3 DEF Replace
  <2>7. ~trust_unverified => Refines(g, f, AllInputs(f))
    <3>1. "Equivalent" # "None"
      OBVIOUS
    <3> QED
      BY <2>2, <2>3, <2>6, <3>1, EquivalentRefines
  <2>8. AllInputs(f) = AllInputs(source[algo_at].fn)
    BY <2>4 DEF AllInputs
  <2>9. ~trust_unverified => Refines(g, source[algo_at].fn, AllInputs(source[algo_at].fn))
    <3>1. ~trust_unverified => Refines(f, source[algo_at].fn, AllInputs(source[algo_at].fn))
      BY <2>3, <2>4 DEF Replaces, Looked
    <3> QED
      BY <2>7, <2>8, <3>1, RefinesPreorder
  <2>10. PICK e : e = [algo_fns[algo_at] EXCEPT !.fn = g]
    OBVIOUS
  <2>11. IsEntry(e) /\ e.fn = g /\ e.name = source[algo_at].name
    BY <2>4, <2>5, <2>10 DEF Replaces, IsEntry
  <2>12. Replaces(e, algo_at)
    BY <2>4, <2>5, <2>9, <2>11 DEF Replaces
  <2>13. algo_fns' = [algo_fns EXCEPT ![algo_at] = e]
    BY <2>6, <2>10
  <2>14. algo_fns' \in Seq(Range(algo_fns')) /\ Len(algo_fns') = Len(source)
    <3>1. DOMAIN algo_fns' = 1..Len(source)
      BY <1>1, <2>13
    <3>2. algo_fns' = [n \in 1..Len(source) |-> algo_fns'[n]]
      BY <1>1, <2>13
    <3>3. algo_fns' \in [1..Len(source) -> Range(algo_fns')]
      BY <3>1, <3>2 DEF Range
    <3> QED
      BY <1>1, <3>3
  <2>15. \A n \in 1..Len(source) : Replaces(algo_fns'[n], n)
    BY <1>1, <2>12, <2>13 DEF AlgoInv
  <2>16. \A n \in 1..Len(source)' : Replaces(algo_fns[n], n)'
    BY <1>2, <2>15 DEF Replaces
  <2>17. /\ algo_at' \in Nat \ {0} /\ algo_at' <= Len(source) + 1
         /\ any_change' \in BOOLEAN /\ collapsing' \in BOOLEAN
    BY <1>1, <1>2, <2>6 DEF AlgoInv
  <2>18. source \in Seq(Range(source))
    BY DEF AlgoInv
  <2> QED
    BY <1>2, <2>14, <2>16, <2>17, <2>18 DEF AlgoInv
<1> QED
  BY <1>3, <1>4

LEMMA AlgoStep == AlgoInv /\ [AlgoNext]_algoVars => AlgoInv'
<1> SUFFICES ASSUME AlgoInv, [AlgoNext]_algoVars PROVE AlgoInv'
  OBVIOUS
<1>1. ASSUME NEW k PROVE ClosedForm(k) # <<>> => ClosedForm(k)[1] = build_affine_candidate(Looked, k[1])
  BY DEF ClosedForm
<1>2. CASE Rewrite
  <2>1. Conjecture # <<>> => \E k : Conjecture[1] = build_affine_candidate(Looked, k)
    BY <1>1 DEF Conjecture
  <2> QED
    BY <1>2, <2>1, WalkStep DEF Rewrite
<1>3. CASE Collapse
  <2>1. CollapseConjecture # <<>> => \E k : CollapseConjecture[1] = build_affine_candidate(Looked, k)
    BY <1>1 DEF CollapseConjecture, WrappedForm
  <2> QED
    BY <1>3, <2>1, WalkStep DEF Collapse
<1>4. CASE BeginCollapse
  BY <1>4 DEF BeginCollapse, AlgoInv, Replaces
<1>5. CASE UNCHANGED algoVars
  BY <1>5 DEF algoVars, AlgoInv, Replaces
<1> QED
  BY <1>2, <1>3, <1>4, <1>5 DEF AlgoNext

LEMMA AlgoInvariant == AlgoSpec => []AlgoInv
BY AlgoStart, AlgoStep, PTL DEF AlgoSpec

\* Both walks stay within the module and replace bodies in place: the functions
\* and their names are those that were given (AlgoPreprocessor::run,
\* src/Search/AlgoPreprocessor.cpp).
THEOREM AlgoTypeCorrect == AlgoSpec => []AlgoTypeOK
<1>1. AlgoInv => AlgoTypeOK
  BY DEF AlgoInv, AlgoTypeOK, Replaces
<1> QED
  BY <1>1, AlgoInvariant, PTL

\* Unless unproven rewrites are trusted, each function of the module means what
\* the one given meant, for every set of probes and whenever the solver times
\* out: also a wrapper, whose closed form is fitted to a callee that was itself
\* replaced before.
THEOREM AlgoKeepsMeaning == AlgoSpec => []ClosedFormsProved
<1>1. AlgoInv => ClosedFormsProved
  BY DEF AlgoInv, ClosedFormsProved, Replaces
<1> QED
  BY <1>1, AlgoInvariant, PTL

-----------------------------------------------------------------------------
(* The batch.                                                               *)

\* What asking about the candidate g alone can answer: verify(), or, for a
\* subject that can be encoded, a single query by values.
AnswersAlone(g) ==
  verify(Subject, g) \cup {a \in LegacyAnswers(Subject, g) : ~function_has_unsupported_ops(Subject)}

AnsweredAlone ==
  \A n \in DOMAIN Candidates : results[n] # Pending => results[n] \in AnswersAlone(Candidates[n])

\* Each candidate has a place, and the joint queries are left to subjects that
\* can be encoded.
BatchInv ==
  /\ batch \in Batches /\ DOMAIN results = DOMAIN Candidates
  /\ path \in {"prune", "singles", "loop"} => ~function_has_unsupported_ops(Subject)
  /\ AnsweredAlone

\* An input on which several candidates differ from the subject is a
\* counterexample for each of them, alone.
LEMMA JointRefutes ==
  ASSUME ~function_has_unsupported_ops(Subject),
         NEW S \in SUBSET Encodable, NEW n \in S, NEW ins \in JointModels(S)
  PROVE  Refuted(ins) \in AnswersAlone(Candidates[n])
<1> DEFINE g == Candidates[n]
           models == {i \in InputSpace(Subject) : \E junk \in Junk : Differs(Subject, g, i, junk)}
<1>1. /\ n \in DOMAIN Candidates /\ Len(g.args) = Len(Subject.args)
      /\ ~function_has_unsupported_ops(g)
  BY DEF Encodable
<1>2. LegacyAnswers(Subject, g) = Answers(models)
  BY <1>1 DEF LegacyAnswers
<1>3. ins \in models
  BY DEF JointModels
<1> HIDE DEF models
<1>4. Refuted(ins) \in Answers(models)
  BY <1>3 DEF Answers
<1> QED
  BY <1>2, <1>4 DEF AnswersAlone

LEMMA BatchInvStep ==
  ASSUME BatchInv, [BatchNext]_batchVars
  PROVE  BatchInv'
<1>0. CASE UNCHANGED batchVars
  BY <1>0 DEF batchVars, BatchInv, AnsweredAlone, AnswersAlone, Subject, Candidates
<1>1. CASE batch' = batch
  <2>1. Subject' = Subject /\ Candidates' = Candidates
    BY <1>1 DEF Subject, Candidates
  \* What an action has to say of the answers.
  <2>2. ASSUME DOMAIN results' = DOMAIN results,
               path' \in {"prune", "singles", "loop"} => ~function_has_unsupported_ops(Subject),
               \A n \in DOMAIN Candidates :
                 results'[n] = results[n] \/ results'[n] = Pending
                   \/ results'[n] \in AnswersAlone(Candidates[n])
        PROVE  BatchInv'
    <3>1. \A n \in DOMAIN Candidates : AnswersAlone(Candidates[n])' = AnswersAlone(Candidates[n])
      BY <2>1 DEF AnswersAlone
    <3> QED
      BY <1>1, <2>1, <2>2, <3>1 DEF BatchInv, AnsweredAlone, Pending
  <2>3. ASSUME NEW m \in DOMAIN Candidates, NEW a \in AnswersAlone(Candidates[m]),
               results' = [results EXCEPT ![m] = a],
               path' \in {"prune", "singles", "loop"} => ~function_has_unsupported_ops(Subject)
        PROVE  BatchInv'
    BY <2>2, <2>3
  <2>4. CASE BatchStart
    BY <2>2, <2>4 DEF BatchStart
  <2>5. CASE AskJointly
    <3>1. ~function_has_unsupported_ops(Subject)
      BY <2>5 DEF AskJointly, BatchInv
    <3>2. ASSUME NEW ins \in Jointly(Encodable),
                 results' = [n \in DOMAIN results |-> IF n \in Encodable THEN Refuted(ins) ELSE Pending],
                 path' = "each"
          PROVE  BatchInv'
      <4>1. \A n \in Encodable : Refuted(ins) \in AnswersAlone(Candidates[n])
        BY <3>1, JointRefutes DEF Jointly, BatchInv
      <4> QED
        BY <2>2, <3>2, <4>1 DEF BatchInv
    <3>3. ASSUME UNCHANGED results PROVE BatchInv'
      BY <2>2, <3>1, <3>3
    <3> QED
      BY <2>5, <3>2, <3>3 DEF AskJointly
  <2>6. CASE AskSingly
    <3>1. ~function_has_unsupported_ops(Subject)
      BY <2>6 DEF AskSingly, BatchInv
    <3>2. ASSUME NEW ins \in JointModels({next}), next \in Encodable,
                 results' = [results EXCEPT ![next] = Refuted(ins)]
          PROVE  BatchInv'
      <4>1. Refuted(ins) \in AnswersAlone(Candidates[next])
        BY <3>1, <3>2, JointRefutes DEF BatchInv
      <4>2. next \in DOMAIN Candidates
        BY <3>2 DEF Encodable
      <4> QED
        BY <2>3, <3>1, <3>2, <4>1, <4>2
    <3>3. ASSUME UNCHANGED results PROVE BatchInv'
      BY <2>2, <3>1, <3>3
    <3> QED
      BY <2>6, <3>2, <3>3 DEF AskSingly
  <2>7. CASE VerifyEach
    <3>1. path' \notin {"prune", "singles", "loop"}
      BY <2>7 DEF VerifyEach
    <3>2. ASSUME UNCHANGED results PROVE BatchInv'
      BY <2>2, <3>1, <3>2
    <3>3. ASSUME NEW a \in verify(Subject, Candidates[next]), results' = [results EXCEPT ![next] = a]
          PROVE  BatchInv'
      <4>1. CASE next \in DOMAIN Candidates
        BY <2>3, <3>1, <3>3, <4>1 DEF AnswersAlone
      <4>2. CASE next \notin DOMAIN Candidates
        BY <2>2, <3>1, <3>3, <4>2 DEF BatchInv
      <4> QED
        BY <4>1, <4>2
    <3> QED
      BY <2>7, <3>2, <3>3 DEF VerifyEach
  <2>8. CASE VerifyLoop
    <3>1. ~function_has_unsupported_ops(Subject)
      BY <2>8 DEF VerifyLoop, BatchInv
    <3>2. ASSUME UNCHANGED results PROVE BatchInv'
      BY <2>2, <3>1, <3>2
    <3>3. ASSUME NEW a \in LegacyAnswers(Subject, Candidates[next]), results' = [results EXCEPT ![next] = a]
          PROVE  BatchInv'
      <4>1. CASE next \in DOMAIN Candidates
        BY <2>3, <3>1, <3>3, <4>1 DEF AnswersAlone
      <4>2. CASE next \notin DOMAIN Candidates
        BY <2>2, <3>1, <3>3, <4>2 DEF BatchInv
      <4> QED
        BY <4>1, <4>2
    <3> QED
      BY <2>8, <3>2, <3>3 DEF VerifyLoop
  <2> QED
    BY <1>0, <2>4, <2>5, <2>6, <2>7, <2>8 DEF BatchNext
<1> QED
  BY <1>0, <1>1 DEF BatchNext, BatchStart, AskJointly, AskSingly, VerifyEach, VerifyLoop

LEMMA BatchStarts == BatchInit => BatchInv
BY DEF BatchInit, BatchInv, AnsweredAlone, Candidates, Subject, Pending

\* A batch answers for each candidate, at its own place, what asking about it
\* alone could answer: asking jointly, keeping an unsat core unasked, going on
\* after a query that ran out of time and leaving the rest to verify() add no
\* answer, for any batches and whatever the solver takes for its core
\* (SMTVerifier::verify_batch).
THEOREM BatchAddsNoAnswer == BatchSpec => []AnsweredAlone
<1>1. BatchInv => AnsweredAlone
  BY DEF BatchInv
<1> QED
  BY BatchStarts, BatchInvStep, <1>1, PTL DEF BatchSpec

\* If single queries by values answer nothing that verify() could not, as on
\* candidates without flags and shifts, neither does the batch.
THEOREM BatchAddsNoMistake ==
  ASSUME LegacyAgrees
  PROVE  BatchSpec => []BatchAgrees
<1>1. ASSUME BatchInv PROVE BatchAgrees
  <2> SUFFICES ASSUME NEW n \in DOMAIN Candidates, results[n] # Pending
               PROVE  results[n] \in verify(Subject, Candidates[n])
    BY DEF BatchAgrees
  <2>1. results[n] \in AnswersAlone(Candidates[n])
    BY <1>1 DEF BatchInv, AnsweredAlone
  <2>2. batch \in Batches /\ Candidates[n] \in Range(batch.candidates)
    BY <1>1 DEF BatchInv, Range, Candidates
  <2> QED
    BY <2>1, <2>2 DEF AnswersAlone, LegacyAgrees, Subject
<1> QED
  BY BatchStarts, BatchInvStep, <1>1, PTL DEF BatchSpec

=============================================================================
