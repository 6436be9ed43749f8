----------------------- MODULE FunctionRefinerProofs ------------------------
(***************************************************************************)
(* Theorems about FunctionRefiner, for every set of functions, every       *)
(* scoring, everything the phases may offer and every bound of the         *)
(* configuration.                                                          *)
(***************************************************************************)
EXTENDS FunctionRefiner, TLAPS

\* Candidates exist within a round only, and are examined only at its end.
NothingPending ==
  /\ stage # "verify" => scored = {} /\ DOMAIN measured = {}
  /\ stage \in {"patterns", "round"} => pool = {}

TypeInv == TypeOK /\ NothingPending

\* Everything that may become the baseline of the next round beats this one.
ContendersImprove ==
  stage = "verify" =>
    /\ \A c \in scored : Score[c.fn] > Score[current]
    /\ fallback # None => Score[fallback] > Score[current]

\* A sound candidate refines the baseline of the round that found it, which
\* stays the baseline until one candidate of the round is adopted; without
\* trust nothing is ever put aside.
ChainHolds ==
  /\ <<Original, current>> \in Refines
  /\ \A c \in pool : c.sound => <<current, c.fn>> \in Refines
  /\ fallback = None

ChainInv == HasZ3 /\ ~Trust => ChainHolds

-----------------------------------------------------------------------------
LEMMA PhaseFacts ==
  /\ Len(PhaseOrder) = 10
  /\ \A i \in 1..10 : PhaseOrder[i] \in Phases
<1>1. Len(PhaseOrder) = 10 /\ DOMAIN PhaseOrder = 1..10
  BY DEF PhaseOrder
<1>2. QED
  BY <1>1 DEF Phases

LEMMA LabelledType ==
  ASSUME NEW p \in Phases, NEW o \in Offer
  PROVE  /\ Labelled(p, o) \in Candidates
         /\ Labelled(p, o).fn = o.fn /\ Labelled(p, o).sound = o.sound
<1>1. o.fn \in Functions /\ o.sound \in BOOLEAN
  BY DEF Offer
<1>2. StructHash[o.fn] \in Hashes /\ CanonHash[o.fn] \in Hashes
  BY <1>1 DEF Hashes
<1>3. QED
  BY <1>1, <1>2 DEF Labelled, Candidates

LEMMA InitType == Init => TypeInv
<1> SUFFICES ASSUME Init PROVE TypeInv
  OBVIOUS
<1>1. lastHash \in [Phases -> Hashes \cup {None}]
  BY DEF Init
<1>2. phase \in 1..(Len(PhaseOrder) + 1)
  BY PhaseFacts DEF Init
<1>3. DOMAIN measured = {} /\ scored = {} /\ pool = {}
  BY DEF Init
<1>4. current \in Functions /\ stage = "patterns"
  BY RefinerAssumption DEF Init
<1>5. QED
  BY <1>1, <1>2, <1>3, <1>4 DEF Init, TypeInv, TypeOK, NothingPending

\* What the steps that end a round have in common.
LEMMA EndRoundType ==
  ASSUME TypeInv, EndRound, mode' = mode, current' \in Functions, verified' \in BOOLEAN,
         stagnant' \in Nat, fallback' \in Functions \cup {None},
         rejected' \subseteq Hashes,
         UNCHANGED <<passes, phase, lastHash, attempts, clock, optimised>>
  PROVE  TypeInv'
  BY DEF TypeInv, TypeOK, NothingPending, EndRound

\* What the steps that go on to the next candidate have in common.
LEMMA DiscardType ==
  ASSUME TypeInv, stage = "verify", mode' = mode, NEW c, Discard(c),
         attempts' \in Nat, attempts' <= MaxSmtAttempts,
         fallback' \in Functions \cup {None},
         rejected' \subseteq Hashes
  PROVE  TypeInv'
  BY DEF TypeInv, TypeOK, NothingPending, Discard, chain, rounds, search

LEMMA ExamineType ==
  ASSUME TypeInv, mode' = mode, NEW c \in scored, Examine(c)
  PROVE  TypeInv'
<1>1. c.fn \in Functions /\ c.hash \in Hashes /\ stage = "verify"
  BY DEF TypeInv, TypeOK, NothingPending, Candidates
<1>2. attempts \in Nat /\ attempts <= MaxSmtAttempts /\ MaxSmtAttempts \in Nat
  BY <1>1, RefinerAssumption DEF TypeInv, TypeOK
<1>3. CASE AdoptSound(c) \/ AdoptByProbes(c) \/ AdoptProved(c)
  <2>1. /\ EndRound /\ current' = c.fn /\ verified' \in BOOLEAN /\ stagnant' = 0
        /\ UNCHANGED <<passes, phase, lastHash, attempts, fallback, clock, optimised, rejected>>
    BY <1>3 DEF AdoptSound, AdoptByProbes, AdoptProved, Adopt
  <2>2. QED
    BY <1>1, <2>1, EndRoundType DEF TypeInv, TypeOK
<1>4. CASE FailProbes(c) \/ SkipUnasked(c)
  <2>1. Discard(c) /\ UNCHANGED <<attempts, fallback, rejected>>
    BY <1>4 DEF FailProbes, SkipUnasked
  <2>2. QED
    BY <1>1, <1>2, <2>1, DiscardType DEF TypeInv, TypeOK
<1>5. CASE RejectRefutedByAlive(c) \/ RejectNotEquivalent(c) \/ RejectUnknown(c)
  <2>1. /\ Discard(c) /\ attempts < MaxSmtAttempts /\ attempts' = attempts + 1
        /\ rejected' = rejected \cup {c.hash}
        /\ fallback' = fallback \/ fallback' = c.fn
    BY <1>5 DEF RejectRefutedByAlive, RejectNotEquivalent, RejectUnknown, Asked
  <2>2. attempts' \in Nat /\ attempts' <= MaxSmtAttempts
    BY <1>2, <2>1
  <2>3. QED
    BY <1>1, <2>1, <2>2, DiscardType DEF TypeInv, TypeOK
<1>6. QED
  BY <1>3, <1>4, <1>5 DEF Examine

\* How candidates may be justified is settled before the run.
LEMMA ModeFixed == [Next]_vars => mode' = mode
  BY DEF Next, Work, TimePasses, Done, vars

LEMMA StepType == TypeInv /\ [Next]_vars => TypeInv'
<1> SUFFICES ASSUME TypeInv, [Next]_vars PROVE TypeInv'
  OBVIOUS
<1> USE DEF chain, rounds, search, choice
<1>0. mode' = mode
  BY ModeFixed
<1> USE <1>0
<1>1. CASE ApplyPattern
  <2>1. Pattern[current] \in Functions
    BY <1>1, RefinerAssumption DEF ApplyPattern, PatternHelps, TypeInv, TypeOK
  <2>2. QED
    BY <1>1, <2>1 DEF ApplyPattern, TypeInv, TypeOK, NothingPending
<1>2. CASE PatternsDone
  BY <1>2 DEF PatternsDone, TypeInv, TypeOK, NothingPending
<1>3. CASE StartRound
  BY <1>3, PhaseFacts DEF StartRound, TypeInv, TypeOK, NothingPending
<1>4. CASE StopRounds
  BY <1>4 DEF StopRounds, TypeInv, TypeOK, NothingPending
<1>5. CASE Finish
  <2>1. optimised' \in Functions
    <3>1. current \in Functions /\ GpuRewrites[current] \subseteq Functions
      BY RefinerAssumption DEF TypeInv, TypeOK
    <3>2. QED
      BY <1>5, <3>1 DEF Finish
  <2>2. QED
    BY <1>5, <2>1 DEF Finish, TypeInv, TypeOK, NothingPending
<1>6. CASE RunPhase
  <2> DEFINE p == PhaseOrder[phase]
  <2>1. stage = "search" /\ phase \in 1..10 /\ p \in Phases /\ current \in Functions
    BY <1>6, PhaseFacts DEF RunPhase, TypeInv, TypeOK
  <2>2. Offers[p][current] \subseteq Offer
    BY <2>1, RefinerAssumption
  <2>3. pool \subseteq pool' /\ pool' \subseteq Candidates
    <3>1. PICK found \in SUBSET Offers[p][current] :
            pool' = pool \cup {Labelled(p, o) : o \in found}
      BY <1>6 DEF RunPhase
    <3>2. \A o \in found : Labelled(p, o) \in Candidates
      BY <2>1, <2>2, LabelledType
    <3>3. QED
      BY <3>1, <3>2 DEF TypeInv, TypeOK
  <2>4. lastHash' \in [Phases -> Hashes \cup {None}]
    <3>1. StructHash[current] \in Hashes
      BY <2>1 DEF Hashes
    <3>2. lastHash' = lastHash \/ lastHash' = [lastHash EXCEPT ![p] = StructHash[current]]
      BY <1>6 DEF RunPhase
    <3>3. QED
      BY <3>1, <3>2 DEF TypeInv, TypeOK
  <2>5. phase' = phase + 1 /\ phase' \in 1..(Len(PhaseOrder) + 1)
    BY <1>6, <2>1, PhaseFacts DEF RunPhase
  <2>6. QED
    BY <1>6, <2>1, <2>3, <2>4, <2>5 DEF RunPhase, TypeInv, TypeOK, NothingPending
<1>7. CASE SkipPhase
  <2>1. stage = "search" /\ phase' \in 1..(Len(PhaseOrder) + 1)
    BY <1>7, PhaseFacts DEF SkipPhase, TypeInv, TypeOK
  <2>2. QED
    BY <1>7, <2>1 DEF SkipPhase, TypeInv, TypeOK, NothingPending
<1>8. CASE Select
  <2>1. PICK M : /\ scored' = {c \in Shortlist : ~Slower(M, c)}
                 /\ measured' = [c \in scored' |-> RatioIn(M, c)]
    BY <1>8 DEF Select
  <2>2. scored' \subseteq pool /\ DOMAIN measured' = scored'
    BY <2>1 DEF Shortlist
  <2>3. QED
    BY <1>8, <2>2, RefinerAssumption DEF Select, TypeInv, TypeOK, NothingPending
<1>9. CASE \E c \in scored : Examine(c)
  BY <1>9, ExamineType
<1>10. CASE AdoptFallback
  <2>1. /\ EndRound /\ current' = fallback /\ verified' = FALSE /\ stagnant' = 0
        /\ UNCHANGED <<passes, phase, lastHash, attempts, fallback, clock, optimised, rejected>>
        /\ fallback # None
    BY <1>10 DEF AdoptFallback, Adopt
  <2>2. QED
    BY <2>1, EndRoundType DEF TypeInv, TypeOK
<1>11. CASE KeepBaseline
  <2>1. /\ EndRound /\ stagnant' = stagnant + 1
        /\ UNCHANGED <<current, verified, passes, phase, lastHash, attempts, fallback,
                       clock, optimised, rejected>>
    BY <1>11 DEF KeepBaseline
  <2>2. QED
    BY <2>1, EndRoundType DEF TypeInv, TypeOK
<1>12. CASE TimePasses
  BY <1>12 DEF TimePasses, TypeInv, TypeOK, NothingPending
<1>13. CASE UNCHANGED vars
  BY <1>13 DEF vars, TypeInv, TypeOK, NothingPending
<1>14. QED
  BY <1>1, <1>2, <1>3, <1>4, <1>5, <1>6, <1>7, <1>8, <1>9, <1>10, <1>11, <1>12, <1>13
  DEF Next, Work, Done

LEMMA TypeInvariant == Spec => []TypeInv
  BY InitType, StepType, PTL DEF Spec

(***************************************************************************)
(* Type correctness of the refiner, with the cap on prover calls and the   *)
(* bookkeeping between the candidate pool and the candidates examined.     *)
(***************************************************************************)
THEOREM RefinerTypeCorrect == Spec => []TypeOK
<1>1. TypeInv => TypeOK
  BY DEF TypeInv
<1>2. QED
  BY TypeInvariant, <1>1, PTL

-----------------------------------------------------------------------------
(* The baseline improves *)

LEMMA InitContenders == Init => ContendersImprove
  BY DEF Init, ContendersImprove

LEMMA StepContenders == TypeInv /\ ContendersImprove /\ [Next]_vars => ContendersImprove'
<1> SUFFICES ASSUME TypeInv, ContendersImprove, [Next]_vars, stage' = "verify"
             PROVE  /\ \A c \in scored' : Score[c.fn] > Score[current']
                    /\ fallback' # None => Score[fallback'] > Score[current']
  BY DEF ContendersImprove
<1> USE DEF chain, rounds, search, choice
<1>1. CASE Select
  <2>1. fallback' = None /\ current' = current
    BY <1>1 DEF Select
  <2>2. scored' \subseteq Shortlist
    BY <1>1 DEF Select
  <2>3. QED
    BY <2>1, <2>2 DEF Shortlist, Improves
<1>2. ASSUME NEW c \in scored, Examine(c)
      PROVE  /\ \A d \in scored' : Score[d.fn] > Score[current']
             /\ fallback' # None => Score[fallback'] > Score[current']
  <2>1. stage = "verify"
    BY <1>2 DEF TypeInv, NothingPending
  <2>2. ~ EndRound
    BY DEF EndRound
  <2>3. Discard(c) /\ (fallback' = fallback \/ fallback' = c.fn)
    BY <1>2, <2>2
    DEF Examine, AdoptSound, AdoptByProbes, FailProbes, SkipUnasked, AdoptProved,
        RejectRefutedByAlive, RejectNotEquivalent, RejectUnknown, Adopt
  <2>4. QED
    BY <1>2, <2>1, <2>3 DEF Discard, ContendersImprove
<1>3. CASE AdoptFallback \/ KeepBaseline
  BY <1>3 DEF AdoptFallback, KeepBaseline, Adopt, EndRound
<1>4. CASE TimePasses \/ UNCHANGED vars
  BY <1>4 DEF TimePasses, vars, ContendersImprove
<1>5. CASE ApplyPattern \/ PatternsDone \/ StartRound \/ StopRounds \/ Finish
  BY <1>5 DEF ApplyPattern, PatternsDone, StartRound, StopRounds, Finish
<1>6. CASE RunPhase \/ SkipPhase
  BY <1>6 DEF RunPhase, SkipPhase
<1>7. QED
  BY <1>1, <1>2, <1>3, <1>4, <1>5, <1>6 DEF Next, Work, Done

(***************************************************************************)
(* Whatever the phases offer and the provers answer, run_on_function never *)
(* replaces the baseline by one that does not score better: neither by a   *)
(* pattern rewrite, nor by a candidate, nor by a fallback put aside while  *)
(* the round went on.                                                      *)
(***************************************************************************)
THEOREM RefinerBaselineImproves == Spec => BaselineImproves
<1>1. TypeInv /\ ContendersImprove /\ [Next]_vars
        => [current' # current => Score[current'] > Score[current]]_vars
  <2> SUFFICES ASSUME TypeInv, ContendersImprove, Next, current' # current
               PROVE  Score[current'] > Score[current]
    BY DEF vars, chain
  <2> USE DEF chain, rounds, search, choice
  <2>1. CASE ApplyPattern
    BY <2>1 DEF ApplyPattern, PatternHelps
  <2>2. CASE \E c \in scored : Examine(c)
    <3>1. PICK c \in scored : Examine(c)
      BY <2>2
    <3>2. stage = "verify"
      BY <3>1 DEF TypeInv, NothingPending
    <3>3. current' = c.fn
      BY <3>1
      DEF Examine, AdoptSound, AdoptByProbes, FailProbes, SkipUnasked, AdoptProved,
          RejectRefutedByAlive, RejectNotEquivalent, RejectUnknown, Adopt, Discard
    <3>4. QED
      BY <3>1, <3>2, <3>3 DEF ContendersImprove
  <2>3. CASE AdoptFallback
    BY <2>3 DEF AdoptFallback, Adopt, ContendersImprove
  <2>4. CASE PatternsDone \/ StartRound \/ StopRounds \/ Finish \/ RunPhase
             \/ SkipPhase \/ Select \/ KeepBaseline \/ TimePasses \/ Done
    BY <2>4 DEF PatternsDone, StartRound, StopRounds, Finish, RunPhase, SkipPhase,
                Select, KeepBaseline, TimePasses, Done, vars
  <2>5. QED
    BY <2>1, <2>2, <2>3, <2>4 DEF Next, Work
<1>2. Spec => []ContendersImprove
  BY InitContenders, StepContenders, TypeInvariant, PTL DEF Spec
<1>3. QED
  BY <1>1, <1>2, TypeInvariant, PTL DEF Spec, BaselineImproves

-----------------------------------------------------------------------------
(* Soundness of the refinement chain *)

\* A step that keeps the baseline and adds no candidate.
LEMMA StillChain ==
  ASSUME ChainHolds, current' = current, pool' \subseteq pool, fallback' = None
  PROVE  ChainHolds'
  BY DEF ChainHolds

LEMMA StepChain ==
  ASSUME RefinementLaws, PhasesSound, ProverSound, PatternsSound, HasZ3, ~Trust,
         TypeInv, ChainHolds, [Next]_vars
  PROVE  ChainHolds'
<1> USE DEF chain, rounds, search, choice
<1>0. current \in Functions /\ Original \in Functions
  BY RefinerAssumption DEF TypeInv, TypeOK
<1>1. CASE ApplyPattern
  <2>1. /\ Pattern[current] # None /\ current' = Pattern[current]
        /\ pool' = {} /\ fallback' = None
    BY <1>1 DEF ApplyPattern, PatternHelps, TypeInv, NothingPending, ChainHolds
  <2>2. Pattern[current] \in Functions /\ <<current, Pattern[current]>> \in Refines
    BY <1>0, <2>1, RefinerAssumption DEF PatternsSound
  <2>3. <<Original, current'>> \in Refines
    BY <1>0, <2>1, <2>2 DEF RefinementLaws, ChainHolds
  <2>4. QED
    BY <2>1, <2>3 DEF ChainHolds
<1>2. CASE RunPhase
  <2> DEFINE p == PhaseOrder[phase]
  <2>1. p \in Phases /\ current' = current /\ fallback' = fallback
    BY <1>2, PhaseFacts DEF RunPhase, TypeInv, TypeOK
  <2>2. PICK found \in SUBSET Offers[p][current] :
          pool' = pool \cup {Labelled(p, o) : o \in found}
    BY <1>2 DEF RunPhase
  <2>3. \A o \in found : /\ o \in Offers[p][current] /\ o \in Offer
                         /\ Labelled(p, o).fn = o.fn /\ Labelled(p, o).sound = o.sound
    BY <1>0, <2>1, LabelledType, RefinerAssumption
  <2>4. \A o \in found : o.sound => <<current, o.fn>> \in Refines
    BY <1>0, <2>1, <2>3 DEF PhasesSound
  <2>5. \A c \in pool' : c.sound => <<current, c.fn>> \in Refines
    BY <2>2, <2>3, <2>4 DEF ChainHolds
  <2>6. QED
    BY <2>1, <2>5 DEF ChainHolds
<1>3. ASSUME NEW c \in scored, Examine(c) PROVE ChainHolds'
  <2>1. c \in pool /\ c.fn \in Functions
    BY DEF TypeInv, TypeOK, Candidates
  <2>2. CASE AdoptSound(c)
    <3>1. <<current, c.fn>> \in Refines
      BY <2>1, <2>2 DEF AdoptSound, ChainHolds
    <3>2. <<Original, c.fn>> \in Refines
      BY <1>0, <2>1, <3>1 DEF RefinementLaws, ChainHolds
    <3>3. current' = c.fn /\ pool' = {} /\ fallback' = None
      BY <2>2 DEF AdoptSound, Adopt, EndRound, ChainHolds
    <3>4. QED
      BY <3>2, <3>3 DEF ChainHolds
  <2>3. CASE AdoptProved(c)
    <3>1. <<Original, c.fn>> \in Refines
      BY <2>1, <2>3 DEF AdoptProved, Asked, ProverSound
    <3>2. current' = c.fn /\ pool' = {} /\ fallback' = None
      BY <2>3 DEF AdoptProved, Adopt, EndRound, ChainHolds
    <3>3. QED
      BY <3>1, <3>2 DEF ChainHolds
  <2>4. CASE \/ FailProbes(c) \/ SkipUnasked(c) \/ RejectRefutedByAlive(c)
             \/ RejectNotEquivalent(c) \/ RejectUnknown(c)
    <3>1. Discard(c) /\ fallback' = fallback
      BY <2>4 DEF FailProbes, SkipUnasked, RejectRefutedByAlive, RejectNotEquivalent,
                  RejectUnknown
    <3>2. QED
      BY <3>1, StillChain DEF Discard, ChainHolds
  <2>5. ~AdoptByProbes(c)
    BY DEF AdoptByProbes
  <2>6. QED
    BY <1>3, <2>2, <2>3, <2>4, <2>5 DEF Examine
<1>4. CASE AdoptFallback
  BY <1>4 DEF AdoptFallback, ChainHolds
<1>5. CASE \/ PatternsDone \/ StartRound \/ StopRounds \/ Finish \/ SkipPhase
           \/ Select \/ KeepBaseline \/ TimePasses \/ UNCHANGED vars
  <2>1. current' = current /\ pool' \subseteq pool
    BY <1>5 DEF PatternsDone, StartRound, StopRounds, Finish, SkipPhase, Select,
                KeepBaseline, EndRound, TimePasses, vars
  <2>2. fallback' = None
    BY <1>5 DEF PatternsDone, StartRound, StopRounds, Finish, SkipPhase, Select,
                KeepBaseline, TimePasses, vars, ChainHolds
  <2>3. QED
    BY <2>1, <2>2, StillChain
<1>6. QED
  BY <1>1, <1>2, <1>3, <1>4, <1>5 DEF Next, Work, Done

(***************************************************************************)
(* If refinement is a preorder, the prover's answers are true, and the     *)
(* candidates marked sound and the pattern rewrites are, then with a       *)
(* prover and without trust_unverified every baseline refines the original *)
(* function: the mixture of steps proved against the original and steps    *)
(* derived from the baseline never breaks the chain, whatever is cached,   *)
(* rejected, skipped or cut short by the deadline.                         *)
(***************************************************************************)
THEOREM RefinerSound ==
  ASSUME RefinementLaws, PhasesSound, ProverSound, PatternsSound
  PROVE  Spec => []BaselineRefinesOriginal
<1>1. Init => ChainInv
  BY RefinerAssumption DEF Init, ChainInv, ChainHolds, RefinementLaws
<1>2. TypeInv /\ ChainInv /\ [Next]_vars => ChainInv'
  <2>1. [Next]_vars => (HasZ3' <=> HasZ3) /\ (Trust' <=> Trust)
    BY ModeFixed DEF HasZ3, Trust
  <2>2. QED
    BY <2>1, StepChain DEF ChainInv
<1>3. ChainInv => BaselineRefinesOriginal
  BY DEF ChainInv, ChainHolds, BaselineRefinesOriginal
<1>4. QED
  BY <1>1, <1>2, <1>3, TypeInvariant, PTL DEF Spec

-----------------------------------------------------------------------------
(* What an adoption rests on *)

\* Candidates marked sound are derived from the baseline of their round, and
\* what is put aside passed the differential with trust_unverified set.
Grounds ==
  /\ \A c \in pool : c.sound => <<current, c.fn>> \in Refines
  /\ fallback # None => Trust /\ HasZ3 /\ fallback \in ProbesAgree

LEMMA StepGrounds ==
  ASSUME PhasesSound, TypeInv, Grounds, [Next]_vars
  PROVE  Grounds'
<1> USE DEF chain, rounds, search, choice
<1>0. current \in Functions /\ mode' = mode
  BY ModeFixed DEF TypeInv, TypeOK
<1>1. CASE ApplyPattern
  BY <1>0, <1>1 DEF ApplyPattern, TypeInv, NothingPending, Grounds, Trust, HasZ3
<1>2. CASE RunPhase
  <2> DEFINE p == PhaseOrder[phase]
  <2>1. p \in Phases /\ current' = current /\ fallback' = fallback
    BY <1>2, PhaseFacts DEF RunPhase, TypeInv, TypeOK
  <2>2. PICK found \in SUBSET Offers[p][current] :
          pool' = pool \cup {Labelled(p, o) : o \in found}
    BY <1>2 DEF RunPhase
  <2>3. \A o \in found : /\ o \in Offers[p][current]
                         /\ Labelled(p, o).fn = o.fn /\ Labelled(p, o).sound = o.sound
    BY <1>0, <2>1, LabelledType, RefinerAssumption
  <2>4. \A o \in found : o.sound => <<current, o.fn>> \in Refines
    BY <1>0, <2>1, <2>3 DEF PhasesSound
  <2>5. \A c \in pool' : c.sound => <<current, c.fn>> \in Refines
    BY <2>2, <2>3, <2>4 DEF Grounds
  <2>6. QED
    BY <1>0, <2>1, <2>5 DEF Grounds, Trust, HasZ3
<1>3. CASE \E c \in scored : Examine(c)
  <2>1. PICK c \in scored : Examine(c)
    BY <1>3
  <2>2. CASE EndRound /\ fallback' = fallback
    BY <1>0, <2>2 DEF EndRound, Grounds, Trust, HasZ3
  <2>3. CASE Discard(c) /\ fallback' = fallback
    BY <1>0, <2>3 DEF Discard, Grounds, Trust, HasZ3
  <2>4. CASE RejectUnknown(c)
    BY <1>0, <2>4 DEF RejectUnknown, Asked, Discard, Grounds, Trust, HasZ3
  <2>5. QED
    BY <2>1, <2>2, <2>3, <2>4
       DEF Examine, AdoptSound, AdoptByProbes, AdoptProved, FailProbes, SkipUnasked,
           RejectRefutedByAlive, RejectNotEquivalent, Adopt
<1>4. CASE AdoptFallback \/ KeepBaseline \/ Select
  BY <1>0, <1>4 DEF AdoptFallback, KeepBaseline, Select, Adopt, EndRound, Grounds, Trust, HasZ3
<1>5. CASE \/ PatternsDone \/ StartRound \/ StopRounds \/ Finish \/ SkipPhase
           \/ TimePasses \/ UNCHANGED vars
  <2>1. current' = current /\ pool' \subseteq pool /\ fallback' = fallback
    BY <1>5 DEF PatternsDone, StartRound, StopRounds, Finish, SkipPhase, TimePasses, vars
  <2>2. QED
    BY <1>0, <2>1 DEF Grounds, Trust, HasZ3
<1>6. QED
  BY <1>1, <1>2, <1>3, <1>4, <1>5 DEF Next, Work, Done

(***************************************************************************)
(* verify_and_select adopts nothing without a reason: if the candidates    *)
(* marked sound refine the baseline they were derived from, every adopted  *)
(* function is a sound candidate that its own round examined, or was       *)
(* proved and not refuted by an alive-tv that was asked, or, only where    *)
(* unverified results are trusted or there is no prover, passed the        *)
(* differential; the fallback is no exception, though its round went on    *)
(* after it was put aside.  Nothing is said of alive-tv where the code     *)
(* does not ask it.                                                        *)
(***************************************************************************)
THEOREM RefinerAdoptionJustified ==
  ASSUME PhasesSound
  PROVE  Spec => AdoptionJustified
<1> DEFINE A == stage = "verify" /\ current' # current =>
                  \/ \E c \in scored :
                       c.sound /\ c.fn = current' /\ <<current, current'>> \in Refines
                  \/ /\ HasZ3 /\ "Equivalent" \in Verdicts[current']
                     /\ Alive => current' \notin AliveRefutes
                  \/ (Trust \/ ~HasZ3) /\ current' \in ProbesAgree
<1>1. Init => Grounds
  BY DEF Init, Grounds
<1>2. TypeInv /\ Grounds /\ [Next]_vars => Grounds'
  BY StepGrounds
<1>3. TypeInv /\ Grounds /\ [Next]_vars => [A]_vars
  <2> SUFFICES ASSUME TypeInv, Grounds, Next, stage = "verify", current' # current
               PROVE  A
    BY DEF vars, chain
  <2> USE DEF chain, rounds, search, choice
  <2>1. CASE \E c \in scored : Examine(c)
    <3>1. PICK c \in scored : Examine(c)
      BY <2>1
    <3>2. c \in pool
      BY DEF TypeInv, TypeOK
    <3>3. CASE AdoptSound(c)
      BY <3>2, <3>3 DEF AdoptSound, Adopt, Grounds
    <3>4. CASE AdoptByProbes(c)
      BY <3>4 DEF AdoptByProbes, Adopt
    <3>5. CASE AdoptProved(c)
      BY <3>5 DEF AdoptProved, Asked, Adopt
    <3>6. CASE Discard(c)
      BY <3>6 DEF Discard
    <3>7. QED
      BY <3>1, <3>3, <3>4, <3>5, <3>6
         DEF Examine, FailProbes, SkipUnasked, RejectRefutedByAlive, RejectNotEquivalent,
             RejectUnknown
  <2>2. CASE AdoptFallback
    BY <2>2 DEF AdoptFallback, Adopt, Grounds
  <2>3. CASE KeepBaseline \/ TimePasses \/ Done
    BY <2>3 DEF KeepBaseline, TimePasses, Done, vars
  <2>4. QED
    BY <2>1, <2>2, <2>3
       DEF Next, Work, ApplyPattern, PatternsDone, StartRound, StopRounds, Finish, RunPhase,
           SkipPhase, Select
<1>4. QED
  BY <1>1, <1>2, <1>3, TypeInvariant, PTL DEF Spec, AdoptionJustified

=============================================================================
