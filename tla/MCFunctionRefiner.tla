------------------------- MODULE MCFunctionRefiner --------------------------
(***************************************************************************)
(* Instances of FunctionRefiner for TLC.                                   *)
(*                                                                         *)
(*   version   score  right?  prover's answers        where it comes from  *)
(*   orig        0    yes     -                                            *)
(*   pat         1    yes     -                       pattern on orig      *)
(*   hoisted     2    yes     Unknown (a loop);       loop phase, sound    *)
(*                            alive-tv refutes the text it is given        *)
(*   slim        3    yes     Equivalent or Unknown   searches             *)
(*   doubt       3    yes     Equivalent, alive-tv disagrees   searches    *)
(*   wrong       4    no      NotEquivalent, Unknown  searches             *)
(*   wrongPruned 5    no      NotEquivalent, Unknown  searches; prune of   *)
(*                                                    wrong, sound         *)
(*   best        6    yes     Equivalent              searches             *)
(*                                                                         *)
(* wrong and wrongPruned agree with orig on the probes, clumsy does not;   *)
(* wrongPruned and best differ only in a constant, so their canonical      *)
(* hashes are equal.                                                       *)
(***************************************************************************)
EXTENDS FunctionRefiner

CONSTANTS orig, pat, hoisted, slim, doubt, clumsy, wrong, wrongPruned, best

AllFunctions == {orig, pat, hoisted, slim, doubt, clumsy, wrong, wrongPruned, best}

WrongOnes == {clumsy, wrong, wrongPruned}
SameMeaning == {p \in AllFunctions \X AllFunctions :
                  \/ p[1] \notin WrongOnes /\ p[2] \notin WrongOnes
                  \/ p[1] \in {wrong, wrongPruned} /\ p[2] \in {wrong, wrongPruned}
                  \/ p[1] = p[2]}

TheScore ==
  [f \in AllFunctions |->
     CASE f = orig -> 0   [] f = pat -> 1   [] f = hoisted -> 2
       [] f = slim -> 3   [] f = doubt -> 3 [] f = clumsy -> 3
       [] f = wrong -> 4  [] f = wrongPruned -> 5 [] f = best -> 6]

TheStructHash == [f \in AllFunctions |-> <<"struct", f>>]
TheCanonHash  == [f \in AllFunctions |->
                    <<"canon", IF f = best THEN wrongPruned ELSE f>>]

ThePattern == [f \in AllFunctions |-> IF f = orig THEN pat ELSE None]

TheVerdicts ==
  [f \in AllFunctions |->
     CASE f \in WrongOnes      -> {"NotEquivalent", "Unknown"}
       [] f = slim             -> {"Equivalent", "Unknown"}
       [] f \in {doubt, best}  -> {"Equivalent"}
       [] OTHER                -> {"Unknown", "Error"}]

Unproven(F) == {[fn |-> f, sound |-> FALSE] : f \in F}
Derived(f)  == {[fn |-> f, sound |-> TRUE]}

\* The random searches may find any of Found; the other phases are fixed.
OffersWith(Found) ==
  [p \in Phases |-> [f \in AllFunctions |->
     CASE p \in Randomised                     -> Unproven(Found)
       [] p = "loop"  /\ f \in {orig, pat}     -> Derived(hoisted)
       [] p = "prune" /\ f = wrong             -> Derived(wrongPruned)
       [] p = "mining" /\ f = hoisted          -> Unproven({slim})
       [] OTHER                                -> {}]]

AllOffers    == OffersWith({slim, doubt, clumsy, wrong})

Prover(trust, alive) == [z3 |-> TRUE, trust |-> trust, alive |-> alive]
NoProver   == [z3 |-> FALSE, trust |-> FALSE, alive |-> FALSE]

AliveMode  == {Prover(FALSE, TRUE)}
EveryMode  == {Prover(FALSE, TRUE), Prover(TRUE, FALSE), NoProver}

NoGpu == [f \in AllFunctions |-> {}]

\* In percent: slim measures faster than pat, wrong no faster; the rest
\* cannot be measured.
TheRatio ==
  [f \in AllFunctions |-> [g \in AllFunctions |->
     CASE g = slim -> 120 [] g = clumsy -> 90 [] OTHER -> 0]]

=============================================================================
