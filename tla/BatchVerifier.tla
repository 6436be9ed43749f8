---------------------------- MODULE BatchVerifier ----------------------------
(***************************************************************************)
(* SMTVerifier::verify_batch: many candidates for one function.  More than *)
(* three are first asked about jointly: is there an input on which all of  *)
(* them differ?  If so all are refuted at once, else those outside of the  *)
(* unsat core are asked about one by one, and if any falls the others go   *)
(* through verify().  If none does, one encoding of the original serves    *)
(* them all.  Both paths compare values, in the encoding without flags for *)
(* poison (Legacy).                                                        *)
(***************************************************************************)
EXTENDS SMTEncoder

CONSTANT Batches      \* [subject, candidates], the candidates in a sequence

VARIABLES batch, path, results, next, core
batchVars == <<batch, path, results, next, core>>

Subject    == batch.subject
Candidates == batch.candidates
Pending    == Answer("none")

LegacyReturn(f, ins, junk) == encode_function(f, shared_args(f, ins), Legacy(junk)).ret[1].value
Differs(f, g, ins, junk) == LegacyReturn(g, ins, junk) # LegacyReturn(f, ins, junk)

\* The candidates that the joint query is about.
Encodable ==
  {n \in DOMAIN Candidates : /\ Len(Candidates[n].args) = Len(Subject.args)
                             /\ ~function_has_unsupported_ops(Candidates[n])}
\* The inputs on which all of S differ; the solver picks the poison as well.
JointModels(S) ==
  {ins \in InputSpace(Subject) : \E junk \in Junk : \A n \in S : Differs(Subject, Candidates[n], ins, junk)}

BatchInit ==
  /\ batch \in Batches /\ path = "start" /\ next = 1 /\ core = {}
  /\ results = [n \in DOMAIN batch.candidates |-> Pending]

BatchStart ==
  /\ path = "start"
  /\ path' = IF function_has_unsupported_ops(Subject) THEN "each"
             ELSE IF Len(Candidates) > 3 /\ Encodable # {} THEN "prune" ELSE "loop"
  /\ UNCHANGED <<batch, results, next, core>>

\* Mutant: it is enough that one of them differs.
Jointly_Any(S) == UNION {JointModels({n}) : n \in S}
Jointly(S) == JointModels(S)

AskJointly ==
  /\ path = "prune"
  /\ \/ \E ins \in Jointly(Encodable) :
          /\ results' = [n \in DOMAIN results |-> IF n \in Encodable THEN Refuted(ins) ELSE Pending]
          /\ path' = "each" /\ UNCHANGED core
     \/ /\ Jointly(Encodable) = {}
        /\ core' \in {S \in SUBSET Encodable : Jointly(S) = {}}
        /\ path' = "singles" /\ UNCHANGED results
     \/ path' = "loop" /\ UNCHANGED <<results, core>>          \* no answer in time
  /\ UNCHANGED <<batch, next>>

\* One candidate outside of the core after the other.
AskSingly ==
  /\ path = "singles"
  /\ IF next > Len(Candidates)
     THEN /\ path' = IF Range(results) = {Pending} THEN "loop" ELSE "each"
          /\ next' = 1 /\ UNCHANGED results
     ELSE /\ next' = next + 1 /\ UNCHANGED path
          /\ \/ UNCHANGED results
             \/ /\ next \in Encodable \ core
                /\ \E ins \in JointModels({next}) : results' = [results EXCEPT ![next] = Refuted(ins)]
  /\ UNCHANGED <<batch, core>>

\* What is not refuted goes through verify().
VerifyEach ==
  /\ path = "each"
  /\ IF next > Len(Candidates) THEN path' = "done" /\ UNCHANGED <<results, next>>
     ELSE /\ next' = next + 1 /\ UNCHANGED path
          /\ IF results[next] # Pending THEN UNCHANGED results
             ELSE \E a \in verify(Subject, Candidates[next]) :
                    results' = [results EXCEPT ![next] = a]
  /\ UNCHANGED <<batch, core>>

\* One encoding of f serves all candidates.
LegacyAnswers(f, g) ==
  CASE Len(g.args) # Len(f.args) -> {Answer("NotEquivalent")}
    [] Len(g.args) = Len(f.args) /\ function_has_unsupported_ops(g) -> {Answer("Unknown")}
    [] Len(g.args) = Len(f.args) /\ ~function_has_unsupported_ops(g) ->
         Answers({ins \in InputSpace(f) : \E junk \in Junk : Differs(f, g, ins, junk)})

VerifyLoop ==
  /\ path = "loop"
  /\ IF next > Len(Candidates) THEN path' = "done" /\ UNCHANGED <<results, next>>
     ELSE /\ next' = next + 1 /\ UNCHANGED path
          /\ \E a \in LegacyAnswers(Subject, Candidates[next]) : results' = [results EXCEPT ![next] = a]
  /\ UNCHANGED <<batch, core>>

BatchNext == BatchStart \/ AskJointly \/ AskSingly \/ VerifyEach \/ VerifyLoop
BatchSpec == BatchInit /\ [][BatchNext]_batchVars

-----------------------------------------------------------------------------
(* What the batch relies on: an answer by values alone, in the encoding     *)
(* without flags, is one that verify() could give for that candidate.       *)

LegacyAgrees ==
  \A b \in Batches : \A g \in Range(b.candidates) :
    ~function_has_unsupported_ops(b.subject) => LegacyAnswers(b.subject, g) \subseteq verify(b.subject, g)

-----------------------------------------------------------------------------
BatchTypeOK ==
  /\ batch \in Batches /\ core \subseteq DOMAIN Candidates /\ next \in 1..(Len(Candidates) + 1)
  /\ path \in {"start", "prune", "singles", "each", "loop", "done"}

\* The batch gives every candidate, at its own place, an answer that verify()
\* could give it alone, and a counterexample of the batch is one of each
\* candidate that it is reported for.  Flags and shifts, on which the encodings
\* differ, are left out of the batches.
BatchAgrees ==
  \A n \in DOMAIN Candidates :
    results[n] # Pending => results[n] \in verify(Subject, Candidates[n])

=============================================================================
