--------------------------- MODULE CachedVerifier ---------------------------
(***************************************************************************)
(* SMTVerifier::verify (src/Search/SMTVerifier.cpp:1946-2067) of several   *)
(* pipeline workers over the one RewriteCache they share                   *)
(* (src/Pipeline.cpp:526-528): look the pair up; on a miss ask the solver, *)
(* holding no lock, and put the verdict, whatever it is.                   *)
(*                                                                         *)
(* A pair is an original and a candidate function.  KeyOf is the packed    *)
(* pair of StochasticSearch::structural_hash values, which looks at        *)
(* opcodes, operand names and constants but at no predicate, flag or type  *)
(* of an instruction: two pairs with different answers can share a key.    *)
(***************************************************************************)
EXTENDS RewriteCache

CONSTANTS Workers, Pairs,
          KeyOf,      \* the cache key of a pair
          Truth       \* per pair, "Equivalent" or "NotEquivalent"

ASSUME VerifierAssumption ==
  /\ Absent \notin Pairs
  /\ KeyOf \in [Pairs -> Keys]
  /\ Truth \in [Pairs -> {"Equivalent", "NotEquivalent"}]
  /\ {"Equivalent", "NotEquivalent", "Unknown"} \subseteq Statuses

VARIABLES
  asking,     \* per worker, the pair it verifies, Absent when none
  solving,    \* the workers whose query is with the solver
  verdict     \* per worker, the status verify() last returned

workerVars   == <<asking, solving, verdict>>
verifierVars == <<cacheVars, workerVars>>

VerifierInit ==
  /\ CacheInit
  /\ asking = [w \in Workers |-> Absent]
  /\ solving = {}
  /\ verdict = [w \in Workers |-> Absent]

Idle(w) == w \notin solving

\* verify(): the cache has the answer, which is returned as it stands.
AnswerFromCache(w, p) ==
  /\ Idle(w) /\ Hit(KeyOf[p])
  /\ Lookup(KeyOf[p])
  /\ asking' = [asking EXCEPT ![w] = p]
  /\ verdict' = [verdict EXCEPT ![w] = index[KeyOf[p]]]
  /\ UNCHANGED solving

\* Mutant: the cache is consulted only for what the LRU holds.
AskSolver_LruOnly(w, p) ==
  /\ Idle(w) /\ KeyOf[p] \notin Held
  /\ Lookup(KeyOf[p])
  /\ asking' = [asking EXCEPT ![w] = p]
  /\ verdict' = [verdict EXCEPT ![w] = Absent]
  /\ solving' = solving \cup {w}

AskSolver(w, p) ==
  /\ Idle(w) /\ ~Hit(KeyOf[p])
  /\ Lookup(KeyOf[p])
  /\ asking' = [asking EXCEPT ![w] = p]
  /\ verdict' = [verdict EXCEPT ![w] = Absent]
  /\ solving' = solving \cup {w}

\* A sound solver, with a budget it may run out of.
Possible(p) == {Truth[p], "Unknown"}

\* Mutant: the verdict is stored under the candidate asked about by another
\* worker.
Store_OtherKey(w, s) ==
  \E v \in solving :
    LET k == KeyOf[asking[v]]
    IN  Put(k, s) \/ PutUnwritten(k, s) \/ PutDiskFull(k, s)

Store(w, s) ==
  LET k == KeyOf[asking[w]]
  IN  Put(k, s) \/ PutUnwritten(k, s) \/ PutDiskFull(k, s)

\* The solver answers; the verdict is put and returned.
Answer(w, s) ==
  /\ w \in solving /\ s \in Possible(asking[w])
  /\ Store(w, s)
  /\ solving' = solving \ {w}
  /\ verdict' = [verdict EXCEPT ![w] = s]
  /\ UNCHANGED asking

\* The process ends, or dies, also inside the append of a verdict or of a
\* flush().
AllGone ==
  /\ asking' = [w \in Workers |-> Absent]
  /\ solving' = {}
  /\ verdict' = [w \in Workers |-> Absent]

Die ==
  /\ \/ Stop \/ FlushDies
     \/ \E w \in solving : \E s \in Possible(asking[w]) :
          PutDies(KeyOf[asking[w]], s)
  /\ AllGone

Restart == Open /\ UNCHANGED workerVars

\* flush() is public, and called by nothing in src/: it may come at any time.
Checkpoint == Flush /\ UNCHANGED workerVars

VerifierNext ==
  \/ Restart \/ Die \/ Checkpoint
  \/ \E w \in Workers, p \in Pairs :
       AnswerFromCache(w, p) \/ AskSolver(w, p)
  \/ \E w \in Workers, s \in Statuses : Answer(w, s)

VerifierSpec == VerifierInit /\ [][VerifierNext]_verifierVars

-----------------------------------------------------------------------------
(* Properties *)

\* The type invariant: the solver has exactly the pairs whose worker has not
\* been answered, and the cache keeps its own type.
VerifierTypeOK ==
  /\ CacheTypeOK
  /\ asking \in [Workers -> Pairs \cup {Absent}]
  /\ verdict \in [Workers -> Statuses \cup {Absent}]
  /\ solving = {w \in Workers : asking[w] # Absent /\ verdict[w] = Absent}

\* s is the solver's decision about some pair that has p's key.
DecidedOfKey(s, p) == \E q \in Pairs : KeyOf[q] = KeyOf[p] /\ Truth[q] = s

\* What a decision that verify() returns is worth, across processes, torn lines
\* and concurrent answers: the solver made it, or would make it, of a pair with
\* the same key.  That need not be the pair asked about.  The cache's comment
\* expects more: a collision of keys "would at worst cause a wrong cache hit -
\* which the SMT verifier downstream would catch (the cache is an optimisation,
\* not a soundness gate)" (include/clunk/Search/RewriteCache.h:139-143); but
\* verify() returns a hit as it stands (src/Search/SMTVerifier.cpp:2016-2033).
VerdictsSound ==
  \A w \in Workers :
    verdict[w] \in {"Equivalent", "NotEquivalent"} =>
      DecidedOfKey(verdict[w], asking[w])

\* Within a process a pair that was answered never goes to the solver again,
\* however small the LRU and whatever became of the file.
NeverAskedAgain ==
  [][\A w \in solving' \ solving : KeyOf[asking'[w]] \notin session]_verifierVars

=============================================================================
