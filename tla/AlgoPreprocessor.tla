-------------------------- MODULE AlgoPreprocessor --------------------------
(***************************************************************************)
(* The algorithmic preprocessor of src/Search/AlgoPreprocessor.cpp: it     *)
(* runs every small function of a module on a few inputs, fits a constant, *)
(* c*x or c*x + b to what the interpreter returns, has the solver compare  *)
(* the two, and replaces the body in place.  If that changed anything,     *)
(* functions that only wrap a call are treated in the same way.            *)
(***************************************************************************)
EXTENDS Interpreter

CONSTANTS Sources,                    \* modules: sequences of [name, fn]
          kProbes,                    \* a sequence of words
          max_probes, max_function_instructions,   \* AlgoPreConfig
          scaled, shifted             \* the names in a closed form

\* Modules hold functions of the shape that ClunkIR describes.
AlgoAssumption ==
  \A s \in Sources :
    /\ s \in Seq(Range(s))
    /\ \A n \in DOMAIN s :
         LET f == s[n].fn IN
         /\ s[n] = [name |-> s[n].name, fn |-> f]
         /\ f = [args |-> f.args, order |-> f.order, body |-> f.body]
ASSUME AlgoAssumption

VARIABLES source,            \* the module, as it was given
          algo_fns,          \* the module, as it is now
          algo_at,           \* the function that is looked at next
          collapsing,        \* in the second walk, over the wrappers
          any_change,
          z3_available, trust_unverified

algoVars == <<source, algo_fns, algo_at, collapsing, any_change, z3_available,
              trust_unverified>>

in_scope(f) ==
  /\ Len(f.order) = 1 /\ Len(f.args) \in 1..4
  /\ \A i \in Range(Instructions(f)) : i.op \notin {"alloca", "load", "store", "call"}

\* The arguments of the i-th probe: on the diagonal, shifted from one argument
\* to the next.
ProbeArgs(f, i) ==
  [j \in DOMAIN f.args |-> kProbes[((i + j - 2) % Len(kProbes)) + 1]]

\* The probes, or none if the interpreter refuses one.
AllAnswered(out) ==
  IF \E i \in DOMAIN out : out[i].result = <<>> THEN <<>>
  ELSE [i \in DOMAIN out |-> [out[i] EXCEPT !.result = @[1]]]
probe_function(f, g, count) ==
  AllAnswered([i \in 1..Min({count, Len(kProbes)}) |->
                 [x |-> ProbeArgs(f, i)[1], result |-> interpret(g, ProbeArgs(f, i))]])

-----------------------------------------------------------------------------
(* The detectors: <<[c, b]>>, or <<>> if the probes do not fit.             *)

detect_constant(probes) ==
  IF \A p \in Range(probes) : p.result = probes[1].result
  THEN <<[c |-> 0, b |-> probes[1].result]>> ELSE <<>>

detect_multiplicative(probes) ==
  LET some == {p \in Range(probes) : p.x # 0}
      factors == {Quotient(p.result, p.x) : p \in some}
  IN  IF /\ Cardinality(factors) = 1
         /\ \A p \in some : Remainder(p.result, p.x) = 0
         /\ \A p \in Range(probes) : p.x = 0 => p.result = 0
      THEN <<[c |-> CHOOSE c \in factors : TRUE, b |-> 0]>> ELSE <<>>

detect_affine(probes) ==
  LET At_(x) == {p.result : p \in {q \in Range(probes) : q.x = x}}
      b == CHOOSE r \in At_(0) : TRUE
      c == (CHOOSE r \in At_(1) : TRUE) - b
  IN  IF Len(probes) < 3 \/ At_(0) = {} \/ At_(1) = {} THEN <<>>
      ELSE IF c # 0 /\ \A p \in Range(probes) : p.result = c * p.x + b
      THEN <<[c |-> c, b |-> b]>> ELSE <<>>

detect(probes, arity) ==
  LET first == detect_constant(probes)
      second == detect_multiplicative(probes)
  IN  IF probes = <<>> THEN <<>>
      ELSE IF first # <<>> \/ arity # 1 THEN first
      ELSE IF second # <<>> THEN second ELSE detect_affine(probes)

\* The closed form, in the block of f.
build_affine_candidate(f, k) ==
  LET w   == ReturnWidth(f)
      I(op, x, as) == [op |-> op, name |-> x, w |-> w, ow |-> w, args |-> as, to |-> <<>>,
                       flags |-> {}]
      arg == f.args[1].name
      mul == I("mul", scaled, <<arg, k.c>>)
      add == I("add", shifted, <<scaled, k.b>>)
      ret(v) == I("ret", NoName, <<v>>)
      code == IF k.c = 0 THEN <<ret(k.b)>>
              ELSE IF k.b = 0 THEN <<mul, ret(scaled)>> ELSE <<mul, add, ret(shifted)>>
  IN  [f EXCEPT !.body = (Entry(f) :> code)]

\* A function of one argument that returns what one call makes of it: <<callee>>.
detect_wrapper_chain(f) ==
  LET code == f.body[Entry(f)]
  IN  IF /\ Len(f.args) = 1 /\ Len(f.order) = 1 /\ Len(code) = 2
         /\ code[1].op = "call" /\ code[1].args = <<f.args[1].name>>
         /\ code[2].op = "ret" /\ code[2].args = <<code[1].name>>
      THEN code[1].to ELSE <<>>

-----------------------------------------------------------------------------
(* AlgoPreprocessor::run.                                                   *)

AllInputs(f) ==
  {ins \in [DOMAIN f.args -> 0..(2^(Max({f.args[n].w : n \in DOMAIN f.args})) - 1)] :
     \A n \in DOMAIN f.args : ins[n] < 2^f.args[n].w}

\* What verify may answer: it refuses calls, and may always run out of time.
Verdicts(f, g) ==
  IF \E i \in Range(Instructions(f)) : i.op = "call" THEN {"Unsupported"}
  ELSE {"Timeout", IF Refines(g, f, AllInputs(f)) THEN "Equivalent" ELSE "NotEquivalent"}

AlgoInit ==
  /\ source \in Sources /\ algo_fns = source
  /\ algo_at = 1 /\ collapsing = FALSE /\ any_change = FALSE
  /\ z3_available \in BOOLEAN /\ trust_unverified \in BOOLEAN

Looked == algo_fns[algo_at].fn
CalleeIn(n) == {m \in DOMAIN algo_fns : algo_fns[m].name = n}

\* The closed form conjectured for the function that is looked at, or <<>>.
ClosedForm(k) == IF k = <<>> THEN <<>> ELSE <<build_affine_candidate(Looked, k[1])>>
Conjecture ==
  IF in_scope(Looked) /\ Len(Instructions(Looked)) <= max_function_instructions
  THEN ClosedForm(detect(probe_function(Looked, Looked, max_probes), Len(Looked.args)))
  ELSE <<>>

\* The same for a wrapper, from the callee as it is now; all probes are used.
WrappedForm(callee) ==
  IF Len(callee.args) # 1 THEN <<>>
  ELSE ClosedForm(detect(probe_function(Looked, callee, Len(kProbes)), 1))
CollapseConjecture ==
  LET chain == detect_wrapper_chain(Looked)
  IN  IF Len(chain) # 1 \/ CalleeIn(chain[1]) = {} THEN <<>>
      ELSE WrappedForm(algo_fns[CHOOSE m \in CalleeIn(chain[1]) : TRUE].fn)

Advance == algo_at' = algo_at + 1

\* Mutant: only a refuted candidate is turned down.
Replace_UnlessRefuted(g, verdict) ==
  IF verdict # "NotEquivalent" \/ trust_unverified
  THEN /\ algo_fns' = [algo_fns EXCEPT ![algo_at].fn = g]
       /\ any_change' = TRUE
  ELSE UNCHANGED <<algo_fns, any_change>>

Replace(g, verdict) ==
  LET verified == verdict = "Equivalent"
  IN  IF verified \/ trust_unverified
      THEN /\ algo_fns' = [algo_fns EXCEPT ![algo_at].fn = g]
           /\ any_change' = TRUE
      ELSE UNCHANGED <<algo_fns, any_change>>

Walk(conjecture) ==
  /\ algo_at <= Len(algo_fns)
  /\ Advance
  /\ IF conjecture = <<>> THEN UNCHANGED <<algo_fns, any_change>>
     ELSE \E v \in IF z3_available THEN Verdicts(Looked, conjecture[1]) ELSE {"None"} :
            Replace(conjecture[1], v)
  /\ UNCHANGED <<source, collapsing, z3_available, trust_unverified>>

Rewrite  == ~collapsing /\ (z3_available \/ trust_unverified) /\ Walk(Conjecture)
Collapse == collapsing /\ Walk(CollapseConjecture)

\* The second walk begins only if the first changed something.
BeginCollapse ==
  /\ ~collapsing /\ any_change /\ algo_at > Len(algo_fns)
  /\ collapsing' = TRUE /\ algo_at' = 1
  /\ UNCHANGED <<source, algo_fns, any_change, z3_available, trust_unverified>>

AlgoNext == Rewrite \/ BeginCollapse \/ Collapse
AlgoSpec == AlgoInit /\ [][AlgoNext]_algoVars

AlgoEnded ==
  \/ ~z3_available /\ ~trust_unverified
  \/ algo_at > Len(algo_fns) /\ (collapsing \/ ~any_change)

AlgoTypeOK ==
  /\ algo_at \in 1..(Len(source) + 1)
  /\ any_change \in BOOLEAN /\ collapsing \in BOOLEAN
  /\ [n \in DOMAIN algo_fns |-> algo_fns[n].name] = [n \in DOMAIN source |-> source[n].name]

\* Unless unproven rewrites are trusted, every function of the module still
\* means what it meant, whatever the solver's timeouts were; in particular a
\* probe set that fits a closed form by accident changes nothing.
ClosedFormsProved ==
  ~trust_unverified =>
    \A n \in {m \in DOMAIN algo_fns : algo_fns[m] # source[m]} :
      Refines(algo_fns[n].fn, source[n].fn, AllInputs(source[n].fn))

=============================================================================
