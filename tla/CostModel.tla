----------------------------- MODULE CostModel -----------------------------
(***************************************************************************)
(* How functions are compared (src/Evaluator/EvaluationEngine.cpp): a score*)
(* is a negated cost, so that the better function has the greater score and*)
(* the ratio of two scores exceeds 1 for it.  The cost counts what opcodes *)
(* take, the constants too large for an instruction and the values that are*)
(* used again; the memory hierarchy, loop frequencies and vectors are left *)
(* out.                                                                    *)
(***************************************************************************)
EXTENDS ClunkIR

CONSTANTS CostOf(_),      \* latency and throughput of an opcode
          ImmediateBits,  \* 32: the constants that an instruction can hold
          constant_materialisation_cost,
          register_reuse_bonus

LargeOperands(i) ==
  Cardinality({n \in DOMAIN i.args :
                 /\ ~IsNamed(i.args[n])
                 /\ i.args[n] \notin -(2^(ImmediateBits - 1))..(2^(ImmediateBits - 1) - 1)})
CostOfCode(code) ==
  FoldLeft(LAMBDA cost, i : cost + CostOf(i.op) + constant_materialisation_cost * LargeOperands(i),
           0, code)

\* The values that are used twice or more.
ReusedIn(code) ==
  LET uses == FlattenSeq([n \in DOMAIN code |-> SelectSeq(code[n].args, IsNamed)])
  IN  {x \in Range(uses) : Cardinality({n \in DOMAIN uses : uses[n] = x}) >= 2}

\* The bonus is added to the cost, up to half of it.
WithBonus(cost, reused) == cost + Min({register_reuse_bonus * Min({reused, 10}), cost \div 2})
ScoreOfCode(code) == -WithBonus(CostOfCode(code), Cardinality(ReusedIn(code)))
Score(f)     == ScoreOfCode(Instructions(f))
Better(g, f) == Score(g) > Score(f)

=============================================================================
