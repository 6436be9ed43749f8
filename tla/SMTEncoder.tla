----------------------------- MODULE SMTEncoder -----------------------------
(***************************************************************************)
(* The encoder of src/Search/SMTVerifier.cpp and the queries built on it.  *)
(* A formula over the arguments is modelled by its value for each input:   *)
(* encode_function maps a function and an input to the values, poison      *)
(* flags and path conditions that the formulas have there, and the solver  *)
(* finds an input that satisfies a query, shows that there is none, or     *)
(* runs out of time.                                                       *)
(***************************************************************************)
EXTENDS LoopOpt, Interpreter

CONSTANTS max_blocks_for_smt, max_instructions_for_smt,   \* SMTConfig
          Junk      \* the values that the shared POISON constant may have

\* How to encode: Alive2-style poison flags, or the value "junk" for poison.
Refining     == [refine |-> TRUE, junk |-> 0]
Legacy(junk) == [refine |-> FALSE, junk |-> junk]

-----------------------------------------------------------------------------
(* Bit-vector operations, total as in SMT-LIB.                              *)

\* What the operation yields, v, or what SMT-LIB says where clunk says nothing.
Total(op, a, b, w, v) ==
  LET sign == Signed(a, w) < 0
  IN  CASE v \notin {<<>>, <<Poison>>} -> v[1]
        [] op = "udiv" /\ b = 0 -> 2^w - 1
        [] op = "sdiv" /\ b = 0 -> IF sign THEN 1 ELSE 2^w - 1
        [] op = "sdiv" /\ v = <<>> /\ b # 0 -> a
        [] op \in {"urem", "srem"} /\ b = 0 -> a
        [] op = "srem" /\ v = <<>> /\ b # 0 -> 0
        [] op \in {"shl", "lshr"} /\ v = <<Poison>> -> 0
        [] op = "ashr" /\ v = <<Poison>> -> IF sign THEN 2^w - 1 ELSE 0
bv(op, a, b, w) == Total(op, a, b, w, BinopMeaning(op, a, b, w))

\* The operation that would give back the operand if nothing was lost.
InverseOp(op, flag) ==
  CASE op = "mul" -> IF flag = "nuw" THEN "udiv" ELSE "sdiv"
    [] op = "shl" -> IF flag = "nuw" THEN "lshr" ELSE "ashr"
    [] op \in {"lshr", "ashr"} -> "shl"
Undone(op, flag, a, b, r, w) ==
  IF op = "mul" THEN bv(InverseOp(op, flag), r, a, w) = b ELSE bv(InverseOp(op, flag), r, b, w) = a

\* The result r breaks a flag.  Shift amounts are compared signed here.
Breaks(op, flag, a, b, r, w) ==
  LET neg(v) == Signed(v, w) < 0
  IN  CASE op = "add" -> IF flag = "nuw" THEN r < a ELSE neg(a) # neg(r) /\ neg(b) # neg(r)
        [] op = "sub" -> IF flag = "nuw" THEN a < b ELSE neg(a) # neg(b) /\ neg(a) # neg(r)
        [] op \in {"udiv", "sdiv"} -> b = 0 \/ (a - r * b) % 2^w # 0
        [] op = "mul" /\ flag = "nsw" /\ a = 2^w - 1 /\ b = 2^(w - 1) -> TRUE
        [] op = "mul" /\ a = 0 -> FALSE
        [] op \in {"shl", "lshr", "ashr"} /\ Signed(b, w) >= Signed(w, w) -> TRUE
        [] OTHER -> ~Undone(op, flag, a, b, r, w)

\* Mutant: the product of -1 and the least number passes for exact.
compute_binop_overflow_cond_NoEdge(i, a, b, r) ==
  \E flag \in i.flags : /\ Breaks(i.op, flag, a, b, r, i.w)
                        /\ ~(i.op = "mul" /\ a = 2^i.w - 1 /\ b = 2^(i.w - 1) /\ flag = "nsw")
compute_binop_overflow_cond(i, a, b, r) ==
  \E flag \in i.flags : Breaks(i.op, flag, a, b, r, i.w)

-----------------------------------------------------------------------------
(* encode_function.                                                         *)

\* The value that an operand is bound to, or <<>>.
resolve_value(e, v, w) ==
  IF ~IsNamed(v) THEN <<Unsigned(v, w)>> ELSE IF v \in DOMAIN e.value THEN <<e.value[v]>> ELSE <<>>
operand_poison(e, v) == v \in e.poison

\* Whether the branch of p leads to b, or <<>> if it cannot be modelled.
edge_condition(e, f, p, b) ==
  LET t == Terminator(f, p)
      c == resolve_value(e, t.args[1], 1)
  IN  CASE b \notin Successors(f, p) -> <<>>
        [] b \in Successors(f, p) /\ Range(t.to) = {b} -> <<TRUE>>
        [] OTHER -> IF c = <<>> THEN <<>> ELSE <<(c[1] # 0) = (t.to[1] = b)>>

block_path_cond(e, f, b) ==
  \/ b = Entry(f)
  \/ \E p \in Predecessors(f, b) \cap DOMAIN e.path :
       e.path[p] /\ edge_condition(e, f, p, b) = <<TRUE>>

BindValue(e, x, v, poison) ==
  [e EXCEPT !.value  = (x :> v) @@ @,
            !.poison = IF poison THEN @ \cup {x} ELSE @ \ {x}]

\* A nested conditional over the incoming edges; the last is the default.  The
\* values and the conditions of the edges are <<>> where there is none.
PhiWith(e, i, values, edges) ==
  LET n    == Len(i.args)
      ks   == {k \in 1..(n - 1) : /\ edges[k] = <<TRUE>>
                                  /\ i.to[k] \in DOMAIN e.path => e.path[i.to[k]]}
      k    == IF ks = {} THEN n ELSE Min(ks)
  IN  IF <<>> \notin Range(values) /\ \A m \in 1..(n - 1) : edges[m] # <<>>
      THEN BindValue(e, i.name, values[k][1], operand_poison(e, i.args[k]))
      ELSE IF n = 1 THEN e ELSE [e EXCEPT !.had_unsupported = TRUE]
EncodePhi(e, f, b, i) ==
  PhiWith(e, i, [k \in DOMAIN i.args |-> resolve_value(e, i.args[k], i.w)],
                [k \in DOMAIN i.args |-> edge_condition(e, f, i.to[k], b)])

EncodeBinop(e, i, b, r, overflow, mode) ==
  LET oob   == i.op \in {"shl", "lshr", "ashr"} /\ b >= i.w
      dirty == \E v \in Range(i.args) : operand_poison(e, v)
  IN  IF mode.refine THEN BindValue(e, i.name, r, dirty \/ overflow \/ oob)
      ELSE BindValue(e, i.name, IF overflow THEN mode.junk % 2^i.w ELSE r, FALSE)
EncodeResult(e, i, a, b, r, mode) ==
  EncodeBinop(e, i, b, r, i.flags # {} /\ compute_binop_overflow_cond(i, a, b, r), mode)

\* The instruction for the values xs; one that is not bound leaves it out.
EncodeWith(e, i, xs, mode) ==
  LET x(n)     == xs[n][1]
      dirty(n) == operand_poison(e, i.args[n])
      chosen   == IF x(1) # 0 THEN 2 ELSE 3
  IN  CASE <<>> \in Range(xs) -> e
        [] <<>> \notin Range(xs) /\ i.op \in Binops ->
             EncodeResult(e, i, x(1), x(2), bv(i.op, x(1), x(2), i.w), mode)
        [] <<>> \notin Range(xs) /\ i.op \in Predicates ->
             BindValue(e, i.name, IF Holds(i.op, x(1), x(2), i.ow) THEN 1 ELSE 0,
                       dirty(1) \/ dirty(2))
        [] <<>> \notin Range(xs) /\ i.op = "select" ->
             BindValue(e, i.name, x(chosen), dirty(1) \/ dirty(chosen))
        [] <<>> \notin Range(xs) /\ i.op \in Casts ->
             BindValue(e, i.name, CastMeaning(i.op, x(1), i.ow, i.w), dirty(1))
EncodeValue(e, i, mode) ==
  EncodeWith(e, i, [n \in DOMAIN i.args |-> resolve_value(e, i.args[n], OperandWidth(i, n))], mode)

\* The first return is the default of those that follow.
EncodeReturn(e, b, i, v) ==
  IF v = <<>> \/ (e.ret # <<>> /\ ~e.path[b]) THEN e
  ELSE [e EXCEPT !.ret = <<[value |-> v[1], poison |-> operand_poison(e, i.args[1])]>>]

\* The instruction i, and before the first of a block the condition of its path.
EncodeOne(e, f, b, i, mode) ==
  CASE i.op = "ret" -> EncodeReturn(e, b, i, resolve_value(e, i.args[1], i.ow))
    [] i.op = "phi" -> EncodePhi(e, f, b, i)
    [] i.op \in Terminators \ {"ret"} -> e
    [] OTHER -> EncodeValue(e, i, mode)
EnterPath(e, f, b) == [e EXCEPT !.path = (b :> block_path_cond(e, f, b)) @@ @]
EncodeStep(e, f, b, n, mode) ==
  EncodeOne(IF n = 1 THEN EnterPath(e, f, b) ELSE e, f, b, f.body[b][n], mode)

Places(f) == FlattenSeq([k \in DOMAIN f.order |-> [n \in DOMAIN f.body[f.order[k]] |-> <<f.order[k], n>>]])

\* "shared" binds the arguments, and the placeholders if there are any.
encode_function(f, shared, mode) ==
  FoldLeft(LAMBDA e, p : EncodeStep(e, f, p[1], p[2], mode),
           [value |-> shared, poison |-> {}, path |-> [b \in {} |-> TRUE],
            ret |-> <<>>, had_unsupported |-> FALSE], Places(f))

\* The arguments go by the names they have in f.
shared_args(f, ins) ==
  [x \in ArgNames(f) |-> LET n == CHOOSE m \in DOMAIN f.args : f.args[m].name = x
                         IN  Unsigned(ins[n], f.args[n].w)]

InputSpace(f) == {ins \in [DOMAIN f.args -> 0..(2^HostBits - 1)] :
                    \A n \in DOMAIN f.args : ins[n] < 2^f.args[n].w}

-----------------------------------------------------------------------------
(* The queries.  An answer is [status, counterexample].                     *)

function_has_loops(f) ==
  \E m, n \in DOMAIN f.order : m <= n /\ f.order[m] \in Successors(f, f.order[n])
function_has_unsupported_ops(f) ==
  \/ \E i \in Range(Instructions(f)) : i.op \in {"alloca", "load", "store", "call"}
  \/ function_has_loops(f)
  \/ Len(f.order) > max_blocks_for_smt \/ Len(Instructions(f)) > max_instructions_for_smt

Answer(status)  == [status |-> status, counterexample |-> <<>>]
\* Z3_get_numeral_int64 leaves 0 where a value does not fit.
Extracted(ins)  == [n \in DOMAIN ins |-> IF ins[n] >= 2^(HostBits - 1) THEN 0 ELSE ins[n]]
Refuted(ins)    == [status |-> "NotEquivalent", counterexample |-> Extracted(ins)]

\* The candidate is less defined or returns something else.
counterexample_cond(o, c, mode) ==
  IF mode.refine THEN ~o.poison /\ (c.poison \/ o.value # c.value) ELSE o.value # c.value

\* f for every input, and whether it could be encoded at all.
Encoded(f) == [ins \in InputSpace(f) |-> encode_function(f, shared_args(f, ins), Refining)]
AnyOf(es)  == es[CHOOSE ins \in DOMAIN es : TRUE]
Failed(e)  == e.had_unsupported \/ e.ret = <<>>

\* What the solver may answer for the encodings of a function and a candidate.
Answers(cexs) ==
  {Answer("Unknown")} \cup
  (IF cexs = {} THEN {Answer("Equivalent")} ELSE {Refuted(ins) : ins \in cexs})
Check(ef, eg, inputs) ==
  IF AnyOf(ef).had_unsupported \/ AnyOf(eg).had_unsupported THEN {Answer("Unknown")}
  ELSE IF AnyOf(ef).ret = <<>> \/ AnyOf(eg).ret = <<>> THEN {Answer("Error")}
  ELSE Answers({ins \in inputs : counterexample_cond(ef[ins].ret[1], eg[ins].ret[1], Refining)})

\* f and g are unrolled (sound_bounded_unrolling).
AskZ3(f, g, inputs) ==
  IF Len(f.args) # Len(g.args) THEN {Answer("NotEquivalent")}
  ELSE IF \E h \in {f, g} : function_has_unsupported_ops(h) THEN {Answer("Unknown")}
  ELSE Check(Encoded(f), Encoded(g), inputs)
verify_with_z3(f, g, inputs) ==
  AskZ3(unroll_constant_loops(f), unroll_constant_loops(g), inputs)

verify(f, g) == verify_with_z3(f, g, InputSpace(f))

\* A conjunct compares an argument (by position) or a constant with another; one
\* that compares two constants, or arguments of two widths, is dropped.
Assumption(f, a, ins) ==
  LET isArg(n) == n \in DOMAIN f.args
      w == f.args[IF isArg(a.lhs_arg) THEN a.lhs_arg ELSE a.rhs_arg].w
      side(n, c) == IF isArg(n) THEN ins[n] ELSE Unsigned(c, w)
  IN  IF \/ ~isArg(a.lhs_arg) /\ ~isArg(a.rhs_arg)
         \/ isArg(a.lhs_arg) /\ isArg(a.rhs_arg) /\ f.args[a.lhs_arg].w # f.args[a.rhs_arg].w
      THEN TRUE
      ELSE a.negated # Holds(a.predicate, side(a.lhs_arg, a.lhs_const),
                                          side(a.rhs_arg, a.rhs_const), w)

\* condition is <<>> or <<c>>: a function of the same arguments that returns an i1.
ConditionRefused(condition) ==
  \E c \in Range(condition) :
    function_has_unsupported_ops(c) \/ Failed(AnyOf(Encoded(c)))
ConditionHolds(condition, ins, negated) ==
  \A c \in Range(condition) :
    (encode_function(c, shared_args(c, ins), Refining).ret[1].value = 0) = negated

verify_with_assumptions(f, g, assumptions, condition, negated) ==
  IF ConditionRefused(condition) THEN {Answer("Unknown")}
  ELSE verify_with_z3(f, g, {ins \in InputSpace(f) :
                               /\ \A a \in assumptions : Assumption(f, a, ins)
                               /\ ConditionHolds(condition, ins, negated)})

=============================================================================
