--------------------------- MODULE PatternLibrary ---------------------------
(***************************************************************************)
(* The pattern library (src/Pattern/PatternLibrary.cpp): which windows of a*)
(* function a pattern matches, what applying it makes of the function, and *)
(* the patterns the library is seeded with.                                *)
(*                                                                         *)
(* A pattern is [id, arch, tags, source, replacement]: the entry blocks of *)
(* its two functions.  adapt_pattern changes only estimates, so the        *)
(* functions of an adapted pattern are those of the pattern.               *)
(***************************************************************************)
EXTENDS ClunkIR

CONSTANTS px, pc, pr, pt, pa, pb, punused,  \* names in the patterns
          PatternBits,      \* 32: the width of the seeded patterns
          Distance(_, _),   \* between two architectures, in tenths
          intel, anyone, portable

-----------------------------------------------------------------------------
(* Matching.                                                                *)

is_compatible(p, target) ==
  IF p.arch.gpu # target.gpu THEN portable \in p.tags
  ELSE p.arch.vendor = target.vendor \/ Distance(p.arch, target) < 7

\* All comparisons have one opcode, all branches another.
Opcode(i) == IF i.op \in Predicates THEN "icmp" ELSE IF i.op = "condbr" THEN "br" ELSE i.op
SameShape(i, j) == Opcode(i) = Opcode(j) /\ Len(i.args) = Len(j.args)

\* A constant stands for itself and a name for any value that is not one.
OperandFits(v, p) == IF IsNamed(p) THEN IsNamed(v) ELSE ~IsNamed(v) /\ v = p
match_instruction_sequence(code, start, pattern) ==
  /\ start + Len(pattern) <= Len(code)
  /\ \A n \in DOMAIN pattern :
       /\ SameShape(code[start + n], pattern[n])
       /\ \A k \in DOMAIN pattern[n].args : OperandFits(code[start + n].args[k], pattern[n].args[k])

\* The block and the instructions to skip in it.
match(f, p, target) ==
  IF ~is_compatible(p, target) \/ p.source = <<>> THEN {}
  ELSE UNION {{<<b, start>> : start \in {s \in 0..Len(f.body[b]) :
                                  match_instruction_sequence(f.body[b], s, p.source)}} :
              b \in Blocks(f)}

-----------------------------------------------------------------------------
(* Applying.                                                                *)

\* Every name of the pattern and the value in its place, the last one that has it.
BindingOf(code, start, pattern) ==
  LET Operands(n) == [k \in DOMAIN pattern[n].args |-> <<pattern[n].args[k], code[start + n].args[k]>>]
      pairs == SelectSeq(FlattenSeq([n \in DOMAIN pattern |-> Operands(n)]),
                         LAMBDA q : IsNamed(q[1]))
  IN  FoldLeft(LAMBDA m, q : (q[1] :> q[2]) @@ m, [x \in {} |-> NoName], pairs)

Spliced(f, b, start, p) ==
  [f EXCEPT !.body[b] =
     SubSeq(@, 1, start)
       \o [n \in DOMAIN p.replacement |->
             Resolved(p.replacement[n], BindingOf(f.body[b], start, p.source))]
       \o SubSeq(@, start + Len(p.source) + 1, Len(@))]
apply(f, b, start, p) ==
  IF /\ start + Len(p.source) <= Len(f.body[b])
     /\ \A n \in DOMAIN p.source : SameShape(f.body[b][start + n], p.source[n])
  THEN {g \in {Spliced(f, b, start, p)} : Validated(g)} ELSE {}

-----------------------------------------------------------------------------
(* The seeded patterns.                                                     *)

\* The arguments of a function of that width.
PatternInputs(f) == [DOMAIN f.args -> 0..(2^PatternBits - 1)]

PatternOp(op, n, args) ==
  [op |-> op, name |-> n, w |-> PatternBits, ow |-> PatternBits, args |-> args,
   to |-> <<>>, flags |-> {}]
PatternRet(v) == PatternOp("ret", NoName, <<v>>)
PatternVoid   == [PatternOp("ret", NoName, <<>>) EXCEPT !.w = 0, !.ow = 0]
Pattern(id, vendor, source, replacement) ==
  [id |-> id, arch |-> [vendor |-> vendor, gpu |-> FALSE], tags |-> {},
   source |-> source, replacement |-> replacement]

\* The shift of the replacement has no operands.
strength_reduce_mul ==
  Pattern("strength_reduce_mul", intel,
          <<PatternOp("mul", pr, <<px, pc>>), PatternRet(pr)>>,
          <<PatternOp("shl", pr, <<>>), PatternRet(pr)>>)
constant_fold ==
  Pattern("constant_fold", anyone,
          <<PatternOp("add", pr, <<3, 5>>), PatternRet(pr)>>, <<PatternRet(8)>>)
dead_code_elim ==
  Pattern("dead_code_elim", anyone,
          <<PatternOp("add", punused, <<pa, pb>>), PatternVoid>>, <<PatternVoid>>)
add_zero_elim ==
  Pattern("add_zero_elim", anyone,
          <<PatternOp("add", pr, <<px, 0>>), PatternRet(pr)>>, <<PatternRet(px)>>)
mul_one_elim ==
  Pattern("mul_one_elim", anyone,
          <<PatternOp("mul", pr, <<px, 1>>), PatternRet(pr)>>, <<PatternRet(px)>>)
\* The negations of the source have no operands.
double_negation ==
  Pattern("double_negation", anyone,
          <<PatternOp("xor", pt, <<>>), PatternOp("xor", pr, <<>>), PatternRet(pr)>>,
          <<PatternRet(px)>>)
seed_builtin_patterns ==
  {strength_reduce_mul, constant_fold, dead_code_elim, add_zero_elim, mul_one_elim,
   double_negation}

=============================================================================
