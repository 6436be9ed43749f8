------------------------------ MODULE ClunkIR ------------------------------
(***************************************************************************)
(* Functions of the intermediate representation (include/clunk/IR), what   *)
(* the analyses and passes ask of their shape (Clone.h, BasicBlock.cpp),   *)
(* and what they mean: the value a function returns for given arguments.   *)
(*                                                                         *)
(* A function is [args, order, body]: its arguments, its blocks with the   *)
(* entry first, and for every block the sequence of its instructions, the  *)
(* terminator last.  An instruction is [op, name, w, ow, args, to, flags]: *)
(* w is the width of its result and ow that of its operands; an operand    *)
(* is an integer or the name of an argument or of an instruction; "to"     *)
(* holds the targets of a branch, the incoming blocks of a phi, or the     *)
(* function that a call calls, "flags" some of nsw, nuw and exact.         *)
(* Passes hold operands by reference; names are unique in a function, so   *)
(* that a name stands for the object (deep_copy_function resolves by name).*)
(***************************************************************************)
EXTENDS Integers, Sequences, FiniteSets, SequencesExt, FiniteSetsExt

CONSTANTS NoName,    \* the name of an instruction without a result
          Fresh,     \* a sequence of names for the instructions that passes add
          CalleeValue(_, _),  \* what a call of a function returns for values, or <<>>
          MaxHops    \* the blocks a run may visit before it is given up

ASSUME MaxHopsAssumption == MaxHops \in Nat \ {0}

-----------------------------------------------------------------------------
(* Integers of a given width.                                               *)

\* The bits of v that are set, and the number that has the bits in S set.
Ones(v, w)  == {i \in 0..(w - 1) : (v \div 2^i) % 2 = 1}
Number(S)   == MapThenSumSet(LAMBDA i : 2^i, S)

Unsigned(v, w) == v % 2^w
Signed(v, w)   == LET u == v % 2^w IN IF u >= 2^(w - 1) THEN u - 2^w ELSE u

\* Division that rounds towards zero, and its remainder.
Magnitude(a)    == IF a < 0 THEN -a ELSE a
Quotient(a, b)  == LET q == Magnitude(a) \div Magnitude(b)
                   IN  IF (a < 0) # (b < 0) THEN -q ELSE q
Remainder(a, b) == a - b * Quotient(a, b)

-----------------------------------------------------------------------------
(* The shape of functions.                                                  *)

Binops == {"add", "sub", "mul", "udiv", "sdiv", "urem", "srem",
           "and", "or", "xor", "shl", "lshr", "ashr"}
Predicates  == {"eq", "ne", "ugt", "uge", "ult", "ule", "sgt", "sge", "slt", "sle"}
Casts       == {"trunc", "zext", "sext"}
Terminators == {"br", "condbr", "ret", "unreachable"}

\* What every function is made of, whatever its instructions say.
IsSequence(s) == s \in Seq(Range(s))
Formed(f) ==
  /\ f = [args |-> f.args, order |-> f.order, body |-> f.body]
  /\ f.order \in Seq(DOMAIN f.body) /\ f.body = [b \in DOMAIN f.body |-> f.body[b]]
  /\ \A b \in DOMAIN f.body : IsSequence(f.body[b])

Blocks(f)       == Range(f.order)
Entry(f)        == Head(f.order)
Terminator(f, b) == Last(f.body[b])
Instructions(f) == FlattenSeq([n \in DOMAIN f.order |-> f.body[f.order[n]]])
IsNamed(v)      == v \notin Int
Names(i)        == {v \in Range(i.args) : IsNamed(v)}
ArgNames(f)     == {a.name : a \in Range(f.args)}
Defined(f)      == {i.name : i \in Range(Instructions(f))} \ {NoName}

Successors(f, b) ==
  IF Terminator(f, b).op \in {"br", "condbr"}
  THEN Range(Terminator(f, b).to) ELSE {}
Predecessors(f, b) == {p \in Blocks(f) : b \in Successors(f, p)}

\* The blocks that control can reach.
ReachableBlocks(f) ==
  LET grow[n \in 0..Len(f.order)] ==
        IF n = 0 THEN {Entry(f)}
        ELSE LET S == grow[n - 1] IN S \cup UNION {Successors(f, b) : b \in S}
  IN  grow[Len(f.order)]

\* Every operand is defined before its use; for a phi, anywhere.
Validated(f) ==
  LET all == Instructions(f)
      Before(n) == ArgNames(f) \cup {all[m].name : m \in 1..(n - 1)}
  IN  \A n \in DOMAIN all :
        Names(all[n]) \subseteq
          IF all[n].op = "phi" THEN ArgNames(f) \cup Defined(f) ELSE Before(n)

\* What a pass returns unless it is not well formed.
OrElse(work, f) == IF Validated(work) THEN work ELSE f

\* Names that f does not have yet: a pass makes them up from those it knows.
FreshNames(f) == SelectSeq(Fresh, LAMBDA x : x \notin Defined(f))

\* n applications of Op to x.
Iterate(Op(_), x, n) == FoldLeft(LAMBDA y, k : Op(y), x, [k \in 1..n |-> k])

\* What stands for v under the replacements that "subst" holds.
Value(subst, v) == IF v \in DOMAIN subst THEN subst[v] ELSE v

\* The operands of i with the replacements that "binding" holds.
Resolved(i, binding) ==
  [i EXCEPT !.args = [n \in DOMAIN i.args |-> Value(binding, i.args[n])]]

-----------------------------------------------------------------------------
(* What a function means, as the SMT encoder has it.  Values are numbers in *)
(* 0..2^w - 1, or Poison, which spoils what is computed from it; <<>> is no *)
(* value: undefined behaviour, or a run that visits more than MaxHops       *)
(* blocks.                                                                  *)

Poison == -1

BinopMeaning(op, a, b, w) ==
  LET sa == Signed(a, w)   sb == Signed(b, w)   ov == sa = -(2^(w - 1)) /\ sb = -1
      Word(v) == <<v % 2^w>>
  IN  CASE op = "add" -> Word(a + b)
        [] op = "sub" -> Word(a - b)
        [] op = "mul" -> Word(a * b)
        [] op = "and" -> <<Number(Ones(a, w) \cap Ones(b, w))>>
        [] op = "or"  -> <<Number(Ones(a, w) \cup Ones(b, w))>>
        [] op = "xor" -> <<Number(SymDiff(Ones(a, w), Ones(b, w)))>>
        [] op = "udiv" -> IF b = 0 THEN <<>> ELSE <<a \div b>>
        [] op = "urem" -> IF b = 0 THEN <<>> ELSE <<a % b>>
        [] op = "sdiv" -> IF b = 0 \/ ov THEN <<>> ELSE Word(Quotient(sa, sb))
        [] op = "srem" -> IF b = 0 \/ ov THEN <<>> ELSE Word(Remainder(sa, sb))
        [] op = "shl"  -> IF b >= w THEN <<Poison>> ELSE Word(a * 2^b)
        [] op = "lshr" -> IF b >= w THEN <<Poison>> ELSE <<a \div 2^b>>
        [] op = "ashr" -> IF b >= w THEN <<Poison>> ELSE Word(sa \div 2^b)

\* What the flags of an operation promise, and the operands may break.
Wraps(op, a, b, w) ==
  LET sa == Signed(a, w)   sb == Signed(b, w)
      r  == CASE op = "add" -> sa + sb [] op = "sub" -> sa - sb
              [] op = "mul" -> sa * sb [] op = "shl" -> sa * 2^b
  IN  r \notin (-(2^(w - 1)))..(2^(w - 1) - 1)
Carries(op, a, b, w) ==
  LET r == CASE op = "add" -> a + b [] op = "sub" -> a - b
             [] op = "mul" -> a * b [] op = "shl" -> a * 2^b
  IN  r \notin 0..(2^w - 1)
Loses(op, a, b, w) ==
  CASE op = "udiv" -> a % b # 0
    [] op = "sdiv" -> Remainder(Signed(a, w), Signed(b, w)) # 0
    [] op \in {"lshr", "ashr"} -> a % 2^b # 0
FlagBroken(i, a, b) ==
  \/ i.op \in {"add", "sub", "mul", "shl"} /\ "nsw" \in i.flags /\ Wraps(i.op, a, b, i.w)
  \/ i.op \in {"add", "sub", "mul", "shl"} /\ "nuw" \in i.flags /\ Carries(i.op, a, b, i.w)
  \/ i.op \in {"udiv", "sdiv", "lshr", "ashr"} /\ "exact" \in i.flags /\ Loses(i.op, a, b, i.w)

Holds(pred, a, b, w) ==
  LET sa == Signed(a, w)   sb == Signed(b, w)
  IN  CASE pred = "eq"  -> a = b    [] pred = "ne"  -> a # b
        [] pred = "ugt" -> a > b    [] pred = "uge" -> a >= b
        [] pred = "ult" -> a < b    [] pred = "ule" -> a <= b
        [] pred = "sgt" -> sa > sb  [] pred = "sge" -> sa >= sb
        [] pred = "slt" -> sa < sb  [] pred = "sle" -> sa <= sb

CastMeaning(op, a, from, w) ==
  CASE op = "trunc" -> a % 2^w
    [] op = "zext"  -> a
    [] op = "sext"  -> Signed(a, from) % 2^w

\* The value of an instruction for the values xs of its operands.
Flawless(i, xs, v) ==
  IF v \in {<<>>, <<Poison>>} \/ ~FlagBroken(i, xs[1], xs[2]) THEN v ELSE <<Poison>>
ValueMeaning(i, xs) ==
  IF i.op = "select"
  THEN <<IF xs[1] = Poison THEN Poison ELSE IF xs[1] = 1 THEN xs[2] ELSE xs[3]>>
  ELSE IF Poison \in Range(xs)
  THEN IF i.op \in {"udiv", "sdiv", "urem", "srem"} /\ xs[2] = Poison THEN <<>> ELSE <<Poison>>
  ELSE CASE i.op \in Binops     -> Flawless(i, xs, BinopMeaning(i.op, xs[1], xs[2], i.w))
         [] i.op \in Predicates -> <<IF Holds(i.op, xs[1], xs[2], i.ow) THEN 1 ELSE 0>>
         [] i.op \in Casts      -> <<CastMeaning(i.op, xs[1], i.ow, i.w)>>

\* A run is at a block, with the values of the names so far and the memory
\* cells of the allocas; "ended" says that it returned or has no meaning.
RunStart(f, ins) ==
  [at |-> Entry(f), prev |-> NoName, ended |-> FALSE, out |-> <<>>, mem |-> <<>>,
   env |-> [x \in ArgNames(f) |->
              LET n == CHOOSE m \in DOMAIN f.args : f.args[m].name = x
              IN  Unsigned(ins[n], f.args[n].w)]]

Undefined(s) == [s EXCEPT !.ended = TRUE, !.out = <<>>]
Known(s, i)  == Names(i) \subseteq DOMAIN s.env
Operand(s, v, w) == IF IsNamed(v) THEN s.env[v] ELSE Unsigned(v, w)
\* The first operand of a select is a condition, of width 1.
OperandWidth(i, n) == IF i.op = "select" /\ n = 1 THEN 1 ELSE i.ow
OperandsOf(s, i) == [n \in DOMAIN i.args |-> Operand(s, i.args[n], OperandWidth(i, n))]

Bound(s, x, v)   == [s EXCEPT !.env = (x :> v) @@ s.env]
BoundTo(s, x, v) == IF v = <<>> THEN Undefined(s) ELSE Bound(s, x, v[1])

RunStep(s, i) ==
  IF s.ended \/ ~Known(s, i) THEN Undefined(s)
  ELSE CASE i.op = "alloca" ->
              [Bound(s, i.name, Len(s.mem) + 1) EXCEPT !.mem = Append(s.mem, <<>>)]
         [] i.op = "load"  -> BoundTo(s, i.name, s.mem[s.env[i.args[1]]])
         [] i.op = "store" ->
              [s EXCEPT !.mem[s.env[i.args[2]]] = <<Operand(s, i.args[1], i.ow)>>]
         [] i.op = "call"  -> BoundTo(s, i.name, CalleeValue(i.to[1], OperandsOf(s, i)))
         [] OTHER          -> BoundTo(s, i.name, ValueMeaning(i, OperandsOf(s, i)))

\* All phis of a block read the values that hold on the edge taken.
IncomingOf(s, phi) ==
  LET ns == {n \in DOMAIN phi.to : phi.to[n] = s.prev}
  IN  IF ns = {} THEN {} ELSE {phi.args[Min(ns)]}
PhiValues(s, p) == {Operand(s, v, p.w) : v \in IncomingOf(s, p)}
EnterPhis(s, phis) ==
  IF \E p \in phis : \/ IncomingOf(s, p) = {}
                     \/ \E v \in IncomingOf(s, p) : IsNamed(v) /\ v \notin DOMAIN s.env
  THEN Undefined(s)
  ELSE [s EXCEPT !.env =
          [x \in {p.name : p \in phis} |->
             CHOOSE v \in PhiValues(s, CHOOSE p \in phis : p.name = x) : TRUE] @@ s.env]
EnterBlock(f, s) == EnterPhis(s, {i \in Range(f.body[s.at]) : i.op = "phi"})

LeaveBlock(s, t) ==
  IF s.ended \/ ~Known(s, t) \/ (t.args # <<>> /\ Operand(s, t.args[1], t.ow) = Poison)
  THEN Undefined(s)
  ELSE CASE t.op = "ret" ->
              [s EXCEPT !.ended = TRUE, !.out = <<Operand(s, t.args[1], t.ow)>>]
         [] t.op = "br" -> [s EXCEPT !.prev = s.at, !.at = t.to[1]]
         [] t.op = "condbr" ->
              [s EXCEPT !.prev = s.at,
                        !.at = IF Operand(s, t.args[1], 1) = 1 THEN t.to[1] ELSE t.to[2]]
         [] t.op = "unreachable" -> Undefined(s)

VisitBlock(f, s) ==
  LeaveBlock(FoldLeft(RunStep, EnterBlock(f, s),
                      SelectSeq(Front(f.body[s.at]), LAMBDA i : i.op # "phi")),
             Terminator(f, s.at))

\* The states of a run at its start and after every block.
NextVisit(f, states) ==
  IF Last(states).ended THEN states ELSE Append(states, VisitBlock(f, Last(states)))
RunOf(f, ins) == Iterate(LAMBDA states : NextVisit(f, states), <<RunStart(f, ins)>>, MaxHops)

Meaning(f, ins) == Last(RunOf(f, ins)).out

\* g may stand for f: wherever f means something, g means the same.
Refines(g, f, inputs) ==
  \A ins \in inputs : Meaning(f, ins) \in {<<>>, Meaning(g, ins)}

=============================================================================
