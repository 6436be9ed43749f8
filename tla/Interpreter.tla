---------------------------- MODULE Interpreter ----------------------------
(***************************************************************************)
(* The concrete interpreter (src/Evaluator/Interpreter.cpp) that the test  *)
(* vector filters, the miners and the trust_unverified tier compare        *)
(* functions with.  Every value is held in a host word of HostBits bits    *)
(* (64 in the program), here an integer of that signed range, whatever the *)
(* width of its type.  <<>> is std::nullopt: the interpreter refuses.      *)
(***************************************************************************)
EXTENDS ClunkIR

CONSTANT HostBits

ASSUME HostBitsAssumption == HostBits \in Nat \ {0}

\* A host word, signed and unsigned; a type of 0 or HostBits bits is whole.
HostSigned(v)      == Signed(v, HostBits)
HostUnsigned(v)    == v % 2^HostBits
mask_unsigned(v, bits) == HostUnsigned(v) % 2^bits
sign_extend(v, bits)   == Signed(HostUnsigned(v), bits)

\* An operation on host words, then the low bits of its result, signed.
apply_binop(op, l, r, bits) ==
  LET ul == HostUnsigned(l)   ur == HostUnsigned(r)
      amount   == ur % HostBits          \* ur & 63
      overflow == l = -(2^(HostBits - 1)) /\ r = -1
      Canonical(v) == <<sign_extend(v, bits)>>
      Bitwise(S)   == Canonical(Number(S))
      la == Ones(l, HostBits)   ra == Ones(r, HostBits)
  IN  CASE op = "add" -> Canonical(ul + ur)
        [] op = "sub" -> Canonical(ul - ur)
        [] op = "mul" -> Canonical(ul * ur)
        [] op = "and" -> Bitwise(la \cap ra)
        [] op = "or"  -> Bitwise(la \cup ra)
        [] op = "xor" -> Bitwise(SymDiff(la, ra))
        [] op = "shl"  -> Canonical(ul * 2^amount)
        [] op = "lshr" -> Canonical(ul \div 2^amount)
        [] op = "ashr" -> Canonical(l \div 2^amount)
        [] op = "udiv" -> IF ur = 0 THEN <<>> ELSE Canonical(ul \div ur)
        [] op = "urem" -> IF ur = 0 THEN <<>> ELSE Canonical(ul % ur)
        [] op = "sdiv" -> IF r = 0 \/ overflow THEN <<>> ELSE Canonical(Quotient(l, r))
        [] op = "srem" -> IF r = 0 \/ overflow THEN <<>> ELSE Canonical(Remainder(l, r))

\* Unsigned predicates compare the low bits, the others the whole words.
apply_icmp(pred, l, r, bits) ==
  LET ul == mask_unsigned(l, bits)   ur == mask_unsigned(r, bits)
  IN  IF CASE pred = "eq"  -> l = r    [] pred = "ne"  -> l # r
           [] pred = "ugt" -> ul > ur  [] pred = "uge" -> ul >= ur
           [] pred = "ult" -> ul < ur  [] pred = "ule" -> ul <= ur
           [] pred = "sgt" -> l > r    [] pred = "sge" -> l >= r
           [] pred = "slt" -> l < r    [] pred = "sle" -> l <= r
      THEN 1 ELSE 0

-----------------------------------------------------------------------------
(* Context: the words bound to names, the memory, and the arguments by name.*)

ContextStart(f, words) ==
  [at |-> Entry(f), prev |-> NoName, ended |-> FALSE, out |-> <<>>, next_handle |-> 1,
   memory |-> [h \in {} |-> 0],
   values |-> [x \in ArgNames(f) |->
                 words[CHOOSE n \in DOMAIN f.args : f.args[n].name = x]]]

Refuse(c)     == [c EXCEPT !.ended = TRUE, !.out = <<>>]
bind(c, x, v) == [c EXCEPT !.values = (x :> v) @@ c.values]
Known_(c, v)  == IsNamed(v) => v \in DOMAIN c.values
resolve(c, v) == IF IsNamed(v) THEN c.values[v] ELSE v

\* The operand for the block that control came from, else the first one.
phi_operand(c, i) ==
  LET ns == {n \in DOMAIN i.to : i.to[n] = c.prev}
  IN  IF ns = {} THEN i.args[1] ELSE i.args[Min(ns)]

cast(i, v) ==
  CASE i.op = "trunc" -> <<sign_extend(mask_unsigned(v, i.w), i.w)>>
    [] i.op = "zext"  -> IF i.ow >= i.w THEN <<>> ELSE <<mask_unsigned(v, i.ow)>>
    [] i.op = "sext"  -> <<v>>

\* One instruction, with the values xs of its operands.
bindResult(c, i, v) == IF v = <<>> THEN Refuse(c) ELSE bind(c, i.name, v[1])
Execute(c, i, xs) ==
  CASE i.op = "ret" -> [c EXCEPT !.ended = TRUE, !.out = IF xs = <<>> THEN <<0>> ELSE <<xs[1]>>]
    [] i.op = "br"  -> [c EXCEPT !.prev = c.at, !.at = i.to[1]]
    [] i.op = "condbr" -> [c EXCEPT !.prev = c.at, !.at = i.to[IF xs[1] # 0 THEN 1 ELSE 2]]
    [] i.op \in {"unreachable", "call"} -> Refuse(c)
    [] i.op = "alloca" -> [bind(c, i.name, c.next_handle) EXCEPT !.next_handle = @ + 1]
    [] i.op = "load" ->
         bind(c, i.name,
              sign_extend(IF xs[1] \in DOMAIN c.memory THEN c.memory[xs[1]] ELSE 0, i.w))
    [] i.op = "store"  -> [c EXCEPT !.memory = (xs[2] :> xs[1]) @@ c.memory]
    [] i.op \in Binops -> bindResult(c, i, apply_binop(i.op, xs[1], xs[2], i.w))
    [] i.op \in Predicates -> bind(c, i.name, apply_icmp(i.op, xs[1], xs[2], i.ow))
    [] i.op = "select" -> bind(c, i.name, IF xs[1] # 0 THEN xs[2] ELSE xs[3])
    [] i.op = "phi"    -> bind(c, i.name, xs[1])
    [] i.op \in Casts  -> bindResult(c, i, cast(i, xs[1]))

\* The operands an instruction must have.
Arity(op) ==
  CASE op \in Binops \cup Predicates \cup {"store"} -> 2
    [] op = "select" -> 3
    [] op \in Casts \cup {"load", "condbr"} -> 1
    [] OTHER -> 0

\* Phis are executed one after the other like the rest.
ExecuteWith(c, i, used) ==
  IF c.ended \/ Len(used) < Arity(i.op) \/ \E n \in DOMAIN used : ~Known_(c, used[n]) THEN Refuse(c)
  ELSE Execute(c, i, [n \in DOMAIN used |-> resolve(c, used[n])])
execute(c, i) == ExecuteWith(c, i, IF i.op = "phi" THEN <<phi_operand(c, i)>> ELSE i.args)

\* The walk over the blocks, each up to its first terminator; MaxHops stands
\* for kMaxBlockHops.
Executed(code) ==
  LET ends == {n \in DOMAIN code : code[n].op \in Terminators}
  IN  IF ends = {} THEN code ELSE SubSeq(code, 1, Min(ends))
Visited(f, c) == IF c.ended THEN c ELSE FoldLeft(execute, c, Executed(f.body[c.at]))
interpret(f, words) == Iterate(LAMBDA c : Visited(f, c), ContextStart(f, words), MaxHops).out

-----------------------------------------------------------------------------
(* Where a function has a meaning, an interpreter that answers gives it:    *)
(* the return value, signed, in the width w of the result.                  *)
ReturnWidth(f) ==
  LET r == CHOOSE i \in Range(Instructions(f)) : i.op = "ret" IN r.ow
SameValue(m, v, w) == m # <<>> /\ v # <<>> => Unsigned(v[1], w) = m[1]
Agrees(f, words) == SameValue(Meaning(f, words), interpret(f, words), ReturnWidth(f))

=============================================================================
