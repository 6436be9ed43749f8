----------------------------- MODULE KnownBits -----------------------------
(***************************************************************************)
(* The known-bits analysis (src/Analysis/KnownBits.cpp, KnownBits.h), the  *)
(* powers of two derived from it (PowersOfTwo.cpp), and the rewriting of   *)
(* remainders that rests on both (src/IR/StrengthReduce.cpp).  A fact is   *)
(* [width, zero, one]: the positions of the bits known to be 0 and 1.      *)
(***************************************************************************)
EXTENDS ClunkIR

Places(w)  == 0..(w - 1)                   \* mask_for_width
unknown(w) == [width |-> w, zero |-> {}, one |-> {}]
exact(w, v) == [width |-> w, zero |-> Places(w) \ Ones(v, w), one |-> Ones(v, w)]
meet(a, b) == [width |-> a.width, zero |-> a.zero \cap b.zero, one |-> a.one \cap b.one]

is_fully_known(kb) == kb.zero \cup kb.one = Places(kb.width)
has_conflict(kb)   == kb.zero \cap kb.one # {}
\* An i1 is 0 or 1, any other width is signed.
signed_value(kb)   == IF kb.width = 1 THEN Number(kb.one)
                      ELSE Signed(Number(kb.one), kb.width)

\* v is one of the values that kb allows.
Allows(kb, v) == /\ kb.one \subseteq Ones(v, kb.width)
                 /\ kb.zero \cap Ones(v, kb.width) = {}

-----------------------------------------------------------------------------
(* The transfer functions.                                                  *)

BothKnown(a, b) == is_fully_known(a) /\ is_fully_known(b)
\* The number of low bits known to be zero.
trailing_known_zeros(kb) ==
  Cardinality({n \in Places(kb.width) : 0..n \subseteq kb.zero})
LowZeros(w, k) == [unknown(w) EXCEPT !.zero = Places(k)]

\* S moved by c places, and the places that a right shift by c fills.
Moved(S, c)    == {n + c : n \in S}
Filled(w, c)   == (w - c)..(w - 1)

known_bits_add_sub(a, b, sub) ==
  IF BothKnown(a, b)
  THEN exact(a.width, IF sub THEN signed_value(a) - signed_value(b)
                             ELSE signed_value(a) + signed_value(b))
  ELSE LowZeros(a.width, Min({trailing_known_zeros(a), trailing_known_zeros(b)}))

known_bits_mul(a, b) ==
  IF BothKnown(a, b) THEN exact(a.width, signed_value(a) * signed_value(b))
  ELSE LowZeros(a.width, Min({a.width, trailing_known_zeros(a) + trailing_known_zeros(b)}))

\* A shift by a known amount within the width; by any other, nothing is known.
InRange(a, b) == is_fully_known(b) /\ signed_value(b) \in Places(a.width)

known_bits_shl(a, c) ==
  [width |-> a.width,
   zero |-> (Moved(a.zero, c) \cup Places(c)) \cap Places(a.width),
   one  |-> Moved(a.one, c) \cap Places(a.width)]
known_bits_lshr(a, c) ==
  [width |-> a.width,
   zero |-> (Moved(a.zero, -c) \cap Nat) \cup Filled(a.width, c),
   one  |-> Moved(a.one, -c) \cap Nat]
\* Mutant: shifted in like a logical shift.
known_bits_ashr_Logical(a, c) == known_bits_lshr(a, c)
known_bits_ashr(a, c) ==
  LET sign == a.width - 1
  IN  [width |-> a.width,
       zero |-> (Moved(a.zero, -c) \cap Nat)
                  \cup (IF sign \in a.zero THEN Filled(a.width, c) ELSE {}),
       one  |-> (Moved(a.one, -c) \cap Nat)
                  \cup (IF sign \notin a.zero /\ sign \in a.one
                        THEN Filled(a.width, c) ELSE {})]

known_bits_and(a, b) ==
  [width |-> a.width, zero |-> a.zero \cup b.zero, one |-> a.one \cap b.one]
known_bits_or(a, b) ==
  [width |-> a.width, zero |-> a.zero \cap b.zero, one |-> a.one \cup b.one]
known_bits_xor(a, b) ==
  [width |-> a.width,
   zero |-> (a.zero \cap b.zero) \cup (a.one \cap b.one),
   one  |-> (a.zero \cap b.one) \cup (a.one \cap b.zero)]

known_bits_trunc(a, w) ==
  [width |-> w, zero |-> a.zero \cap Places(w), one |-> a.one \cap Places(w)]
known_bits_zext(a, w) ==
  [width |-> w, one |-> a.one \cap Places(a.width),
   zero |-> (a.zero \cap Places(a.width)) \cup (a.width..(w - 1))]
known_bits_sext(a, w) ==
  LET sign == a.width - 1   above == a.width..(w - 1)
  IN  [width |-> w,
       zero |-> a.zero \cup (IF sign \in a.zero THEN above ELSE {}),
       one  |-> a.one \cup (IF sign \notin a.zero /\ sign \in a.one THEN above ELSE {})]

known_bits_icmp(pred, a, b) ==
  CASE BothKnown(a, b) ->
         exact(1, IF Holds(pred, Number(a.one), Number(b.one), a.width) THEN 1 ELSE 0)
    [] ~BothKnown(a, b) /\ (a.one \cap b.zero) \cup (a.zero \cap b.one) # {}
         /\ pred \in {"eq", "ne"} -> exact(1, IF pred = "ne" THEN 1 ELSE 0)
    [] OTHER -> unknown(1)

-----------------------------------------------------------------------------
(* One pass over the instructions in block order; what is not yet computed  *)
(* (an argument, the back edge of a phi) is unknown.                        *)

operand_known_bits(v, w, env) ==
  CASE ~IsNamed(v)     -> exact(w, v)
    [] v \in DOMAIN env -> env[v]
    [] OTHER            -> unknown(w)

ShiftAmount(kb) == signed_value(kb[2])
OfShift(i, kb) ==
  CASE ~InRange(kb[1], kb[2]) -> unknown(kb[1].width)
    [] InRange(kb[1], kb[2]) /\ i.op = "shl"  -> known_bits_shl(kb[1], ShiftAmount(kb))
    [] InRange(kb[1], kb[2]) /\ i.op = "lshr" -> known_bits_lshr(kb[1], ShiftAmount(kb))
    [] InRange(kb[1], kb[2]) /\ i.op = "ashr" -> known_bits_ashr(kb[1], ShiftAmount(kb))

\* The fact about i for the facts kb about its operands.
Transfer(i, kb) ==
  CASE i.op \in {"add", "sub"} -> known_bits_add_sub(kb[1], kb[2], i.op = "sub")
    [] i.op = "mul"  -> known_bits_mul(kb[1], kb[2])
    [] i.op = "and"  -> known_bits_and(kb[1], kb[2])
    [] i.op = "or"   -> known_bits_or(kb[1], kb[2])
    [] i.op = "xor"  -> known_bits_xor(kb[1], kb[2])
    [] i.op \in {"shl", "lshr", "ashr"} -> OfShift(i, kb)
    [] i.op = "trunc" -> known_bits_trunc(kb[1], i.w)
    [] i.op = "zext"  -> known_bits_zext(kb[1], i.w)
    [] i.op = "sext"  -> known_bits_sext(kb[1], i.w)
    [] i.op = "select" -> (CASE 0 \in kb[1].one  -> kb[2]
                             [] 0 \notin kb[1].one /\ 0 \in kb[1].zero -> kb[3]
                             [] OTHER -> meet(kb[2], kb[3]))
    [] i.op = "phi" -> [FoldLeft(meet, kb[1], Tail(kb)) EXCEPT !.width = i.w]
    [] i.op \in Predicates -> known_bits_icmp(i.op, kb[1], kb[2])
    [] OTHER -> unknown(i.w)
compute_known_bits(i, env) ==
  Transfer(i, [n \in DOMAIN i.args |-> operand_known_bits(i.args[n], OperandWidth(i, n), env)])

Learn(env, i) == IF i.name = NoName \/ i.op \in Terminators THEN env
                 ELSE (i.name :> compute_known_bits(i, env)) @@ env
analyse_known_bits(f) == FoldLeft(Learn, [x \in {} |-> 0], Instructions(f))

\* The constant that the fact kb makes of a value of an integer type, or <<>>.
known_bits_constant(kb, w) ==
  IF w > 0 /\ ~has_conflict(kb) /\ is_fully_known(kb) THEN <<signed_value(kb)>> ELSE <<>>

-----------------------------------------------------------------------------
(* PowersOfTwo.cpp and StrengthReduce.cpp: x urem y becomes x and (y - 1)   *)
(* when at most one bit of y may be set.                                    *)

classify_pow2(kb) ==
  LET ones == Cardinality(kb.one)   maybe == Cardinality(Places(kb.width) \ kb.zero)
  IN  CASE has_conflict(kb) -> "Unknown"
        [] ~has_conflict(kb) /\ is_fully_known(kb) ->
             IF ones = 1 THEN "PowerOfTwo" ELSE "NotPowerOfTwo"
        [] ~has_conflict(kb) /\ ~is_fully_known(kb) ->
             IF ones >= 2 \/ maybe = 0 THEN "NotPowerOfTwo"
             ELSE IF maybe = 1 THEN "ZeroOrPowerOfTwo" ELSE "Unknown"

is_pow2_or_zero(fact) == fact \in {"PowerOfTwo", "ZeroOrPowerOfTwo"}

Reducible(i, env) ==
  i.op = "urem" /\ is_pow2_or_zero(classify_pow2(operand_known_bits(i.args[2], i.w, env)))

\* Every remainder of "all" takes a fresh name for its mask.
Reduced(f, i, all) ==
  LET mask == FreshNames(f)[CHOOSE n \in DOMAIN all : all[n] = i]
  IN  IF i \notin Range(all) THEN <<i>>
      ELSE <<[i EXCEPT !.op = "sub", !.name = mask, !.args = <<i.args[2], 1>>],
             [i EXCEPT !.op = "and", !.args = <<i.args[1], mask>>]>>
ReduceAll(f, all) ==
  [f EXCEPT !.body = [b \in Blocks(f) |->
     FlattenSeq([n \in DOMAIN f.body[b] |-> Reduced(f, f.body[b][n], all)])]]
Reductions(f, env) == SelectSeq(Instructions(f), LAMBDA i : Reducible(i, env))
simplify_pow2_strength_reduce(f) == ReduceAll(f, Reductions(f, analyse_known_bits(f)))

=============================================================================
