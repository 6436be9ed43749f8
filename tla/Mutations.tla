----------------------------- MODULE Mutations -----------------------------
(***************************************************************************)
(* The mutations of the stochastic search (src/Search/StochasticSearch.cpp)*)
(* and the scope that takes them back (include/clunk/Search/MutationScope.h*)
(* ).  Every mutation exists twice: one edits a copy of the function, the  *)
(* other edits the live function and records what it did.                  *)
(*                                                                         *)
(* A mutation is given as the set of its outcomes: empty when it does not  *)
(* apply, and with several members when the generator of random numbers    *)
(* decides.  Positions count from 1; an unset aux_index is 0.              *)
(***************************************************************************)
EXTENDS Interpreter

CONSTANTS Drawn,       \* the opcodes that are drawn, of those the code draws from
          StokeNames,  \* the names _stoke_0, _stoke_1, ... in order
          max_instruction_count,
          NearCapFloor \* 10: caps up to it have no "near"

ASSUME DrawnAssumption == Drawn \subseteq Binops

-----------------------------------------------------------------------------
(* Edits of a block, and the names a function uses.                         *)

At(f, b, n) ==
  IF b \in Blocks(f) THEN {f.body[b][m] : m \in {n} \cap DOMAIN f.body[b]} ELSE {}
Replaced(f, b, n, i) == [f EXCEPT !.body[b][n] = i]
Removed(f, b, n)     == [f EXCEPT !.body[b] = RemoveAt(@, n)]
Inserted(f, b, n, i) == [f EXCEPT !.body[b] = InsertAt(@, n, i)]

count_instructions(f) == Len(Instructions(f))
Places(f) == UNION {{<<b, n>> : n \in DOMAIN f.body[b]} : b \in Blocks(f)}
Uses(f, x) ==
  {u \in Places(f) \X (1..3) :
     LET args == f.body[u[1][1]][u[1][2]].args IN u[2] \in DOMAIN args /\ args[u[2]] = x}
count_uses_excluding(f, x, b, n) == Cardinality({u \in Uses(f, x) : u[1] # <<b, n>>})

replace_all_uses(f, x, v) ==
  [f EXCEPT !.body = [b \in DOMAIN f.body |->
     [n \in DOMAIN f.body[b] |-> Resolved(f.body[b][n], x :> v)]]]

-----------------------------------------------------------------------------
(* MutationScope: the live function, and what was done to it so far.        *)

ScopeOf(f) == [fn |-> f, log |-> <<>>]
Recorded(s, f, type, b, n, saved) ==
  [fn |-> f, log |-> Append(s.log, [type |-> type, block |-> b, pos |-> n, saved |-> saved])]
record_replace(s, b, n, i) ==
  Recorded(s, Replaced(s.fn, b, n, i), "Replace", b, n, <<s.fn.body[b][n]>>)
record_remove(s, b, n) ==
  Recorded(s, Removed(s.fn, b, n), "Remove", b, n, <<s.fn.body[b][n]>>)
record_insert(s, b, n, i) ==
  Recorded(s, Inserted(s.fn, b, n, i), "Insert", b, n, <<>>)

undo_one(a, f) ==
  CASE a.type = "Replace" ->
         IF a.pos \in DOMAIN f.body[a.block] THEN Replaced(f, a.block, a.pos, a.saved[1]) ELSE f
    [] a.type = "Remove"  -> Inserted(f, a.block, a.pos, a.saved[1])
    [] a.type = "Insert"  ->
         IF a.pos \in DOMAIN f.body[a.block] THEN Removed(f, a.block, a.pos) ELSE f
\* Mutant: the actions are taken back in the order they were done.
undo_all_Forward(s) == FoldLeft(LAMBDA f, a : undo_one(a, f), s.fn, s.log)
undo_all(s) == FoldRight(undo_one, s.log, s.fn)

\* The users of x are swapped for clones, in the order of the function.
CloneUser(s, b, n, x, v) ==
  IF x \in Range(s.fn.body[b][n].args)
  THEN record_replace(s, b, n, Resolved(s.fn.body[b][n], x :> v)) ELSE s
CloneUsersIn(s, b, x, v) ==
  FoldLeftDomain(LAMBDA t, n : CloneUser(t, b, n, x, v), s, s.fn.body[b])
replace_all_uses_scoped(s, x, v) ==
  FoldLeft(LAMBDA t, b : CloneUsersIn(t, b, x, v), s, s.fn.order)

-----------------------------------------------------------------------------
(* What the two paths share.                                                *)

With(i, op, args) == [i EXCEPT !.op = op, !.args = args, !.flags = {}]
IsConst(v)       == ~IsNamed(v)
wrap_to_width(v, w) == Signed(v, w)
as_unsigned(v, w)   == Unsigned(v, w)
is_zero(v, w)     == IsConst(v) /\ as_unsigned(v, w) = 0
is_one(v, w)      == IsConst(v) /\ as_unsigned(v, w) = 1
is_all_ones(v, w) == IsConst(v) /\ as_unsigned(v, w) = 2^w - 1
is_power_of_two(v) == v > 0 /\ v \in {2^k : k \in 0..(HostBits - 1)}
log2_of_power_of_two(v) == CHOOSE k \in 0..(HostBits - 1) : 2^k = v

touches_memory(i)   == i.op \in {"load", "store", "call", "alloca"}
may_write_memory(i) == i.op \in {"store", "call"}
swap_memory_safe(i, j) ==
  /\ i.op # "phi" /\ j.op # "phi"
  /\ ~(may_write_memory(i) /\ touches_memory(j))
  /\ ~(may_write_memory(j) /\ touches_memory(i))

\* The identities, the first that holds first: for which opcodes, when, and
\* what stands for the result.
IdentityTable(a, b, w, same) ==
  << <<{"sub", "xor"}, same, 0>>,
     <<{"and", "or"}, same, a>>,
     <<{"add", "sub", "or", "xor", "shl", "lshr", "ashr"}, is_zero(b, w), a>>,
     <<{"add", "or", "xor"}, is_zero(a, w), b>>,
     <<{"shl", "lshr", "ashr"}, is_zero(a, w), 0>>,
     <<{"mul", "udiv", "sdiv"}, is_one(b, w), a>>,
     <<{"mul"}, is_one(a, w), b>>,
     <<{"urem", "srem"}, is_one(b, w), 0>>,
     <<{"mul", "and"}, is_zero(a, w) \/ is_zero(b, w), 0>>,
     <<{"and"}, is_all_ones(b, w), a>>,
     <<{"and"}, is_all_ones(a, w), b>>,
     <<{"or"}, is_all_ones(a, w) \/ is_all_ones(b, w), -1>> >>
classify_identity(i) ==
  IF i.op \notin Binops \/ Len(i.args) < 2 THEN <<>>
  ELSE SelectSeq(IdentityTable(i.args[1], i.args[2], i.w,
                               IsNamed(i.args[1]) /\ i.args[1] = i.args[2]),
                 LAMBDA r : i.op \in r[1] /\ r[2])
build_identity_replacement(i) ==
  IF classify_identity(i) = <<>> THEN {} ELSE {Head(classify_identity(i))[3]}

\* mul, udiv or urem of a power of two; a mul has its constant on any side.
Reduction(i, x, c) ==
  CASE i.op = "mul"  -> With(i, "shl",  <<x, log2_of_power_of_two(c)>>)
    [] i.op = "udiv" -> With(i, "lshr", <<x, log2_of_power_of_two(c)>>)
    [] i.op = "urem" -> With(i, "and",  <<x, wrap_to_width(c - 1, i.w)>>)
ConstantSide(i) ==
  IF IsConst(i.args[2])
  THEN {<<i.args[1], IF i.op = "mul" THEN i.args[2] ELSE as_unsigned(i.args[2], i.w)>>}
  ELSE IF i.op = "mul" /\ IsConst(i.args[1]) THEN {<<i.args[2], i.args[1]>>} ELSE {}
build_strength_reduced(i) ==
  IF i.op \notin {"mul", "udiv", "urem"} \/ Len(i.args) < 2 THEN {}
  ELSE {Reduction(i, s[1], s[2]) : s \in {t \in ConstantSide(i) : is_power_of_two(t[2])}}

\* Only a whole word is refused for the quotient that overflows.
FoldedWord(op, u0, u1, s0, s1, w) ==
  LET Overflows == s0 = -(2^(HostBits - 1)) /\ s1 = -1
  IN  CASE op = "add" -> {u0 + u1}  [] op = "sub" -> {u0 - u1}  [] op = "mul" -> {u0 * u1}
        [] op = "sdiv" -> IF s1 = 0 \/ Overflows THEN {} ELSE {Quotient(s0, s1)}
        [] op = "srem" -> IF s1 = 0 \/ Overflows THEN {} ELSE {Remainder(s0, s1)}
        [] op = "udiv" -> IF u1 = 0 THEN {} ELSE {u0 \div u1}
        [] op = "urem" -> IF u1 = 0 THEN {} ELSE {u0 % u1}
        [] op = "and"  -> {Number(Ones(u0, w) \cap Ones(u1, w))}
        [] op = "or"   -> {Number(Ones(u0, w) \cup Ones(u1, w))}
        [] op = "xor"  -> {Number(SymDiff(Ones(u0, w), Ones(u1, w)))}
        [] op = "shl"  -> IF u1 >= w THEN {} ELSE {u0 * 2^u1}
        [] op = "lshr" -> IF u1 >= w THEN {} ELSE {u0 \div 2^u1}
        [] op = "ashr" -> IF u1 >= w THEN {} ELSE {s0 \div 2^u1}
build_folded_constant(i) ==
  IF i.op \notin Binops \/ Len(i.args) < 2 \/ \E n \in DOMAIN i.args : IsNamed(i.args[n]) THEN {}
  ELSE {wrap_to_width(v, i.w) :
          v \in FoldedWord(i.op, as_unsigned(i.args[1], i.w), as_unsigned(i.args[2], i.w),
                           wrap_to_width(i.args[1], i.w), wrap_to_width(i.args[2], i.w), i.w)}

is_dead_instruction(f, b, n) ==
  \E i \in At(f, b, n) :
    /\ i.op \notin Terminators \cup {"store", "call"}
    /\ IF i.name = NoName THEN i.op # "alloca"
       ELSE count_uses_excluding(f, i.name, b, n) = 0

opcode_equivalence_class(op) == IF op \in Binops THEN Binops ELSE {}
build_opcode_replacement(i) ==
  {[i EXCEPT !.op = op] : op \in (opcode_equivalence_class(i.op) \cap Drawn) \ {i.op}}

\* The values of a width that stand before a position, and the arguments.
collect_operand_pool(f, b, n, w) ==
  {i.name : i \in {j \in Range(SubSeq(f.body[b], 1, n - 1)) : j.name # NoName /\ j.w = w}}
    \cup {a.name : a \in {p \in Range(f.args) : p.w = w}}
build_random_binop(pool, i) ==
  IF Cardinality(pool) < 2 THEN {}
  ELSE {With(i, op, <<l, r>>) :
          op \in Drawn \cap {"add", "sub", "mul", "and", "or", "xor"}, l \in pool, r \in pool}

\* x and c when i computes x + c.
addsub_form(i) ==
  IF i.op \notin {"add", "sub"} \/ Len(i.args) < 2 THEN {}
  ELSE IF IsConst(i.args[2]) /\ IsNamed(i.args[1])
  THEN {<<i.args[1], IF i.op = "sub" THEN -i.args[2] ELSE i.args[2]>>}
  ELSE IF IsConst(i.args[1]) /\ IsNamed(i.args[2]) /\ i.op = "add"
  THEN {<<i.args[2], i.args[1]>>} ELSE {}
\* Mutant: the first instruction may have other users.
build_combined_instruction_Shared(f, b, m, n) ==
  UNION {UNION {{With(j, "add", <<x[1], wrap_to_width(x[2] + y[2], j.w)>>) :
                   x \in addsub_form(i), y \in {z \in addsub_form(j) : z[1] = i.name}} :
                i \in {k \in At(f, b, m) : m < n}} :
         j \in At(f, b, n)}
build_combined_instruction(f, b, m, n) ==
  UNION {UNION {{With(j, "add", <<x[1], wrap_to_width(x[2] + y[2], j.w)>>) :
                   x \in addsub_form(i), y \in {z \in addsub_form(j) : z[1] = i.name}} :
                i \in {k \in At(f, b, m) : m < n /\ count_uses_excluding(f, k.name, b, n) = 0}} :
         j \in At(f, b, n)}

\* Two instructions with the same key in a block compute the same.
cse_eligible(i) == i.op \in Binops \cup Predicates \cup Casts \cup {"select"} /\ i.name # NoName
cse_key(i) == [i EXCEPT !.name = NoName]
DuplicateOf(f, b, m, n) ==
  /\ m < n /\ m \in DOMAIN f.body[b] /\ n \in DOMAIN f.body[b]
  /\ cse_eligible(f.body[b][n]) /\ cse_key(f.body[b][m]) = cse_key(f.body[b][n])

Swappable(f, b, n) ==
  /\ {n, n + 1} \subseteq DOMAIN f.body[b]
  /\ {f.body[b][n].op, f.body[b][n + 1].op} \cap Terminators = {}
  /\ swap_memory_safe(f.body[b][n], f.body[b][n + 1])
  /\ f.body[b][n].name \notin Names(f.body[b][n + 1])

\* The type of a new instruction: that of the first value of the block, else
\* of the first argument.
InsertionType(f, b) ==
  LET named == SelectSeq(f.body[b], LAMBDA i : i.name # NoName /\ i.w > 0)
  IN  IF named # <<>> THEN {Head(named).w}
      ELSE {f.args[n].w : n \in {1} \cap DOMAIN f.args}
NewInstructions(f, b, n, k) ==
  IF b \notin Blocks(f) \/ n \notin 1..(Len(f.body[b]) + 1) THEN {}
  ELSE UNION {build_random_binop(collect_operand_pool(f, b, n, w),
                [op |-> "add", name |-> StokeNames[k], w |-> w, ow |-> w, args |-> <<>>,
                 to |-> <<>>, flags |-> {}]) : w \in InsertionType(f, b)}
OtherOperands(f, b, n, k) ==
  UNION {{[i EXCEPT !.args[k] = v] :
            v \in collect_operand_pool(f, b, n, OperandWidth(i, k)) \ {i.args[k]}} :
         i \in {j \in At(f, b, n) : j.op \notin Terminators /\ k \in DOMAIN j.args}}
SwappedOperands(f, b, n) ==
  {[i EXCEPT !.args = <<i.args[2], i.args[1]>>] :
     i \in {j \in At(f, b, n) : j.op \in Binops /\ Len(j.args) >= 2}}
OtherOpcodes(f, b, n) ==
  UNION {build_opcode_replacement(i) : i \in {j \in At(f, b, n) : j.op \notin Terminators}}
OtherInstructions(f, b, n) ==
  UNION {build_random_binop(collect_operand_pool(f, b, n, i.w), i) :
         i \in {j \in At(f, b, n) : j.op \notin Terminators}}

-----------------------------------------------------------------------------
(* The mutations of a copy.                                                 *)

UsesGone(f, b, n, v) == Removed(replace_all_uses(f, f.body[b][n].name, v), b, n)
strength_reduce(f, b, n) ==
  UNION {{Replaced(f, b, n, r) : r \in build_strength_reduced(i)} : i \in At(f, b, n)}
fold_constant(f, b, n) ==
  UNION {{UsesGone(f, b, n, v) : v \in build_folded_constant(i)} : i \in At(f, b, n)}
combine_instructions(f, b, m, n) ==
  {Removed(Replaced(f, b, n, c), b, m) : c \in build_combined_instruction(f, b, m, n)}
delete_dead_code(f, b, n) == IF is_dead_instruction(f, b, n) THEN {Removed(f, b, n)} ELSE {}
simplify_identity(f, b, n) ==
  UNION {{UsesGone(f, b, n, v) : v \in build_identity_replacement(i)} : i \in At(f, b, n)}
eliminate_cse(f, b, n, m) ==
  IF DuplicateOf(f, b, m, n) THEN {UsesGone(f, b, n, f.body[b][m].name)} ELSE {}
swap_instructions(f, b, n) ==
  IF Swappable(f, b, n)
  THEN {Replaced(Replaced(f, b, n, f.body[b][n + 1]), b, n + 1, f.body[b][n])} ELSE {}
opcode_replace(f, b, n)     == {Replaced(f, b, n, r) : r \in OtherOpcodes(f, b, n)}
operand_replace(f, b, n, k) == {Replaced(f, b, n, r) : r \in OtherOperands(f, b, n, k)}
operand_swap(f, b, n)       == {Replaced(f, b, n, r) : r \in SwappedOperands(f, b, n)}
instruction_insert(f, b, n, k) == {Inserted(f, b, n, i) : i \in NewInstructions(f, b, n, k)}
instruction_replace_full(f, b, n) == {Replaced(f, b, n, r) : r \in OtherInstructions(f, b, n)}

(* The mutations of the live function, under a scope.                       *)

\* The users first, then the instruction itself.
UsesGoneScoped(s, b, n, v) ==
  record_remove(replace_all_uses_scoped(s, s.fn.body[b][n].name, v), b, n)
strength_reduce_in_place(s, b, n) ==
  UNION {{record_replace(s, b, n, r) : r \in build_strength_reduced(i)} : i \in At(s.fn, b, n)}
fold_constant_in_place(s, b, n) ==
  UNION {{UsesGoneScoped(s, b, n, v) : v \in build_folded_constant(i)} : i \in At(s.fn, b, n)}
combine_instructions_in_place(s, b, m, n) ==
  {record_remove(record_replace(s, b, n, c), b, m) :
     c \in build_combined_instruction(s.fn, b, m, n)}
delete_dead_code_in_place(s, b, n) ==
  IF is_dead_instruction(s.fn, b, n) THEN {record_remove(s, b, n)} ELSE {}
simplify_identity_in_place(s, b, n) ==
  UNION {{UsesGoneScoped(s, b, n, v) : v \in build_identity_replacement(i)} : i \in At(s.fn, b, n)}
eliminate_cse_in_place(s, b, n, m) ==
  IF DuplicateOf(s.fn, b, m, n) THEN {UsesGoneScoped(s, b, n, s.fn.body[b][m].name)} ELSE {}
swap_instructions_in_place(s, b, n) ==
  IF Swappable(s.fn, b, n)
  THEN {record_replace(record_replace(s, b, n, s.fn.body[b][n + 1]), b, n + 1, s.fn.body[b][n])}
  ELSE {}
opcode_replace_in_place(s, b, n)     == {record_replace(s, b, n, r) : r \in OtherOpcodes(s.fn, b, n)}
operand_replace_in_place(s, b, n, k) == {record_replace(s, b, n, r) : r \in OtherOperands(s.fn, b, n, k)}
operand_swap_in_place(s, b, n)       == {record_replace(s, b, n, r) : r \in SwappedOperands(s.fn, b, n)}
instruction_insert_in_place(s, b, n, k) ==
  {record_insert(s, b, n, i) : i \in NewInstructions(s.fn, b, n, k)}
instruction_replace_in_place(s, b, n) ==
  {record_replace(s, b, n, r) : r \in OtherInstructions(s.fn, b, n)}

-----------------------------------------------------------------------------
(* Which mutation is done where.                                            *)

UnsoundKinds == {"PatternGuided", "OpcodeReplace", "OperandReplace", "OperandSwap",
                 "InstructionInsert", "InstructionReplace"}
is_sound_kind(kind)    == kind \notin UnsoundKinds
is_in_place_kind(kind) == kind # "PatternGuided"

Shrinking == {"DeleteInstruction", "FoldConstant", "SimplifyIdentity",
              "EliminateCommonSubexpr", "StrengthReduce", "CombineInstructions"}
mutation_allowed_near_cap(kind, count) ==
  \/ kind \in Shrinking
  \/ max_instruction_count <= NearCapFloor
  \/ count * 10 < max_instruction_count * 9

\* Kinds without an implementation of their own delete dead code.
SecondOf(m) == IF m.aux > m.pos THEN m.aux ELSE m.pos + 1
MutationOf(f, m, k) ==
  CASE m.kind = "StrengthReduce"      -> strength_reduce(f, m.block, m.pos)
    [] m.kind = "FoldConstant"        -> fold_constant(f, m.block, m.pos)
    [] m.kind = "CombineInstructions" -> combine_instructions(f, m.block, m.pos, SecondOf(m))
    [] m.kind = "SimplifyIdentity"    -> simplify_identity(f, m.block, m.pos)
    [] m.kind = "EliminateCommonSubexpr" -> eliminate_cse(f, m.block, m.pos, m.aux)
    [] m.kind = "SwapInstructions"    -> swap_instructions(f, m.block, m.pos)
    [] m.kind = "OpcodeReplace"       -> opcode_replace(f, m.block, m.pos)
    [] m.kind = "OperandReplace"      -> operand_replace(f, m.block, m.pos, m.aux)
    [] m.kind = "OperandSwap"         -> operand_swap(f, m.block, m.pos)
    [] m.kind = "InstructionInsert"   -> instruction_insert(f, m.block, m.pos, k)
    [] m.kind = "InstructionReplace"  -> instruction_replace_full(f, m.block, m.pos)
    [] m.kind \in {"DeleteInstruction", "ReplaceInstruction", "SubstituteVariable", "UnrollLoop"} ->
         delete_dead_code(f, m.block, m.pos)
apply_mutation_impl(f, m, k, count) ==
  IF mutation_allowed_near_cap(m.kind, count) THEN MutationOf(f, m, k) ELSE {}

MutationInPlace(s, m, k) ==
  CASE m.kind = "StrengthReduce"      -> strength_reduce_in_place(s, m.block, m.pos)
    [] m.kind = "FoldConstant"        -> fold_constant_in_place(s, m.block, m.pos)
    [] m.kind = "CombineInstructions" -> combine_instructions_in_place(s, m.block, m.pos, SecondOf(m))
    [] m.kind = "SimplifyIdentity"    -> simplify_identity_in_place(s, m.block, m.pos)
    [] m.kind = "EliminateCommonSubexpr" -> eliminate_cse_in_place(s, m.block, m.pos, m.aux)
    [] m.kind = "SwapInstructions"    -> swap_instructions_in_place(s, m.block, m.pos)
    [] m.kind = "OpcodeReplace"       -> opcode_replace_in_place(s, m.block, m.pos)
    [] m.kind = "OperandReplace"      -> operand_replace_in_place(s, m.block, m.pos, m.aux)
    [] m.kind = "OperandSwap"         -> operand_swap_in_place(s, m.block, m.pos)
    [] m.kind = "InstructionInsert"   -> instruction_insert_in_place(s, m.block, m.pos, k)
    [] m.kind = "InstructionReplace"  -> instruction_replace_in_place(s, m.block, m.pos)
    [] m.kind \in {"DeleteInstruction", "ReplaceInstruction", "SubstituteVariable", "UnrollLoop"} ->
         delete_dead_code_in_place(s, m.block, m.pos)
apply_mutation_in_place(s, m, k, count) ==
  IF mutation_allowed_near_cap(m.kind, count) THEN MutationInPlace(s, m, k) ELSE {}

-----------------------------------------------------------------------------
(* Where mutations can be done.                                             *)

Site(kind, b, n, aux) == [kind |-> kind, block |-> b, pos |-> n, aux |-> aux]

SiteFor(kind, b, n, holds) == IF holds THEN {Site(kind, b, n, 0)} ELSE {}
Reducible(i) ==
  /\ i.op \in {"mul", "udiv", "urem"} /\ Len(i.args) = 2
  /\ \/ IsConst(i.args[2]) /\ is_power_of_two(IF i.op = "mul" THEN i.args[2]
                                              ELSE as_unsigned(i.args[2], i.w))
     \/ i.op = "mul" /\ IsConst(i.args[1]) /\ is_power_of_two(i.args[1])
FirstLike(f, b, n) ==
  LET like == {m \in 1..(n - 1) : DuplicateOf(f, b, m, n)}
  IN  IF like = {} THEN {} ELSE {Min(like)}
ChainStarts(f, b, n) ==
  {m \in 1..(n - 1) : /\ addsub_form(f.body[b][m]) # {}
                      /\ \E x \in addsub_form(f.body[b][n]) : x[1] = f.body[b][m].name
                      /\ Cardinality(Uses(f, f.body[b][m].name)) = 1}

SoundSites(f, b, n, i) ==
  SiteFor("DeleteInstruction", b, n, is_dead_instruction(f, b, n) /\ Uses(f, i.name) = {})
    \cup SiteFor("FoldConstant", b, n, i.op \in Binops /\ Names(i) = {} /\ Len(i.args) = 2)
    \cup SiteFor("StrengthReduce", b, n, Reducible(i))
    \cup SiteFor("SimplifyIdentity", b, n, classify_identity(i) # <<>>)
    \cup {Site("EliminateCommonSubexpr", b, n, m) : m \in FirstLike(f, b, n)}
    \cup {Site("CombineInstructions", b, m, n) : m \in ChainStarts(f, b, n)}
    \cup SiteFor("SwapInstructions", b, n, Swappable(f, b, n))
UnsoundSites(b, n, i) ==
  IF i.op \in Terminators THEN {}
  ELSE {Site("OperandReplace", b, n, k) : k \in DOMAIN i.args}
         \cup (IF opcode_equivalence_class(i.op) = {} THEN {}
               ELSE {Site(kind, b, n, 0) :
                       kind \in {"OpcodeReplace", "InstructionReplace", "OperandSwap"}})
InsertionSites(f, b) == {Site("InstructionInsert", b, n, 0) : n \in 1..(Len(f.body[b]) + 1)}

collect_mutation_sites(f, allow_unsound) ==
  (UNION {SoundSites(f, p[1], p[2], f.body[p[1]][p[2]]) : p \in Places(f)})
    \cup (IF allow_unsound
          THEN (UNION {UnsoundSites(p[1], p[2], f.body[p[1]][p[2]]) : p \in Places(f)})
                 \cup (UNION {InsertionSites(f, b) : b \in Blocks(f)})
          ELSE {})

\* A kind at a place, whether or not it applies there.
BlindKinds(allow_unsound) ==
  {"StrengthReduce", "FoldConstant", "CombineInstructions", "DeleteInstruction",
   "SwapInstructions", "ReplaceInstruction", "SubstituteVariable", "SimplifyIdentity"}
    \cup (IF allow_unsound THEN UnsoundKinds \ {"PatternGuided"} ELSE {})
blind_random_mutation(f, allow_unsound) ==
  {Site(kind, p[1], p[2], IF kind = "OperandReplace" THEN 1 ELSE 0) :
     kind \in BlindKinds(allow_unsound), p \in Places(f)}

=============================================================================
