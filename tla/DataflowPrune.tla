--------------------------- MODULE DataflowPrune ---------------------------
(***************************************************************************)
(* The clean-up passes of src/IR/DataflowPrune.cpp, which Pipeline::run    *)
(* takes over every function before and after its refinement.  Each maps a *)
(* function to the pruned one, or to itself where the code returns null.   *)
(***************************************************************************)
EXTENDS KnownBits

\* Instructions that are kept whether their results are used or not; calls,
\* fences and volatile loads are kept like stores.
has_side_effect_or_is_root(i) ==
  \/ i.op \in Terminators \cup {"store"}
  \/ i.op = "alloca" /\ i.name = NoName

\* What the uses of a live instruction name is live.
UsedBy(all, S) == S \cup {i \in all : \E j \in S : i.name \in Names(j)}
Live(all) == Iterate(LAMBDA S : UsedBy(all, S), {i \in all : has_side_effect_or_is_root(i)},
                     Cardinality(all))
Only(f, kept) ==
  [f EXCEPT !.body = [b \in Blocks(f) |-> SelectSeq(f.body[b], LAMBDA i : i \in kept)]]
eliminate_dead_code(f) == Only(f, Live(Range(Instructions(f))))

\* A phi without the operands that come from blocks outside of "kept".
WithoutDeadIncoming(i, kept) ==
  IF i.op # "phi" THEN i
  ELSE LET ns == SelectSeq([n \in DOMAIN i.to |-> n], LAMBDA n : i.to[n] \in kept)
       IN  [i EXCEPT !.args = [m \in DOMAIN ns |-> i.args[ns[m]]],
                     !.to   = [m \in DOMAIN ns |-> i.to[ns[m]]]]

OnlyBlocks(f, kept) ==
  [f EXCEPT
     !.order = SelectSeq(f.order, LAMBDA b : b \in kept),
     !.body  = [b \in kept |-> [n \in DOMAIN f.body[b] |->
                  WithoutDeadIncoming(f.body[b][n], kept)]]]
remove_unreachable_blocks(f) == OnlyBlocks(f, ReachableBlocks(f))

-----------------------------------------------------------------------------
(* The two passes that rebuild the function in block order.  "binding" maps *)
(* the name of an instruction that is dropped to the operand that replaces  *)
(* it; only what is rebuilt after it is resolved through the binding.       *)

NoBinding == [x \in {} |-> 0]
Emit(acc, i)    == [acc EXCEPT !.out = Append(acc.out, Resolved(i, acc.binding))]
Drop(acc, i, v) == [acc EXCEPT !.binding = (i.name :> v) @@ acc.binding]

\* "Step" rebuilds one instruction.  BlockStart is what the accumulator
\* becomes between two blocks.
CloseBlock(acc, b) == [acc EXCEPT !.body = (b :> acc.out) @@ @]
Rebuilt(f, Step(_, _), BlockStart(_)) ==
  LET Visit(acc, b) ==
        CloseBlock(FoldLeft(Step, [BlockStart(acc) EXCEPT !.out = <<>>], f.body[b]), b)
  IN  [f EXCEPT !.body = FoldLeft(Visit, [binding |-> NoBinding, out |-> <<>>, table |-> NoBinding,
                                          body |-> NoBinding], f.order).body]

\* Mutant: a bit of x that is known to be 1 counts as kept, whatever C is.
RedundantMask_KnownIsKept(i, v, c, env) ==
  /\ i.op = "and" /\ ~IsNamed(c)
  /\ LET kb == operand_known_bits(v, i.w, env)
     IN  Places(i.w) \subseteq kb.zero \cup kb.one \cup Ones(c, i.w)

\* and x, C where every bit of x is known to be 0 or kept by C.
RedundantMask(i, v, c, env) ==
  /\ i.op = "and" /\ ~IsNamed(c)
  /\ Places(i.w) \subseteq operand_known_bits(v, i.w, env).zero \cup Ones(c, i.w)

ConstantFact(i, env) ==
  IF i.name \notin DOMAIN env THEN <<>> ELSE known_bits_constant(env[i.name], i.w)
any_fold(all, env) ==
  \E i \in all : \/ ConstantFact(i, env) # <<>>
                 \/ i.op = "condbr" /\ known_bits_constant(
                                          operand_known_bits(i.args[1], 1, env), 1) # <<>>

\* i, with r its operands resolved and c the constant that it folds to, if any.
FoldOne(acc, i, r, c, env) ==
  CASE c # <<>> -> Drop(acc, i, c[1])
    [] c = <<>> /\ i.op = "and" /\ RedundantMask(i, r.args[1], r.args[2], env) ->
         Drop(acc, i, r.args[1])
    [] r.op = "condbr" /\ ~IsNamed(r.args[1]) ->
         [acc EXCEPT !.out = Append(acc.out,
            [r EXCEPT !.op = "br", !.args = <<>>,
                      !.to = <<IF r.args[1] # 0 THEN r.to[1] ELSE r.to[2]>>])]
    [] OTHER -> Emit(acc, i)
Folded(f, env) ==
  LET Step(acc, i) == FoldOne(acc, i, Resolved(i, acc.binding), ConstantFact(i, env), env)
  IN  IF any_fold(Range(Instructions(f)), env) THEN Rebuilt(f, Step, LAMBDA acc : acc) ELSE f
simplify_known_bits(f) == Folded(f, analyse_known_bits(f))

-----------------------------------------------------------------------------
(* Common subexpressions, within a block.                                   *)

\* The instructions that may be reused, and what two of them share when they
\* compute the same: everything but the name, after the replacements.
Reusable(i) ==
  i.op \in Binops \cup Predicates \cup Casts \cup {"select"} /\ i.name # NoName
cse_key(i, binding) == [Resolved(i, binding) EXCEPT !.name = NoName]

HasDuplicate(f) ==
  \E b \in Blocks(f) : \E m, n \in DOMAIN f.body[b] :
    /\ m < n /\ Reusable(f.body[b][m]) /\ Reusable(f.body[b][n])
    /\ cse_key(f.body[b][m], NoBinding) = cse_key(f.body[b][n], NoBinding)

ShareOne(acc, i, key) ==
  CASE ~Reusable(i) -> Emit(acc, i)
    [] Reusable(i) /\ key \in DOMAIN acc.table -> Drop(acc, i, acc.table[key])
    [] OTHER -> [Emit(acc, i) EXCEPT !.table = (key :> i.name) @@ acc.table]
simplify_cse(f) ==
  IF HasDuplicate(f)
  THEN Rebuilt(f, LAMBDA acc, i : ShareOne(acc, i, cse_key(i, acc.binding)),
               LAMBDA acc : [acc EXCEPT !.table = NoBinding])
  ELSE f

\* One iteration of prune_dataflow.
PruneOnce(f) ==
  eliminate_dead_code(remove_unreachable_blocks(simplify_cse(simplify_known_bits(f))))

=============================================================================
