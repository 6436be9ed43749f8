------------------------------ MODULE Inliner ------------------------------
(***************************************************************************)
(* The two inliners of src/Search/Inliner.cpp, which Pipeline::run takes   *)
(* over every function before refining it.  Both map a function to the one *)
(* with calls replaced by bodies, or to itself where the code returns null.*)
(* The call graph has no cycles here (the recursion guards refuse them).   *)
(***************************************************************************)
EXTENDS ClunkIR

CONSTANTS Callees,                     \* the functions of the module, by name
          max_callee_instructions,     \* InlinerConfig
          max_inlines_per_function,
          max_multiblock_callee_instructions,
          max_multiblock_callee_blocks,
          max_caller_instructions_after

IsCall(i) == i.op = "call" /\ i.to[1] \in DOMAIN Callees
CalleeOf(i) == Callees[i.to[1]]
Matches(i)  == Len(CalleeOf(i).args) = Len(i.args)

\* The values of the callee's arguments at the call i.
Bindings(i) ==
  [x \in ArgNames(CalleeOf(i)) |->
     i.args[CHOOSE n \in DOMAIN i.args : CalleeOf(i).args[n].name = x]]

\* A copy of the instruction i of a callee under the next unused name.
CloneOf(acc, i) ==
  IF i.name = NoName
  THEN [acc EXCEPT !.out = Append(@, Resolved(i, acc.subst))]
  ELSE [out   |-> Append(acc.out, [Resolved(i, acc.subst) EXCEPT !.name = Head(acc.names)]),
        names |-> Tail(acc.names),
        subst |-> (i.name :> Head(acc.names)) @@ acc.subst]

-----------------------------------------------------------------------------
(* inline_calls: callees of one block.  All calls are spliced first; their  *)
(* results are substituted once, everywhere, at the end.                    *)

eligible_single_block(g) ==
  /\ Len(g.order) = 1
  /\ Terminator(g, Entry(g)).op = "ret"
  /\ Len(g.body[Entry(g)]) - 1 <= max_callee_instructions
  /\ \A i \in Range(g.body[Entry(g)]) : i.op \notin {"call", "phi", "alloca"}

SpliceSingle(acc, i) ==
  IF ~IsCall(i) \/ acc.count >= max_inlines_per_function
  THEN [acc EXCEPT !.out = Append(@, i)]
  ELSE IF ~eligible_single_block(CalleeOf(i)) \/ ~Matches(i)
  THEN [acc EXCEPT !.out = Append(@, i)]
  ELSE LET code == CalleeOf(i).body[Entry(CalleeOf(i))]
           c == FoldLeft(CloneOf, [out |-> <<>>, names |-> acc.names, subst |-> Bindings(i)],
                         Front(code))
       IN  [out |-> acc.out \o c.out, names |-> c.names, count |-> acc.count + 1,
            results |-> (i.name :> Value(c.subst, Last(code).args[1])) @@ acc.results,
            body |-> acc.body]

CloseSpliced(acc, b) == [acc EXCEPT !.body = (b :> acc.out) @@ @]
WithResults(f, last) ==
  [f EXCEPT !.body = [b \in Blocks(f) |->
     [n \in DOMAIN last.body[b] |-> Resolved(last.body[b][n], last.results)]]]
inline_calls(f) ==
  LET Visit(acc, b) == CloseSpliced(FoldLeft(SpliceSingle, [acc EXCEPT !.out = <<>>], f.body[b]), b)
  IN  OrElse(WithResults(f, FoldLeft(Visit,
        [out |-> <<>>, names |-> FreshNames(f), count |-> 0,
         results |-> [x \in {} |-> 0], body |-> [x \in {} |-> 0]], f.order)), f)

-----------------------------------------------------------------------------
(* inline_calls_multiblock: a block is split at its first call that can be  *)
(* inlined; the copy of the callee and the continuation follow it.          *)

eligible_multiblock(g) ==
  /\ Len(Instructions(g)) <= max_multiblock_callee_instructions
  /\ Len(g.order) <= max_multiblock_callee_blocks
  /\ \E i \in Range(Instructions(g)) : i.op = "ret"

Inlinable(f, i) ==
  /\ IsCall(i)
  /\ eligible_multiblock(CalleeOf(i)) /\ Matches(i)
  /\ Len(Instructions(f)) - 1 + Len(Instructions(CalleeOf(i))) <= max_caller_instructions_after

CopyOne(acc, i, label, cont) ==
  IF i.op = "ret"
  THEN [acc EXCEPT !.out = Append(@, [i EXCEPT !.op = "br", !.args = <<>>, !.to = <<cont>>])]
  ELSE CloneOf(acc, [i EXCEPT !.to = [n \in DOMAIN i.to |-> Value(label, i.to[n])]])

\* The block b of the callee, copied: its labels renamed, its return turned
\* into a branch to "cont".  "rets" collects the returns in block order.
Copied(acc, done, name, ret) ==
  [names |-> done.names, subst |-> done.subst, blocks |-> (name :> done.out) @@ acc.blocks,
   rets  |-> IF ret.op # "ret" THEN acc.rets
             ELSE Append(acc.rets, <<Value(done.subst, ret.args[1]), name>>)]
CopyBlock(acc, g, b, label, cont) ==
  Copied(acc, FoldLeft(LAMBDA a, i : CopyOne(a, i, label, cont),
                       [out |-> <<>>, names |-> acc.names, subst |-> acc.subst], g.body[b]),
         label[b], Terminator(g, b))

Jump(to) == [op |-> "br", name |-> NoName, w |-> 0, ow |-> 0, args |-> <<>>, to |-> <<to>>,
             flags |-> {}]
\* The copies c of the callee's blocks, which "copies" names in order, put in
\* place of the call; more than one return is merged by a phi.  What follows
\* the call sees its result, and all the names of the callee.
Splice(f, b, n, c, copies, cont, phi) ==
  LET call   == f.body[b][n]
      merged == Len(c.rets) > 1
      merge  == [call EXCEPT !.op = "phi", !.name = phi,
                             !.args = [k \in DOMAIN c.rets |-> c.rets[k][1]],
                             !.to   = [k \in DOMAIN c.rets |-> c.rets[k][2]]]
      subst == (call.name :> IF merged THEN phi ELSE c.rets[1][1]) @@ c.subst
      after  == SubSeq(f.body[b], n + 1, Len(f.body[b]))
      pos    == CHOOSE k \in DOMAIN f.order : f.order[k] = b
  IN  [f EXCEPT
         !.order = SubSeq(f.order, 1, pos) \o copies \o <<cont>>
                     \o SubSeq(f.order, pos + 1, Len(f.order)),
         !.body  = (b :> Append(SubSeq(f.body[b], 1, n - 1), Jump(copies[1])))
                     @@ (cont :> (IF merged THEN <<merge>> ELSE <<>>)
                                   \o [k \in DOMAIN after |-> Resolved(after[k], subst)])
                     @@ c.blocks @@ f.body]

\* The call at position n of the block b of f, inlined.
SpliceWith(f, b, n, g, fresh) ==
  LET m == Len(g.order)
      label == [c \in Blocks(g) |-> fresh[CHOOSE k \in 1..m : g.order[k] = c]]
      start == [names |-> SubSeq(fresh, m + 3, Len(fresh)), subst |-> Bindings(f.body[b][n]),
                blocks |-> [x \in {} |-> 0], rets |-> <<>>]
  IN  Splice(f, b, n, FoldLeft(LAMBDA acc, c : CopyBlock(acc, g, c, label, fresh[m + 1]), start, g.order),
             SubSeq(fresh, 1, m), fresh[m + 1], fresh[m + 2])
SpliceMulti(f, b, n) ==
  SpliceWith(f, b, n, CalleeOf(f.body[b][n]), SelectSeq(FreshNames(f), LAMBDA x : x \notin Blocks(f)))

SpliceFirst(acc, b, ns) ==
  IF ns = {} \/ acc.count >= max_inlines_per_function THEN acc
  ELSE [fn |-> SpliceMulti(acc.fn, b, Min(ns)), count |-> acc.count + 1]
inline_calls_multiblock(f) ==
  LET Visit(acc, b) ==
        SpliceFirst(acc, b, {n \in DOMAIN acc.fn.body[b] : Inlinable(acc.fn, acc.fn.body[b][n])})
  IN  OrElse(FoldLeft(Visit, [fn |-> f, count |-> 0], f.order).fn, f)

=============================================================================
