----------------------------- MODULE MCRewrites -----------------------------
(***************************************************************************)
(* Instances for the passes that rewrite a function without a prover, the  *)
(* memory optimiser and the algorithmic preprocessor.  They share no       *)
(* state: in each behaviour one of them is given something interesting.    *)
(***************************************************************************)
EXTENDS FunctionPasses, AlgoPreprocessor, MemOpt

CONSTANTS ax, ay, vp, vq, vr, vs, vv,        \* names in callers
          ga, gp, gq, gr,             \* names in callees
          entry, left, right, join, gentry, gleft, gright,   \* blocks
          once, forked, wrapped, wrapper,   \* functions
          cell, cell0, cell1, celln, given, outside, byte0, byte1,   \* pointers
          one, l1, l2, l3,            \* values in memory
          n1, n2, n3, n4, n5, n6, n7, n8, n9, n10, n11, n12, n13, n14

FreshNamesInOrder == <<n1, n2, n3, n4, n5, n6, n7, n8, n9, n10, n11, n12, n13, n14>>

-----------------------------------------------------------------------------
(* Instructions.                                                            *)

I(op, n, w, as) == [op |-> op, name |-> n, w |-> w, ow |-> w, args |-> as, to |-> <<>>, flags |-> {}]
Cmp(op, n, w, as)  == [I(op, n, 1, as) EXCEPT !.ow = w]
Cast(op, n, from, w, a) == [I(op, n, w, <<a>>) EXCEPT !.ow = from]
Phi(n, w, as, bs)  == [I("phi", n, w, as) EXCEPT !.to = bs]
CallOf(n, w, g, as) == [I("call", n, w, as) EXCEPT !.to = <<g>>]
Ret(a, w)     == I("ret", NoName, w, <<a>>)
Br(b)         == [I("br", NoName, 0, <<>>) EXCEPT !.to = <<b>>]
If(a, b, c)   == [Br(b) EXCEPT !.op = "condbr", !.ow = 1, !.args = <<a>>, !.to = <<b, c>>]
Nsw(i)        == [i EXCEPT !.flags = {"nsw"}]

Params(xs, w) == [n \in DOMAIN xs |-> [name |-> xs[n], w |-> w]]
Straight(xs, w, code) == [args |-> Params(xs, w), order |-> <<entry>>, body |-> (entry :> code)]
Diamond(xs, w, top, l, rt, bottom) ==
  [args |-> Params(xs, w), order |-> <<entry, left, right, join>>,
   body |-> (entry :> top) @@ (left :> Append(l, Br(join))) @@ (right :> Append(rt, Br(join)))
              @@ (join :> bottom)]

-----------------------------------------------------------------------------
(* Callees: one block; and a diamond with a phi.  CalleeTable holds what    *)
(* they return.                                                             *)

OnceBody   == Straight(<<ga>>, 2, <<I("add", gp, 2, <<ga, 1>>), I("and", gq, 2, <<gp, ga>>), Ret(gq, 2)>>)
ForkedBody ==
  [args |-> Params(<<ga>>, 2), order |-> <<gentry, gleft, gright>>,
   body |-> (gentry :> <<Cmp("ult", gp, 2, <<ga, 2>>), If(gp, gleft, gright)>>)
              @@ (gleft :> <<I("add", gq, 2, <<ga, 1>>), Ret(gq, 2)>>)
              @@ (gright :> <<I("xor", gr, 2, <<ga, 1>>), Ret(gr, 2)>>)]
CalleeBodies == (once :> OnceBody) @@ (forked :> ForkedBody)

OnceTable   == <<0, 0, 2, 0>>
ForkedTable == <<1, 2, 3, 2>>
CalleeTable(g, xs) ==
  CASE xs[1] = Poison -> <<>>
    [] g = once /\ xs[1] # Poison   -> <<OnceTable[xs[1] + 1]>>
    [] g = forked /\ xs[1] # Poison -> <<ForkedTable[xs[1] + 1]>>
    [] g = wrapped /\ xs[1] # Poison -> <<(xs[1] + 1) % 16>>

ASSUME TablesAgree ==
  \A a \in 0..3 : /\ Meaning(OnceBody, <<a>>)   = CalleeTable(once, <<a>>)
                  /\ Meaning(ForkedBody, <<a>>) = CalleeTable(forked, <<a>>)

-----------------------------------------------------------------------------
(* Functions for the passes.                                                *)

Trivial == Straight(<<ax>>, 2, <<Ret(ax, 2)>>)

Masks  == {<<"and", 1>>, <<"and", 2>>, <<"or", 1>>, <<"shl", 1>>, <<"lshr", 1>>, <<"ashr", 1>>,
           <<"ashr", 0>>, <<"mul", 2>>, <<"xor", -1>>, <<"and", 0>>, <<"shl", 3>>}
Mixers == {"add", "sub", "mul", "and", "or", "xor", "urem", "udiv", "srem", "shl", "lshr"}

\* Known bits, powers of two, common subexpressions: a masked value and
\* another are combined, and the result is masked again.
Mixed ==
  {Straight(<<ax, ay>>, 2,
     <<I(m1[1], vp, 2, <<ax, m1[2]>>), I(m2[1], vq, 2, <<ay, m2[2]>>),
       [I(op, vr, 2, <<vp, vq>>) EXCEPT !.flags = IF op = "add" THEN {"nsw"} ELSE {}], I("and", vs, 2, <<vr, c>>), Ret(vs, 2)>>) :
     m1 \in Masks, m2 \in {<<"and", 1>>, <<"and", 2>>, <<"shl", 1>>, <<"or", 2>>},
     op \in Mixers, c \in {1, 2}}
Repeated ==
  {Straight(<<ax, ay>>, 2,
     <<I(o1, vp, 2, <<ax, ay>>), I(o2, vq, 2, as), I(o3, vr, 2, <<vp, vq>>), I(o3, vs, 2, <<vp, vp>>),
       I("sub", vv, 2, <<vr, vs>>), Ret(vv, 2)>>) :
     o1 \in {"add", "sub"}, o2 \in {"add", "sub"}, o3 \in {"mul", "urem"},
     as \in {<<ax, ay>>, <<ay, ax>>}}
Widened ==
  {Straight(<<ax>>, 2,
     <<I(m[1], vp, 2, <<ax, m[2]>>), Cast(ext, vq, 2, 3, vp), I(op, vr, 3, <<vq, c>>),
       Cast("trunc", vs, 3, 2, vr), Ret(vs, 2)>>) :
     m \in Masks, ext \in {"zext", "sext"}, op \in {"lshr", "ashr", "and", "urem"}, c \in {1, 2, 4}}

\* Branches whose condition may be known.
Branching ==
  {Diamond(<<ax, ay>>, 2,
     <<I(m[1], vp, 2, <<ax, m[2]>>), Cmp(pred, vq, 2, <<vp, c>>), If(vq, left, right)>>,
     <<I("add", vr, 2, <<vp, ay>>)>>, <<I("sub", vs, 2, <<ay, vp>>)>>,
     <<Phi(vv, 2, <<vr, vs>>, <<left, right>>), Ret(vv, 2)>>) :
     m \in Masks, pred \in {"eq", "ne", "ult", "sgt"}, c \in {0, 1, 3}}

\* Loops that count vp to a bound, over a body with something invariant.
Loops ==
  {[args |-> Params(<<ax>>, 3), order |-> <<entry, left, join>>,
    body |-> (entry :> <<Br(left)>>)
      @@ (left :> <<Phi(vp, 3, <<start, vq>>, <<entry, left>>), Phi(vv, 3, <<ax, vs>>, <<entry, left>>),
                    I("shl", vr, 3, <<ax, k>>), I(op, vs, 3, <<vv, vr>>),
                    I("add", vq, 3, <<vp, 1>>), Cmp(pred, ay, 3, <<vq, bound>>), If(ay, left, join)>>)
      @@ (join :> <<Ret(out, 3)>>)] :
     start \in {0, 1, 6}, k \in {1, 3}, op \in {"add", "xor", "sub"},
     pred \in {"ne", "ult", "slt"}, bound \in {2, 3}, out \in {vs, vv, vq}}
\* Two phis that exchange their values in every turn.
Swaps ==
  {[args |-> Params(<<ax, ay>>, 2), order |-> <<entry, left, join>>,
    body |-> (entry :> <<Br(left)>>)
      @@ (left :> <<Phi(vp, 2, <<ax, vq>>, <<entry, left>>), Phi(vq, 2, <<ay, vp>>, <<entry, left>>),
                    Phi(vr, 2, <<0, vs>>, <<entry, left>>),
                    I("add", vs, 2, <<vr, 1>>), Cmp("ne", vv, 2, <<vs, bound>>), If(vv, left, join)>>)
      @@ (join :> <<Ret(vp, 2)>>)] : bound \in {1, 2, 3}}

\* Calls, one after the other or in the arm of a branch.
Calls ==
  {Straight(<<ax, ay>>, 2,
     <<I(op, vp, 2, <<ax, ay>>), CallOf(vq, 2, g1, <<vp>>), CallOf(vr, 2, g2, <<a>>),
       I("sub", vs, 2, <<vr, b>>), Ret(vs, 2)>>) :
     op \in {"add", "or"}, g1 \in {once, forked}, g2 \in {once, forked}, a \in {vp, vq, 2}, b \in {vq, ax}}
  \cup
  {Diamond(<<ax, ay>>, 2, <<Cmp("ult", vp, 2, <<ax, ay>>), If(vp, left, right)>>,
     <<CallOf(vq, 2, once, <<a>>)>>, <<I("sub", vs, 2, <<ay, ax>>)>>,
     <<Phi(vv, 2, <<vq, vs>>, <<left, right>>), CallOf(vr, 2, g, <<vv>>), Ret(vr, 2)>>) :
     a \in {ax, 1}, g \in {once, forked}}

SomeFunctions == {Trivial} \cup Mixed \cup Repeated \cup Widened \cup Branching \cup Loops \cup Swaps \cup Calls

\* What MeaningKept takes for granted of calls.  A block with a call that
\* inline_calls_multiblock splices ends, after it, under the name of the
\* continuation, and the phis of its successors keep the old label.  Here such
\* a phi reads the result of the call itself, and the splice is refused as not
\* well formed: the name of the call is gone.
PhisAfter(f, b) == {i \in UNION {Range(f.body[c]) : c \in Successors(f, b)} : i.op = "phi"}
LabelsSurvive(f) ==
  \A b \in Blocks(f) : \A i \in Range(f.body[b]) :
    i.op = "call" => \A p \in PhisAfter(f, b) : i.name \in Names(p)
ASSUME CallsLeaveLabels == \A f \in SomeFunctions : LabelsSurvive(f)

\* The others: the arm of a branch computes something from the result of its
\* call, and the phi of the join reads that.
CallsInArms ==
  {Trivial} \cup
  {Diamond(<<ax, ay>>, 2, <<Cmp("ult", vp, 2, <<ax, ay>>), If(vp, left, right)>>,
     <<CallOf(vq, 2, g, <<ax>>), I("add", vr, 2, <<vq, 1>>)>>, <<I("sub", vs, 2, <<ay, ax>>)>>,
     <<Phi(vv, 2, <<vr, vs>>, <<left, right>>), Ret(vv, 2)>>) : g \in {once, forked}}
OneFunction == {Trivial}

-----------------------------------------------------------------------------
(* Blocks for the memory optimiser: two cells of two bytes in an alloca, a  *)
(* third at an index that is not constant, an argument, and a pointer of    *)
(* unknown origin; or cells that go by two indices and are the same byte.   *)

Alloca(n)      == [kind |-> "alloca", base |-> NoName, idx |-> <<>>, flat |-> 0, elem |-> 0,
                   size |-> n]
Pointer(k)     == [Alloca(0) EXCEPT !.kind = k]
Gep(b, i, e)   == [Alloca(0) EXCEPT !.kind = "gep", !.base = b, !.idx = <<i>>, !.elem = e]
\* Two bytes at row i and column j of an array whose rows have one column.
InRows(b, i, j) == [Gep(b, i, 2) EXCEPT !.idx = <<i, j>>, !.flat = i + j]

Pointers == (cell :> Alloca(4)) @@ (cell0 :> Gep(cell, 0, 2)) @@ (cell1 :> Gep(cell, 1, 2))
              @@ (celln :> Gep(cell, NotConst, 2)) @@ (given :> Pointer("arg"))
              @@ (outside :> Pointer("unknown"))

Load(n, a)  == [op |-> "load", name |-> n, ptr |-> a, size |-> 2]
Store(a, b) == [op |-> "store", val |-> a, ptr |-> b, size |-> 2]
Use(us, gs) == [op |-> "call", uses |-> us, given |-> gs, size |-> 2]

NoBlock == [ptrs |-> (cell :> Alloca(4)), code |-> <<Use(<<>>, {})>>]

Accessed == {cell0, cell1, celln, given, outside}
SomeBlocks ==
  {NoBlock} \cup
  {[ptrs |-> Pointers, code |-> <<i1, i2, i3, Use(<<l2, l3>>, gs)>>] :
     i1 \in {Store(one, a) : a \in Accessed} \cup {Load(l1, a) : a \in {cell0, given}},
     i2 \in {Store(l1, a) : a \in Accessed} \cup {Load(l2, a) : a \in Accessed}
              \cup {Use(<<l1>>, {})},
     i3 \in {Store(l2, a) : a \in Accessed} \cup {Load(l3, a) : a \in Accessed},
     gs \in {{}, {cell}}}
  \cup
  {[ptrs |-> (cell :> Alloca(4)) @@ (cell0 :> Gep(cell, 0, 2))
               @@ (byte0 :> InRows(cell, 0, 1)) @@ (byte1 :> InRows(cell, 1, 0)),
    code |-> <<Store(one, p), i2, i3, Use(<<l2, l3>>, {})>>] :
     p \in {cell0, byte0, byte1},
     i2 \in {Store(l1, a) : a \in {byte0, byte1}} \cup {Load(l2, a) : a \in {byte0, byte1}},
     i3 \in {Store(l2, a) : a \in {byte0, byte1}} \cup {Load(l3, a) : a \in {cell0, byte0, byte1}}}

\* Bytes of the alloca, written and read two at a time.
ByteBlocks ==
  {NoBlock,
   [ptrs |-> (cell :> Alloca(4)) @@ (byte0 :> Gep(cell, 0, 1)) @@ (byte1 :> Gep(cell, 1, 1)),
    code |-> <<Store(one, byte0), Store(l1, byte1), Load(l2, byte0), Use(<<l2>>, {})>>]}

OneBlock == {NoBlock}

\* What MemoryKept takes for granted of accesses; the blocks of bytes are
\* where that is wrong.
ASSUME BlocksFit == \A b \in SomeBlocks : AccessesFit(b)

SomeLayouts(b) ==
  {[base |-> (cell :> 0) @@ (given :> g) @@ (outside :> o), index |-> (celln :> i)] :
     g \in {20, 22}, i \in {0, 1},
     o \in {20, 22} \cup (IF Escapes(b, cell) THEN {0, 2} ELSE {})}

-----------------------------------------------------------------------------
(* Modules for the preprocessor.                                            *)

Probes == <<0, 1, -1, 2, -2, 3>>
Module(f) == <<[name |-> once, fn |-> f]>>

\* Two operations; an exception for one input; two arguments.
Computed ==
  {Straight(<<ax>>, 4, <<I(o1, vp, 4, <<ax, c1>>), I(o2, vq, 4, <<vp, a>>), Ret(vq, 4)>>) :
     o1 \in {"add", "sub", "mul", "and", "or", "xor", "shl"}, c1 \in {1, 2, -1},
     o2 \in {"add", "sub", "mul", "and", "xor", "lshr"}, a \in {1, 3, 0, ax, vp}}
Excepted ==
  {Straight(<<ax>>, 4, <<I("mul", vp, 4, <<ax, c>>), Cmp(pred, vq, 4, <<ax, e>>),
                        [I("select", vr, 4, <<vq, a, vp>>) EXCEPT !.ow = 4], Ret(vr, 4)>>) :
     c \in {0, 1, 2}, pred \in {"eq", "slt", "ugt"}, e \in {3, 4, 9}, a \in {ax, 5}}
TwoArguments ==
  {Straight(<<ax, ay>>, 4, <<I(o, vp, 4, <<ax, ay>>), I("and", vq, 4, <<vp, c>>), Ret(vq, 4)>>) :
     o \in {"mul", "and", "xor"}, c \in {0, 2, 8}}
Wrapped ==
  {<<[name |-> wrapped, fn |-> Straight(<<ax>>, 4, <<I("sub", vp, 4, <<ax, -1>>), Ret(vp, 4)>>)],
     [name |-> wrapper, fn |-> Straight(<<ay>>, 4, <<CallOf(vq, 4, wrapped, <<ay>>), Ret(vq, 4)>>)]>>}

SomeSources == {Module(f) : f \in {Trivial} \cup Computed \cup Excepted \cup TwoArguments} \cup Wrapped
OneSource   == {Module(Trivial)}

\* What the configurations give the constants.  TLC keeps the value of a
\* definition, and works out anew what a constant is replaced by: these only
\* name what is kept.
GivenNames     == FreshNamesInOrder
GivenCallees   == CalleeBodies
GivenFunctions == SomeFunctions
GivenBlocks    == SomeBlocks
GivenSources   == SomeSources
GivenProbes    == Probes

-----------------------------------------------------------------------------
VARIABLE turn    \* the component that is looked at

rewritesVars == <<turn, passVars, algoVars, memVars>>

RewritesInit ==
  /\ turn \in {"passes", "preprocessor", "memory"}
  /\ turn # "passes" => original = Trivial
  /\ turn # "memory" => block = NoBlock
  /\ turn # "preprocessor" =>
       source = Module(Trivial) /\ z3_available = FALSE /\ trust_unverified = FALSE
  /\ FunctionInit /\ MemInit /\ AlgoInit

RewritesNext ==
  \/ turn = "passes" /\ PassNext /\ UNCHANGED <<turn, algoVars, memVars>>
  \/ turn = "preprocessor" /\ AlgoNext /\ UNCHANGED <<turn, passVars, memVars>>
  \/ turn = "memory" /\ MemNext /\ UNCHANGED <<turn, passVars, algoVars>>

RewritesSpec == RewritesInit /\ [][RewritesNext]_rewritesVars

=============================================================================
