--------------------------- MODULE EgraphRewriter ---------------------------
(***************************************************************************)
(* Equality saturation (src/Search/EgraphRewriter.cpp): a function is      *)
(* lowered to a graph of classes of equal expressions, the patterns of the *)
(* library add equalities until none is new, and the cheapest expression of*)
(* every class makes the candidate.  egraph_phase calls it sound without a *)
(* proof.  One action is one pattern tried on all classes.                 *)
(*                                                                         *)
(* The library is a hash table: a sequence stands for the order it happens *)
(* to be walked in.  rebuild() goes on over the nodes of a class after it  *)
(* moved them away and destroyed them; what it then reads is undefined, and*)
(* here either the node without children and name, or the node as it was.  *)
(***************************************************************************)
EXTENDS PatternLibrary, Interpreter, CostModel

CONSTANTS EgraphSources, Libraries,
          EgNames,            \* _eg_0, _eg_1, ... in order
          kMaxRebuildMerges,
          SaturationRounds    \* 30

VARIABLES source, library, destroyed,   \* what a destroyed node reads as
          eg, value_to_class, turn, round, rewrites,  \* rewrites of this round
          extracted, found

egraphVars == <<source, library, destroyed, eg, value_to_class, turn, round, rewrites,
                extracted, found>>

-----------------------------------------------------------------------------
(* EGraph.  A node keeps the widths of its value and of its operands beside *)
(* it; they take no part in the comparison of nodes.                        *)

LeafNode(kind, x, w) ==
  [op |-> kind, leaf |-> x, kids |-> <<>>, flags |-> {}, w |-> w, ow |-> w]
OpNode(i, kids) ==
  [op |-> i.op, leaf |-> NoName, kids |-> kids, flags |-> i.flags, w |-> i.w, ow |-> i.ow]
ENode(n) == <<n.op, n.leaf, n.kids, n.flags>>

EmptyGraph == [classes |-> <<>>, parent |-> <<>>, hash_cons |-> [k \in {} |-> 0]]

RECURSIVE find(_, _)
find(g, c) == IF g.parent[c] = c THEN c ELSE find(g, g.parent[c])

Canonical(g, n) == [n EXCEPT !.kids = [k \in DOMAIN n.kids |-> find(g, n.kids[k])]]
AddCanonical(g, n, id) ==
  IF ENode(n) \in DOMAIN g.hash_cons THEN <<g, find(g, g.hash_cons[ENode(n)])>>
  ELSE <<[classes |-> Append(g.classes, <<n>>), parent |-> Append(g.parent, id),
          hash_cons |-> (ENode(n) :> id) @@ g.hash_cons], id>>
\* The graph with the node, and the class of the node.
add(g, n) == AddCanonical(g, Canonical(g, n), Len(g.classes) + 1)

Linked(g, a, b) ==
  IF a = b THEN g
  ELSE [g EXCEPT !.parent[b] = a, !.classes[a] = @ \o g.classes[b], !.classes[b] = <<>>]
link(g, a, b) == Linked(g, find(g, a), find(g, b))

\* The scan of a class; "gone" says that its nodes were moved away.
ReadAfterMove(n) ==
  IF destroyed = "intact" THEN n
  ELSE [n EXCEPT !.kids = <<>>, !.leaf = IF n.op = "const" THEN n.leaf ELSE NoName]
ScanNode(s, c, n) ==
  IF s.merges >= kMaxRebuildMerges THEN s
  ELSE IF ENode(n) \notin DOMAIN s.g.hash_cons
  THEN [s EXCEPT !.g.hash_cons = (ENode(n) :> c) @@ s.g.hash_cons]
  ELSE IF s.g.hash_cons[ENode(n)] = c THEN s
  ELSE [g |-> link(s.g, s.g.hash_cons[ENode(n)], c), merges |-> s.merges + 1, gone |-> TRUE]
ScanClass(s, c) ==
  IF find(s.g, c) # c THEN s
  ELSE FoldLeft(LAMBDA t, n : ScanNode(t, c, IF t.gone THEN ReadAfterMove(n) ELSE n),
                [s EXCEPT !.gone = FALSE], s.g.classes[c])
AllCanonical(g) ==
  [g EXCEPT !.hash_cons = [k \in {} |-> 0],
            !.classes = [c \in DOMAIN g.classes |->
                           [n \in DOMAIN g.classes[c] |-> Canonical(g, g.classes[c][n])]]]
ScanAll(g, merges) ==
  FoldLeft(ScanClass, [g |-> AllCanonical(g), merges |-> merges, gone |-> FALSE],
           [c \in DOMAIN g.classes |-> c])

\* Classes with equal nodes are merged, until no two have any.
RECURSIVE rebuild(_, _)
RebuiltFrom(s, merges) ==
  IF s.merges = merges \/ s.merges >= kMaxRebuildMerges THEN s.g ELSE rebuild(s.g, s.merges)
rebuild(g, merges) == RebuiltFrom(ScanAll(g, merges), merges)
merge(g, a, b) == rebuild(link(g, a, b), 0)

-----------------------------------------------------------------------------
(* Lowering: [g, names], the graph so far and the classes of the names.  A  *)
(* name that is not known yet becomes a leaf.                               *)

WithName(s, x, added) == [g |-> added[1], names |-> (x :> added[2]) @@ s.names, kids |-> s.kids]
LowerOperand(s, v, w) ==
  IF IsNamed(v) /\ v \in DOMAIN s.names THEN [s EXCEPT !.kids = Append(@, s.names[v])]
  ELSE LET added == add(s.g, LeafNode(IF IsNamed(v) THEN "arg" ELSE "const", v, w))
       IN  [g |-> added[1], kids |-> Append(s.kids, added[2]),
            names |-> IF IsNamed(v) THEN (v :> added[2]) @@ s.names ELSE s.names]
LowerOperands(s, i) ==
  FoldLeft(LAMBDA t, k : LowerOperand(t, i.args[k], OperandWidth(i, k)),
           [s EXCEPT !.kids = <<>>], [k \in DOMAIN i.args |-> k])
LowerNode(s, i) == WithName(s, i.name, add(s.g, OpNode(i, s.kids)))
LowerInstruction(s, i) ==
  IF i.op = "ret" /\ Len(i.args) = 1 /\ ~IsNamed(i.args[1])
  THEN [s EXCEPT !.g = add(s.g, LeafNode("const", i.args[1], i.ow))[1]]
  ELSE IF i.op \in Terminators \/ i.name = NoName THEN s
  ELSE LowerNode(LowerOperands(s, i), i)
LowerArgument(s, a) == WithName(s, a.name, add(s.g, LeafNode("arg", a.name, a.w)))
lower_to_egraph(f) ==
  FoldLeft(LowerInstruction,
           FoldLeft(LowerArgument,
                    [g |-> EmptyGraph, names |-> [x \in {} |-> 0], kids |-> <<>>], f.args),
           Instructions(f))

-----------------------------------------------------------------------------
(* Matching: the set of bindings is empty or has one.                       *)

Results(code)    == {i.name : i \in Range(code)} \ {NoName}
Definition(code, x) == code[Max({n \in DOMAIN code : code[n].name = x})]
NoBinding == [values |-> [x \in {} |-> 0], results |-> [x \in {} |-> 0]]

opcodes_compatible(i, n) == i.op = n.op /\ (i.op \in Binops => i.flags = n.flags)
\* A name that is bound already stands for the same class.
\* Mutant: a name may stand for different classes.
SameClass_Any(g, c, d) == c \in DOMAIN g.parent /\ d \in DOMAIN g.parent
SameClass(g, c, d) == find(g, c) = find(g, d)
BindValue(g, b, x, c) ==
  IF x \notin DOMAIN b.values THEN {[b EXCEPT !.values = (x :> c) @@ b.values]}
  ELSE IF SameClass(g, b.values[x], c) THEN {b} ELSE {}

RECURSIVE match_value(_, _, _, _, _)
match_node(g, code, i, n, c, b) ==
  IF ~opcodes_compatible(i, n) \/ Len(i.args) # Len(n.kids) THEN {}
  ELSE FoldLeft(LAMBDA bs, k : UNION {match_value(g, code, i.args[k], n.kids[k], x) : x \in bs},
                {[b EXCEPT !.results = (i.name :> c) @@ b.results]}, [k \in DOMAIN i.args |-> k])
\* The first node of the class that matches decides.
match_first(g, code, x, c, b) ==
  FoldLeft(LAMBDA bs, n : IF bs # {} THEN bs ELSE match_node(g, code, Definition(code, x), n, c, b),
           {}, g.classes[c])
match_value(g, code, v, c, b) ==
  IF ~IsNamed(v)
  THEN IF \E n \in Range(g.classes[find(g, c)]) : n.op = "const" /\ n.leaf = v THEN {b} ELSE {}
  ELSE IF v \notin Results(code) THEN BindValue(g, b, v, c)
  ELSE IF v \in DOMAIN b.results THEN IF SameClass(g, b.results[v], c) THEN {b} ELSE {}
  ELSE match_first(g, code, v, find(g, c), b)

\* The graph with the replacement, and the class of its result, if it has one.
BoundClass(g, b, v) ==
  IF v \in DOMAIN b.values THEN {find(g, b.values[v])}
  ELSE IF v \in DOMAIN b.results THEN {find(g, b.results[v])} ELSE {}
AsResult(added) == <<added[1], {added[2]}>>
resolve_value(g, b, v) ==
  IF IsNamed(v) THEN <<g, BoundClass(g, b, v)>>
  ELSE AsResult(add(g, LeafNode("const", v, PatternBits)))

WithOperand(s, r) ==
  IF r[2] = {} THEN [s EXCEPT !.g = r[1], !.ok = FALSE]
  ELSE [s EXCEPT !.g = r[1], !.kids = @ \o SetToSeq(r[2])]
OperandClasses(g, b, i) ==
  FoldLeft(LAMBDA s, v : IF s.ok THEN WithOperand(s, resolve_value(s.g, b, v)) ELSE s,
           [g |-> g, kids |-> <<>>, ok |-> TRUE], i.args)
Built(s, i, added) ==
  [s EXCEPT !.g = added[1], !.b.results = (i.name :> added[2]) @@ s.b.results]
BuildNode(s, i, k) ==
  IF k.ok THEN Built(s, i, add(k.g, OpNode(i, k.kids))) ELSE [s EXCEPT !.g = k.g]
Returns(s, r) == [s EXCEPT !.g = r[1], !.out = r[2], !.done = TRUE]
BuildInstruction(s, i) ==
  IF s.done THEN s
  ELSE IF i.op = "ret"
  THEN IF Len(i.args) # 1 THEN [s EXCEPT !.done = TRUE] ELSE Returns(s, resolve_value(s.g, s.b, i.args[1]))
  ELSE IF i.op \in Terminators \/ i.name = NoName THEN s
  ELSE BuildNode(s, i, OperandClasses(s.g, s.b, i))
build_replacement(g, b, code) ==
  FoldLeft(BuildInstruction, [g |-> g, b |-> b, out |-> {}, done |-> FALSE], code)

-----------------------------------------------------------------------------
(* Saturation.                                                              *)

RootOf(code) ==
  LET rets == SelectSeq(code, LAMBDA i : i.op = "ret" /\ Len(i.args) = 1)
  IN  IF rets = <<>> THEN {} ELSE {Head(rets).args[1]}

Merged(s, c, g, other) ==
  IF other = c THEN [s EXCEPT !.g = g] ELSE [g |-> merge(g, c, other), n |-> s.n + 1]
WithReplacement(s, c, r) ==
  IF r.out = {} THEN [s EXCEPT !.g = r.g]
  ELSE Merged(s, c, r.g, find(r.g, CHOOSE x \in r.out : TRUE))
Rewritten(s, p, c, bs) ==
  IF bs = {} THEN s ELSE WithReplacement(s, c, build_replacement(s.g, CHOOSE b \in bs : TRUE, p.replacement))
RewriteClass(s, p, v, c) ==
  IF find(s.g, c) # c THEN s ELSE Rewritten(s, p, c, match_value(s.g, p.source, v, c, NoBinding))
\* Classes that are added meanwhile wait for the next round.
RewriteAll(g, p) ==
  FoldLeft(LAMBDA s, c : IF RootOf(p.source) = {} THEN s
                         ELSE RewriteClass(s, p, CHOOSE v \in RootOf(p.source) : TRUE, c),
           [g |-> g, n |-> 0], [c \in DOMAIN g.classes |-> c])

-----------------------------------------------------------------------------
(* Extraction.                                                              *)

\* The cheapest node of every class so far, with its cost.
node_cost(n) == IF n.op \in {"const", "arg"} THEN 0 ELSE CostOf(n.op)
CostWith(best, g, n) ==
  FoldLeft(LAMBDA cost, k : cost + best[find(g, k)].cost, node_cost(n), n.kids)
Improved(best, c, n, cost) ==
  IF c \in DOMAIN best /\ best[c].cost <= cost THEN best
  ELSE (c :> [cost |-> cost, node |-> n]) @@ best
TryNode(best, g, c, n) ==
  IF \E k \in Range(n.kids) : find(g, k) \notin DOMAIN best THEN best
  ELSE Improved(best, c, n, CostWith(best, g, n))
CostPass(best, g) ==
  FoldLeft(LAMBDA b, c : FoldLeft(LAMBDA t, n : TryNode(t, g, find(g, c), n), b, g.classes[c]),
           best, [c \in DOMAIN g.classes |-> c])
RECURSIVE BestNodes(_, _, _)
BestAfter(best, next, g, passes) == IF next = best THEN best ELSE BestNodes(next, g, passes)
BestNodes(best, g, passes) ==
  IF passes = 0 THEN best ELSE BestAfter(best, CostPass(best, g), g, passes - 1)

\* x: the best nodes, what classes and names stand for, the code of the block
\* and the instructions made so far.  A result is x and a set of one value.
RECURSIVE materialise(_, _)
Child(r, c) ==
  IF ~r.ok THEN r
  ELSE LET m == materialise(r.x, c)
       IN  IF m[2] = {} THEN [r EXCEPT !.x = m[1], !.ok = FALSE]
           ELSE [r EXCEPT !.x = m[1], !.values = @ \o SetToSeq(m[2])]
build_instruction(n, name, values) ==
  [op |-> n.op, name |-> name, w |-> n.w, ow |-> n.ow, args |-> values, to |-> <<>>,
   flags |-> n.flags]
Memo(x, c, v) == <<[x EXCEPT !.memo = (c :> v) @@ x.memo], {v}>>
Emitted(r, c, n, name) ==
  IF ~r.ok THEN <<r.x, {}>>
  ELSE Memo([r.x EXCEPT !.made = @ + 1, !.code = Append(@, build_instruction(n, name, r.values))],
            c, name)
EmitNode(r, c, n) == Emitted(r, c, n, EgNames[r.x.made + 1])
FromNode(x, c, n) ==
  CASE n.op = "const" -> Memo(x, c, n.leaf)
    [] n.op = "arg" -> Memo([x EXCEPT !.binding = x.binding @@ (n.leaf :> n.leaf)], c,
                            Value(x.binding, n.leaf))
    [] OTHER -> EmitNode(FoldLeft(Child, [x |-> x, values |-> <<>>, ok |-> TRUE], n.kids), c, n)
FromClass(x, c) ==
  IF c \in DOMAIN x.memo THEN <<x, {x.memo[c]}>>
  ELSE IF c \in DOMAIN x.best THEN FromNode(x, c, x.best[c].node) ELSE <<x, {}>>
materialise(x, c) == FromClass(x, find(x.g, c))

Copied(x, i) ==
  [x EXCEPT !.code = Append(@, Resolved(i, x.binding)),
            !.binding = IF i.name = NoName THEN @ ELSE (i.name :> i.name) @@ @]
ReturnOf(r, i) ==
  [r[1] EXCEPT !.code = Append(@, IF r[2] = {} THEN i ELSE [i EXCEPT !.args = SetToSeq(r[2])])]
Standing(x, i, r) ==
  IF r[2] = {} THEN Copied(r[1], i)
  ELSE [r[1] EXCEPT !.binding = (i.name :> CHOOSE v \in r[2] : TRUE) @@ @]
ExtractInstruction(x, names, i) ==
  IF i.op = "ret" /\ Len(i.args) = 1 /\ IsNamed(i.args[1])
     /\ i.args[1] \notin DOMAIN x.binding /\ i.args[1] \in DOMAIN names
  THEN ReturnOf(materialise(x, names[i.args[1]]), i)
  ELSE IF i.op \in Terminators \/ i.name \notin DOMAIN names THEN Copied(x, i)
  ELSE Standing(x, i, materialise(x, names[i.name]))

\* Block after block, with the memory of what was made in earlier ones.
ExtractBlock(s, names, f, b) ==
  LET x == FoldLeft(LAMBDA y, i : ExtractInstruction(y, names, i), [s.x EXCEPT !.code = <<>>], f.body[b])
  IN  [x |-> x, body |-> (b :> x.code) @@ s.body]
ExtractStart(f, g) ==
  [x |-> [g |-> g, best |-> BestNodes([c \in {} |-> 0], g, 16), memo |-> [c \in {} |-> 0],
          binding |-> [y \in ArgNames(f) |-> y], code |-> <<>>, made |-> 0],
   body |-> [b \in {} |-> <<>>]]
extract(f, g, names) ==
  [f EXCEPT !.body = FoldLeft(LAMBDA s, b : ExtractBlock(s, names, f, b),
                              ExtractStart(f, g), f.order).body]

-----------------------------------------------------------------------------
(* egraph_rewrite: a round of rules whatever it finds, then rounds until one*)
(* finds nothing.                                                           *)

LoweredTo(l) == eg = l.g /\ value_to_class = l.names
EgraphInit ==
  /\ source \in EgraphSources /\ library \in Libraries
  /\ destroyed \in {"emptied", "intact"}
  /\ LoweredTo(lower_to_egraph(source))
  /\ turn = 1 /\ round = 0 /\ rewrites = 0 /\ extracted = FALSE /\ found = {}

Applied(s) == eg' = s.g /\ rewrites' = rewrites + s.n
ApplyPattern ==
  /\ ~extracted /\ turn <= Len(library)
  /\ Applied(RewriteAll(eg, library[turn])) /\ turn' = turn + 1
  /\ UNCHANGED <<source, library, destroyed, value_to_class, round, extracted, found>>

GoesOn == round = 0 \/ (rewrites > 0 /\ round < SaturationRounds)
NextRound ==
  /\ ~extracted /\ turn > Len(library) /\ GoesOn
  /\ turn' = 1 /\ round' = round + 1 /\ rewrites' = 0
  /\ UNCHANGED <<source, library, destroyed, eg, value_to_class, extracted, found>>

\* Only what is better is a candidate.
Extract ==
  /\ ~extracted /\ turn > Len(library) /\ ~GoesOn
  /\ extracted' = TRUE
  /\ found' = {g \in {extract(source, eg, value_to_class)} : Better(g, source)}
  /\ UNCHANGED <<source, library, destroyed, eg, value_to_class, turn, round, rewrites>>

EgraphNext == ApplyPattern \/ NextRound \/ Extract
EgraphSpec == EgraphInit /\ [][EgraphNext]_egraphVars

-----------------------------------------------------------------------------
(* Properties.                                                              *)

WellFormed(f) ==
  Validated(f) /\ \A i \in Range(Instructions(f)) : Len(i.args) >= Arity(i.op)

\* The seeded strength_reduce_mul makes any product equal to one shift without
\* operands, and all products of a function equal to each other.
ProductsShiftNothing ==
  /\ strength_reduce_mul \in Range(library)
  /\ \E i \in Range(Instructions(source)) : i.op = "mul" /\ i.flags = {}

\* "All pattern-library patterns are sound: the built-in seed patterns (...) are
\* algebraic identities / compile-time folds" (src/Pipeline.cpp:1868-1876), so
\* the candidate is adopted without a proof.  That fails for strength_reduce_mul,
\* which every library contains.  It holds of a function without a product, and
\* of any function where that pattern is not in the library: the candidate is
\* well formed and refines the function, in whatever order the patterns were
\* tried, which classes were merged, and whatever destroyed nodes read as.
EgraphSound ==
  ProductsShiftNothing
    \/ \A g \in found : WellFormed(g) /\ Refines(g, source, PatternInputs(source))

=============================================================================
