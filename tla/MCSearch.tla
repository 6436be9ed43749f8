------------------------------ MODULE MCSearch ------------------------------
(***************************************************************************)
(* Instances for the searches that rewrite with mutations and patterns: the*)
(* stochastic search and the e-graph.  They share the pattern library and  *)
(* no state: a behaviour runs one of them, the other has nothing to do.    *)
(***************************************************************************)
EXTENDS StochasticSearch, EgraphRewriter

CONSTANTS ax, ay, va, vb, vc, vd, ve, vm, entry, left, right, join, pz, other,
          s0, s1, s2, g0, g1, g2, g3, g4, g5   \* what the searches name

NoNames        == <<>>
NoCalls(f, xs) == <<>>
StokeInOrder   == <<s0, s1, s2>>
EgInOrder      == <<g0, g1, g2, g3, g4, g5>>

\* Multiplications are dearer than what replaces them.
Cost(op) == CASE op \in {"udiv", "urem", "sdiv", "srem"} -> 5
              [] op = "mul" -> 3
              [] op \in {"ret", "br"} -> 0
              [] OTHER -> 1

SameVendor(a, b) == IF a.vendor = anyone THEN 5 ELSE 9
Host == [vendor |-> intel, gpu |-> FALSE]

-----------------------------------------------------------------------------
I(op, n, as) == [op |-> op, name |-> n, w |-> 2, ow |-> 2, args |-> as, to |-> <<>>, flags |-> {}]
Ret(a)       == I("ret", NoName, <<a>>)
Straight(xs, code) ==
  [args |-> [n \in DOMAIN xs |-> [name |-> xs[n], w |-> 2]], order |-> <<entry>>,
   body |-> (entry :> code)]
Cell(w)      == [I("alloca", vm, <<>>) EXCEPT !.w = w]
Store(a)     == [I("store", NoName, <<a, vm>>) EXCEPT !.w = 0]
Load(n)      == I("load", n, <<vm>>)
Br(b)        == [I("br", NoName, <<>>) EXCEPT !.w = 0, !.ow = 0, !.to = <<b>>]
If(a, b, c)  == [Br(b) EXCEPT !.op = "condbr", !.ow = 1, !.args = <<a>>, !.to = <<b, c>>]
Nothing == Straight(<<ax>>, <<Ret(ax)>>)

\* Patterns that a file may bring: for another vendor, and of two equal operands.
OwnPattern(id, vendor, op, as, v) ==
  Pattern(id, vendor, <<PatternOp(op, pr, as), PatternRet(pr)>>, <<PatternRet(v)>>)
sub_self  == OwnPattern("sub_self", anyone, "sub", <<pz, pz>>, 0)
and_self  == OwnPattern("and_self", anyone, "and", <<pz, pz>>, pz)
elsewhere == OwnPattern("elsewhere", other, "sub", <<px, pc>>, px)
Loaded    == {elsewhere, sub_self}

-----------------------------------------------------------------------------
(* Searches.                                                                *)

Chain    == Straight(<<ax>>, <<I("add", va, <<ax, 1>>), I("add", vb, <<va, 1>>), Ret(vb)>>)
Shared   == Straight(<<ax>>, <<I("add", va, <<ax, 1>>), I("add", vb, <<va, 1>>),
                              I("xor", vc, <<va, vb>>), Ret(vc)>>)
Twins    == Straight(<<ax, ay>>, <<I("and", va, <<ax, ay>>), I("and", vb, <<ax, ay>>),
                                  I("xor", vc, <<va, vb>>), Ret(vc)>>)
Doubled  == Straight(<<ax>>, <<I("mul", va, <<ax, 2>>), I("udiv", vb, <<va, 2>>), Ret(vb)>>)

\* The first instruction is dead, the second is not.
TooLong  == Straight(<<ax>>, <<I("sub", va, <<ax, 1>>), I("mul", vb, <<ax, 1>>)>>
                              \o [n \in 1..6 |-> I("xor", EgInOrder[n], <<vb, n>>)]
                              \o <<I("or", ve, <<g0, g1>>), Ret(ve)>>)
Folding  == Straight(<<ax>>, <<I("add", va, <<3, 5>>), I("add", vb, <<ax, va>>), Ret(vb)>>)
Flagged  == Straight(<<ax>>, <<[I("add", va, <<ax, 1>>) EXCEPT !.flags = {"nsw"}],
                              [I("add", vb, <<va, 1>>) EXCEPT !.flags = {"nsw"}],
                              I("sub", vc, <<0, 1>>), I("and", vd, <<vb, vc>>), Ret(vd)>>)
Memory   == Straight(<<ax>>, <<Cell(2), Store(ax), Load(va), I("add", vb, <<va, 0>>), Store(vb), Load(vc),
                              Ret(vc)>>)
Branch   == [args |-> <<[name |-> ax, w |-> 2]>>, order |-> <<entry, left, right, join>>,
             body |-> entry :> <<[I("ult", va, <<ax, 2>>) EXCEPT !.w = 1], If(va, left, right)>>
                   @@ left  :> <<I("and", vb, <<ax, 1>>), Br(join)>>
                   @@ right :> <<I("and", vc, <<ax, 1>>), Br(join)>>
                   @@ join  :> <<[I("phi", vd, <<vb, vc>>) EXCEPT !.to = <<left, right>>], Ret(vd)>>]
\* Three ways to begin, and two instructions to swap.
ThreeWays == Straight(<<ax>>, <<I("mul", va, <<ax, 2>>), I("udiv", vb, <<ax, 2>>), I("xor", vc, <<va, vb>>),
                              I("or", vd, <<vc, 0>>), Ret(vd)>>)
MulPlus  == Straight(<<ax>>, <<I("mul", va, <<ax, 2>>), I("add", vb, <<va, 0>>), Ret(vb)>>)
AddsZero == Straight(<<ax>>, <<I("add", va, <<ax, 0>>), Ret(va)>>)
\* The constant that is folded is large for both of its users.
Literal  == Straight(<<ax>>, <<I("sub", va, <<0, -1>>), I("udiv", vb, <<ax, 2>>), I("add", vc, <<vb, va>>),
                              I("and", vd, <<vc, va>>), I("or", ve, <<vd, 0>>), Ret(ve)>>)
SubSelf  == Straight(<<ax>>, <<I("sub", va, <<ax, ax>>), Ret(va)>>)

Plain == [allow_unsound_mutations |-> FALSE, two_phase_mode |-> FALSE, phase1_iters |-> 0,
          use_in_place_mutation |-> TRUE, use_pattern_library |-> FALSE, max_iterations |-> 4,
          max_candidates |-> 2, stagnation_limit |-> 0, test_vector_count |-> 0,
          target_score |-> {}, time_budget |-> FALSE]
Idle     == [Plain EXCEPT !.max_iterations = 0]
\* One place for candidates, and a restart after two turns without a new best.
Crowded  == [Plain EXCEPT !.max_candidates = 1, !.stagnation_limit = 2, !.max_iterations = 5]
Copying  == [Plain EXCEPT !.use_in_place_mutation = FALSE, !.stagnation_limit = 1]
Patterns == [Plain EXCEPT !.use_pattern_library = TRUE, !.time_budget = TRUE]
Unsound  == [Plain EXCEPT !.allow_unsound_mutations = TRUE, !.max_iterations = 2, !.test_vector_count = 1, !.target_score = {0}]
TwoPhase == [Copying EXCEPT !.two_phase_mode = TRUE, !.phase1_iters = 1, !.use_pattern_library = TRUE,
                            !.test_vector_count = 2]

Jobs == ({Shared, Twins, Doubled, TooLong, Folding, Flagged, Literal, ThreeWays} \X {Plain, Crowded, Copying})
          \cup ({Memory, Branch} \X {Plain})
          \cup ({Chain, MulPlus, AddsZero, SubSelf} \X {Patterns})
          \cup ({AddsZero, Chain, Doubled} \X {Unsound, TwoPhase})
AllOriginals == {Nothing} \cup {j[1] : j \in Jobs}
AllConfigs   == {Idle} \cup {j[2] : j \in Jobs}
ProbesInOrder == <<0, 1, -1>>

-----------------------------------------------------------------------------
(* E-graphs.                                                                *)

\* x + 0 and x, seen through one or two operations; their difference.
Hidden(o1, o2) ==
  Straight(<<ax, ay>>, <<I("add", va, <<ax, 0>>), I(o1, vb, <<va, ay>>), I(o1, vc, <<ax, ay>>),
                         I(o2, vd, <<vb, vc>>), Ret(vd)>>)
EgraphFunctions ==
  {Hidden(o1, o2) : o1 \in {"and", "sub"}, o2 \in {"sub", "and", "xor"}}
  \cup {Straight(<<ax, ay>>, <<I("mul", va, <<ax, m>>), I("add", vb, <<3, 5>>), I("sub", vc, <<va, b>>),
                              I("and", vd, <<vc, vb>>), Ret(vd)>>) : m \in {1, ay}, b \in {ax, ay, vb}}
BothWays(lib)   == {lib, Reverse(lib)}
\* The seeds without strength_reduce_mul, for products; all of them, as in
\* every library of the program.
SoundSeeds      == <<constant_fold, dead_code_elim, add_zero_elim, mul_one_elim, double_negation>>
SomeLibraries   == {<<>>} \cup BothWays(SoundSeeds \o <<sub_self, and_self>>)
                     \cup BothWays(<<strength_reduce_mul>> \o SoundSeeds \o <<and_self, sub_self>>)
                     \cup BothWays(<<and_self, add_zero_elim, sub_self>>)
AllSources      == {Nothing} \cup EgraphFunctions

-----------------------------------------------------------------------------
searchVars == <<vars, egraphVars>>

OnlySearch ==
  /\ \E j \in Jobs : original = j[1] /\ config = j[2]
  /\ source = Nothing /\ library = <<>> /\ destroyed = "emptied"
OnlyEgraph ==
  original = Nothing /\ config = Idle /\ source \in EgraphSources \ {Nothing} /\ library # <<>>
SearchesInit == (OnlySearch \/ (library \in Libraries /\ OnlyEgraph)) /\ Init /\ EgraphInit
SearchesNext ==
  \/ SearchNext /\ UNCHANGED egraphVars
  \/ config = Idle /\ returned /\ EgraphNext /\ UNCHANGED vars
SearchesSpec == SearchesInit /\ [][SearchesNext]_searchVars

=============================================================================
