------------------------------ MODULE MCSolver ------------------------------
(***************************************************************************)
(* Instances for what is built on the encoder: the synthesis of constants, *)
(* the batch queries and the peephole miner.  They share no state: in each *)
(* behaviour one of them is given something interesting.                   *)
(***************************************************************************)
EXTENDS PeepholeMiner, Synthesis, BatchVerifier

CONSTANTS ax, ay,                   \* arguments
          va, vb, vc, vd, ve, vf,   \* instructions
          hole, hole2,              \* placeholders
          entry, left, right, join, \* blocks
          t1, t2, t3,               \* candidates' instructions
          n1, n2, n3, n4, n5, n6

FreshNamesInOrder == <<n1, n2, n3, n4, n5, n6>>
CandidateNames    == <<t1, t2, t3>>
NoCalls(f, xs)    == <<>>

-----------------------------------------------------------------------------
I(op, n, w, as)    == [op |-> op, name |-> n, w |-> w, ow |-> w, args |-> as, to |-> <<>>, flags |-> {}]
Flagged(op, n, w, as, fs) == [I(op, n, w, as) EXCEPT !.flags = fs]
Cmp(op, n, w, as)  == [I(op, n, 1, as) EXCEPT !.ow = w]
Cast(op, n, from, w, a) == [I(op, n, w, <<a>>) EXCEPT !.ow = from]
Phi(n, w, as, bs)  == [I("phi", n, w, as) EXCEPT !.to = bs]
Ret(a, w)          == I("ret", NoName, w, <<a>>)
Br(b)              == [I("br", NoName, 0, <<>>) EXCEPT !.to = <<b>>]
If(a, b, c)        == [Br(b) EXCEPT !.op = "condbr", !.ow = 1, !.args = <<a>>, !.to = <<b, c>>]
Params(xs, w)      == [n \in DOMAIN xs |-> [name |-> xs[n], w |-> w]]
Straight(xs, w, code) == [args |-> Params(xs, w), order |-> <<entry>>, body |-> (entry :> code)]
Diamond(xs, w, top, l, rt, bottom) ==
  [args |-> Params(xs, w), order |-> <<entry, left, right, join>>,
   body |-> (entry :> top) @@ (left :> Append(l, Br(join))) @@ (right :> Append(rt, Br(join)))
              @@ (join :> bottom)]

Trivial == Straight(<<ax>>, 2, <<Ret(ax, 2)>>)

-----------------------------------------------------------------------------
(* Goals and templates of three bits, the width of a host word.             *)

PoolInOrder == <<0, 1, -1, 2, 3>>

Problem(goal, template, holes) == [goal |-> goal, template |-> template, placeholders |-> holes]
OneOp(op, a)  == Straight(<<ax>>, 3, <<I(op, va, 3, <<ax, a>>), Ret(va, 3)>>)
OpTemplate(op) == OneOp(op, hole)
TwoHoles(op1, op2) ==
  Straight(<<ax>>, 3, <<I(op1, va, 3, <<ax, hole>>), I(op2, vb, 3, <<va, hole2>>), Ret(vb, 3)>>)
ThreeHoles ==
  Straight(<<ax>>, 3, <<I("add", va, 3, <<ax, hole>>), I("xor", vb, 3, <<va, hole2>>),
                        I("and", vc, 3, <<vb, ve>>), Ret(vc, 3)>>)

FlagGoals ==
  {Straight(<<ax>>, 3, <<Flagged(op, va, 3, as, fs), Ret(va, 3)>>) :
     op \in {"add", "sub", "mul", "shl"}, as \in {<<ax, 3>>, <<ax, -4>>, <<-4, ax>>},
     fs \in {{"nsw"}, {"nuw"}}}
  \cup
  {Straight(<<ax>>, 3, <<Flagged(op, va, 3, as, {"exact"}), Ret(va, 3)>>) :
     op \in {"udiv", "sdiv", "lshr", "ashr"}, as \in {<<ax, 2>>, <<4, ax>>}}
MixedGoals ==
  {Straight(<<ax>>, 3, <<Flagged("add", va, 3, <<ax, 1>>, {"nsw"}), Cmp("slt", vb, 3, <<ax, 2>>),
                        [I("select", vc, 3, <<vb, va, ax>>) EXCEPT !.ow = 3], Ret(vc, 3)>>),
   Straight(<<ax>>, 3, <<Cast("trunc", va, 3, 2, ax), Cast("sext", vb, 2, 3, va), Ret(vb, 3)>>),
   Diamond(<<ax>>, 3, <<Cmp("ugt", va, 3, <<ax, 4>>), If(va, left, right)>>,
           <<I("sub", vb, 3, <<ax, 1>>)>>, <<I("xor", vc, 3, <<ax, 3>>)>>,
           <<Phi(vd, 3, <<vb, vc>>, <<left, right>>), Ret(vd, 3)>>)}

SomeProblems ==
  {Problem(Trivial, Trivial, <<>>)}
  \cup {Problem(g, OpTemplate(op), <<hole>>) : g \in FlagGoals \cup MixedGoals, op \in {"add", "mul"}}
  \cup {Problem(OneOp(o, c), OpTemplate(op), <<hole>>) :
          o \in {"add", "mul", "shl", "lshr"}, c \in {1, -2}, op \in {"sub", "mul", "shl"}}
  \cup {Problem(Straight(<<ax>>, 3, <<I("mul", va, 3, <<ax, 2>>), I("add", vb, 3, <<va, c>>), Ret(vb, 3)>>),
                TwoHoles("shl", "sub"), <<hole, hole2>>) : c \in {1, 3}}
  \cup {Problem(OneOp("add", 3), ThreeHoles, <<hole, hole2, ve>>),
        Problem(OneOp("add", 3),
                Straight(<<ax>>, 3, <<I("call", va, 3, <<ax>>), I("add", vb, 3, <<va, hole>>), Ret(vb, 3)>>),
                <<hole>>)}

\* A division that is masked away.
DividingProblems ==
  {Problem(Straight(<<ax>>, 3, <<I(op, va, 3, <<ax, 0>>), Ret(va, 3)>>),
           Straight(<<ax>>, 3, <<I("udiv", va, 3, <<ax, ax>>), I("and", vb, 3, <<va, hole>>), Ret(vb, 3)>>),
           <<hole>>) : op \in {"and", "mul"}}

\* What the theorems about the search take for granted of the verifier holds for
\* the problems without divisions.
ASSUME VerifierTrusted ==
  Problems \subseteq SomeProblems => EquivalentMeansWorks /\ WorksMeansEquivalent

-----------------------------------------------------------------------------
(* Batches over two bits, without flags and shifts.                         *)

Subjects == {Straight(<<ax>>, 2, <<I(op, va, 2, <<ax, c>>), Ret(va, 2)>>) :
               op \in {"add", "udiv"}, c \in {1}}
Answers2 ==
  <<Straight(<<ax>>, 2, <<I("sub", va, 2, <<ax, -1>>), Ret(va, 2)>>),
    Straight(<<ax>>, 2, <<I("urem", va, 2, <<ax, 2>>), Ret(va, 2)>>),
    Straight(<<ax>>, 2, <<I("xor", va, 2, <<ax, 1>>), Ret(va, 2)>>),
    Trivial,
    Straight(<<ax>>, 2, <<I("or", va, 2, <<ax, 1>>), Ret(va, 2)>>),
    Straight(<<ax, ay>>, 2, <<Ret(ax, 2)>>),
    Straight(<<ax>>, 2, <<I("call", va, 2, <<ax>>), Ret(va, 2)>>)>>
NoBatch == [subject |-> Trivial, candidates |-> <<>>]
NoBatches == {NoBatch}
Calling == Straight(<<ax>>, 2, <<I("call", va, 2, <<ax>>), Ret(va, 2)>>)
SomeBatches ==
  {NoBatch, [subject |-> Calling, candidates |-> <<Trivial, Calling>>]}
  \cup {[subject |-> s, candidates |-> SubSeq(Answers2, mn[1], mn[2])] :
          s \in Subjects, mn \in {<<1, 3>>, <<1, 4>>, <<3, 7>>}}

\* What the theorem about batches takes for granted of the encodings.
ASSUME EncodingsTrusted == LegacyAgrees

-----------------------------------------------------------------------------
(* Functions for the miner, two bits wide.                                  *)

\* Slices that overlap, with values that are used elsewhere.
Overlapping ==
  {Straight(<<ax, ay>>, 2,
     <<I(o1, va, 2, <<ax, ay>>), I(o2, vb, 2, <<va, ay>>), I(o3, vc, 2, <<vb, e>>), Ret(vc, 2)>>) :
     o1 \in {"add", "or"}, o2 \in {"sub", "and"}, o3 \in {"xor"}, e \in {va, ax}}
Widening ==
  {Straight(<<ax>>, 2, <<Cast("trunc", va, 2, 1, ax), Cast("zext", vb, 1, 2, va), I("add", vc, 2, <<vb, ax>>),
                        I("sub", vd, 2, <<vc, ax>>), Ret(vd, 2)>>)}
\* Slices below branches.
Guarded ==
  {Diamond(<<ax, ay>>, 2, <<Cmp(pred, va, 2, <<ax, c>>), If(va, left, right)>>,
     <<I("and", vb, 2, <<ax, 1>>), I("sub", vc, 2, <<vb, ay>>)>>,
     <<I("and", vd, 2, <<ax, 2>>), I("sub", vf, 2, <<vd, ay>>)>>,
     <<Phi(ve, 2, <<vc, vf>>, <<left, right>>), Ret(ve, 2)>>) :
     pred \in {"ult", "eq"}, c \in {2, ay}}
\* Arms of selects.
Selected ==
  {Straight(<<ax, ay>>, 2,
     <<Cmp(pred, va, 2, <<ax, ay>>), I("sub", vb, 2, <<ax, ay>>), I("and", vc, 2, <<vb, e>>),
       I("select", vd, 2, <<va, vb, vc>>), Ret(vd, 2)>>) :
     pred \in {"eq", "ult"}, e \in {1, ax}}
  \cup
  {Straight(<<ax, ay>>, 2,
     <<Cmp(pred, va, 2, <<ax, ay>>), I("sub", vb, 2, <<ax, ay>>), I("or", vc, 2, <<ax, ay>>),
       I("select", vd, 2, <<va, vb, vc>>), I("xor", ve, 2, <<vd, ax>>), Ret(ve, 2)>>) :
     pred \in {"eq", "ult"}}

NoMinerFunctions == {Trivial}
SomeMinerFunctions == {Trivial} \cup Overlapping \cup Widening \cup Guarded \cup Selected

-----------------------------------------------------------------------------
solverVars == <<synthesisVars, batchVars, minerVars>>

NoMining    == fn = Trivial /\ way = "windows"
NoProblem   == problem = Problem(Trivial, Trivial, <<>>)
NothingToVerify == batch = NoBatch

SolverInit ==
  /\ \/ NoMining /\ NoProblem
     \/ NoMining /\ NothingToVerify
     \/ NoProblem /\ NothingToVerify
  /\ MinerInit /\ SynthesisInit /\ BatchInit

SolverNext ==
  \/ SynthesisNext /\ UNCHANGED <<batchVars, minerVars>>
  \/ SynthesisEnded /\ BatchNext /\ UNCHANGED <<synthesisVars, minerVars>>
  \/ SynthesisEnded /\ path = "done" /\ MinerNext /\ UNCHANGED <<synthesisVars, batchVars>>

SolverSpec == SolverInit /\ [][SolverNext]_solverVars

=============================================================================
