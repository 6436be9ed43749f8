------------------------------ MODULE LoopOpt ------------------------------
(***************************************************************************)
(* Natural loops (src/IR/LoopAnalysis.cpp), and the two loop passes of     *)
(* src/Search/LoopOpt.cpp: hoisting what does not change in a loop, and    *)
(* unrolling a loop of one block whose trip count can be computed.  Both   *)
(* map a function to the optimised one, or to itself where the code        *)
(* returns null.                                                           *)
(***************************************************************************)
EXTENDS ClunkIR

CONSTANTS max_trip,                   \* LoopOptConfig
          max_unrolled_instructions,
          max_simulation_steps

-----------------------------------------------------------------------------
(* find_natural_loops.                                                      *)

\* The blocks from which "to" can be reached without passing through h.
ReachingAvoiding(f, to, h) ==
  LET grow[n \in 0..Len(f.order)] ==
        IF n = 0 THEN {to} \ {h}
        ELSE LET S == grow[n - 1]
             IN  S \cup {p \in ReachableBlocks(f) \ {h} : Successors(f, p) \cap S # {}}
  IN  grow[Len(f.order)]

\* The fixed point that compute_dominators iterates to.
Dominates(f, h, u) == u = h \/ Entry(f) \notin ReachingAvoiding(f, u, h)

Latches(f, h) == {u \in ReachableBlocks(f) : h \in Successors(f, u) /\ Dominates(f, h, u)}
LoopHeaders(f) == {h \in ReachableBlocks(f) : Latches(f, h) # {}}
LoopBlocks(f, h) == {h} \cup UNION {ReachingAvoiding(f, u, h) : u \in Latches(f, h)}

\* The edges into the header from outside; a preheader owns the only one.
OutsideEdges(f, h) ==
  {e \in (ReachableBlocks(f) \ LoopBlocks(f, h)) \X {1, 2} :
     /\ Terminator(f, e[1]).op \in {"br", "condbr"}
     /\ e[2] \in DOMAIN Terminator(f, e[1]).to
     /\ Terminator(f, e[1]).to[e[2]] = h}
HasPreheader(f, h) == Cardinality(OutsideEdges(f, h)) = 1
Preheader(f, h)    == (CHOOSE e \in OutsideEdges(f, h) : TRUE)[1]

-----------------------------------------------------------------------------
(* Loop-invariant code motion.                                              *)

is_speculatable(i) ==
  i.op \in (Binops \ {"udiv", "sdiv", "urem", "srem"}) \cup Predicates \cup Casts \cup {"select"}

loop_defs(f, h) ==
  (UNION {{i.name : i \in Range(f.body[b])} : b \in LoopBlocks(f, h)}) \ {NoName}

\* The instructions of the loop that may move, one at a time.
Invariants(f, h) ==
  {bi \in UNION {{b} \X DOMAIN f.body[b] : b \in LoopBlocks(f, h)} :
     LET i == f.body[bi[1]][bi[2]]
     IN  i.name # NoName /\ is_speculatable(i) /\ Names(i) \cap loop_defs(f, h) = {}}

Pick(S) == CHOOSE x \in S : TRUE

\* Before the terminator of the preheader, without its poison flags.
HoistOne(f, h, b, n) ==
  LET pre == Preheader(f, h)
      i   == [f.body[b][n] EXCEPT !.flags = {}]
  IN  [f EXCEPT !.body[b]   = RemoveAt(f.body[b], n),
                !.body[pre] = Append(Front(f.body[pre]), i) \o <<Last(f.body[pre])>>]

Hoistable(f, g) == {h \in LoopHeaders(f) : HasPreheader(f, h) /\ Invariants(g, h) # {}}
\* The first one of some block.
HoistFirst(g, h, movable) ==
  LET first == CHOOSE bi \in movable : \A c \in movable : c[1] = bi[1] => bi[2] <= c[2]
  IN  HoistOne(g, h, first[1], first[2])
Sweep(g, headers) ==
  IF headers = {} THEN g
  ELSE HoistFirst(g, Pick(headers), Invariants(g, Pick(headers)))
hoist_invariants(f) ==
  OrElse(Iterate(LAMBDA g : Sweep(g, Hoistable(f, g)), f, Len(Instructions(f))), f)

-----------------------------------------------------------------------------
(* Full unrolling of a loop whose trip count is constant.                   *)

LoopPhis(f, h) == SelectSeq(f.body[h], LAMBDA i : i.op = "phi")
LoopBody(f, h) == SelectSeq(Front(f.body[h]), LAMBDA i : i.op # "phi")

\* A loop of one block that branches to itself or to one exit, with its phis
\* in front and each with one value from the preheader and one from the loop.
UnrollableShape(f, h) ==
  /\ LoopBlocks(f, h) = {h} /\ HasPreheader(f, h)
  /\ Terminator(f, h).op = "condbr"
  /\ Cardinality({n \in {1, 2} : Terminator(f, h).to[n] = h}) = 1
  /\ Front(f.body[h]) = LoopPhis(f, h) \o LoopBody(f, h)
  /\ \A p \in Range(LoopPhis(f, h)) : Len(p.to) = 2 /\ Range(p.to) = {Preheader(f, h), h}

FromBlock(p, b)  == p.args[IF p.to[1] = b THEN 1 ELSE 2]
Exit(f, h)       == CHOOSE b \in Successors(f, h) : b # h

\* What is known of an operand while the loop is simulated: <<v>> or <<>>.
ConstIn(env, v, w) == IF ~IsNamed(v) THEN <<Unsigned(v, w)>>
                      ELSE IF v \in DOMAIN env THEN env[v] ELSE <<>>

\* eval_binop and eval_icmp: the value, or nothing for a division by zero and
\* a shift out of range; the quotient of the least number by -1 wraps.
Evaluated(i, xs) ==
  CASE i.op \in {"shl", "lshr", "ashr"} /\ xs[2] >= i.w -> <<>>
    [] i.op \in {"sdiv", "srem"} /\ xs[2] # 0 ->
         LET a == Signed(xs[1], i.w)   b == Signed(xs[2], i.w)
         IN  <<(IF i.op = "sdiv" THEN Quotient(a, b) ELSE Remainder(a, b)) % 2^i.w>>
    [] i.op \in Predicates -> <<IF Holds(i.op, xs[1], xs[2], i.ow) THEN 1 ELSE 0>>
    [] OTHER -> BinopMeaning(i.op, xs[1], xs[2], i.w)

\* The value of i for what is known of its operands, cs.
Simulated(i, cs) ==
  CASE i.op \in Binops \cup Predicates ->
         IF <<>> \in Range(cs) THEN <<>> ELSE Evaluated(i, [n \in DOMAIN cs |-> cs[n][1]])
    [] i.op = "select" -> IF cs[1] = <<>> THEN <<>> ELSE cs[IF cs[1][1] # 0 THEN 2 ELSE 3]
    [] OTHER -> <<>>
Simulate(env, i) ==
  (i.name :> Simulated(i, [n \in DOMAIN i.args |-> ConstIn(env, i.args[n], OperandWidth(i, n))])) @@ env

\* The environments at the end of the turns of the loop.
PhiOf(f, h, x) == CHOOSE p \in Range(LoopPhis(f, h)) : p.name = x
PhiNames(f, h) == {p.name : p \in Range(LoopPhis(f, h))}
PhisFrom(f, h, env, from) ==
  [x \in PhiNames(f, h) |-> ConstIn(env, FromBlock(PhiOf(f, h, x), from), PhiOf(f, h, x).w)] @@ env
NextTurn(f, h, turns) ==
  Append(turns,
    FoldLeft(Simulate,
             IF turns = <<>> THEN PhisFrom(f, h, [x \in {} |-> <<>>], Preheader(f, h))
             ELSE PhisFrom(f, h, Last(turns), h),
             SelectSeq(LoopBody(f, h), LAMBDA i : i.name # NoName)))
Turns(f, h) == Iterate(LAMBDA turns : NextTurn(f, h, turns), <<>>, max_trip + 1)

\* The turns until the condition is known to leave the loop, or 0; conds are
\* what is known of it at the end of each turn.
LeavesBy(t, h, c) == c # <<>> /\ t.to[IF c[1] = 1 THEN 1 ELSE 2] # h
FirstExit(t, h, conds) ==
  LET ks == {k \in DOMAIN conds : conds[k] = <<>> \/ LeavesBy(t, h, conds[k])}
  IN  IF ks = {} \/ conds[Min(ks)] = <<>> THEN 0 ELSE Min(ks)
Conditions(turns, v) == [k \in DOMAIN turns |-> ConstIn(turns[k], v, 1)]
TripCount(f, h) ==
  FirstExit(Terminator(f, h), h, Conditions(Turns(f, h), Terminator(f, h).args[1]))

Affordable(trip, size) ==
  /\ size * (max_trip + 1) <= max_simulation_steps
  /\ trip \in 1..max_trip /\ trip * size <= max_unrolled_instructions
Unrollable(f, h) ==
  UnrollableShape(f, h) /\ Affordable(TripCount(f, h), Len(LoopBody(f, h)))

\* The turns one after the other, with fresh names; "subst" maps the names of
\* the loop to their values in the current turn, and the phis change together.
PhiStep(f, h, subst, first) ==
  [x \in PhiNames(f, h) |->
     IF first THEN FromBlock(PhiOf(f, h, x), Preheader(f, h))
     ELSE Value(subst, FromBlock(PhiOf(f, h, x), h))] @@ subst
CloneOne(acc, i, x) ==
  [out   |-> Append(acc.out, [Resolved(i, acc.subst) EXCEPT !.name = x]),
   used  |-> acc.used + (IF x = NoName THEN 0 ELSE 1),
   subst |-> IF x = NoName THEN acc.subst ELSE (i.name :> x) @@ acc.subst]
CloneTurn(f, h, acc, k, names) ==
  FoldLeft(LAMBDA a, i : CloneOne(a, i, IF i.name = NoName THEN NoName ELSE names[a.used + 1]),
           [acc EXCEPT !.subst = PhiStep(f, h, acc.subst, k = 1)], LoopBody(f, h))
InPlace(f, h, done) ==
  [f EXCEPT !.body = [b \in Blocks(f) |->
     IF b = h THEN Append(done.out, [Terminator(f, h) EXCEPT !.op = "br", !.args = <<>>,
                                                             !.to = <<Exit(f, h)>>])
     ELSE [n \in DOMAIN f.body[b] |-> Resolved(f.body[b][n], done.subst)]]]
UnrollOne(f, h) ==
  InPlace(f, h, FoldLeft(LAMBDA acc, k : CloneTurn(f, h, acc, k, FreshNames(f)),
                         [out |-> <<>>, used |-> 0, subst |-> [x \in {} |-> 0]],
                         [k \in 1..TripCount(f, h) |-> k]))

UnrollNext(g, headers) == IF headers = {} THEN g ELSE UnrollOne(g, Pick(headers))
unroll_constant_loops(f) ==
  OrElse(Iterate(LAMBDA g : UnrollNext(g, {h \in LoopHeaders(g) : Unrollable(g, h)}),
                 f, Cardinality(LoopHeaders(f))), f)

=============================================================================
