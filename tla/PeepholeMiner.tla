--------------------------- MODULE PeepholeMiner ---------------------------
(***************************************************************************)
(* The peephole miner (src/Search/PeepholeMiner.cpp): it lifts slices of   *)
(* integer operations out of the blocks of a function, looks for something *)
(* cheaper that the prover finds equivalent to a slice, perhaps only under *)
(* the conditions under which the slice is observed, and splices it back.  *)
(* An argument of a lifted slice keeps the name of the value it stands for *)
(* (argK in the program).  The score of a function is not modelled: what   *)
(* is cheaper, and which win is returned first, is left open, and so is    *)
(* the time: a search may end before any of its jobs.                      *)
(***************************************************************************)
EXTENDS SMTEncoder

CONSTANTS max_length, max_constants, min_window_instructions, max_window_instructions,
          harvest_max_depth, max_windows_per_function, trust_unverified_slices,   \* MinerConfig
          kOps, kPreds,     \* the operations and predicates the enumerator emits
          Temps,            \* names for the instructions of a candidate
          MinerFunctions    \* the functions it is given

VARIABLES fn, way, mining, jobs, out, consumed, rewritten
minerVars == <<fn, way, mining, jobs, out, consumed, rewritten>>

Sliceable == Binops \cup Predicates \cup Casts \cup {"select"}
is_sliceable_op(i) == i.op \in Sliceable

Op(op, n, w, ow, as) ==
  [op |-> op, name |-> n, w |-> w, ow |-> ow, args |-> as, to |-> <<>>, flags |-> {}]
OneBlock(args, code, v, w) ==
  [args |-> args, order |-> <<NoName>>,
   body |-> (NoName :> Append(code, Op("ret", NoName, w, w, <<v>>)))]
WidthIn(f, x) ==
  IF x \in ArgNames(f) THEN (CHOOSE a \in Range(f.args) : a.name = x).w
  ELSE (CHOOSE i \in Range(Instructions(f)) : i.name = x).w

-----------------------------------------------------------------------------
(* Slices: [block, root, instrs, live_ins].                                 *)

\* The root and what it uses, as far as admitted and up to cap, depth first.
Grown(code, root, admitted, cap) ==
  LET Def(x) == CHOOSE i \in Range(code) : i.name = x
      Push(s, v) == IF v \in admitted \ s.names /\ Cardinality(s.names) < cap
                    THEN [names |-> s.names \cup {v}, stack |-> Append(s.stack, v)] ELSE s
      walk[n \in 0..Len(code)] ==
        IF n = 0 THEN [names |-> {root}, stack |-> <<root>>]
        ELSE LET s == walk[n - 1]
             IN  IF s.stack = <<>> THEN s
                 ELSE FoldLeft(Push, [s EXCEPT !.stack = Front(s.stack)], Def(Last(s.stack)).args)
  IN  walk[Len(code)].names

\* The names that a sequence of instructions uses and does not define.
LiveIns(code) ==
  LET Used(s, v) == IF IsNamed(v) /\ v \notin Range(s) /\ \A i \in Range(code) : i.name # v
                    THEN Append(s, v) ELSE s
      UsedBy(s, i) == FoldLeft(Used, s, i.args)
  IN  FoldLeft(UsedBy, <<>>, code)

Slice(f, b, root, names) ==
  LET code == SelectSeq(f.body[b], LAMBDA i : i.name \in names)
  IN  [block |-> b, root |-> root, instrs |-> code, live_ins |-> LiveIns(code)]
Seeds(f, b)     == {n \in DOMAIN f.body[b] : f.body[b][n].w >= 2 /\ is_sliceable_op(f.body[b][n])}
Before(f, b, n) == {f.body[b][m].name : m \in {k \in 1..(n - 1) : is_sliceable_op(f.body[b][k])}}

UseCount(f, x) ==
  MapThenSumSet(LAMBDA n : Cardinality({k \in DOMAIN Instructions(f)[n].args :
                                          Instructions(f)[n].args[k] = x}),
                DOMAIN Instructions(f))
UserCount(f, x) == Cardinality({n \in DOMAIN Instructions(f) : x \in Names(Instructions(f)[n])})

\* Only values with a single use are folded in: they go with the slice.
extract_window(f, b, n) ==
  LET root == f.body[b][n].name
      once_used == {x \in Before(f, b, n) : UseCount(f, x) = 1}
  IN  Slice(f, b, root, Grown(f.body[b], root, once_used, max_window_instructions))

harvest_slice_impl(f, b, n, max_depth) ==
  LET root == f.body[b][n].name
  IN  Slice(f, b, root, Grown(f.body[b], root, Before(f, b, n), max_depth))

\* The slice as a function of its live-ins and of others.
build_mini_function(f, s, live_ins) ==
  OneBlock([n \in DOMAIN live_ins |-> [name |-> live_ins[n], w |-> WidthIn(f, live_ins[n])]],
           s.instrs, s.root, Last(s.instrs).w)

-----------------------------------------------------------------------------
(* Conditions under which a slice is observed.                              *)

\* The blocks above b, as long as there is one predecessor and no cycle.
PredecessorChain(f, b) ==
  LET up[n \in 0..Len(f.order)] ==
        IF n = 0 THEN <<b>>
        ELSE LET c == up[n - 1]   ps == Predecessors(f, Last(c))
             IN  IF Cardinality(ps) = 1 /\ ps \cap Range(c) = {}
                 THEN Append(c, CHOOSE x \in ps : TRUE) ELSE c
  IN  up[Len(f.order)]

\* Mutant: the condition of the other edge.
dominating_conditions_Swapped(f, b) ==
  LET chain == PredecessorChain(f, b)
      branch(k) == Terminator(f, chain[k])
  IN  {[test |-> branch(k).args[1], negated |-> branch(k).to[1] = chain[k - 1]] :
         k \in {m \in 2..Len(chain) : branch(m).op = "condbr" /\ branch(m).to[1] # branch(m).to[2]}}

dominating_conditions(f, b) ==
  LET chain == PredecessorChain(f, b)
      branch(k) == Terminator(f, chain[k])
  IN  {[test |-> branch(k).args[1], negated |-> branch(k).to[2] = chain[k - 1]] :
         k \in {m \in 2..Len(chain) : branch(m).op = "condbr" /\ branch(m).to[1] # branch(m).to[2]}}

\* A condition on the live-ins; 0 stands for the position of a constant.
map_conditions_to_args(f, conditions, live_ins) ==
  LET Position(v) == IF v \in Range(live_ins)
                     THEN CHOOSE n \in DOMAIN live_ins : live_ins[n] = v ELSE 0
      Mapped(v) == ~IsNamed(v) \/ Position(v) # 0
      Const(v)  == IF IsNamed(v) THEN 0 ELSE v
      On(pred, l, r, negated) ==
        [predicate |-> pred, negated |-> negated, lhs_arg |-> Position(l), lhs_const |-> Const(l),
         rhs_arg |-> Position(r), rhs_const |-> Const(r)]
      icmps(x) == {i \in Range(Instructions(f)) : i.name = x /\ i.op \in Predicates}
      Sides(c) == IF icmps(c.test) = {}
                  THEN On("eq", c.test, IF c.negated THEN 0 ELSE 1, FALSE)
                  ELSE LET i == CHOOSE j \in icmps(c.test) : TRUE
                       IN  On(i.op, i.args[1], i.args[2], c.negated)
      Ends(c) == IF icmps(c.test) = {} THEN {c.test}
                 ELSE Range((CHOOSE j \in icmps(c.test) : TRUE).args)
  IN  {Sides(c) : c \in {d \in conditions : /\ \A v \in Ends(d) : Mapped(v)
                                            /\ \E v \in Ends(d) : Position(v) # 0}}

Job(f, s, live_ins, assumptions, condition, negated) ==
  [slice |-> s, mini |-> build_mini_function(f, s, live_ins), assumptions |-> assumptions,
   condition |-> condition, negated |-> negated]

\* The arm of a select that nothing else uses, under the select's condition; a
\* live-in of the arm remains one in the chain that computes the condition.
ConditionChain(code, c, live_ins) ==
  LET links == {i.name : i \in {j \in Range(code) : is_sliceable_op(j)}} \ Range(live_ins)
      names == Grown(code, c, links, harvest_max_depth)
  IN  IF c \in links THEN SelectSeq(code, LAMBDA i : i.name \in names) ELSE <<>>
Joined(xs, ys) == xs \o SelectSeq(ys, LAMBDA v : v \notin Range(xs))
Returning(g, code, c) == [g EXCEPT !.body = NoName :> Append(code, Op("ret", NoName, 1, 1, <<c>>))]
ArmJob(f, h, chain, c, live_ins, true_arm) ==
  Job(f, h, live_ins, {}, <<Returning(build_mini_function(f, h, live_ins), chain, c)>>, ~true_arm)
ArmUnder(f, h, chain, c, true_arm) ==
  ArmJob(f, h, chain, c, Joined(h.live_ins, IF chain = <<>> THEN <<c>> ELSE LiveIns(chain)), true_arm)
ArmSlice(f, b, h, c, true_arm) ==
  ArmUnder(f, h, ConditionChain(f.body[b], c, h.live_ins), c, true_arm)

harvest_select_arm(f, b, sel, true_arm, max_depth) ==
  LET arm == sel.args[IF true_arm THEN 2 ELSE 3]
      at  == {n \in Seeds(f, b) : f.body[b][n].name = arm}
  IN  IF UserCount(f, arm) # 1 \/ ~IsNamed(sel.args[1]) THEN {}
      ELSE {ArmSlice(f, b, harvest_slice_impl(f, b, n, max_depth), sel.args[1], true_arm) : n \in at}

-----------------------------------------------------------------------------
(* mine_function: candidates, shortest first, and what the prover says.     *)

SourceConstants(g) == {v \in UNION {Range(i.args) : i \in Range(Instructions(g))} : ~IsNamed(v)}
constant_pool(g, bw) ==
  LET all == SetToSeq(SourceConstants(g)) \o <<0, 1, 2, -1, -2>>
               \o FlattenSeq([k \in 1..bw |-> <<2^(k - 1), 2^(k - 1) - 1, -(2^(k - 1))>>])
      New(s, c) == IF c \in Range(s) THEN s ELSE Append(s, c)
      distinct == FoldLeft(New, <<>>, all)
  IN  SubSeq(distinct, 1, Min({Len(distinct), max_constants}))

MainWidth(g) == ReturnWidth(g)
LiveArgs(g)  == SelectSeq(g.args, LAMBDA a : \E i \in Range(Instructions(g)) : a.name \in Names(i))
LeavesOf(g) ==
  LET main == SelectSeq(LiveArgs(g), LAMBDA a : a.w = MainWidth(g))
  IN  [n \in DOMAIN main |-> main[n].name] \o constant_pool(g, MainWidth(g))

is_commutative(op) == op \in {"add", "mul", "and", "or", "xor"}

\* Mutant: nothing is computed from 0 on the left.
prune_binop_NoNegation(op, l, r, bw) ==
  LET c(v) == Signed(v, bw)
      unit(v) == c(v) = 0 \/ (op = "mul" /\ c(v) = 1) \/ (op \in {"and", "or"} /\ c(v) = -1)
  IN  \/ ~IsNamed(l) /\ ~IsNamed(r)
      \/ l = r /\ op \in {"sub", "xor", "and", "or"}
      \/ ~IsNamed(r) /\ (unit(r) \/ (op \in {"shl", "lshr", "ashr"} /\ r \notin 0..(bw - 1)))
      \/ ~IsNamed(l) /\ unit(l)

\* Forms for which something as short is tried too.
prune_binop(op, l, r, bw) ==
  LET c(v) == Signed(v, bw)
      unit(v) == (op = "mul" /\ c(v) = 1) \/ (op \in {"and", "or"} /\ c(v) = -1)
  IN  \/ ~IsNamed(l) /\ ~IsNamed(r)
      \/ l = r /\ op \in {"sub", "xor", "and", "or"}
      \/ ~IsNamed(r) /\ (c(r) = 0 \/ unit(r) \/ (op \in {"shl", "lshr", "ashr"} /\ r \notin 0..(bw - 1)))
      \/ ~IsNamed(l) /\ ((c(l) = 0 /\ op # "sub") \/ unit(l))

\* A live-in of another width, cast to the main one.
cast_seeds(g) ==
  LET bw == MainWidth(g)
  IN  {Op(op, Temps[1], bw, a.w, <<a.name>>) :
         op \in {"zext", "sext"}, a \in {x \in Range(LiveArgs(g)) : x.w < bw}}
      \cup {Op("trunc", Temps[1], bw, a.w, <<a.name>>) :
              a \in {x \in Range(LiveArgs(g)) : x.w > bw}}

\* Programs of length L that begin with "first" and use all they compute.
Tried(s, pool, bw) ==
  /\ ~prune_binop(s.op, s.args[1], s.args[2], bw)
  /\ is_commutative(s.op) =>
       \E i, j \in DOMAIN pool : i <= j /\ s.args = <<pool[i], pool[j]>>
Steps(code, pool, bw) ==
  {s \in {Op(op, Temps[Len(code) + 1], bw, bw, <<l, r>>) :
            op \in kOps, l \in Range(pool), r \in Range(pool)} : Tried(s, pool, bw)}
OneLonger(codes, leaves, bw) ==
  UNION {{Append(code, s) : s \in Steps(code, leaves \o [n \in DOMAIN code |-> code[n].name], bw)} :
           code \in codes}
Connected(code) ==
  \A n \in 1..(Len(code) - 1) : \E m \in (n + 1)..Len(code) : code[n].name \in Names(code[m])
enumerate(leaves, bw, first, L) ==
  {code \in Iterate(LAMBDA codes : OneLonger(codes, leaves, bw), {first}, L - Len(first)) : Connected(code)}

synth_compare_select(g) ==
  LET bw == MainWidth(g)   pool == Range(LeavesOf(g)) \cap (ArgNames(g) \cup {0, -1} \cup SourceConstants(g))
  IN  {<<Op(pred, Temps[1], 1, bw, <<a, b>>), Op("select", Temps[2], bw, bw, <<Temps[1], t, e>>)>> :
         pred \in kPreds, a \in pool, b \in pool, t \in pool, e \in pool}

build_function(g, code) == OneBlock(g.args, code, Last(code).name, MainWidth(g))
CandidatesOf(g) ==
  {OneBlock(g.args, <<>>, v, MainWidth(g)) : v \in Range(LeavesOf(g))}
  \cup {build_function(g, code) : code \in
          UNION {enumerate(LeavesOf(g), MainWidth(g), first, L) :
                   first \in {<<>>} \cup {<<s>> : s \in cast_seeds(g)}, L \in 1..max_length}}
  \cup (IF max_length >= 2 THEN {build_function(g, code) : code \in synth_compare_select(g)} ELSE {})

Canonical(g, ins) == [n \in DOMAIN ins |-> Signed(ins[n], g.args[n].w)]
assumptions_hold(job, ins) ==
  /\ \A a \in job.assumptions : Assumption(job.mini, a, [n \in DOMAIN ins |-> Unsigned(ins[n], job.mini.args[n].w)])
  /\ job.condition # <<>> =>
       LET c == interpret(job.condition[1], ins) IN c # <<>> /\ (c[1] % 2 = 1) # job.negated
TestsOf(job) ==
  {ins \in {Canonical(job.mini, [n \in DOMAIN job.mini.args |-> v]) : v \in {0, 1, 2, 3, -1, -2}} :
     assumptions_hold(job, ins)}
passes_concrete_tests(job, g) ==
  \A ins \in TestsOf(job) :
    LET want == interpret(job.mini, ins)   got == interpret(g, ins)   bw == MainWidth(job.mini)
    IN  want # <<>> /\ got # <<>> => Unsigned(got[1], bw) = Unsigned(want[1], bw)

\* op arg ?, for the first argument of the main width.
cegis_templates(g, hole) ==
  LET main == SelectSeq(LiveArgs(g), LAMBDA a : a.w = MainWidth(g))
      first == IF main = <<>> THEN {} ELSE {main[1].name}
  IN  {build_function(g, <<Op(op, Temps[1], MainWidth(g), MainWidth(g), <<x, hole>>)>>) : op \in kOps, x \in first}
      \cup {build_function(g, <<Op("sub", Temps[1], MainWidth(g), MainWidth(g), <<hole, x>>)>>) : x \in first}
mine_with_cegis(g) ==
  {t \in UNION {cegis_templates(g, c) : c \in 0..(2^MainWidth(g) - 1)} : Answer("Equivalent") \in verify(g, t)}

\* What may be found for a job; a slice without live-ins is not looked at.
mine_function(job) ==
  LET Proven(g) == Answer("Equivalent") \in verify_with_assumptions(job.mini, g, job.assumptions,
                                                                   job.condition, job.negated)
  IN  IF LiveArgs(job.mini) = <<>> THEN {}
      ELSE {g \in CandidatesOf(job.mini) : passes_concrete_tests(job, g) /\ Proven(g)}
           \cup mine_with_cegis(job.mini)

-----------------------------------------------------------------------------
(* Splicing.                                                                *)

\* The result takes the name of the root, or the uses of the root take the
\* result; what is still used outside of the slice stays.
splice_inplace(o, s, g) ==
  LET body   == Front(g.body[NoName])
      result == Last(g.body[NoName]).args[1]
      is_body == \E i \in Range(body) : i.name = result
      inner  == {i.name : i \in Range(s.instrs)} \ {s.root}
      names  == inner \cup {s.root}
      renamed == [x \in {i.name : i \in Range(body)} |->
                    IF x = result THEN s.root
                    ELSE FreshNames(o)[CHOOSE n \in DOMAIN body : body[n].name = x]]
      repl   == [n \in DOMAIN body |-> [Resolved(body[n], renamed) EXCEPT !.name = renamed[body[n].name]]]
      Uses(S) == (UNION {Names(i) : i \in S}) \cap inner
      kept[n \in 0..Len(s.instrs)] ==
        IF n = 0 THEN Uses({i \in Range(Instructions(o)) : i.name \notin names})
        ELSE kept[n - 1] \cup Uses({i \in Range(s.instrs) : i.name \in kept[n - 1]})
      stays  == kept[Len(s.instrs)]
      Rebuild(code, i) ==
        CASE i.name = s.root -> IF is_body THEN code \o repl ELSE code
          [] i.name \in inner \ stays -> code
          [] OTHER -> Append(code, i)
      rebuilt == [o EXCEPT !.body[s.block] = FoldLeft(Rebuild, <<>>, o.body[s.block])]
      collapse == s.root :> result
  IN  IF is_body THEN rebuilt
      ELSE [rebuilt EXCEPT !.body = [b \in DOMAIN rebuilt.body |->
              [n \in DOMAIN rebuilt.body[b] |-> Resolved(rebuilt.body[b][n], collapse)]]]

-----------------------------------------------------------------------------
(* mine_and_rewrite, harvest_and_rewrite and mine_with_path_conditions.     *)

MinerInit ==
  /\ fn \in MinerFunctions /\ way \in {"windows", "harvest", "conditions"}
  /\ mining = "extract" /\ jobs = {} /\ out = fn /\ consumed = {} /\ rewritten = <<>>

Windows(f) ==
  {Job(f, s, s.live_ins, {}, <<>>, FALSE) :
     s \in {w \in UNION {{extract_window(f, b, n) : n \in Seeds(f, b)} : b \in Blocks(f)} :
              Len(w.instrs) >= Max({2, min_window_instructions})}}

Harvested(f, use_pcs) ==
  LET Of(b) == SelectSeq([n \in DOMAIN f.body[b] |->
                            IF n \in Seeds(f, b) THEN harvest_slice_impl(f, b, n, harvest_max_depth)
                            ELSE Slice(f, b, NoName, {})],
                         LAMBDA s : Len(s.instrs) >= Max({1, min_window_instructions}))
      slices == FlattenSeq([n \in DOMAIN f.order |-> Of(f.order[n])])
      Under(s) == IF use_pcs
                  THEN map_conditions_to_args(f, dominating_conditions(f, s.block), s.live_ins) ELSE {}
  IN  {Job(f, s, s.live_ins, Under(s), <<>>, FALSE) :
         s \in Range(SubSeq(slices, 1, Min({Len(slices), max_windows_per_function})))}

SelectArms(f) ==
  {j \in UNION {UNION {harvest_select_arm(f, b, sel, arm, depth) :
                         sel \in {i \in Range(f.body[b]) : i.op = "select"},
                         arm \in BOOLEAN, depth \in {1, harvest_max_depth}} : b \in Blocks(f)} : TRUE}

Extract ==
  /\ mining = "extract"
  /\ jobs' = CASE way = "windows" -> Windows(fn)
               [] way = "harvest" -> Harvested(fn, FALSE)
               [] way = "conditions" ->
                    IF Harvested(fn, TRUE) = {} THEN {} ELSE SelectArms(fn) \cup Harvested(fn, TRUE)
  /\ mining' = IF jobs' = {} THEN "done" ELSE "mine"
  /\ UNCHANGED <<fn, way, out, consumed, rewritten>>

\* Select arms come first, the smallest of them before; then the largest slices.
NextJob(j) ==
  LET size(k) == Len(k.slice.instrs)
      arms == {k \in jobs : k.condition # <<>>}
  IN  /\ j \in jobs
      /\ IF arms # {} THEN j \in arms /\ \A k \in arms : size(j) <= size(k)
         ELSE \A k \in jobs : size(j) >= size(k)
NamesOf(j) == {i.name : i \in Range(j.slice.instrs)}

MineJob ==
  /\ mining = "mine" /\ jobs # {}
  /\ \E j \in jobs :
       /\ NextJob(j)
       /\ jobs' = jobs \ {j}
       /\ \/ UNCHANGED <<out, consumed>>              \* nothing found, or no gain
          \/ /\ NamesOf(j) \cap consumed = {}
             /\ \E g \in mine_function(j) :
                  LET trial == splice_inplace(out, j.slice, g)
                  IN  /\ way # "windows" => Validated(trial)
                      /\ out' = trial
                      /\ consumed' = consumed \cup NamesOf(j)
  /\ UNCHANGED <<fn, way, mining, rewritten>>

OutOfTime ==
  /\ mining = "mine" /\ jobs # {}
  /\ jobs' = {}
  /\ UNCHANGED <<fn, way, mining, out, consumed, rewritten>>

\* The whole rewrite is proven again; "Unknown" may be accepted.
Gate ==
  /\ mining = "mine" /\ jobs = {}
  /\ mining' = "done"
  /\ IF consumed = {} \/ ~Validated(out) THEN rewritten' = <<>>
     ELSE \E a \in verify(fn, out) :
            rewritten' = IF \/ a.status = "Equivalent"
                            \/ a.status = "Unknown" /\ trust_unverified_slices
                         THEN <<out>> ELSE <<>>
  /\ UNCHANGED <<fn, way, jobs, out, consumed>>

MinerNext == Extract \/ MineJob \/ OutOfTime \/ Gate

-----------------------------------------------------------------------------
MinerTypeOK ==
  /\ fn \in MinerFunctions /\ mining \in {"extract", "mine", "done"}
  /\ way \in {"windows", "harvest", "conditions"}
  /\ consumed \subseteq Defined(fn) /\ Len(rewritten) <= 1

\* Slices are proven one by one, some only under the conditions under which they
\* are observed, and later slices are spliced into what earlier splices left:
\* as long as the result is well formed, it still means what the function
\* meant, before the whole is proven again.
SplicesSound == Validated(out) => Refines(out, fn, InputSpace(fn))

\* The enumerator leaves out only operations for which one of the leaves, which
\* it tries first, will do.
LeafWillDo(g, leaves, bw, op, l, r) ==
  \E v \in leaves : Refines(OneBlock(g.args, <<>>, v, bw),
                            build_function(g, <<Op(op, Temps[1], bw, bw, <<l, r>>)>>), InputSpace(g))
PruningLosesNothing ==
  \A j \in jobs : NextJob(j) /\ out = fn =>
    \A op \in kOps : \A l, r \in Range(LeavesOf(j.mini)) :
      prune_binop(op, l, r, MainWidth(j.mini)) =>
        LeafWillDo(j.mini, Range(LeavesOf(j.mini)), MainWidth(j.mini), op, l, r)

=============================================================================
