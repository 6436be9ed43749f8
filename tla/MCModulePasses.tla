--------------------------- MODULE MCModulePasses ---------------------------
(***************************************************************************)
(* The module-level passes in the order in which Pipeline::run takes them, *)
(* and their instances for TLC.  The functions are refined between the     *)
(* sorting and the merging (ModuleRun).  The three share no state, so that *)
(* in each behaviour one of them is given something interesting.           *)
(***************************************************************************)
EXTENDS CrossFunction, SccOrder, BlockMerge

CONSTANTS main, fa, fb, k1, k2,      \* functions: the given ones, two clones
          va, vb, low, other,        \* constants and non-constants as arguments
          entry, a, b, c, d          \* blocks

-----------------------------------------------------------------------------
(* Modules for CrossFunction: main calls fa with two arguments and perhaps  *)
(* fb with one; fa and fb pass constants, parameters or others on.          *)

NamesInOrder == <<fa, fb, k1, k2, main>>

Call(n, xs) == [callee |-> n, args |-> xs]
Par(i)      == [param |-> i]
Defined(link, n, cs, ptr, us) ==
  [linkage |-> link, arity |-> n, sized |-> n > 0, calls |-> cs,
   indirect |-> ptr, uses |-> us]

MainCalls ==
  {{Call(fa, <<va, y>>), Call(fa, <<x, vb>>)} : x \in {va, other}, y \in {va, vb, low}}
  \cup {{Call(fa, <<va, vb>>), Call(fb, <<x>>)} : x \in {va, vb}} \cup {{}}
FaCalls ==
  {{}, {Call(fb, <<Par(1)>>)}, {Call(fb, <<va>>)},
   {Call(fb, <<Par(2)>>), Call(fa, <<va, Par(1)>>)},
   {Call(fb, <<other>>), Call(fa, <<Par(1), vb>>)}}
FbCalls == {{}, {Call(fb, <<va>>)}, {Call(fa, <<Par(1), vb>>)}}

\* Whether main calls through pointers, and the addresses used by main and by fa.
Pointers == {<<FALSE, {}, {}>>, <<TRUE, {}, {}>>, <<TRUE, {fa}, {}>>,
             <<FALSE, {fb}, {}>>, <<FALSE, {}, {fb}>>}

TwoFunctions ==
  {(main :> Defined("external", 0, cm, p[1], p[2]))
     @@ (fa :> Defined(la, 2, ca, FALSE, p[3])) @@ (fb :> Defined(lb, 1, cb, FALSE, {})) :
     cm \in MainCalls, ca \in FaCalls, cb \in FbCalls, p \in Pointers,
     la \in Linkages, lb \in {"internal", "weak"}}

\* main passes fa by address to a function outside of the module, and perhaps
\* calls it as well, with a constant.
Callback ==
  {(main :> Defined("external", 0, cs, FALSE, {fa}))
     @@ (fa :> Defined("internal", 1, {}, FALSE, {})) :
     cs \in {{}, {Call(fa, <<va>>)}}}

-----------------------------------------------------------------------------
(* Call graphs for SccOrder: four functions that call at most two others,   *)
(* and the last perhaps itself.                                             *)

Pairs(v)       == {<<u, x>> \in (1..4) \X (1..4) : u # x /\ v \notin {u, x}}
CalleeLists(v) == {<<>>} \cup {<<u>> : u \in 1..4 \ {v}} \cup Pairs(v)
SelfCall(v)    == {<<v>>, <<v, 1>>, <<1, v>>}
FourNodes      == CalleeLists(1) \X {<<>>, <<1>>, <<3>>, <<4, 1>>, <<3, 4>>}
                  \X CalleeLists(3) \X ({<<>>, <<2>>, <<3, 1>>} \cup SelfCall(4))
NoCalls        == {<< <<>> >>}

-----------------------------------------------------------------------------
(* Functions for BlockMerge.  The entry has effects and all blocks can be   *)
(* reached.                                                                 *)

Return     == <<>>
Jump(x)    == [dest_bb |-> x]
Fork(x, y) == [true_bb |-> x, false_bb |-> y]

Rest    == {a, b, c}
NoPhis  == [x \in Blocks |-> <<>>]
Graph(o, t, f, p) == [order |-> o, to |-> t, body |-> f, phi |-> p]

Wirings ==
  {t \in {(entry :> te) @@ (a :> ta) @@ (b :> tb) @@ (c :> tc) :
            te \in {Jump(a), Fork(a, b)},
            ta \in {Jump(x) : x \in Rest} \cup {Fork(b, c)},
            tb \in {Jump(x) : x \in Rest} \cup {Return, Fork(c, a)},
            tc \in {Return, Jump(a), Jump(c)}} :
     Reached(t, Rest, entry) = {entry} \cup Rest}

\* No two blocks without effects lie on a cycle of branches.
NoIdleCycle(t, f) ==
  LET idle == {x \in Rest : f[x] # "effect"}
  IN  \A x \in idle : \A y \in ({t[x][l] : l \in DOMAIN t[x]} \cap idle) \ {x} :
        x \notin Reached(t, idle, y)

WithoutPhis ==
  {Graph(<<entry, a, b, c>>, x[1], (entry :> "effect") @@ x[2], NoPhis) :
     x \in {y \in Wirings \X [Rest -> Bodies] :
             y[2][c] # "pure" /\ NoIdleCycle(y[1], y[2])}}

\* A loop at b with a preheader a, as the front ends write it.
Loop ==
  {Graph(<<entry, a, b, c>>,
         (entry :> Jump(a)) @@ (a :> Jump(b)) @@ (b :> Fork(b, c)) @@ (c :> Return),
         (entry :> "effect") @@ (a :> "none") @@ (b :> "effect") @@ (c :> "pure"),
         [NoPhis EXCEPT ![b] = (a :> a) @@ (b :> b)])}

\* A chain of two branches into an endless loop of two branches.
Spin ==
  {Graph(<<entry, a, b, c, d>>,
         (entry :> Jump(a)) @@ (a :> Jump(b)) @@ (b :> Jump(c)) @@ (c :> Jump(d)) @@ (d :> Jump(c)),
         [x \in Blocks |-> IF x = entry THEN "effect" ELSE "none"], NoPhis)}

-----------------------------------------------------------------------------
(* The passes in their order; what is not of interest is as small as it     *)
(* can be: a module with main alone, one node, one block.                   *)

OnlyMain  == main :> Defined("external", 0, {}, FALSE, {})
OneNode   == << <<>> >>
OneBlock  == Graph(<<entry>>, [x \in Blocks |-> Return], [x \in Blocks |-> "none"], NoPhis)

SomeModules    == TwoFunctions \cup {OnlyMain}
CallbackModule == Callback \cup {OnlyMain}
OneModule      == {OnlyMain}
SomeCallGraphs == FourNodes \cup {OneNode}
OneCallGraph   == {OneNode}
SomeGraphs     == WithoutPhis \cup Loop \cup {OneBlock}
LoopGraph      == Loop \cup {OneBlock}
SpinGraph      == Spin \cup {OneBlock}
OneGraph       == {OneBlock}

\* What the theorem about merging takes for granted holds for the functions of
\* the runs but the one that spins.
ASSUME GraphsMergeable == Graphs \subseteq SomeGraphs => NoIdleCycles

passesVars == <<crossVars, sccVars, mergeVars>>

PassesInit ==
  /\ \/ given = OnlyMain /\ callees = OneNode
     \/ given = OnlyMain /\ order = <<entry>>
     \/ callees = OneNode /\ order = <<entry>>
  /\ CrossInit /\ SccInit /\ MergeInit

PassesNext ==
  \/ CrossNext /\ UNCHANGED <<sccVars, mergeVars>>
  \/ pass = "ended" /\ SccNext /\ UNCHANGED <<crossVars, mergeVars>>
  \/ pass = "ended" /\ SccFinished /\ MergeNext /\ UNCHANGED <<crossVars, sccVars>>

PassesSpec == PassesInit /\ [][PassesNext]_passesVars /\ WF_passesVars(PassesNext)

=============================================================================
