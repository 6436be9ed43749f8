--------------------------- MODULE CrossFunction ----------------------------
(***************************************************************************)
(* CrossFunctionPasses::run (src/Search/CrossFunctionPasses.cpp) on a      *)
(* module: dead-function elimination (DFE), interprocedural constant       *)
(* propagation (IPCP), and elimination again, with the facts they take     *)
(* from CallGraph::build (src/Analysis/CallGraph.cpp).                     *)
(*                                                                         *)
(* A function is its linkage, its number of integer arguments, its calls,  *)
(* whether it calls through pointers, the functions whose address it uses  *)
(* other than to call them by name (passed to a call, stored, returned),   *)
(* and whether its size admits it to IPCP.  An argument of a call is a     *)
(* constant, a parameter of the caller passed on, or computed.  The passes *)
(* never read the addresses used: CallGraph::build counts direct calls     *)
(* only (src/Analysis/CallGraph.cpp:54-69, 328).  What the functions do    *)
(* depends on them all the same.                                           *)
(***************************************************************************)
EXTENDS Naturals, FiniteSets, Sequences, SequencesExt

CONSTANTS Names,       \* names of functions, as a sequence in their order
          Main,        \* the name "main"
          Modules,     \* the modules to start from
          Values,      \* constants passed to arguments
          Lowest,      \* INT64_MIN, one of Values, the mark of a non-constant
          Computed,    \* an argument that is neither constant nor a parameter
          MaxArity,    \* the most integer arguments of a function
          MaxClones    \* ipcp_max_total_clones

Arguments == 1..MaxArity                       \* positions of arguments
Linkages  == {"external", "weak", "internal"}  \* weak: all visible, not External
Parameter == [param : Arguments]               \* the caller's own parameter
Actual    == Values \cup Parameter \cup {Computed}
CallsType == [callee : ToSet(Names), args : UNION {[1..n -> Actual] : n \in Arguments \cup {0}}]
Function  == [linkage : Linkages, arity : Arguments \cup {0}, sized : BOOLEAN,
              calls : SUBSET CallsType, indirect : BOOLEAN, uses : SUBSET ToSet(Names)]

\* A call of a function of the module passes all of its arguments, as the verifier
\* of any front end demands: an argument left out would have no value.
WellCalled(ms) ==
  \A f \in DOMAIN ms : \A c \in ms[f].calls :
    c.callee \in DOMAIN ms => 1..ms[c.callee].arity \subseteq DOMAIN c.args
Typed(ms) ==
  DOMAIN ms \subseteq ToSet(Names) /\ ms \in [DOMAIN ms -> Function] /\ WellCalled(ms)

CrossAssumption ==
  /\ Names \in Seq(ToSet(Names))
  /\ IsFiniteSet(Values) /\ Lowest \in Values /\ Computed \notin Values
  /\ Parameter \cap (Values \cup {Computed}) = {}
  /\ MaxArity \in Nat \ {0} /\ MaxClones \in Nat
  /\ \A m \in Modules : Typed(m)
ASSUME CrossAssumption

VARIABLES
  given,    \* the module as it was given
  fns,      \* name -> function; the module's definitions
  made,     \* name -> [of, at, value]: what a clone is a clone of
  dead,     \* functions found dead and not yet removed
  cands,    \* candidates not yet processed: <<name, position, value>>
  clones,   \* total_clones
  pass      \* "dfe", "ipcp", "dfe again" or "ended"

crossVars == <<given, fns, made, dead, cands, clones, pass>>

Functions  == DOMAIN fns
CallsOf(f) == fns[f].calls
CallsTo(f) == UNION {{c \in CallsOf(g) : c.callee = f} : g \in Functions}
Callers(f) == {g \in Functions : \E c \in CallsOf(g) : c.callee = f}

CrossInit ==
  /\ given \in Modules /\ fns = given
  /\ made = <<>> /\ dead = {} /\ cands = {} /\ clones = 0
  /\ pass = "dfe"

-----------------------------------------------------------------------------
(* Dead-function elimination. *)

\* Node::is_entry, when the call graph is built without a list of entries.
IsEntry(f) == fns[f].linkage = "external" \/ f = Main

\* externally_visible
Visible(f) == fns[f].linkage # "internal" \/ f = Main

\* dead_functions()
Dead == {f \in Functions : ~IsEntry(f) /\ ~Visible(f) /\ Callers(f) = {}}

FindDead ==
  /\ pass \in {"dfe", "dfe again"} /\ dead = {} /\ Dead # {}
  /\ dead' = Dead
  /\ UNCHANGED <<given, fns, made, cands, clones, pass>>

RemoveDead ==
  /\ \E f \in dead :
       /\ fns'  = [g \in Functions \ {f} |-> fns[g]]
       /\ dead' = dead \ {f}
  /\ UNCHANGED <<given, made, cands, clones, pass>>

-----------------------------------------------------------------------------
(* Constant propagation. *)

\* Anything that is not a constant is noted as INT64_MIN.
Noted(a) == IF a \in Values THEN a ELSE Lowest

\* Mutant: arguments that are not constant leave no mark.
PerArg_ConstantsOnly(f, i) ==
  {c.args[i] : c \in {d \in CallsTo(f) : i \in DOMAIN d.args /\ d.args[i] \in Values}}

\* collect_argument_constants(): what the callers pass to argument i of f.
PerArg(f, i) == {Noted(c.args[i]) : c \in {d \in CallsTo(f) : i \in DOMAIN d.args}}

\* has_unknown_caller
UnknownCaller(f) ==
  \/ \E g \in Functions : fns[g].indirect
  \/ IsEntry(f) /\ CallsTo(f) # {}

\* All callers pass v, which is not the mark.
Uniform(f, i, v) ==
  /\ ~UnknownCaller(f)
  /\ i \in 1..fns[f].arity /\ v # Lowest /\ PerArg(f, i) = {v}

\* find_ipcp_candidates()
Candidates ==
  {x \in {f \in Functions : fns[f].sized} \X Arguments \X Values :
     Uniform(x[1], x[2], x[3])}

StartIpcp ==
  /\ pass = "dfe" /\ dead = {} /\ Dead = {}
  /\ cands' = Candidates
  /\ pass' = "ipcp"
  /\ UNCHANGED <<given, fns, made, dead, clones>>

\* By name, then by position; one value per position.
Rank(f) == CHOOSE k \in 1..Len(Names) : Names[k] = f
Earlier(x, y) == \/ Rank(x[1]) < Rank(y[1])
                 \/ x[1] = y[1] /\ x[2] <= y[2]
First == CHOOSE x \in cands : \A y \in cands : Earlier(x, y)

\* rewrite_callers()
Redirected(c, f, g) == IF c.callee = f THEN [c EXCEPT !.callee = g] ELSE c

\* substitute_arg_uses() on an argument of a call.
Bound(a, i, v) == IF a = [param |-> i] THEN v ELSE a

\* clone_function() and the substitution of v for parameter i.
Clone(f, i, v) ==
  [fns[f] EXCEPT
     !.linkage = "internal",
     !.calls = {[c EXCEPT !.args = [k \in DOMAIN c.args |-> Bound(c.args[k], i, v)]] :
                  c \in fns[f].calls}]

\* The clone's name is made unique among the functions, declared ones included,
\* so that neither a call nor an address names it yet; which unused name it is does
\* not matter.
Called     == UNION {{c.callee : c \in CallsOf(f)} : f \in Functions}
Addressed  == UNION {fns[f].uses : f \in Functions}
FreshNames == ToSet(Names) \ (Functions \cup Called \cup Addressed \cup {Main})

\* The module with clone g of f, all calls of f redirected to g.
WithClone(f, i, v, g) ==
  [h \in Functions \cup {g} |->
     LET body == IF h = g THEN Clone(f, i, v) ELSE fns[h]
     IN  [body EXCEPT !.calls = {Redirected(c, f, g) : c \in body.calls}]]

Specialise ==
  LET f == First[1]  i == First[2]  v == First[3] IN
  /\ pass = "ipcp" /\ cands # {} /\ clones < MaxClones
  /\ Uniform(f, i, v)
  /\ \E g \in FreshNames :
       /\ fns' = WithClone(f, i, v, g)
       /\ made' = [h \in DOMAIN made \cup {g} |->
                     IF h = g THEN [of |-> f, at |-> i, value |-> v] ELSE made[h]]
  /\ clones' = clones + 1
  /\ cands' = cands \ {First}
  /\ UNCHANGED <<given, dead, pass>>

\* The callers changed in the meantime.
SkipCandidate ==
  /\ pass = "ipcp" /\ cands # {} /\ clones < MaxClones
  /\ ~Uniform(First[1], First[2], First[3])
  /\ cands' = cands \ {First}
  /\ UNCHANGED <<given, fns, made, dead, clones, pass>>

EndIpcp ==
  /\ pass = "ipcp" /\ (cands = {} \/ clones = MaxClones)
  /\ cands' = {}
  /\ pass' = "dfe again"
  /\ UNCHANGED <<given, fns, made, dead, clones>>

EndPasses ==
  /\ pass = "dfe again" /\ dead = {} /\ Dead = {}
  /\ pass' = "ended"
  /\ UNCHANGED <<given, fns, made, dead, cands, clones>>

CrossDone == pass = "ended" /\ UNCHANGED crossVars

CrossNext ==
  \/ FindDead \/ RemoveDead
  \/ StartIpcp \/ Specialise \/ SkipCandidate \/ EndIpcp
  \/ EndPasses \/ CrossDone

CrossSpec == CrossInit /\ [][CrossNext]_crossVars

-----------------------------------------------------------------------------
CrossTypeOK ==
  /\ given \in Modules /\ Typed(fns)
  /\ DOMAIN made \subseteq ToSet(Names)
  /\ dead \subseteq Functions
  /\ cands \subseteq ToSet(Names) \X Arguments \X Values
  /\ clones \in 0..MaxClones /\ Cardinality(DOMAIN made) = clones
  /\ pass \in {"dfe", "ipcp", "dfe again", "ended"}

-----------------------------------------------------------------------------
(* What a module may do, independently of how its functions are named.     *)

Unknown    == Computed
Envs       == [Arguments -> Values \cup {Unknown}]
Places(ms) == (DOMAIN ms) \X Envs

\* The value of an actual argument when the caller's parameters are env.
ValueOf(a, env) == IF a \in Parameter THEN env[a.param] ELSE a
Passed(args, env) ==
  [i \in Arguments |-> IF i \in DOMAIN args THEN ValueOf(args[i], env) ELSE Unknown]

NothingKnown == [i \in Arguments |-> Unknown]

\* The calls that context x of the module ms makes to functions of ms, and those
\* that somebody may make with an address that it uses.
Onward(ms, x) ==
  {<<c.callee, Passed(c.args, x[2])>> : c \in {d \in ms[x[1]].calls : d.callee \in DOMAIN ms}}
    \cup ((ms[x[1]].uses \cap DOMAIN ms) \X {NothingKnown})

\* What calls from outside the module lead to: functions with arguments of which
\* nothing is known.
Outer(ms) ==
  {g \in DOMAIN ms : ms[g].linkage # "internal" \/ g = Main} \X {NothingKnown}

\* All contexts that come of them.
Contexts(ms) ==
  LET reach[xs \in SUBSET Places(ms)] ==
        LET more == xs \cup UNION {Onward(ms, x) : x \in xs}
        IN  IF more = xs THEN xs ELSE reach[more]
  IN  reach[Outer(ms)]

\* A clone does what its original does with the constant for its argument.
Original(x) ==
  IF x[1] \in DOMAIN made
  THEN <<made[x[1]].of, [x[2] EXCEPT ![made[x[1]].at] = made[x[1]].value]>>
  ELSE x

\* "DFE only removes functions that no caller can reach (modulo linkage)"
\* (include/clunk/Search/CrossFunctionPasses.h:44), and the original of a clone is
\* kept "if any caller remains (external callers, indirect callers, ...)" (38-39):
\* a function that can be reached uses no address of a function that was removed.
\* The code does not keep this: dead_functions() asks for direct callers alone.
AddressesKept ==
  \A x \in Contexts(fns) : fns[x[1]].uses \cap DOMAIN given \subseteq Functions

\* Both passes are exact by construction (src/Pipeline.cpp:180, also in
\* include/clunk/Search/CrossFunctionPasses.h:43): the same functions are reached
\* with the same constants as in the module given, by calls from outside, by direct
\* calls and through addresses.  As the code is, only if no address in use was
\* removed with its function; elimination that starts too early, a caller redirected
\* wrongly and a clone whose constant not all callers pass each change the set.
ContextsKept ==
  AddressesKept => Contexts(given) = {Original(x) : x \in Contexts(fns)}

=============================================================================
