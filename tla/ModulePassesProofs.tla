-------------------------- MODULE ModulePassesProofs --------------------------
(***************************************************************************)
(* What the passes promise, for every module, every function and every     *)
(* block: dead-function elimination and constant propagation keep the      *)
(* contexts in which functions run (CrossFunction), the cleanup after      *)
(* assembly keeps where branches lead (BlockMerge), and the memory         *)
(* optimiser keeps what every call sees (MemOpt).                          *)
(***************************************************************************)
EXTENDS CrossFunction, BlockMerge, MemOpt, FiniteSetTheorems, WellFoundedInduction, TLAPS

\* A set of numbers that is not empty has a least member.
LEMMA LeastNatural ==
  ASSUME NEW S, S \subseteq Nat, S # {}
  PROVE  \E m \in S : \A x \in S : m <= x
<1>1. PICK m \in S : \A x \in S : <<x, m>> \notin OpToRel(<, Nat)
  BY NatLessThanWellFounded, WFMin
<1>2. \A x \in S : ~(x < m)
  BY <1>1 DEF OpToRel
<1> QED
  BY <1>2

\* There are finitely many functions from a finite set to a finite set.
LEMMA FunctionsFinite ==
  ASSUME NEW S, NEW T, IsFiniteSet(S), IsFiniteSet(T)
  PROVE  IsFiniteSet([S -> T])
<1> DEFINE pairs(f) == {<<x, f[x]>> : x \in S}
           G == [f \in [S -> T] |-> pairs(f)]
<1>1. IsFiniteSet(S \X T)
  BY FS_Product
<1>2. IsFiniteSet(SUBSET (S \X T))
  BY <1>1, FS_SUBSET
<1>3. G \in [[S -> T] -> SUBSET (S \X T)]
  OBVIOUS
<1>4. ASSUME NEW f \in [S -> T], NEW h \in [S -> T], G[f] = G[h] PROVE f = h
  <2>1. pairs(f) = pairs(h)
    BY <1>4
  <2>2. ASSUME NEW x \in S PROVE f[x] = h[x]
    <3>1. <<x, f[x]>> \in pairs(h)
      BY <2>1
    <3>2. PICK y \in S : <<x, f[x]>> = <<y, h[y]>>
      BY <3>1
    <3> QED
      BY <3>2
  <2> QED
    BY <2>2
<1> HIDE DEF G
<1>5. G \in Injection([S -> T], SUBSET (S \X T))
  BY <1>3, <1>4 DEF Injection, IsInjective
<1> QED
  BY <1>2, <1>5, FS_Injection

-----------------------------------------------------------------------------
(* The contexts of a module are the least set that is closed.               *)

Keeps(ms, xs) == \A x \in xs : Onward(ms, x) \subseteq xs
\* The members of every set of places that holds xs and is closed.
Least(ms, xs) ==
  {x \in Places(ms) : \A ys \in SUBSET Places(ms) : xs \subseteq ys /\ Keeps(ms, ys) => x \in ys}

LEMMA LeastFacts ==
  ASSUME NEW ms, Keeps(ms, Places(ms)), NEW xs \in SUBSET Places(ms)
  PROVE  /\ Least(ms, xs) \in SUBSET Places(ms) /\ xs \subseteq Least(ms, xs)
         /\ Keeps(ms, Least(ms, xs))
         /\ \A ys \in SUBSET Places(ms) : xs \subseteq ys /\ Keeps(ms, ys) => Least(ms, xs) \subseteq ys
<1>1. Least(ms, xs) \in SUBSET Places(ms) /\ xs \subseteq Least(ms, xs)
  BY DEF Least
<1>2. \A ys \in SUBSET Places(ms) : xs \subseteq ys /\ Keeps(ms, ys) => Least(ms, xs) \subseteq ys
  BY DEF Least
<1>3. ASSUME NEW x \in Least(ms, xs), NEW y \in Onward(ms, x) PROVE y \in Least(ms, xs)
  <2>1. y \in Places(ms)
    BY <1>1, <1>3 DEF Keeps
  <2>2. \A ys \in SUBSET Places(ms) : xs \subseteq ys /\ Keeps(ms, ys) => y \in ys
    BY <1>2, <1>3 DEF Keeps
  <2> QED
    BY <2>1, <2>2 DEF Least
<1>4. Keeps(ms, Least(ms, xs))
  BY <1>3 DEF Keeps
<1> QED
  BY <1>1, <1>2, <1>4

More(ms, xs) == xs \cup UNION {Onward(ms, x) : x \in xs}

LEMMA MoreFacts ==
  ASSUME NEW ms, Keeps(ms, Places(ms)), NEW xs \in SUBSET Places(ms)
  PROVE  /\ More(ms, xs) \in SUBSET Places(ms) /\ xs \subseteq More(ms, xs)
         /\ More(ms, xs) = xs => Least(ms, xs) = xs
         /\ Least(ms, More(ms, xs)) = Least(ms, xs)
<1>1. More(ms, xs) \in SUBSET Places(ms) /\ xs \subseteq More(ms, xs)
  BY DEF More, Keeps
<1>2. \A ys : xs \subseteq ys /\ Keeps(ms, ys) <=> More(ms, xs) \subseteq ys /\ Keeps(ms, ys)
  BY DEF More, Keeps
<1>3. ASSUME More(ms, xs) = xs PROVE Least(ms, xs) = xs
  <2>1. Keeps(ms, xs)
    BY <1>3 DEF More, Keeps
  <2> QED
    BY <2>1, LeastFacts
<1>4. Least(ms, More(ms, xs)) = Least(ms, xs)
  BY <1>2 DEF Least
<1> QED
  BY <1>1, <1>3, <1>4

LEMMA PlacesFinite ==
  ASSUME NEW ms, IsFiniteSet(DOMAIN ms)
  PROVE  IsFiniteSet(Places(ms))
<1>1. IsFiniteSet(Arguments)
  BY CrossAssumption, FS_Interval DEF CrossAssumption, Arguments
<1>2. IsFiniteSet(Values \cup {Unknown})
  BY CrossAssumption, FS_AddElement DEF CrossAssumption
<1>3. IsFiniteSet(Envs)
  BY <1>1, <1>2, FunctionsFinite DEF Envs
<1> QED
  BY <1>3, FS_Product DEF Places

LEMMA ContextsLeast ==
  ASSUME NEW ms, Keeps(ms, Places(ms)), IsFiniteSet(DOMAIN ms), Outer(ms) \subseteq Places(ms)
  PROVE  Contexts(ms) = Least(ms, Outer(ms))
<1> DEFINE Eq(f) == f = [xs \in SUBSET Places(ms) |->
                            IF xs \cup UNION {Onward(ms, x) : x \in xs} = xs THEN xs
                            ELSE f[xs \cup UNION {Onward(ms, x) : x \in xs}]]
           reach == CHOOSE f : Eq(f)
           F == [xs \in SUBSET Places(ms) |-> Least(ms, xs)]
<1>1. Contexts(ms) = reach[Outer(ms)]
  BY DEF Contexts
<1>2. Eq(F)
  <2>1. \A xs \in SUBSET Places(ms) :
           F[xs] = IF More(ms, xs) = xs THEN xs ELSE F[More(ms, xs)]
    BY MoreFacts
  <2>2. F = [xs \in SUBSET Places(ms) |-> IF More(ms, xs) = xs THEN xs ELSE F[More(ms, xs)]]
    BY <2>1
  <2> QED
    BY <2>2 DEF More
<1>3. PICK f : f = reach /\ Eq(f)
  BY <1>2
<1>4. \A xs \in SUBSET Places(ms) : f[xs] = IF More(ms, xs) = xs THEN xs ELSE f[More(ms, xs)]
  <2> HIDE DEF reach, F
  <2> QED
    BY <1>3 DEF More
<1> DEFINE Bad == {xs \in SUBSET Places(ms) : f[xs] # Least(ms, xs)}
           Gaps == {Places(ms) \ xs : xs \in Bad}
<1>5. ASSUME Bad # {} PROVE FALSE
  <2>1. IsFiniteSet(Places(ms))
    BY PlacesFinite
  <2>2. Gaps \subseteq FiniteSubsetsOf(Places(ms)) /\ Gaps # {}
    <3>1. \A xs \in Bad : Places(ms) \ xs \in FiniteSubsetsOf(Places(ms))
      BY <2>1, FS_Subset DEF FiniteSubsetsOf
    <3> QED
      BY <1>5, <3>1
  <2>3. PICK gap \in Gaps : \A other \in Gaps : <<other, gap>> \notin StrictSubsetOrdering(Places(ms))
    <3> HIDE DEF Gaps
    <3> QED
      BY <2>2, FS_StrictSubsetOrderingWellFounded, WFMin
  <2>4. PICK xs \in Bad : gap = Places(ms) \ xs
    OBVIOUS
  <2> DEFINE ys == More(ms, xs)
  <2>5. xs \in SUBSET Places(ms) /\ f[xs] # Least(ms, xs)
    OBVIOUS
  <2>6. ys # xs /\ ys \in SUBSET Places(ms) /\ xs \subseteq ys /\ Least(ms, ys) = Least(ms, xs)
    BY <1>4, <2>5, MoreFacts
  <2>7. f[ys] # Least(ms, ys)
    BY <1>4, <2>5, <2>6
  <2>8. Places(ms) \ ys \in Gaps
    BY <2>6, <2>7
  <2>9. <<Places(ms) \ ys, gap>> \in StrictSubsetOrdering(Places(ms))
    BY <2>4, <2>5, <2>6 DEF StrictSubsetOrdering
  <2> QED
    BY <2>3, <2>8, <2>9
<1> QED
  BY <1>1, <1>3, <1>5

-----------------------------------------------------------------------------
(* Modules and their contexts.                                              *)

LEMMA TypedFacts ==
  ASSUME NEW ms, Typed(ms)
  PROVE  /\ \A f \in DOMAIN ms : ms[f] \in Function /\ f \in ToSet(Names)
         /\ \A f \in DOMAIN ms : \A c \in ms[f].calls :
              /\ c \in CallsType /\ c = [callee |-> c.callee, args |-> c.args]
              /\ \E n \in Nat : DOMAIN c.args = 1..n
              /\ \A k \in DOMAIN c.args : c.args[k] \in Actual
<1>1. \A f \in DOMAIN ms : ms[f] \in Function /\ f \in ToSet(Names)
  BY DEF Typed
<1>2. \A f \in DOMAIN ms : ms[f].calls \subseteq CallsType
  BY <1>1 DEF Function
<1>3. ASSUME NEW c \in CallsType
      PROVE  /\ c = [callee |-> c.callee, args |-> c.args]
             /\ \E n \in Nat : DOMAIN c.args = 1..n
             /\ \A k \in DOMAIN c.args : c.args[k] \in Actual
  <2>1. c = [callee |-> c.callee, args |-> c.args]
    BY <1>3 DEF CallsType
  <2>2. c.args \in UNION {[1..n -> Actual] : n \in Arguments \cup {0}}
    BY <1>3 DEF CallsType
  <2>3. PICK n \in Arguments \cup {0} : c.args \in [1..n -> Actual]
    BY <2>2
  <2>4. n \in Nat
    BY <2>3, CrossAssumption DEF CrossAssumption, Arguments
  <2> QED
    BY <2>1, <2>3, <2>4
<1> QED
  BY <1>1, <1>2, <1>3

\* What is passed is a constant or unknown.
LEMMA PassedType ==
  ASSUME NEW args, \A k \in DOMAIN args : args[k] \in Actual, NEW env \in Envs
  PROVE  Passed(args, env) \in Envs
<1>1. \A k \in DOMAIN args : ValueOf(args[k], env) \in Values \cup {Unknown}
  <2> TAKE k \in DOMAIN args
  <2>1. CASE args[k] \in Parameter
    <3>1. args[k].param \in Arguments
      BY <2>1 DEF Parameter
    <3> QED
      BY <2>1, <3>1 DEF ValueOf, Envs
  <2>2. CASE args[k] \notin Parameter
    BY <2>2 DEF ValueOf, Actual, Unknown
  <2> QED
    BY <2>1, <2>2
<1> QED
  BY <1>1 DEF Passed, Envs

LEMMA OnwardFacts ==
  ASSUME NEW ms, NEW x, NEW y
  PROVE  y \in Onward(ms, x) <=>
           \/ \E c \in ms[x[1]].calls : c.callee \in DOMAIN ms /\ y = <<c.callee, Passed(c.args, x[2])>>
           \/ \E h \in ms[x[1]].uses : h \in DOMAIN ms /\ y = <<h, NothingKnown>>
BY DEF Onward

\* A module's contexts: the least places that hold what calls from outside lead
\* to and what calls from them lead to.
LEMMA ContextsFacts ==
  ASSUME NEW ms, Typed(ms)
  PROVE  /\ Outer(ms) \subseteq Places(ms) /\ Keeps(ms, Places(ms))
         /\ Contexts(ms) \subseteq Places(ms) /\ Outer(ms) \subseteq Contexts(ms)
         /\ Keeps(ms, Contexts(ms))
         /\ \A ys \in SUBSET Places(ms) :
              Outer(ms) \subseteq ys /\ Keeps(ms, ys) => Contexts(ms) \subseteq ys
<1>1. Keeps(ms, Places(ms))
  <2>1. ASSUME NEW x \in Places(ms), NEW y \in Onward(ms, x) PROVE y \in Places(ms)
    <3>1. x[1] \in DOMAIN ms /\ x[2] \in Envs
      BY <2>1 DEF Places
    <3>2. ASSUME NEW c \in ms[x[1]].calls, c.callee \in DOMAIN ms, y = <<c.callee, Passed(c.args, x[2])>>
          PROVE  y \in Places(ms)
      <4>1. Passed(c.args, x[2]) \in Envs
        BY <3>1, TypedFacts, PassedType
      <4> QED
        BY <3>2, <4>1 DEF Places
    <3>3. ASSUME NEW h \in ms[x[1]].uses, h \in DOMAIN ms, y = <<h, NothingKnown>>
          PROVE  y \in Places(ms)
      BY <3>3 DEF Places, NothingKnown, Envs
    <3> QED
      BY <2>1, <3>2, <3>3, OnwardFacts
  <2> QED
    BY <2>1 DEF Keeps
<1>2. Outer(ms) \subseteq Places(ms)
  <2>1. NothingKnown \in Envs
    BY DEF NothingKnown, Envs
  <2> QED
    BY <2>1 DEF Outer, Places
<1>3. IsFiniteSet(DOMAIN ms)
  <2>1. Names \in Seq(ToSet(Names))
    BY CrossAssumption DEF CrossAssumption
  <2>2. IsFiniteSet(1..Len(Names))
    BY <2>1, FS_Interval
  <2>3. Names \in Surjection(1..Len(Names), ToSet(Names))
    BY <2>1 DEF Surjection, ToSet
  <2>4. IsFiniteSet(ToSet(Names))
    BY <2>2, <2>3, FS_Surjection
  <2> QED
    BY <2>4, FS_Subset DEF Typed
<1>4. Contexts(ms) = Least(ms, Outer(ms))
  BY <1>1, <1>2, <1>3, ContextsLeast
<1> QED
  BY <1>1, <1>2, <1>4, LeastFacts


-----------------------------------------------------------------------------
(* Specialisation.                                                          *)

\* The call c with v for the parameter i of its caller.
BoundCall(c, i, v) == [c EXCEPT !.args = [k \in DOMAIN c.args |-> Bound(c.args[k], i, v)]]

\* A call of the new module: one of the old, redirected, and bound in the clone.
Renewed(c, f, g) == IF c.callee = f THEN g ELSE c.callee

LEMMA RedirectedFacts ==
  ASSUME NEW c \in CallsType, NEW f, NEW g \in ToSet(Names)
  PROVE  /\ Redirected(c, f, g) \in CallsType
         /\ Redirected(c, f, g).callee = Renewed(c, f, g) /\ Redirected(c, f, g).args = c.args
<1>1. c = [callee |-> c.callee, args |-> c.args] /\ c.callee \in ToSet(Names)
  BY DEF CallsType
<1>2. Redirected(c, f, g) = [callee |-> Renewed(c, f, g), args |-> c.args]
  BY <1>1 DEF Redirected, Renewed
<1>3. Renewed(c, f, g) \in ToSet(Names)
  BY <1>1 DEF Renewed
<1> QED
  BY <1>2, <1>3 DEF CallsType

LEMMA BoundCallFacts ==
  ASSUME NEW c \in CallsType, NEW i \in Arguments, NEW v \in Values
  PROVE  /\ BoundCall(c, i, v) \in CallsType
         /\ BoundCall(c, i, v).callee = c.callee
         /\ BoundCall(c, i, v).args = [k \in DOMAIN c.args |-> Bound(c.args[k], i, v)]
<1>1. /\ c = [callee |-> c.callee, args |-> c.args] /\ c.callee \in ToSet(Names)
      /\ c.args \in UNION {[1..n -> Actual] : n \in Arguments \cup {0}}
  BY DEF CallsType
<1>2. BoundCall(c, i, v) = [callee |-> c.callee, args |-> [k \in DOMAIN c.args |-> Bound(c.args[k], i, v)]]
  BY <1>1 DEF BoundCall
<1>3. PICK n \in Arguments \cup {0} : c.args \in [1..n -> Actual]
  BY <1>1
<1>4. [k \in DOMAIN c.args |-> Bound(c.args[k], i, v)] \in [1..n -> Actual]
  BY <1>3 DEF Bound, Actual
<1>5. [k \in DOMAIN c.args |-> Bound(c.args[k], i, v)] \in UNION {[1..m -> Actual] : m \in Arguments \cup {0}}
  BY <1>4
<1>6. BoundCall(c, i, v) \in CallsType
  BY <1>1, <1>2, <1>5 DEF CallsType
<1> QED
  BY <1>2, <1>6

\* The functions of the module with the clone.
HasClone(ns, f, i, v, g) ==
  /\ DOMAIN ns = Functions \cup {g} /\ ns \in [DOMAIN ns -> Function]
  /\ \A h \in Functions :
       /\ ns[h].linkage = fns[h].linkage /\ ns[h].arity = fns[h].arity /\ ns[h].uses = fns[h].uses
       /\ \A c \in fns[h].calls : Redirected(c, f, g) \in ns[h].calls
       /\ \A d \in ns[h].calls : \E c \in fns[h].calls : d = Redirected(c, f, g)
  /\ ns[g].linkage = "internal" /\ ns[g].arity = fns[f].arity /\ ns[g].uses = fns[f].uses
  /\ \A c \in fns[f].calls : Redirected(BoundCall(c, i, v), f, g) \in ns[g].calls
  /\ \A d \in ns[g].calls : \E c \in fns[f].calls : d = Redirected(BoundCall(c, i, v), f, g)

LEMMA CloneShape ==
  ASSUME Typed(fns), NEW f \in Functions, NEW i \in Arguments, NEW v \in Values,
         NEW g \in ToSet(Names), g \notin Functions,
         NEW ns, ns = WithClone(f, i, v, g)
  PROVE  HasClone(ns, f, i, v, g)
<1>1. ns = [h \in Functions \cup {g} |->
              [(IF h = g THEN Clone(f, i, v) ELSE fns[h]) EXCEPT
                 !.calls = {Redirected(c, f, g) : c \in (IF h = g THEN Clone(f, i, v) ELSE fns[h]).calls}]]
  BY DEF WithClone
<1>2. DOMAIN ns = Functions \cup {g}
  BY <1>1
<1>3. \A h \in Functions : fns[h] \in Function
  BY TypedFacts DEF Functions
<1>4. ASSUME NEW h \in Functions
      PROVE  /\ ns[h] = [fns[h] EXCEPT !.calls = {Redirected(c, f, g) : c \in fns[h].calls}]
             /\ ns[h] \in Function
  <2>1. ns[h] = [fns[h] EXCEPT !.calls = {Redirected(c, f, g) : c \in fns[h].calls}]
    BY <1>1
  <2>2. {Redirected(c, f, g) : c \in fns[h].calls} \subseteq CallsType
    <3>1. \A c \in fns[h].calls : c \in CallsType
      BY TypedFacts DEF Functions
    <3> QED
      BY <3>1, RedirectedFacts
  <2> QED
    BY <1>3, <2>1, <2>2 DEF Function
<1>5. /\ ns[g] = [fns[f] EXCEPT !.linkage = "internal",
                                !.calls = {Redirected(BoundCall(c, i, v), f, g) : c \in fns[f].calls}]
      /\ ns[g] \in Function
  <2>1. Clone(f, i, v) = [fns[f] EXCEPT !.linkage = "internal",
                                        !.calls = {BoundCall(c, i, v) : c \in fns[f].calls}]
    BY DEF Clone, BoundCall
  <2>2. Clone(f, i, v).calls = {BoundCall(c, i, v) : c \in fns[f].calls}
    BY <1>3, <2>1 DEF Function
  <2>3. ns[g] = [Clone(f, i, v) EXCEPT !.calls = {Redirected(c, f, g) : c \in Clone(f, i, v).calls}]
    BY <1>1
  <2>4. {Redirected(c, f, g) : c \in Clone(f, i, v).calls}
          = {Redirected(BoundCall(c, i, v), f, g) : c \in fns[f].calls}
    BY <2>2
  <2>5. ns[g] = [fns[f] EXCEPT !.linkage = "internal",
                               !.calls = {Redirected(BoundCall(c, i, v), f, g) : c \in fns[f].calls}]
    BY <1>3, <2>1, <2>3, <2>4 DEF Function
  <2>6. \A c \in fns[f].calls : Redirected(BoundCall(c, i, v), f, g) \in CallsType
    <3> TAKE c \in fns[f].calls
    <3>1. c \in CallsType
      BY TypedFacts DEF Functions
    <3>2. BoundCall(c, i, v) \in CallsType
      BY <3>1, BoundCallFacts
    <3> QED
      BY <3>2, RedirectedFacts
  <2>7. {Redirected(BoundCall(c, i, v), f, g) : c \in fns[f].calls} \subseteq CallsType
    BY <2>6
  <2> HIDE DEF Clone
  <2>8. "internal" \in Linkages
    BY DEF Linkages
  <2> QED
    BY <1>3, <2>5, <2>7, <2>8 DEF Function
<1>6. ns \in [DOMAIN ns -> Function]
  <2>1. \A h \in DOMAIN ns : ns[h] \in Function
    BY <1>2, <1>4, <1>5
  <2> QED
    BY <1>1, <2>1
<1>7. ASSUME NEW h \in Functions
      PROVE  /\ ns[h].linkage = fns[h].linkage /\ ns[h].arity = fns[h].arity
             /\ ns[h].uses = fns[h].uses
             /\ ns[h].calls = {Redirected(c, f, g) : c \in fns[h].calls}
  BY <1>3, <1>4 DEF Function
<1>8. /\ ns[g].linkage = "internal" /\ ns[g].arity = fns[f].arity /\ ns[g].uses = fns[f].uses
      /\ ns[g].calls = {Redirected(BoundCall(c, i, v), f, g) : c \in fns[f].calls}
  BY <1>3, <1>5 DEF Function
<1>9. \A h \in Functions :
         /\ \A c \in fns[h].calls : Redirected(c, f, g) \in ns[h].calls
         /\ \A d \in ns[h].calls : \E c \in fns[h].calls : d = Redirected(c, f, g)
  BY <1>7
<1> QED
  BY <1>2, <1>6, <1>7, <1>8, <1>9 DEF HasClone

\* What a place of the new module was in the old one.
Before(x, f, i, v, g) == IF x[1] = g THEN <<f, [x[2] EXCEPT ![i] = v]>> ELSE x

\* Binding the parameter is the same as passing the constant for it.
LEMMA BoundPassed ==
  ASSUME NEW args, \A k \in DOMAIN args : args[k] \in Actual,
         NEW i \in Arguments, NEW v \in Values, NEW e \in Envs
  PROVE  Passed([k \in DOMAIN args |-> Bound(args[k], i, v)], e) = Passed(args, [e EXCEPT ![i] = v])
<1> DEFINE e2 == [e EXCEPT ![i] = v]
           bs == [k \in DOMAIN args |-> Bound(args[k], i, v)]
<1>1. \A k \in DOMAIN args : ValueOf(bs[k], e) = ValueOf(args[k], e2)
  <2> TAKE k \in DOMAIN args
  <2>0. v \notin Parameter
    BY CrossAssumption DEF CrossAssumption
  <2>1. CASE args[k] = [param |-> i]
    <3>1. args[k] \in Parameter /\ args[k].param = i
      BY <2>1 DEF Parameter
    <3>2. bs[k] = v
      BY <2>1 DEF Bound
    <3> QED
      BY <2>0, <3>1, <3>2 DEF ValueOf, Envs
  <2>2. CASE args[k] # [param |-> i] /\ args[k] \in Parameter
    <3>1. bs[k] = args[k]
      BY <2>2 DEF Bound
    <3>2. args[k].param \in Arguments /\ args[k] = [param |-> args[k].param]
      BY <2>2 DEF Parameter
    <3>3. args[k].param # i
      BY <2>2, <3>2
    <3> QED
      BY <2>2, <3>1, <3>2, <3>3 DEF ValueOf, Envs
  <2>3. CASE args[k] \notin Parameter
    <3>1. args[k] # [param |-> i]
      BY <2>3 DEF Parameter
    <3> QED
      BY <2>3, <3>1 DEF Bound, ValueOf
  <2> QED
    BY <2>1, <2>2, <2>3
<1>2. DOMAIN bs = DOMAIN args
  OBVIOUS
<1> HIDE DEF bs, e2
<1>3. Passed(bs, e) = Passed(args, e2)
  BY <1>1, <1>2 DEF Passed
<1> QED
  BY <1>3 DEF bs, e2

LEMMA CallsMatch ==
  ASSUME Typed(fns), NEW f \in Functions, NEW i \in Arguments, NEW v \in Values,
         NEW g \in ToSet(Names), g \notin Functions,
         NEW ns, ns = WithClone(f, i, v, g),
         NEW x \in Places(ns), NEW y, y = Before(x, f, i, v, g)
  PROVE  /\ y \in Places(fns)
         /\ \A d \in ns[x[1]].calls : \E c \in fns[y[1]].calls :
              d.callee = Renewed(c, f, g) /\ Passed(d.args, x[2]) = Passed(c.args, y[2])
         /\ \A c \in fns[y[1]].calls : \E d \in ns[x[1]].calls :
              d.callee = Renewed(c, f, g) /\ Passed(d.args, x[2]) = Passed(c.args, y[2])
<1>1. /\ DOMAIN ns = Functions \cup {g}
      /\ \A h \in Functions :
           /\ \A c \in fns[h].calls : Redirected(c, f, g) \in ns[h].calls
           /\ \A d \in ns[h].calls : \E c \in fns[h].calls : d = Redirected(c, f, g)
      /\ \A c \in fns[f].calls : Redirected(BoundCall(c, i, v), f, g) \in ns[g].calls
      /\ \A d \in ns[g].calls : \E c \in fns[f].calls : d = Redirected(BoundCall(c, i, v), f, g)
  <2>1. Typed(fns) /\ f \in Functions /\ v \in Values /\ g \in ToSet(Names) /\ g \notin Functions
    OBVIOUS
  <2>2. ns = WithClone(f, i, v, g)
    OBVIOUS
  <2>3. HasClone(ns, f, i, v, g)
    BY <2>1, <2>2, CloneShape
  <2> QED
    BY <2>3 DEF HasClone
<1>2. x[1] \in DOMAIN ns /\ x[2] \in Envs /\ x = <<x[1], x[2]>>
  BY DEF Places
<1>3. \A h \in Functions : fns[h] \in Function /\ \A c \in fns[h].calls : c \in CallsType
  BY TypedFacts DEF Functions
<1>4. CASE x[1] = g
  <2>1. y = <<f, [x[2] EXCEPT ![i] = v]>> /\ y[1] = f /\ y[2] = [x[2] EXCEPT ![i] = v]
    BY <1>4 DEF Before
  <2>2. y \in Places(fns)
    BY <1>2, <2>1 DEF Places, Functions, Envs
  <2>3. /\ \A c \in fns[f].calls : Redirected(BoundCall(c, i, v), f, g) \in ns[x[1]].calls
        /\ \A d \in ns[x[1]].calls : \E c \in fns[f].calls : d = Redirected(BoundCall(c, i, v), f, g)
    BY <1>1, <1>4
  <2>4. ASSUME NEW c \in fns[f].calls
        PROVE  /\ Redirected(BoundCall(c, i, v), f, g).callee = Renewed(c, f, g)
               /\ Passed(Redirected(BoundCall(c, i, v), f, g).args, x[2]) = Passed(c.args, y[2])
    <3>1. c \in CallsType /\ \A k \in DOMAIN c.args : c.args[k] \in Actual
      BY TypedFacts DEF Functions
    <3>2. /\ BoundCall(c, i, v) \in CallsType /\ BoundCall(c, i, v).callee = c.callee
          /\ BoundCall(c, i, v).args = [k \in DOMAIN c.args |-> Bound(c.args[k], i, v)]
      BY <3>1, BoundCallFacts
    <3>3. /\ Redirected(BoundCall(c, i, v), f, g).callee = Renewed(BoundCall(c, i, v), f, g)
          /\ Redirected(BoundCall(c, i, v), f, g).args = BoundCall(c, i, v).args
      BY <3>2, RedirectedFacts
    <3>4. Passed([k \in DOMAIN c.args |-> Bound(c.args[k], i, v)], x[2]) = Passed(c.args, y[2])
      BY <1>2, <2>1, <3>1, BoundPassed
    <3> QED
      BY <3>2, <3>3, <3>4 DEF Renewed
  <2> QED
    BY <2>1, <2>2, <2>3, <2>4
<1>5. CASE x[1] # g
  <2>1. y = x /\ x[1] \in Functions
    BY <1>1, <1>2, <1>5 DEF Before
  <2>2. y \in Places(fns)
    BY <1>2, <2>1 DEF Places, Functions
  <2>3. /\ \A c \in fns[x[1]].calls : Redirected(c, f, g) \in ns[x[1]].calls
        /\ \A d \in ns[x[1]].calls : \E c \in fns[x[1]].calls : d = Redirected(c, f, g)
    BY <1>1, <2>1
  <2>4. \A c \in fns[x[1]].calls : Redirected(c, f, g).callee = Renewed(c, f, g) /\ Redirected(c, f, g).args = c.args
    BY <1>3, <2>1, RedirectedFacts
  <2> QED
    BY <2>1, <2>2, <2>3, <2>4
<1> QED
  BY <1>4, <1>5

\* All calls of a function that is specialised pass the constant.
AllPass(f, i, v) ==
  \A h \in Functions : \A c \in fns[h].calls : c.callee = f => i \in DOMAIN c.args /\ c.args[i] = v

\* What a place of the new module uses by address, its place in the old one uses.
LEMMA UsesMatch ==
  ASSUME Typed(fns), NEW f \in Functions, NEW i \in Arguments, NEW v \in Values,
         NEW g \in ToSet(Names), g \notin Functions, NEW ns, ns = WithClone(f, i, v, g),
         NEW x \in Places(ns)
  PROVE  ns[x[1]].uses = fns[Before(x, f, i, v, g)[1]].uses
<1>1. HasClone(ns, f, i, v, g)
  BY CloneShape
<1>2. /\ DOMAIN ns = Functions \cup {g} /\ \A h \in Functions : ns[h].uses = fns[h].uses
      /\ ns[g].uses = fns[f].uses
  BY <1>1 DEF HasClone
<1>3. x[1] \in Functions \cup {g}
  BY <1>2 DEF Places
<1> QED
  BY <1>2, <1>3 DEF Before

\* A call in the new module is, before the clone was made, a call in the old.
LEMMA OnwardMatch ==
  ASSUME Typed(fns), NEW f \in Functions, NEW i \in Arguments, NEW v \in Values,
         NEW g \in ToSet(Names), g \notin Functions \cup Called \cup Addressed, AllPass(f, i, v),
         NEW ns, ns = WithClone(f, i, v, g), NEW x \in Places(ns)
  PROVE  /\ \A z \in Onward(ns, x) : Before(z, f, i, v, g) \in Onward(fns, Before(x, f, i, v, g))
         /\ \A z \in Onward(fns, Before(x, f, i, v, g)) : \E w \in Onward(ns, x) : z = Before(w, f, i, v, g)
<1>1. PICK y : y = Before(x, f, i, v, g)
  OBVIOUS
<1>2. /\ y \in Places(fns)
      /\ \A d \in ns[x[1]].calls : \E c \in fns[y[1]].calls :
              d.callee = Renewed(c, f, g) /\ Passed(d.args, x[2]) = Passed(c.args, y[2])
      /\ \A c \in fns[y[1]].calls : \E d \in ns[x[1]].calls :
              d.callee = Renewed(c, f, g) /\ Passed(d.args, x[2]) = Passed(c.args, y[2])
  BY <1>1, CallsMatch
<1>3. y[1] \in Functions /\ y[2] \in Envs /\ DOMAIN ns = Functions \cup {g}
  <2>1. HasClone(ns, f, i, v, g)
    BY CloneShape
  <2>2. DOMAIN ns = Functions \cup {g}
    BY <2>1 DEF HasClone
  <2> QED
    BY <1>2, <2>2 DEF Places, Functions
\* A call that is redirected passes the constant.
<1>4. ASSUME NEW c \in fns[y[1]].calls
      PROVE  /\ c.callee \in Functions <=> Renewed(c, f, g) \in DOMAIN ns
             /\ Before(<<Renewed(c, f, g), Passed(c.args, y[2])>>, f, i, v, g) = <<c.callee, Passed(c.args, y[2])>>
  <2>1. c.callee # g
    BY <1>3 DEF Called, CallsOf
  <2>2. c.callee \in Functions <=> Renewed(c, f, g) \in DOMAIN ns
    BY <1>3, <2>1 DEF Renewed
  <2>3. CASE c.callee = f
    <3>1. i \in DOMAIN c.args /\ c.args[i] = v
      BY <1>3, <2>3 DEF AllPass
    <3>2. v \notin Parameter
      BY CrossAssumption DEF CrossAssumption
    <3>3. Passed(c.args, y[2])[i] = v /\ DOMAIN Passed(c.args, y[2]) = Arguments
      BY <3>1, <3>2 DEF Passed, ValueOf
    <3>4. PICK e : e = Passed(c.args, y[2]) /\ e = [k \in Arguments |-> e[k]]
      BY DEF Passed
    <3>5. [e EXCEPT ![i] = v] = e
      BY <3>3, <3>4
    <3>6. Before(<<g, e>>, f, i, v, g) = <<f, e>>
      BY <3>5 DEF Before
    <3> QED
      BY <2>2, <2>3, <3>4, <3>6 DEF Renewed
  <2>4. CASE c.callee # f
    BY <2>1, <2>2, <2>4 DEF Renewed, Before
  <2> QED
    BY <2>3, <2>4
\* No function uses the address of the clone.
<1>5. /\ ns[x[1]].uses = fns[y[1]].uses
      /\ \A h \in fns[y[1]].uses :
            /\ h \in DOMAIN ns <=> h \in DOMAIN fns
            /\ Before(<<h, NothingKnown>>, f, i, v, g) = <<h, NothingKnown>>
  <2>1. ns[x[1]].uses = fns[y[1]].uses
    BY <1>1, UsesMatch
  <2>2. \A h \in fns[y[1]].uses : h # g
    BY <1>3 DEF Addressed
  <2> QED
    BY <1>3, <2>1, <2>2 DEF Before, Functions
<1>6. ASSUME NEW z \in Onward(ns, x) PROVE Before(z, f, i, v, g) \in Onward(fns, y)
  <2>1. ASSUME NEW d \in ns[x[1]].calls, d.callee \in DOMAIN ns, z = <<d.callee, Passed(d.args, x[2])>>
        PROVE  Before(z, f, i, v, g) \in Onward(fns, y)
    <3>1. PICK c \in fns[y[1]].calls : d.callee = Renewed(c, f, g) /\ Passed(d.args, x[2]) = Passed(c.args, y[2])
      BY <1>2
    <3>2. c.callee \in DOMAIN fns /\ Before(z, f, i, v, g) = <<c.callee, Passed(c.args, y[2])>>
      BY <1>4, <2>1, <3>1 DEF Functions
    <3> QED
      BY <3>2, OnwardFacts
  <2>2. ASSUME NEW h \in ns[x[1]].uses, h \in DOMAIN ns, z = <<h, NothingKnown>>
        PROVE  Before(z, f, i, v, g) \in Onward(fns, y)
    BY <1>5, <2>2, OnwardFacts
  <2> QED
    BY <1>6, <2>1, <2>2, OnwardFacts
<1>7. ASSUME NEW z \in Onward(fns, y) PROVE \E w \in Onward(ns, x) : z = Before(w, f, i, v, g)
  <2>1. ASSUME NEW c \in fns[y[1]].calls, c.callee \in DOMAIN fns, z = <<c.callee, Passed(c.args, y[2])>>
        PROVE  \E w \in Onward(ns, x) : z = Before(w, f, i, v, g)
    <3>1. PICK d \in ns[x[1]].calls : d.callee = Renewed(c, f, g) /\ Passed(d.args, x[2]) = Passed(c.args, y[2])
      BY <1>2
    <3>2. PICK w : w = <<d.callee, Passed(d.args, x[2])>>
      OBVIOUS
    <3>3. d.callee \in DOMAIN ns /\ z = Before(w, f, i, v, g)
      BY <1>4, <2>1, <3>1, <3>2 DEF Functions
    <3>4. w \in Onward(ns, x)
      BY <3>2, <3>3, OnwardFacts
    <3> QED
      BY <3>3, <3>4
  <2>2. ASSUME NEW h \in fns[y[1]].uses, h \in DOMAIN fns, z = <<h, NothingKnown>>
        PROVE  \E w \in Onward(ns, x) : z = Before(w, f, i, v, g)
    <3>1. z \in Onward(ns, x) /\ z = Before(z, f, i, v, g)
      BY <1>5, <2>2, OnwardFacts
    <3> QED
      BY <3>1
  <2> QED
    BY <1>7, <2>1, <2>2, OnwardFacts
<1> QED
  BY <1>1, <1>6, <1>7


LEMMA CloneTyped ==
  ASSUME Typed(fns), NEW f \in Functions, NEW i \in Arguments, NEW v \in Values,
         NEW g \in ToSet(Names), g \notin Functions \cup Called,
         NEW ns, ns = WithClone(f, i, v, g)
  PROVE  Typed(ns)
<1>1. HasClone(ns, f, i, v, g)
  BY CloneShape
<1>2. DOMAIN ns = Functions \cup {g} /\ ns \in [DOMAIN ns -> Function]
  BY <1>1 DEF HasClone
<1>3. \A h \in Functions : ns[h].arity = fns[h].arity
  BY <1>1 DEF HasClone
<1>4. ns[g].arity = fns[f].arity
  BY <1>1 DEF HasClone
\* A redirected call passes what it passed.
<1>5. ASSUME NEW h \in Functions, NEW c \in fns[h].calls, NEW d, d.callee = Renewed(c, f, g),
             DOMAIN d.args = DOMAIN c.args, d.callee \in DOMAIN ns
      PROVE  1..ns[d.callee].arity \subseteq DOMAIN d.args
  <2>1. c.callee # g
    BY <1>5 DEF Called, CallsOf
  <2>2. c.callee \in Functions /\ ns[d.callee].arity = fns[c.callee].arity
    BY <1>2, <1>3, <1>4, <1>5, <2>1 DEF Renewed
  <2>3. 1..fns[c.callee].arity \subseteq DOMAIN c.args
    BY <1>5, <2>2 DEF Typed, WellCalled, Functions
  <2> QED
    BY <1>5, <2>2, <2>3
<1>6. ASSUME NEW h \in DOMAIN ns, NEW d \in ns[h].calls, d.callee \in DOMAIN ns
      PROVE  1..ns[d.callee].arity \subseteq DOMAIN d.args
  <2>1. CASE h \in Functions
    <3>1. PICK c \in fns[h].calls : d = Redirected(c, f, g)
      BY <1>1, <1>6, <2>1 DEF HasClone
    <3>2. c \in CallsType
      BY <2>1, TypedFacts DEF Functions
    <3>3. d.callee = Renewed(c, f, g) /\ d.args = c.args
      BY <3>1, <3>2, RedirectedFacts
    <3> QED
      BY <1>5, <1>6, <2>1, <3>3
  <2>2. CASE h = g
    <3>1. PICK c \in fns[f].calls : d = Redirected(BoundCall(c, i, v), f, g)
      BY <1>1, <1>6, <2>2 DEF HasClone
    <3>2. c \in CallsType
      BY TypedFacts DEF Functions
    <3>3. /\ BoundCall(c, i, v) \in CallsType /\ BoundCall(c, i, v).callee = c.callee
          /\ DOMAIN BoundCall(c, i, v).args = DOMAIN c.args
      <4>1. BoundCall(c, i, v) \in CallsType /\ BoundCall(c, i, v).callee = c.callee
        BY <3>2, BoundCallFacts
      <4>2. BoundCall(c, i, v).args = [k \in DOMAIN c.args |-> Bound(c.args[k], i, v)]
        BY <3>2, BoundCallFacts
      <4> QED
        BY <4>1, <4>2
    <3>4. d.callee = Renewed(c, f, g) /\ DOMAIN d.args = DOMAIN c.args
      <4>1. d.callee = Renewed(BoundCall(c, i, v), f, g) /\ d.args = BoundCall(c, i, v).args
        BY <3>1, <3>3, RedirectedFacts
      <4> QED
        BY <3>3, <4>1 DEF Renewed
    <3> QED
      BY <1>5, <1>6, <3>4
  <2> QED
    BY <1>2, <1>6, <2>1, <2>2
<1>7. WellCalled(ns)
  BY <1>6 DEF WellCalled
<1>8. DOMAIN ns \subseteq ToSet(Names)
  BY <1>2 DEF Typed, Functions
<1> QED
  BY <1>2, <1>7, <1>8 DEF Typed

\* The contexts of the new module are those of the old.
LEMMA CloneContexts ==
  ASSUME Typed(fns), NEW f \in Functions, NEW i \in Arguments, NEW v \in Values,
         NEW g \in ToSet(Names), g \notin Functions \cup Called \cup Addressed, g # Main, AllPass(f, i, v),
         NEW ns, ns = WithClone(f, i, v, g)
  PROVE  {Before(x, f, i, v, g) : x \in Contexts(ns)} = Contexts(fns)
<1>1. HasClone(ns, f, i, v, g) /\ Typed(ns)
  BY CloneShape, CloneTyped
<1>2. Outer(ns) = Outer(fns) /\ \A x \in Outer(ns) : x[1] # g
  <2>1. /\ DOMAIN ns = Functions \cup {g} /\ ns[g].linkage = "internal"
        /\ \A h \in Functions : ns[h].linkage = fns[h].linkage
    BY <1>1 DEF HasClone
  <2>2. {h \in DOMAIN ns : ns[h].linkage # "internal" \/ h = Main}
          = {h \in DOMAIN fns : fns[h].linkage # "internal" \/ h = Main}
    BY <2>1 DEF Functions
  <2>3. \A h \in DOMAIN fns : h # g
    BY DEF Functions
  <2> QED
    BY <2>2, <2>3 DEF Outer
<1>3. /\ Contexts(ns) \subseteq Places(ns) /\ Outer(ns) \subseteq Contexts(ns) /\ Keeps(ns, Contexts(ns))
      /\ Keeps(ns, Places(ns)) /\ Outer(ns) \subseteq Places(ns)
      /\ \A ys \in SUBSET Places(ns) : Outer(ns) \subseteq ys /\ Keeps(ns, ys) => Contexts(ns) \subseteq ys
  BY <1>1, ContextsFacts
<1>4. /\ Contexts(fns) \subseteq Places(fns) /\ Outer(fns) \subseteq Contexts(fns) /\ Keeps(fns, Contexts(fns))
      /\ \A ys \in SUBSET Places(fns) : Outer(fns) \subseteq ys /\ Keeps(fns, ys) => Contexts(fns) \subseteq ys
  BY ContextsFacts
<1>5. \A x : x[1] # g => Before(x, f, i, v, g) = x
  BY DEF Before
<1>6. \A x \in Places(ns) :
         /\ \A z \in Onward(ns, x) : Before(z, f, i, v, g) \in Onward(fns, Before(x, f, i, v, g))
         /\ \A z \in Onward(fns, Before(x, f, i, v, g)) : \E w \in Onward(ns, x) : z = Before(w, f, i, v, g)
  BY OnwardMatch
<1>7. \A x \in Contexts(ns) : Before(x, f, i, v, g) \in Contexts(fns)
  <2> DEFINE s == {x \in Places(ns) : Before(x, f, i, v, g) \in Contexts(fns)}
  <2>1. Outer(ns) \subseteq s
    BY <1>2, <1>3, <1>4, <1>5
  <2>2. ASSUME NEW x \in s, NEW z \in Onward(ns, x) PROVE z \in s
    BY <1>3, <1>4, <1>6, <2>2 DEF Keeps
  <2>3. Keeps(ns, s)
    BY <2>2 DEF Keeps
  <2> QED
    BY <1>3, <2>1, <2>3
<1>8. \A z \in Contexts(fns) : \E x \in Contexts(ns) : z = Before(x, f, i, v, g)
  <2> DEFINE s == {z \in Contexts(fns) : \E x \in Contexts(ns) : z = Before(x, f, i, v, g)}
  <2>1. Outer(fns) \subseteq s
    BY <1>2, <1>3, <1>4, <1>5
  <2>2. ASSUME NEW z \in s, NEW y \in Onward(fns, z) PROVE y \in s
    <3>1. PICK x \in Contexts(ns) : z = Before(x, f, i, v, g)
      BY <2>2
    <3>2. PICK w \in Onward(ns, x) : y = Before(w, f, i, v, g)
      BY <1>3, <1>6, <2>2, <3>1
    <3>3. w \in Contexts(ns) /\ y \in Contexts(fns)
      BY <1>3, <1>4, <2>2, <3>1, <3>2 DEF Keeps
    <3> QED
      BY <3>2, <3>3
  <2>3. Keeps(fns, s)
    BY <2>2 DEF Keeps
  <2>4. s \subseteq Places(fns)
    BY <1>4
  <2> HIDE DEF s
  <2>5. Contexts(fns) \subseteq s
    BY <1>4, <2>1, <2>3, <2>4
  <2> QED
    BY <2>5 DEF s
<1> QED
  BY <1>7, <1>8

\* A function that can be reached uses the address of one that was removed.
Dangling(ms) == \E x \in Contexts(ms) : ~(ms[x[1]].uses \cap DOMAIN given \subseteq DOMAIN ms)

\* A function that nobody calls, neither from outside nor from inside, and of which
\* no function that is reached uses the address, has none.
LEMMA RemovedContexts ==
  ASSUME Typed(fns), NEW f \in Functions, ~Visible(f), Callers(f) = {},
         \A h \in Functions : fns[h].uses \cap Functions \subseteq DOMAIN given,
         NEW ns, ns = [h \in Functions \ {f} |-> fns[h]]
  PROVE  /\ Typed(ns)
         /\ ~Dangling(ns) => ~Dangling(fns) /\ Contexts(ns) = Contexts(fns)
<1>1. DOMAIN ns = Functions \ {f} /\ \A h \in Functions \ {f} : ns[h] = fns[h]
  OBVIOUS
<1>2. \A h \in Functions : \A c \in fns[h].calls : c.callee # f
  BY DEF Callers, CallsOf
<1>3. Typed(ns)
  <2>1. ns \in [DOMAIN ns -> Function]
    BY <1>1, TypedFacts DEF Functions
  <2>2. WellCalled(ns)
    BY <1>1 DEF Typed, WellCalled, Functions
  <2> QED
    BY <1>1, <2>1, <2>2 DEF Typed, Functions
<1>4. Outer(ns) = Outer(fns)
  <2>1. fns[f].linkage = "internal" /\ f # Main
    BY DEF Visible
  <2>2. {h \in DOMAIN ns : ns[h].linkage # "internal" \/ h = Main}
          = {h \in DOMAIN fns : fns[h].linkage # "internal" \/ h = Main}
    BY <1>1, <2>1 DEF Functions
  <2> QED
    BY <2>2 DEF Outer
<1>5. Places(ns) \subseteq Places(fns)
  BY <1>1 DEF Places, Functions
<1>6. ASSUME NEW x \in Places(ns)
      PROVE  /\ x[1] \in Functions \ {f} /\ ns[x[1]] = fns[x[1]] /\ Onward(ns, x) \subseteq Onward(fns, x)
             /\ f \notin fns[x[1]].uses => Onward(ns, x) = Onward(fns, x)
  <2>1. x[1] \in Functions \ {f} /\ ns[x[1]] = fns[x[1]]
    BY <1>1, <1>6 DEF Places
  <2>2. \A c \in fns[x[1]].calls : c.callee \in DOMAIN ns <=> c.callee \in DOMAIN fns
    BY <1>1, <1>2, <2>1 DEF Functions
  <2>3. DOMAIN ns = DOMAIN fns \ {f}
    BY <1>1 DEF Functions
  <2> QED
    BY <2>1, <2>2, <2>3 DEF Onward
<1>7. /\ Contexts(ns) \subseteq Places(ns) /\ Outer(ns) \subseteq Contexts(ns) /\ Keeps(ns, Contexts(ns))
      /\ Keeps(ns, Places(ns)) /\ Outer(ns) \subseteq Places(ns)
      /\ \A ys \in SUBSET Places(ns) : Outer(ns) \subseteq ys /\ Keeps(ns, ys) => Contexts(ns) \subseteq ys
  BY <1>3, ContextsFacts
<1>8. /\ Contexts(fns) \subseteq Places(fns) /\ Outer(fns) \subseteq Contexts(fns) /\ Keeps(fns, Contexts(fns))
      /\ \A ys \in SUBSET Places(fns) : Outer(fns) \subseteq ys /\ Keeps(fns, ys) => Contexts(fns) \subseteq ys
  BY ContextsFacts
<1>9. ASSUME ~Dangling(ns) PROVE Contexts(fns) \subseteq Contexts(ns)
  <2>1. ASSUME NEW x \in Contexts(ns) PROVE Onward(fns, x) \subseteq Contexts(ns)
    <3>1. x \in Places(ns) /\ ns[x[1]].uses \cap DOMAIN given \subseteq Functions \ {f}
      BY <1>1, <1>7, <1>9, <2>1 DEF Dangling
    <3>2. f \notin fns[x[1]].uses
      BY <1>6, <3>1
    <3> QED
      BY <1>6, <1>7, <2>1, <3>1, <3>2 DEF Keeps
  <2>2. Keeps(fns, Contexts(ns))
    BY <2>1 DEF Keeps
  <2> QED
    BY <1>4, <1>5, <1>7, <1>8, <2>2
<1>10. Contexts(ns) \subseteq Contexts(fns)
  <2> DEFINE s == Contexts(fns) \cap Places(ns)
  <2>1. Keeps(ns, s)
    BY <1>6, <1>7, <1>8 DEF Keeps
  <2>2. Outer(ns) \subseteq s
    BY <1>4, <1>7, <1>8
  <2> QED
    BY <1>7, <2>1, <2>2
<1>11. ASSUME ~Dangling(ns) PROVE ~Dangling(fns)
  <2>1. ASSUME NEW x \in Contexts(fns) PROVE fns[x[1]].uses \cap DOMAIN given \subseteq DOMAIN fns
    <3>1. x \in Contexts(ns) /\ x \in Places(ns)
      BY <1>7, <1>9, <1>11, <2>1
    <3>2. ns[x[1]].uses \cap DOMAIN given \subseteq DOMAIN ns
      BY <1>11, <3>1 DEF Dangling
    <3> QED
      BY <1>1, <1>6, <3>1, <3>2 DEF Functions
  <2> QED
    BY <2>1 DEF Dangling
<1> QED
  BY <1>3, <1>9, <1>10, <1>11


-----------------------------------------------------------------------------
(* The passes.                                                              *)

\* Both modules are such that calls pass all arguments, and the addresses used of
\* functions are those of given ones.  Functions found dead stay so until they are
\* removed, and none is left when constants are propagated; what is specialised is
\* no clone.
CrossInv ==
  /\ Typed(given) /\ Typed(fns)
  /\ \A h \in Functions : fns[h].uses \cap Functions \subseteq DOMAIN given
  /\ \A f \in dead : f \in Functions /\ ~Visible(f) /\ Callers(f) = {}
  /\ pass \notin {"dfe", "dfe again"} => dead = {}
  /\ pass = "dfe" => made = <<>>
  /\ pass = "ipcp" =>
       /\ cands \subseteq ToSet(Names) \X Arguments \X Values
       /\ \A x \in cands : x[1] \in Functions \ DOMAIN made
  /\ ContextsKept

LEMMA CrossStart == CrossInit => CrossInv
<1> SUFFICES ASSUME CrossInit PROVE CrossInv
  OBVIOUS
<1>1. given \in Modules /\ fns = given /\ made = <<>> /\ dead = {} /\ pass = "dfe"
  BY DEF CrossInit
<1>2. Typed(given)
  BY <1>1, CrossAssumption DEF CrossAssumption
<1>3. ContextsKept
  <2>1. \A x : Original(x) = x
    BY <1>1 DEF Original
  <2> QED
    BY <1>1, <2>1 DEF ContextsKept
<1>4. \A h \in Functions : fns[h].uses \cap Functions \subseteq DOMAIN given
  BY <1>1 DEF Functions
<1> QED
  BY <1>1, <1>2, <1>3, <1>4 DEF CrossInv

\* The candidates have a first.
LEMMA FirstOfCands ==
  ASSUME cands \subseteq ToSet(Names) \X Arguments \X Values, cands # {}
  PROVE  First \in cands
<1>1. Names \in Seq(ToSet(Names)) /\ Arguments \subseteq Nat
  BY CrossAssumption DEF CrossAssumption, Arguments
<1>2. ASSUME NEW f \in ToSet(Names) PROVE Rank(f) \in Nat /\ Names[Rank(f)] = f
  <2>1. \E k \in 1..Len(Names) : Names[k] = f
    BY <1>1, <1>2 DEF ToSet
  <2> QED
    BY <1>1, <2>1 DEF Rank
<1>3. \A x \in cands : x[1] \in ToSet(Names) /\ x[2] \in Nat
  BY <1>1
<1> DEFINE Ranks == {Rank(x[1]) : x \in cands}
<1>4. PICK r \in Ranks : \A q \in Ranks : r <= q
  <2>1. Ranks \subseteq Nat /\ Ranks # {}
    BY <1>2, <1>3
  <2> HIDE DEF Ranks
  <2> QED
    BY <2>1, LeastNatural
<1> DEFINE Ats == {x[2] : x \in {y \in cands : Rank(y[1]) = r}}
<1>5. PICK n \in Ats : \A q \in Ats : n <= q
  <2>1. Ats \subseteq Nat /\ Ats # {}
    BY <1>3, <1>4
  <2> HIDE DEF Ats
  <2> QED
    BY <2>1, LeastNatural
<1>6. PICK x \in cands : Rank(x[1]) = r /\ x[2] = n
  OBVIOUS
<1>7. ASSUME NEW y \in cands PROVE Earlier(x, y)
  <2>1. r <= Rank(y[1]) /\ Rank(y[1]) \in Nat /\ r \in Nat
    BY <1>2, <1>3, <1>4
  <2>2. CASE r < Rank(y[1])
    BY <1>6, <2>2 DEF Earlier
  <2>3. CASE r = Rank(y[1])
    <3>1. n <= y[2]
      BY <1>5, <2>3
    <3>2. x[1] = y[1]
      BY <1>2, <1>3, <1>6, <2>3
    <3> QED
      BY <1>6, <3>1, <3>2 DEF Earlier
  <2> QED
    BY <2>1, <2>2, <2>3
<1> QED
  BY <1>6, <1>7 DEF First

\* If the callers agree on a constant, all calls pass it.
LEMMA UniformPasses ==
  ASSUME Typed(fns), NEW f \in Functions, NEW i, NEW v, Uniform(f, i, v)
  PROVE  AllPass(f, i, v)
<1>1. i \in 1..fns[f].arity /\ v # Lowest /\ PerArg(f, i) = {v}
  BY DEF Uniform
<1> SUFFICES ASSUME NEW h \in Functions, NEW c \in fns[h].calls, c.callee = f
             PROVE  i \in DOMAIN c.args /\ c.args[i] = v
  BY DEF AllPass
<1>2. i \in DOMAIN c.args
  BY <1>1 DEF Typed, WellCalled, Functions
<1>3. c \in CallsTo(f)
  BY DEF CallsTo, CallsOf
<1>4. Noted(c.args[i]) \in PerArg(f, i)
  BY <1>2, <1>3 DEF PerArg
<1> QED
  BY <1>1, <1>2, <1>4 DEF Noted

\* A clone takes over what is known to be passed.
LEMMA SpecialiseStep == CrossInv /\ Specialise => CrossInv'
<1> SUFFICES ASSUME CrossInv, Specialise PROVE CrossInv'
  OBVIOUS
<1>1. PICK f, i, v : f = First[1] /\ i = First[2] /\ v = First[3]
  OBVIOUS
<1>2. /\ pass = "ipcp" /\ cands # {} /\ Uniform(f, i, v)
      /\ cands' = cands \ {First} /\ given' = given /\ dead' = dead /\ pass' = pass
  BY <1>1 DEF Specialise
<1>3. PICK g \in FreshNames :
        /\ fns' = WithClone(f, i, v, g)
        /\ made' = [h \in DOMAIN made \cup {g} |->
                      IF h = g THEN [of |-> f, at |-> i, value |-> v] ELSE made[h]]
  BY <1>1 DEF Specialise
<1>4. First \in cands
  BY <1>2, FirstOfCands DEF CrossInv
<1>5. f \in Functions /\ f \notin DOMAIN made /\ i \in Arguments /\ v \in Values
  BY <1>1, <1>2, <1>4 DEF CrossInv
<1>6. g \in ToSet(Names) /\ g \notin Functions \cup Called \cup Addressed /\ g # Main
      /\ g \notin Functions \cup Called /\ g \notin Functions
  BY DEF FreshNames
<1>7. Typed(fns) /\ AllPass(f, i, v)
  BY <1>2, <1>5, UniformPasses DEF CrossInv
<1>8. Typed(fns') /\ {Before(x, f, i, v, g) : x \in Contexts(fns')} = Contexts(fns)
  BY <1>3, <1>5, <1>6, <1>7, CloneTyped, CloneContexts
\* A context of the clone is one of its original, whose other contexts are as they were.
<1>9. \A x : Original(x)' = Original(Before(x, f, i, v, g))
  <2> TAKE x
  <2>1. CASE x[1] = g
    <3>1. x[1] \in DOMAIN made' /\ made'[x[1]].of = f /\ made'[x[1]].at = i /\ made'[x[1]].value = v
      BY <1>3, <2>1
    <3>2. Original(x)' = <<f, [x[2] EXCEPT ![i] = v]>>
      BY <3>1 DEF Original
    <3>3. Before(x, f, i, v, g) = <<f, [x[2] EXCEPT ![i] = v]>> /\ Before(x, f, i, v, g)[1] = f
      BY <2>1 DEF Before
    <3> QED
      BY <1>5, <3>2, <3>3 DEF Original
  <2>2. CASE x[1] # g
    <3>1. x[1] \in DOMAIN made' <=> x[1] \in DOMAIN made
      BY <1>3, <2>2
    <3>2. x[1] \in DOMAIN made => made'[x[1]] = made[x[1]]
      BY <1>3, <2>2
    <3>3. Original(x)' = Original(x)
      BY <3>1, <3>2 DEF Original
    <3> QED
      BY <2>2, <3>3 DEF Before
  <2> QED
    BY <2>1, <2>2
<1>10. Functions' = Functions \cup {g} /\ HasClone(fns', f, i, v, g)
  <2>1. PICK ns : ns = WithClone(f, i, v, g)
    OBVIOUS
  <2>2. HasClone(ns, f, i, v, g)
    BY <1>5, <1>6, <1>7, <2>1, CloneShape
  <2>3. fns' = ns
    BY <1>3, <2>1
  <2> QED
    BY <2>2, <2>3 DEF HasClone, Functions
<1>11. \A h \in Functions' : g \notin fns'[h].uses /\ fns'[h].uses \cap Functions' \subseteq DOMAIN given'
  <2>1. \A h \in Functions : g \notin fns[h].uses /\ fns[h].uses \cap Functions \subseteq DOMAIN given
    BY <1>6 DEF CrossInv, Addressed
  <2>2. \A h \in Functions : fns'[h].uses = fns[h].uses
    BY <1>10 DEF HasClone
  <2>3. fns'[g].uses = fns[f].uses
    BY <1>10 DEF HasClone
  <2> QED
    BY <1>2, <1>5, <1>10, <2>1, <2>2, <2>3
\* If no address in use was removed now, none was before.
<1>12. AddressesKept' => AddressesKept
  <2> SUFFICES ASSUME AddressesKept', NEW z \in Contexts(fns)
               PROVE  fns[z[1]].uses \cap DOMAIN given \subseteq Functions
    BY DEF AddressesKept
  <2>1. PICK x \in Contexts(fns') : z = Before(x, f, i, v, g)
    BY <1>8
  <2>2. x \in Places(fns') /\ x[1] \in Functions'
    BY <1>8, <2>1, ContextsFacts DEF Places, Functions
  <2>3. fns'[x[1]].uses = fns[z[1]].uses
    <3>1. PICK ns : ns = WithClone(f, i, v, g)
      OBVIOUS
    <3>2. ns = fns'
      BY <1>3, <3>1
    <3>3. x \in Places(ns)
      BY <2>2, <3>2
    <3>4. ns[x[1]].uses = fns[Before(x, f, i, v, g)[1]].uses
      BY <1>5, <1>6, <1>7, <3>1, <3>3, UsesMatch
    <3> QED
      BY <2>1, <3>2, <3>4
  <2>4. (fns'[x[1]].uses \cap DOMAIN given) \subseteq Functions'
    BY <1>2, <2>1 DEF AddressesKept
  <2> QED
    BY <1>10, <1>11, <2>2, <2>3, <2>4
<1>13. ContextsKept'
  <2> SUFFICES ASSUME AddressesKept'
               PROVE  (Contexts(given) = {Original(x) : x \in Contexts(fns)})'
    BY DEF ContextsKept
  <2>1. Contexts(given) = {Original(x) : x \in Contexts(fns)}
    BY <1>12 DEF CrossInv, ContextsKept
  <2>2. {Original(x) : x \in Contexts(fns)} = {Original(Before(x, f, i, v, g)) : x \in Contexts(fns')}
    BY <1>8
  <2> QED
    BY <1>2, <1>9, <2>1, <2>2
<1>14. dead' = {}
  BY <1>2 DEF CrossInv
<1>15. \A x \in cands' : x[1] \in Functions' \ DOMAIN made'
  <2>1. Functions' = Functions \cup {g}
    BY <1>10
  <2>2. \A x \in cands : x[1] \in Functions \ DOMAIN made
    BY <1>2 DEF CrossInv
  <2> QED
    BY <1>2, <1>3, <1>6, <2>1, <2>2
<1>16. cands' \subseteq ToSet(Names) \X Arguments \X Values
  BY <1>2 DEF CrossInv
<1>17. Typed(given)'
  BY <1>2 DEF CrossInv
<1>18. Typed(fns)'
  BY <1>8
<1> QED
  BY <1>2, <1>13, <1>14, <1>15, <1>16, <1>17, <1>18, <1>11 DEF CrossInv

LEMMA RemoveStep == CrossInv /\ RemoveDead => CrossInv'
<1> SUFFICES ASSUME CrossInv, RemoveDead PROVE CrossInv'
  OBVIOUS
<1>1. PICK f \in dead : fns' = [g \in Functions \ {f} |-> fns[g]] /\ dead' = dead \ {f}
  BY DEF RemoveDead
<1>2. given' = given /\ made' = made /\ cands' = cands /\ pass' = pass
  BY DEF RemoveDead
<1>3. f \in Functions /\ ~Visible(f) /\ Callers(f) = {} /\ pass \in {"dfe", "dfe again"}
  BY DEF CrossInv
<1>4. /\ Typed(fns')
      /\ ~Dangling(fns') => ~Dangling(fns) /\ Contexts(fns') = Contexts(fns)
  BY <1>1, <1>3, RemovedContexts DEF CrossInv
<1>5. \A g \in dead' : g \in Functions' /\ Visible(g)' = Visible(g) /\ Callers(g)' = {}
  <2> TAKE g \in dead'
  <2>1. g \in dead /\ g # f /\ g \in Functions /\ Callers(g) = {}
    BY <1>1 DEF CrossInv
  <2>2. Functions' = Functions \ {f} /\ \A h \in Functions' : fns'[h] = fns[h]
    BY <1>1 DEF Functions
  <2>3. Callers(g)' \subseteq Callers(g)
    BY <2>2 DEF Callers, CallsOf
  <2>4. Visible(g)' = Visible(g)
    BY <2>1, <2>2 DEF Visible
  <2> QED
    BY <2>1, <2>2, <2>3, <2>4
<1>6. ContextsKept'
  <2>1. \A x : Original(x)' = Original(x)
    BY <1>2 DEF Original
  <2>2. AddressesKept <=> ~Dangling(fns)
    BY DEF AddressesKept, Dangling, Functions
  <2>3. AddressesKept' <=> ~Dangling(fns')
    BY <1>2 DEF AddressesKept, Dangling, Functions
  <2> QED
    BY <1>2, <1>4, <2>1, <2>2, <2>3 DEF CrossInv, ContextsKept
<1>7. \A h \in Functions' : fns'[h].uses \cap Functions' \subseteq DOMAIN given'
  <2>1. Functions' = Functions \ {f} /\ \A h \in Functions' : fns'[h] = fns[h]
    BY <1>1 DEF Functions
  <2> QED
    BY <1>2, <2>1 DEF CrossInv
<1>8. \A g \in dead' : g \in Functions' /\ ~Visible(g)' /\ Callers(g)' = {}
  BY <1>1, <1>5 DEF CrossInv
<1>9. Typed(given)' /\ Typed(fns)'
  BY <1>2, <1>4 DEF CrossInv
<1> QED
  BY <1>2, <1>3, <1>6, <1>8, <1>9, <1>7 DEF CrossInv

LEMMA CrossStep == CrossInv /\ [CrossNext]_crossVars => CrossInv'
<1> SUFFICES ASSUME CrossInv, [CrossNext]_crossVars PROVE CrossInv'
  OBVIOUS
<1>1. ASSUME UNCHANGED <<given, fns, made>>
      PROVE  /\ Typed(given)' /\ Typed(fns)' /\ ContextsKept' /\ Functions' = Functions
             /\ \A f : (Visible(f) <=> Visible(f)') /\ Callers(f)' = Callers(f)
             /\ \A h \in Functions' : fns'[h].uses \cap Functions' \subseteq DOMAIN given'
  <2>1. Typed(given)' /\ Typed(fns)'
    BY <1>1 DEF CrossInv
  <2>2. \A x : Original(x)' = Original(x)
    BY <1>1 DEF Original
  <2>3. ContextsKept'
    <3>1. AddressesKept' <=> AddressesKept
      BY <1>1 DEF AddressesKept, Functions
    <3> QED
      BY <1>1, <2>2, <3>1 DEF CrossInv, ContextsKept
  <2>4. Functions' = Functions
    BY <1>1 DEF Functions
  <2>6. \A h \in Functions' : fns'[h].uses \cap Functions' \subseteq DOMAIN given'
    BY <1>1, <2>4 DEF CrossInv
  <2>5. \A f : (Visible(f) <=> Visible(f)') /\ Callers(f)' = Callers(f)
    BY <1>1, <2>4 DEF Visible, Callers, CallsOf
  <2> QED
    BY <2>1, <2>3, <2>4, <2>5, <2>6
<1>2. CASE FindDead
  <2>1. \A f \in Dead : f \in Functions /\ ~Visible(f) /\ Callers(f) = {}
    BY DEF Dead
  <2>2. /\ dead' = Dead /\ pass \in {"dfe", "dfe again"} /\ pass' = pass
        /\ UNCHANGED <<given, fns, made, cands>>
    BY <1>2 DEF FindDead
  <2>3. \A f \in dead' : f \in Functions' /\ ~Visible(f)' /\ Callers(f)' = {}
    BY <1>1, <2>1, <2>2
  <2> QED
    BY <1>1, <2>2, <2>3 DEF CrossInv
<1>3. CASE RemoveDead
  BY <1>3, RemoveStep
<1>4. CASE StartIpcp
  <2>1. /\ pass = "dfe" /\ dead = {} /\ cands' = Candidates /\ pass' = "ipcp"
        /\ UNCHANGED <<given, fns, made, dead>>
    BY <1>4 DEF StartIpcp
  <2>2. \A x \in Candidates : x \in Functions \X Arguments \X Values
    BY DEF Candidates
  <2>3. Functions \subseteq ToSet(Names)
    BY DEF CrossInv, Typed, Functions
  <2>4. DOMAIN made = {}
    BY <2>1 DEF CrossInv
  <2>5. /\ cands' \subseteq ToSet(Names) \X Arguments \X Values
        /\ \A x \in cands' : x[1] \in Functions \ DOMAIN made
    BY <2>1, <2>2, <2>3, <2>4
  <2> QED
    BY <1>1, <2>1, <2>5 DEF CrossInv
<1>5. CASE Specialise
  BY <1>5, SpecialiseStep
<1>6. CASE SkipCandidate
  <2>1. /\ cands' = cands \ {First} /\ UNCHANGED <<given, fns, made, dead, pass>> /\ pass = "ipcp"
    BY <1>6 DEF SkipCandidate
  <2>2. /\ cands' \subseteq ToSet(Names) \X Arguments \X Values
        /\ \A x \in cands' : x[1] \in Functions \ DOMAIN made
    BY <2>1 DEF CrossInv
  <2>3. dead' = {}
    BY <2>1 DEF CrossInv
  <2> QED
    BY <1>1, <2>1, <2>2, <2>3 DEF CrossInv
<1>7. CASE EndIpcp
  <2>1. UNCHANGED <<given, fns, made, dead>> /\ pass = "ipcp" /\ pass' = "dfe again"
    BY <1>7 DEF EndIpcp
  <2>2. dead' = {}
    BY <2>1 DEF CrossInv
  <2> QED
    BY <1>1, <2>1, <2>2 DEF CrossInv
<1>8. CASE EndPasses
  <2>1. UNCHANGED <<given, fns, made, dead>> /\ dead = {} /\ pass' = "ended"
    BY <1>8 DEF EndPasses
  <2> QED
    BY <1>1, <2>1 DEF CrossInv
<1>9. CASE CrossDone \/ UNCHANGED crossVars
  <2>1. UNCHANGED <<given, fns, made, dead, cands, pass>>
    BY <1>9 DEF CrossDone, crossVars
  <2>2. \A f \in dead' : f \in Functions' /\ ~Visible(f)' /\ Callers(f)' = {}
    BY <1>1, <2>1 DEF CrossInv
  <2> QED
    BY <1>1, <2>1, <2>2 DEF CrossInv
<1> QED
  BY <1>2, <1>3, <1>4, <1>5, <1>6, <1>7, <1>8, <1>9 DEF CrossNext

\* Both passes are exact by construction (src/Pipeline.cpp:180): for every module
\* in which calls pass all arguments, however many clones are made of whichever
\* candidates, the same functions are reached with the same constants as in the
\* module that was given, through addresses as well as by calls, unless the
\* elimination removed a function whose address a function that is reached uses.
THEOREM PassesKeepContexts == CrossSpec => []ContextsKept
<1>1. CrossInv => ContextsKept
  BY DEF CrossInv
<1> QED
  BY <1>1, CrossStart, CrossStep, PTL DEF CrossSpec

-----------------------------------------------------------------------------
(* The cleanup after assembly.                                              *)

\* A function on numbers can be defined step by step.
Stepwise(N, X, x0, G) ==
  {F \in [0..N -> X] : F[0] = x0 /\ \A n \in 1..N : F[n] = G[n][F[n - 1]]}
LEMMA StepByStep ==
  ASSUME NEW N \in Nat, NEW X, NEW x0 \in X, NEW G \in [1..N -> [X -> X]]
  PROVE  Stepwise(N, X, x0, G) # {}
<1> DEFINE Traced(k) == \E F \in [0..k -> X] : F[0] = x0 /\ \A n \in 1..k : F[n] = G[n][F[n - 1]]
           Bad == {k \in 0..N : ~Traced(k)}
<1>1. ASSUME Bad # {} PROVE FALSE
  <2>1. PICK k \in Bad : \A x \in Bad : k <= x
    <3>1. Bad \subseteq Nat
      OBVIOUS
    <3> QED
      BY <1>1, <3>1, LeastNatural
  <2>2. k \in 0..N /\ ~Traced(k)
    OBVIOUS
  <2>3. CASE k = 0
    <3> DEFINE F == [n \in 0..0 |-> x0]
    <3>1. F \in [0..0 -> X] /\ F[0] = x0 /\ \A n \in 1..0 : F[n] = G[n][F[n - 1]]
      OBVIOUS
    <3> QED
      BY <2>2, <2>3, <3>1
  <2>4. CASE k # 0
    <3>1. k - 1 \in 0..N /\ k \in 1..N /\ k - 1 < k
      BY <2>2, <2>4
    <3>2. Traced(k - 1)
      <4>1. ~(k <= k - 1)
        BY <3>1
      <4>2. k - 1 \notin Bad
        <5> HIDE DEF Bad
        <5> QED
          BY <2>1, <4>1
      <4> QED
        BY <3>1, <4>2
    <3>3. PICK F \in [0..(k - 1) -> X] :
            F[0] = x0 /\ \A n \in 1..(k - 1) : F[n] = G[n][F[n - 1]]
      BY <3>2
    <3> DEFINE H == [n \in 0..k |-> IF n = k THEN G[k][F[k - 1]] ELSE F[n]]
    <3>4. F[k - 1] \in X
      BY <3>1, <3>3
    <3>5. G[k][F[k - 1]] \in X
      BY <3>1, <3>4
    <3>6. H \in [0..k -> X]
      BY <3>1, <3>3, <3>5
    <3>7. H[0] = x0
      BY <3>1, <3>3
    <3>8. ASSUME NEW n \in 1..k PROVE H[n] = G[n][H[n - 1]]
      <4>1. n - 1 \in 0..k /\ n - 1 # k /\ n \in 0..k
        BY <3>1
      <4>2. H[n - 1] = F[n - 1]
        BY <4>1
      <4>3. CASE n = k
        BY <4>1, <4>2, <4>3
      <4>4. CASE n # k
        <5>1. n \in 1..(k - 1)
          BY <3>1, <4>4
        <5>2. H[n] = F[n]
          BY <4>1, <4>4
        <5> QED
          BY <3>3, <4>2, <5>1, <5>2
      <4> QED
        BY <4>3, <4>4
    <3> HIDE DEF H
    <3>9. Traced(k)
      BY <3>6, <3>7, <3>8
    <3> QED
      BY <2>2, <3>9
  <2> QED
    BY <2>3, <2>4
<1>2. Traced(N)
  BY <1>1
<1> QED
  BY <1>2 DEF Stepwise

\* Only keeps what is kept.
LEMMA OnlyKeeps ==
  ASSUME NEW s \in Seq(Blocks), NEW keep
  PROVE  Only(s, keep) \in Seq(Blocks) /\ ToSet(Only(s, keep)) = ToSet(s) \cap keep
<1> DEFINE N == Len(s)
           Step(x, n) == IF s[n] \in keep THEN Append(x, s[n]) ELSE x
           Eq(f) == f = [n \in 0..Len(s) |->
               IF n = 0 THEN <<>> ELSE IF s[n] \in keep THEN Append(f[n - 1], s[n]) ELSE f[n - 1]]
           f == CHOOSE f : Eq(f)
           G == [n \in 1..N |-> [x \in Seq(Blocks) |-> Step(x, n)]]
<1>1. Only(s, keep) = f[N]
  BY DEF Only
<1>2. N \in Nat /\ DOMAIN s = 1..N /\ \A n \in 1..N : s[n] \in Blocks
  OBVIOUS
<1>3. G \in [1..N -> [Seq(Blocks) -> Seq(Blocks)]]
  <2>1. \A n \in 1..N : \A x \in Seq(Blocks) : Step(x, n) \in Seq(Blocks)
    BY <1>2
  <2> QED
    BY <2>1
<1>4. <<>> \in Seq(Blocks)
  OBVIOUS
<1>5. PICK F \in [0..N -> Seq(Blocks)] : F[0] = <<>> /\ \A n \in 1..N : F[n] = G[n][F[n - 1]]
  <2> DEFINE X == Seq(Blocks)
             e == <<>>
  <2>1. G \in [1..N -> [X -> X]] /\ e \in X /\ N \in Nat
    BY <1>2, <1>3, <1>4
  <2> HIDE DEF G, N, X, e
  <2>2. Stepwise(N, X, e, G) # {}
    BY <2>1, StepByStep
  <2>3. PICK F \in Stepwise(N, X, e, G) : TRUE
    BY <2>2
  <2> QED
    BY <2>3 DEF X, e, Stepwise
<1>6. \A n \in 1..N : F[n] = Step(F[n - 1], n)
  <2>1. \A n \in 1..N : n - 1 \in 0..N
    BY <1>2
  <2>2. \A n \in 1..N : F[n - 1] \in Seq(Blocks)
    BY <1>5, <2>1
  <2> QED
    BY <1>5, <2>2
<1>7. Eq(F)
  <2>1. ASSUME NEW n \in 0..N
        PROVE  F[n] = IF n = 0 THEN <<>> ELSE Step(F[n - 1], n)
    <3> HIDE DEF Step
    <3>1. CASE n = 0
      BY <1>5, <3>1
    <3>2. CASE n # 0
      <4>1. n \in 1..N
        BY <1>2, <3>2
      <4> QED
        BY <1>6, <3>2, <4>1
    <3> QED
      BY <3>1, <3>2
  <2>2. F = [n \in 0..N |-> F[n]]
    BY <1>5
  <2> QED
    BY <2>1, <2>2
<1>8. PICK h : h = f /\ Eq(h)
  BY <1>7
<1>9. /\ h[0] = <<>>
      /\ \A n \in 1..N : h[n] = IF s[n] \in keep THEN Append(h[n - 1], s[n]) ELSE h[n - 1]
  <2> HIDE DEF f
  <2>1. 0 \in 0..N /\ \A n \in 1..N : n \in 0..N /\ n # 0
    BY <1>2
  <2> QED
    BY <1>8, <2>1
<1>0. Only(s, keep) = h[N]
  BY <1>1, <1>8
<1> HIDE DEF f, G
<1> DEFINE Right(n) == h[n] \in Seq(Blocks) /\ ToSet(h[n]) = {s[i] : i \in 1..n} \cap keep
           Bad == {n \in 0..N : ~Right(n)}
<1>10. ASSUME Bad # {} PROVE FALSE
  <2>1. PICK k \in Bad : \A x \in Bad : k <= x
    <3>1. Bad \subseteq Nat
      OBVIOUS
    <3> QED
      BY <1>10, <3>1, LeastNatural
  <2>2. k \in 0..N /\ ~Right(k)
    OBVIOUS
  <2>3. k # 0
    <3>1. ToSet(<<>>) = {}
      BY DEF ToSet
    <3>2. {s[i] : i \in 1..0} = {}
      OBVIOUS
    <3>3. Right(0)
      BY <1>9, <3>1, <3>2
    <3> QED
      BY <2>2, <3>3
  <2>4. k - 1 \in 0..N /\ k \in 1..N
    BY <2>2, <2>3
  <2>5. Right(k - 1)
    <3>1. ~(k <= k - 1)
      BY <2>2
    <3>2. k - 1 \notin Bad
      <4> HIDE DEF Bad
      <4> QED
        BY <2>1, <3>1
    <3> QED
      BY <2>4, <3>2
  <2>6. {s[i] : i \in 1..k} = {s[i] : i \in 1..(k - 1)} \cup {s[k]}
    <3>1. \A i : i \in 1..k <=> i \in 1..(k - 1) \/ i = k
      BY <2>4
    <3> QED
      BY <3>1
  <2>7. s[k] \in Blocks /\ h[k] = IF s[k] \in keep THEN Append(h[k - 1], s[k]) ELSE h[k - 1]
    BY <1>2, <1>9, <2>4
  <2>8. \A x \in Seq(Blocks) : ToSet(Append(x, s[k])) = ToSet(x) \cup {s[k]}
    <3> SUFFICES ASSUME NEW x \in Seq(Blocks) PROVE ToSet(Append(x, s[k])) = ToSet(x) \cup {s[k]}
      OBVIOUS
    <3>1. /\ DOMAIN Append(x, s[k]) = 1..(Len(x) + 1) /\ DOMAIN x = 1..Len(x) /\ Len(x) \in Nat
          /\ Append(x, s[k])[Len(x) + 1] = s[k]
          /\ \A i \in 1..Len(x) : Append(x, s[k])[i] = x[i]
      BY <2>7
    <3> QED
      BY <3>1 DEF ToSet
  <2>9. Right(k)
    <3>1. h[k - 1] \in Seq(Blocks)
      BY <2>5
    <3>2. h[k] \in Seq(Blocks)
      BY <2>7, <3>1
    <3>3. ToSet(h[k]) = ToSet(h[k - 1]) \cup ({s[k]} \cap keep)
      BY <2>7, <2>8, <3>1
    <3>4. ToSet(h[k - 1]) = {s[i] : i \in 1..(k - 1)} \cap keep
      BY <2>5
    <3>5. ToSet(h[k]) = {s[i] : i \in 1..k} \cap keep
      BY <2>6, <3>3, <3>4
    <3> QED
      BY <3>2, <3>5
  <2> QED
    BY <2>2, <2>9
<1>11. Right(N)
  <2>1. N \in 0..N
    BY <1>2
  <2>2. \A n \in 0..N : Right(n)
    BY <1>10
  <2> HIDE DEF Right
  <2> QED
    BY <2>1, <2>2
<1>12. {s[i] : i \in 1..N} = ToSet(s)
  BY <1>2 DEF ToSet
<1> QED
  BY <1>0, <1>11, <1>12

-----------------------------------------------------------------------------
(* Where branches lead: trails and landings, for any set of blocks that     *)
(* only jump.                                                               *)

Jumpy(js, t) == js \subseteq Blocks /\ \A y \in js : t[y]["dest_bb"] \in Blocks

LEMMA TrailLeast ==
  ASSUME NEW js, NEW t, NEW b, NEW s, s \subseteq Blocks, b \in s,
         \A y \in s \cap js : t[y]["dest_bb"] \in s
  PROVE  Trail(js, t, b) \subseteq s
BY DEF Trail

LEMMA TrailFacts ==
  ASSUME NEW js, NEW t, Jumpy(js, t), NEW b \in Blocks
  PROVE  /\ Trail(js, t, b) \subseteq Blocks /\ b \in Trail(js, t, b)
         /\ \A y \in Trail(js, t, b) \cap js : t[y]["dest_bb"] \in Trail(js, t, b)
BY DEF Trail, Jumpy

LEMMA TrailWithin ==
  ASSUME NEW js, NEW t, Jumpy(js, t), NEW b \in Blocks, NEW y \in Trail(js, t, b)
  PROVE  Trail(js, t, y) \subseteq Trail(js, t, b)
BY TrailFacts, TrailLeast

LEMMA TrailNext ==
  ASSUME NEW js, NEW t, Jumpy(js, t), NEW b \in js
  PROVE  Trail(js, t, b) = {b} \cup Trail(js, t, t[b]["dest_bb"])
<1> DEFINE n == t[b]["dest_bb"]
           s == {b} \cup Trail(js, t, n)
<1>1. b \in Blocks /\ n \in Blocks
  BY DEF Jumpy
<1>2. s \subseteq Blocks /\ b \in s /\ \A y \in s \cap js : t[y]["dest_bb"] \in s
  BY <1>1, TrailFacts
<1>3. Trail(js, t, b) \subseteq s
  <2> HIDE DEF s
  <2> QED
    BY <1>2, TrailLeast
<1>4. b \in Trail(js, t, b) /\ n \in Trail(js, t, b)
  BY <1>1, TrailFacts
<1>5. Trail(js, t, n) \subseteq Trail(js, t, b)
  BY <1>1, <1>4, TrailWithin
<1> QED
  BY <1>3, <1>4, <1>5

LEMMA TrailEnd ==
  ASSUME NEW js, NEW t, Jumpy(js, t), NEW b \in Blocks, b \notin js
  PROVE  Trail(js, t, b) = {b}
<1> DEFINE s == {b}
<1>1. Trail(js, t, b) \subseteq s
  <2>1. s \subseteq Blocks /\ b \in s /\ \A y \in s \cap js : t[y]["dest_bb"] \in s
    OBVIOUS
  <2> HIDE DEF s
  <2> QED
    BY <2>1, TrailLeast
<1> QED
  BY <1>1, TrailFacts

\* A trail has one end at most.
LEMMA OneEnd ==
  ASSUME NEW js, NEW t, Jumpy(js, t), NEW b \in Blocks, NEW y \in Trail(js, t, b), y \notin js
  PROVE  Trail(js, t, b) \ js = {y}
<1> DEFINE s == {z \in Trail(js, t, b) : y \in Trail(js, t, z)}
<1>1. s \subseteq Blocks /\ b \in s
  BY TrailFacts
<1>2. ASSUME NEW z \in s, z \in js PROVE t[z]["dest_bb"] \in s
  <2>1. y \in Trail(js, t, t[z]["dest_bb"])
    BY <1>2, TrailNext
  <2> QED
    BY <1>2, <2>1, TrailFacts
<1>3. Trail(js, t, b) \subseteq s
  <2> HIDE DEF s
  <2> QED
    BY <1>1, <1>2, TrailLeast
<1>4. ASSUME NEW z \in Trail(js, t, b), z \notin js PROVE z = y
  <2>1. y \in Trail(js, t, z) /\ z \in Blocks
    BY <1>3, TrailFacts
  <2> QED
    BY <1>4, <2>1, TrailEnd
<1> QED
  BY <1>4

\* A landing is the end of its trail, if there is one.
LEMMA LandingAt ==
  ASSUME NEW js, NEW t, Jumpy(js, t), NEW b \in Blocks, NEW y \in Trail(js, t, b), y \notin js
  PROVE  Landing(js, t, b) = y
BY OneEnd DEF Landing

LEMMA LandingNowhere ==
  ASSUME NEW js, NEW t, NEW b, Trail(js, t, b) \subseteq js
  PROVE  Landing(js, t, b) = NoBlock
BY DEF Landing

LEMMA LandingCases ==
  ASSUME NEW js, NEW t, Jumpy(js, t), NEW b \in Blocks
  PROVE  \/ Landing(js, t, b) \in Trail(js, t, b) \ js
         \/ Landing(js, t, b) = NoBlock /\ Trail(js, t, b) \subseteq js
<1>1. CASE Trail(js, t, b) \subseteq js
  BY <1>1, LandingNowhere
<1>2. CASE ~(Trail(js, t, b) \subseteq js)
  BY <1>2, LandingAt
<1> QED
  BY <1>1, <1>2

LEMMA LandingStep ==
  ASSUME NEW js, NEW t, Jumpy(js, t), NEW b \in js
  PROVE  Landing(js, t, b) = Landing(js, t, t[b]["dest_bb"])
<1> DEFINE n == t[b]["dest_bb"]
<1>1. b \in Blocks /\ n \in Blocks
  BY DEF Jumpy
<1>2. Trail(js, t, b) = {b} \cup Trail(js, t, n)
  BY TrailNext
<1>3. CASE Trail(js, t, n) \subseteq js
  BY <1>2, <1>3, LandingNowhere
<1>4. CASE ~(Trail(js, t, n) \subseteq js)
  <2>1. PICK w \in Trail(js, t, n) : w \notin js
    BY <1>4
  <2>2. w \in Trail(js, t, b)
    BY <1>2
  <2> QED
    BY <1>1, <2>1, <2>2, LandingAt
<1> QED
  BY <1>3, <1>4

LEMMA LandingEnd ==
  ASSUME NEW js, NEW t, Jumpy(js, t), NEW b \in Blocks, b \notin js
  PROVE  Landing(js, t, b) = b
BY TrailFacts, LandingAt

\* On a block that branches to itself there is none.
LEMMA LandingLoop ==
  ASSUME NEW js, NEW t, Jumpy(js, t), NEW b \in js, t[b]["dest_bb"] = b
  PROVE  Landing(js, t, b) = NoBlock
<1> DEFINE s == {b}
<1>1. Trail(js, t, b) \subseteq s
  <2>1. s \subseteq Blocks /\ b \in s /\ \A y \in s \cap js : t[y]["dest_bb"] \in s
    BY DEF Jumpy
  <2> HIDE DEF s
  <2> QED
    BY <2>1, TrailLeast
<1> QED
  BY <1>1, LandingNowhere

\* Only the branches of the blocks that jump matter.
LEMMA SameTrail ==
  ASSUME NEW js, NEW t, NEW u, NEW b, \A y \in js : t[y]["dest_bb"] = u[y]["dest_bb"]
  PROVE  Trail(js, t, b) = Trail(js, u, b) /\ Landing(js, t, b) = Landing(js, u, b)
<1>1. Trail(js, t, b) = Trail(js, u, b)
  BY DEF Trail
<1> QED
  BY <1>1 DEF Landing

-----------------------------------------------------------------------------
(* More blocks only jump than before.                                       *)

\* What the trails of two branches share when their landings were the same.
LEMMA EndShared ==
  ASSUME NEW js, NEW ks, js \subseteq ks, NEW t, NEW m, Jumpy(ks, t), Jumpy(ks, m),
         NEW x \in Blocks, NEW y \in Blocks,
         Landing(js, t, x) = Landing(js, m, y),
         \A u \in (ks \ js) \cap Trail(ks, t, x) \cap Trail(ks, m, y) :
            Landing(js, t, t[u]["dest_bb"]) = Landing(js, m, m[u]["dest_bb"]),
         NEW w \in Trail(ks, t, x), w \notin ks
  PROVE  w \in Trail(ks, m, y)
<1>1. Jumpy(js, t) /\ Jumpy(js, m)
  BY DEF Jumpy
<1> DEFINE Match(u) == \E v \in Trail(ks, m, y) : Landing(js, t, u) = Landing(js, m, v)
           s == {u \in Trail(ks, t, x) : Match(u)}
<1>2. s \subseteq Blocks /\ x \in s
  BY TrailFacts
<1>3. \A v \in Trail(ks, m, y) : Trail(js, m, v) \subseteq Trail(ks, m, y)
  <2> TAKE v \in Trail(ks, m, y)
  <2>1. /\ Trail(ks, m, y) \subseteq Blocks
        /\ \A z \in Trail(ks, m, y) \cap js : m[z]["dest_bb"] \in Trail(ks, m, y)
    BY TrailFacts
  <2> QED
    BY <2>1, TrailLeast
\* A block that did more than jump, and was landed on, is on both trails.
<1>4. ASSUME NEW u \in s, u \notin js PROVE u \in Trail(ks, m, y)
  <2>1. PICK v \in Trail(ks, m, y) : Landing(js, t, u) = Landing(js, m, v)
    OBVIOUS
  <2>2. u \in Blocks /\ v \in Blocks
    BY <1>2, TrailFacts
  <2>3. Landing(js, m, v) = u
    BY <1>1, <1>4, <2>1, <2>2, LandingEnd
  <2>4. u \in Trail(js, m, v)
    <3>1. u # NoBlock
      BY <2>2, BlockMergeAssumption DEF BlockMergeAssumption
    <3> QED
      BY <1>1, <2>2, <2>3, <3>1, LandingCases
  <2> QED
    BY <1>3, <2>4
<1>5. ASSUME NEW u \in s, u \in ks PROVE t[u]["dest_bb"] \in s
  <2>1. t[u]["dest_bb"] \in Trail(ks, t, x)
    BY <1>5, TrailFacts
  <2>2. CASE u \in js
    <3>1. Landing(js, t, u) = Landing(js, t, t[u]["dest_bb"])
      BY <1>1, <2>2, LandingStep
    <3> QED
      BY <2>1, <3>1
  <2>3. CASE u \notin js
    <3>1. u \in Trail(ks, m, y)
      BY <1>4, <2>3
    <3>2. Landing(js, t, t[u]["dest_bb"]) = Landing(js, m, m[u]["dest_bb"])
      BY <1>5, <2>3, <3>1
    <3>3. m[u]["dest_bb"] \in Trail(ks, m, y)
      BY <1>5, <3>1, TrailFacts
    <3> QED
      BY <2>1, <3>2, <3>3
  <2> QED
    BY <2>2, <2>3
<1>6. Trail(ks, t, x) \subseteq s
  <2> HIDE DEF s
  <2> QED
    BY <1>2, <1>5, TrailLeast
<1>7. w \in s /\ w \notin js
  BY <1>6
<1> QED
  BY <1>4, <1>7

LEMMA LandingsGrow ==
  ASSUME NEW js, NEW ks, js \subseteq ks, NEW t, NEW m, Jumpy(ks, t), Jumpy(ks, m),
         NEW x \in Blocks, NEW y \in Blocks,
         Landing(js, t, x) = Landing(js, m, y),
         \A u \in (ks \ js) \cap Trail(ks, t, x) :
            Landing(js, t, t[u]["dest_bb"]) = Landing(js, m, m[u]["dest_bb"])
  PROVE  Landing(ks, t, x) = Landing(ks, m, y)
<1>1. \A u \in (ks \ js) \cap Trail(ks, t, x) \cap Trail(ks, m, y) :
         Landing(js, t, t[u]["dest_bb"]) = Landing(js, m, m[u]["dest_bb"])
  OBVIOUS
<1>2. CASE \E w \in Trail(ks, t, x) : w \notin ks
  <2>1. PICK w \in Trail(ks, t, x) : w \notin ks
    BY <1>2
  <2>2. w \in Trail(ks, m, y)
    BY <1>1, <2>1, EndShared
  <2> QED
    BY <2>1, <2>2, LandingAt
<1>3. CASE \E w \in Trail(ks, m, y) : w \notin ks
  <2>1. PICK w \in Trail(ks, m, y) : w \notin ks
    BY <1>3
  <2>2. w \in Trail(ks, t, x)
    <3>1. /\ Landing(js, m, y) = Landing(js, t, x)
          /\ \A u \in (ks \ js) \cap Trail(ks, m, y) \cap Trail(ks, t, x) :
                Landing(js, m, m[u]["dest_bb"]) = Landing(js, t, t[u]["dest_bb"])
      BY <1>1
    <3> QED
      BY <2>1, <3>1, EndShared
  <2> QED
    BY <2>1, <2>2, LandingAt
<1>4. CASE Trail(ks, t, x) \subseteq ks /\ Trail(ks, m, y) \subseteq ks
  BY <1>4, LandingNowhere
<1> QED
  BY <1>2, <1>3, <1>4

-----------------------------------------------------------------------------
(* The clean-up.                                                            *)

\* What the graph is made of, and that no branch leads out of it.
Wired ==
  /\ order \in Seq(Blocks) /\ DOMAIN phi = Blocks
  /\ to \in [Blocks -> Branches] /\ meant \in [Blocks -> Branches]
  /\ body \in [Blocks -> Bodies]
  /\ \A b \in Blocks : DOMAIN meant[b] = DOMAIN to[b]
  /\ \A b \in Live : \A l \in DOMAIN to[b] : to[b][l] \in Live

\* A block without effects is followed by one that has some, by itself, or by
\* one further down.
Below(rank, d, b) == body[d] = "effect" \/ rank[d] < rank[b]
Descends(rank) ==
  \A b \in Live : \A l \in DOMAIN to[b] :
    body[b] # "effect" /\ to[b][l] # b => Below(rank, to[b][l], b)

LandsAt(b)     == Landing(Jumps, to, b)
Found          == {b \in Live : Forwarder(b)}
\* merge_map leads from each block to one on its way, and further down; those
\* that are resolved, to one that stays.
Resolving(rank) ==
  /\ DOMAIN merge = Found /\ todo \subseteq Found
  /\ \A b \in Found : merge[b] \in Live /\ LandsAt(merge[b]) = LandsAt(b) /\ Below(rank, merge[b], b)
  /\ \A b \in Found \ todo : merge[b] \notin Found
\* So does the walk, from its start and from the step after it.
Walking(rank) ==
  walk # Idle =>
    /\ stage = "resolve" /\ walk = [from |-> walk.from, cur |-> walk.cur]
    /\ walk.from \in todo /\ walk.cur \in Live
    /\ LandsAt(walk.cur) = LandsAt(walk.from) /\ Below(rank, walk.cur, walk.from)
    /\ walk.cur # merge[walk.from] =>
         merge[walk.from] \in Found /\ Below(rank, walk.cur, merge[walk.from])

Order(rank) ==
  Descends(rank) /\ (stage = "resolve" => Resolving(rank)) /\ Walking(rank)
MergeInv ==
  /\ Wired /\ BranchesKept
  /\ \E rank \in [Blocks -> Nat] : Order(rank)

LEMMA LiveFacts == order \in Seq(Blocks) => Live \subseteq Blocks
  BY DEF Live, ToSet

LEMMA BranchFacts ==
  ASSUME NEW t \in [Blocks -> Branches], NEW b \in Blocks
  PROVE  \A l \in DOMAIN t[b] : t[b][l] \in Blocks
BY DEF Branches

\* The blocks that jump have one branch, in the graph and in what was meant.
LEMMA JumpsFacts ==
  ASSUME Wired
  PROVE  /\ Jumpy(Jumps, to) /\ Jumpy(Jumps, meant)
         /\ \A b \in Jumps : b \in Blocks /\ DOMAIN to[b] = {"dest_bb"} /\ DOMAIN meant[b] = {"dest_bb"}
         /\ Live \subseteq Blocks
         /\ Found = {b \in Live \cap Jumps : to[b]["dest_bb"] # b}
<1>1. \A b \in Jumps : b \in Blocks /\ DOMAIN to[b] = {"dest_bb"}
  BY DEF Jumps, OnlyJumps
<1>2. \A b \in Jumps : DOMAIN meant[b] = {"dest_bb"}
  BY <1>1 DEF Wired
<1>3. \A b \in Jumps : to[b]["dest_bb"] \in Blocks /\ meant[b]["dest_bb"] \in Blocks
  BY <1>1, <1>2, BranchFacts DEF Wired
<1>4. Live \subseteq Blocks
  BY LiveFacts DEF Wired
<1>5. Jumps \subseteq Blocks
  BY DEF Jumps
<1>6. Found = {b \in Live \cap Jumps : to[b]["dest_bb"] # b}
  BY <1>4 DEF Found, Forwarder, Jumps
<1> QED
  BY <1>1, <1>2, <1>3, <1>4, <1>5, <1>6 DEF Jumpy

LEMMA MergeStart ==
  ASSUME NoIdleCycles, MergeInit
  PROVE  MergeInv
<1>1. PICK g \in Graphs :
         /\ order = g.order /\ to = g.to /\ body = g.body /\ phi = g.phi
         /\ meant = g.to
         /\ merge = <<>> /\ todo = {} /\ walk = Idle /\ merges = 0
         /\ stage = "scan" /\ round = 1 /\ changed = FALSE
  BY DEF MergeInit
<1>2. Wired
  BY <1>1, BlockMergeAssumption DEF BlockMergeAssumption, Wired, Live
<1>3. BranchesKept
  BY <1>1, <1>2 DEF BranchesKept, Wired
<1>4. PICK rank \in [Blocks -> 0..Cardinality(Blocks)] :
         \A b \in ToSet(g.order) : \A l \in DOMAIN g.to[b] :
           g.body[b] # "effect" /\ g.to[b][l] # b /\ g.body[g.to[b][l]] # "effect"
             => rank[g.to[b][l]] < rank[b]
  BY DEF NoIdleCycles
<1>5. rank \in [Blocks -> Nat]
  <2>1. 0..Cardinality(Blocks) \subseteq Nat
    OBVIOUS
  <2> QED
    BY <1>4, <2>1
<1>6. Descends(rank)
  BY <1>1, <1>4 DEF Descends, Below, Live
<1>7. Order(rank)
  BY <1>1, <1>6 DEF Order, Walking
<1> QED
  BY <1>2, <1>3, <1>5, <1>7 DEF MergeInv


\* As long as the graph stays as it is, so does all that is said about it.
LEMMA GraphStays ==
  ASSUME Wired, BranchesKept, UNCHANGED <<graph, meant>>
  PROVE  /\ Wired' /\ BranchesKept'
         /\ Live' = Live /\ Found' = Found
         /\ \A b : LandsAt(b)' = LandsAt(b)
         /\ \A rank : Descends(rank) => Descends(rank)'
         /\ \A rank, d, b : Below(rank, d, b) => Below(rank, d, b)'
<1>1. order' = order /\ to' = to /\ body' = body /\ phi' = phi /\ meant' = meant
  BY DEF graph
<1>2. Live' = Live
  BY <1>1 DEF Live
<1>3. \A b : OnlyJumps(b)' <=> OnlyJumps(b)
  BY <1>1 DEF OnlyJumps, HasPhi
<1>4. Jumps' = Jumps
  BY <1>3 DEF Jumps
<1>5. Found' = Found
  BY <1>1, <1>2, <1>3 DEF Found, Forwarder
<1>6. Wired'
  BY <1>1, <1>2 DEF Wired
<1>7. BranchesKept'
  BY <1>1, <1>2, <1>4 DEF BranchesKept
<1>8. \A b : LandsAt(b)' = LandsAt(b)
  BY <1>1, <1>4 DEF LandsAt
<1>9. \A rank, d, b : Below(rank, d, b) => Below(rank, d, b)'
  BY <1>1 DEF Below
<1>10. \A rank : Descends(rank) => Descends(rank)'
  BY <1>1, <1>2 DEF Descends, Below
<1> QED
  BY <1>2, <1>5, <1>6, <1>7, <1>8, <1>9, <1>10

\* Going down twice is going down.
LEMMA BelowTwice ==
  ASSUME NEW rank \in [Blocks -> Nat], NEW d \in Blocks, NEW e \in Blocks, NEW f \in Blocks,
         Below(rank, d, e), Below(rank, e, f), body[e] # "effect"
  PROVE  Below(rank, d, f)
BY DEF Below

LEMMA FoundFacts ==
  ASSUME Wired
  PROVE  \A b \in Found : /\ b \in Live /\ b \in Jumps /\ b \in Blocks /\ body[b] = "none"
                          /\ to[b]["dest_bb"] \in Live /\ to[b]["dest_bb"] # b
<1>1. \A b \in Found : b \in Live \cap Jumps /\ to[b]["dest_bb"] # b
  BY JumpsFacts
<1>2. \A b \in Jumps : b \in Blocks /\ DOMAIN to[b] = {"dest_bb"}
  BY JumpsFacts
<1>3. \A b \in Jumps : body[b] = "none"
  BY DEF Jumps, OnlyJumps
<1>4. \A b \in Live : \A l \in DOMAIN to[b] : to[b][l] \in Live
  BY DEF Wired
<1> QED
  BY <1>1, <1>2, <1>3, <1>4

\* The scan starts with the branches themselves.
LEMMA ScanStep ==
  ASSUME Wired, BranchesKept, NEW rank \in [Blocks -> Nat], Order(rank), Scan
  PROVE  Wired' /\ BranchesKept' /\ Order(rank)'
<1>1. /\ merge' = [b \in Found |-> to[b]["dest_bb"]] /\ todo' = Found
      /\ stage' = "resolve" /\ stage = "scan" /\ walk' = walk
      /\ UNCHANGED <<graph, meant>>
  BY DEF Scan, Found
<1>2. walk = Idle
  BY <1>1 DEF Order, Walking
<1>3. \A b \in Found : LandsAt(to[b]["dest_bb"]) = LandsAt(b)
  <2>1. Jumpy(Jumps, to)
    BY JumpsFacts
  <2> QED
    BY <2>1, FoundFacts, LandingStep DEF LandsAt
<1>4. \A b \in Found : Below(rank, to[b]["dest_bb"], b)
  <2>1. \A b \in Found : DOMAIN to[b] = {"dest_bb"}
    BY JumpsFacts, FoundFacts
  <2> QED
    BY <2>1, FoundFacts DEF Order, Descends
<1>5. /\ Wired' /\ BranchesKept' /\ Live' = Live /\ Found' = Found
      /\ \A b : LandsAt(b)' = LandsAt(b)
      /\ Descends(rank) => Descends(rank)'
      /\ \A d, b : Below(rank, d, b) => Below(rank, d, b)'
  BY <1>1, GraphStays
<1>6. DOMAIN merge' = Found /\ \A b \in Found : merge'[b] = to[b]["dest_bb"]
  BY <1>1
<1>7. \A b \in Found : merge'[b] \in Live /\ LandsAt(merge'[b]) = LandsAt(b) /\ Below(rank, merge'[b], b)
  BY <1>3, <1>4, <1>6, FoundFacts
<1>8. \A b \in Found : LandsAt(merge[b])' = LandsAt(b)' /\ Below(rank, merge[b], b)'
  <2>1. \A b \in Found : LandsAt(merge[b])' = LandsAt(merge'[b])
    BY <1>1, GraphStays DEF LandsAt, graph
  <2> QED
    BY <1>5, <1>7, <2>1
<1>9. Resolving(rank)'
  BY <1>1, <1>5, <1>6, <1>7, <1>8 DEF Resolving
<1>10. Walking(rank)'
  BY <1>1, <1>2 DEF Walking, Idle
<1> QED
  BY <1>5, <1>9, <1>10 DEF Order


\* A walk starts on the branch of a block that is still to be resolved.
LEMMA PickStep ==
  ASSUME Wired, BranchesKept, NEW rank \in [Blocks -> Nat], Order(rank), PickChain
  PROVE  Wired' /\ BranchesKept' /\ Order(rank)'
<1>1. PICK b \in todo : walk' = [from |-> b, cur |-> merge[b]]
  BY DEF PickChain
<1>2. stage = "resolve" /\ stage' = stage /\ merge' = merge /\ todo' = todo /\ UNCHANGED <<graph, meant>>
  BY DEF PickChain
<1>3. /\ Wired' /\ BranchesKept' /\ Live' = Live /\ Found' = Found
      /\ \A y : LandsAt(y)' = LandsAt(y)
      /\ Descends(rank) => Descends(rank)'
      /\ \A d, y : Below(rank, d, y) => Below(rank, d, y)'
  BY <1>2, GraphStays
<1>4. Resolving(rank)
  BY <1>2 DEF Order
<1>5. Resolving(rank)'
  BY <1>2, <1>3, <1>4 DEF Resolving
<1>6. walk'.from = b /\ walk'.cur = merge[b] /\ b \in Found
  BY <1>1, <1>4 DEF Resolving
<1>7. merge[b] \in Live /\ LandsAt(merge[b]) = LandsAt(b) /\ Below(rank, merge[b], b)
  BY <1>4, <1>6 DEF Resolving
<1>8. Walking(rank)'
  BY <1>1, <1>2, <1>3, <1>6, <1>7 DEF Walking
<1> QED
  BY <1>3, <1>5, <1>8 DEF Order

\* It goes on to blocks on the way of the last.
LEMMA WalkStep ==
  ASSUME Wired, BranchesKept, NEW rank \in [Blocks -> Nat], Order(rank), WalkOn
  PROVE  Wired' /\ BranchesKept' /\ Order(rank)'
<1>0. PICK f, c, n, m : f = walk.from /\ c = walk.cur /\ n = merge[c] /\ m = merge[f]
  OBVIOUS
<1>1. /\ walk # Idle /\ c \in DOMAIN merge /\ walk' = [walk EXCEPT !.cur = merge[@]]
      /\ stage' = stage /\ merge' = merge /\ todo' = todo /\ UNCHANGED <<graph, meant>>
  BY <1>0 DEF WalkOn, MayGoOn
<1>2. /\ stage = "resolve" /\ walk = [from |-> f, cur |-> c] /\ f \in todo /\ c \in Live
      /\ LandsAt(c) = LandsAt(f) /\ Below(rank, c, f)
      /\ c # m => m \in Found /\ Below(rank, c, m)
  BY <1>0, <1>1 DEF Order, Walking
<1>3. /\ Wired' /\ BranchesKept' /\ Live' = Live /\ Found' = Found
      /\ \A y : LandsAt(y)' = LandsAt(y)
      /\ Descends(rank) => Descends(rank)'
      /\ \A d, y : Below(rank, d, y) => Below(rank, d, y)'
  BY <1>1, GraphStays
<1>4. Resolving(rank)
  BY <1>2 DEF Order
<1>5. Resolving(rank)'
  BY <1>1, <1>3, <1>4 DEF Resolving
<1>6. c \in Found /\ f \in Found
  BY <1>1, <1>2, <1>4 DEF Resolving
<1>7. n \in Live /\ LandsAt(n) = LandsAt(c) /\ Below(rank, n, c)
  BY <1>0, <1>4, <1>6 DEF Resolving
<1>8. walk' = [from |-> f, cur |-> n]
  BY <1>0, <1>1, <1>2
<1>9. /\ n \in Blocks /\ c \in Blocks /\ f \in Blocks
      /\ body[c] # "effect" /\ (m \in Found => m \in Blocks)
  BY <1>6, <1>7, FoundFacts, JumpsFacts
<1>10. Below(rank, n, f)
  BY <1>2, <1>7, <1>9, BelowTwice
<1>11. n # m => m \in Found /\ Below(rank, n, m)
  <2>1. CASE c = m
    BY <1>0, <1>6, <1>7, <2>1
  <2>2. CASE c # m
    BY <1>2, <1>7, <1>9, <2>2, BelowTwice
  <2> QED
    BY <2>1, <2>2
<1>12. Walking(rank)'
  <2>0. merge' = merge /\ todo' = todo /\ stage' = stage
    BY <1>1
  <2>1. walk'.from = f /\ walk'.cur = n /\ walk' = [from |-> walk'.from, cur |-> walk'.cur]
    BY <1>8
  <2>2. LandsAt(n) = LandsAt(f)
    BY <1>2, <1>7
  <2>3. (LandsAt(walk.cur) = LandsAt(walk.from))'
    <3>1. LandsAt(walk.cur)' = LandsAt(n) /\ LandsAt(walk.from)' = LandsAt(f)
      <4>1. LandsAt(walk.cur)' = LandsAt(walk'.cur) /\ LandsAt(walk.from)' = LandsAt(walk'.from)
        BY <1>3
      <4> QED
        BY <2>1, <4>1
    <3> QED
      BY <2>2, <3>1
  <2>4. f \in todo' /\ n \in Live' /\ stage' = "resolve"
    BY <1>1, <1>2, <1>3, <1>7
  <2>5. Below(rank, n, f)' /\ (n # m => m \in Found' /\ Below(rank, n, m)')
    BY <1>3, <1>10, <1>11
  <2>6. (Below(rank, n, f) => Below(rank, walk.cur, walk.from))'
    BY <2>1 DEF Below
  <2>7. merge'[walk'.from] = m
    BY <1>0, <2>0, <2>1
  <2>8. (Below(rank, n, m) => Below(rank, walk.cur, merge[walk.from]))'
    BY <2>1, <2>7 DEF Below
  <2>9. (walk.cur # merge[walk.from] => merge[walk.from] \in Found /\ Below(rank, walk.cur, merge[walk.from]))'
    BY <2>1, <2>5, <2>7, <2>8
  <2> QED
    BY <2>1, <2>3, <2>4, <2>5, <2>6, <2>9 DEF Walking
<1> QED
  BY <1>2, <1>3, <1>5, <1>12 DEF Order

\* It ends on a block that stays: one that the scan did not find, since the
\* entries of those it found lead further down than the walk has come.
LEMMA ChainStep ==
  ASSUME Wired, BranchesKept, NEW rank \in [Blocks -> Nat], Order(rank), ChainResolved
  PROVE  Wired' /\ BranchesKept' /\ Order(rank)'
<1>0. PICK f, c, m : f = walk.from /\ c = walk.cur /\ m = merge[f]
  OBVIOUS
<1>1. /\ walk # Idle /\ ~MayGoOn(f, c)
      /\ merge' = [merge EXCEPT ![f] = c] /\ todo' = todo \ {f} /\ walk' = Idle
      /\ stage' = stage /\ UNCHANGED <<graph, meant>>
  BY <1>0 DEF ChainResolved
<1>2. /\ stage = "resolve" /\ f \in todo /\ c \in Live
      /\ LandsAt(c) = LandsAt(f) /\ Below(rank, c, f)
      /\ c # m => m \in Found /\ Below(rank, c, m)
  BY <1>0, <1>1 DEF Order, Walking
<1>3. /\ Wired' /\ BranchesKept' /\ Live' = Live /\ Found' = Found
      /\ \A y : LandsAt(y)' = LandsAt(y)
      /\ Descends(rank) => Descends(rank)'
      /\ \A d, y : Below(rank, d, y) => Below(rank, d, y)'
  BY <1>1, GraphStays
<1>4. Resolving(rank)
  BY <1>2 DEF Order
<1>5. f \in Found /\ DOMAIN merge = Found
  BY <1>2, <1>4 DEF Resolving
<1>6. c \notin Found
  <2> SUFFICES ASSUME c \in Found PROVE FALSE
    OBVIOUS
  <2>1. PICK n : n = merge[c] /\ n \in Live /\ Below(rank, n, c)
    BY <1>4 DEF Resolving
  <2>2. n = f \/ n = m
    BY <1>0, <1>1, <1>5, <2>1 DEF MayGoOn
  <2>3. /\ body[c] = "none" /\ body[f] = "none" /\ (m \in Found => body[m] = "none" /\ m \in Blocks)
        /\ c \in Blocks /\ f \in Blocks
    BY <1>5, FoundFacts
  <2>4. rank[c] < rank[f]
    BY <1>2, <2>3 DEF Below
  <2>5. CASE n = f
    BY <2>1, <2>3, <2>4, <2>5 DEF Below
  <2>6. CASE n = m /\ c = m
    BY <2>1, <2>3, <2>6 DEF Below
  <2>7. CASE n = m /\ c # m
    BY <1>2, <2>1, <2>3, <2>7 DEF Below
  <2> QED
    BY <2>2, <2>5, <2>6, <2>7
<1>7. /\ DOMAIN merge' = Found /\ merge'[f] = c
      /\ \A b \in Found : b # f => merge'[b] = merge[b]
  BY <1>1, <1>5
<1>8. \A b \in Found : LandsAt(merge[b])' = LandsAt(b)' /\ Below(rank, merge[b], b)'
  <2>1. \A y : LandsAt(y)' = LandsAt(y)
    BY <1>3
  <2>2. \A b \in Found : LandsAt(merge'[b]) = LandsAt(b) /\ Below(rank, merge'[b], b)
    BY <1>2, <1>4, <1>7 DEF Resolving
  <2>3. \A b : LandsAt(merge[b])' = LandsAt(merge'[b])
    BY <1>1, GraphStays DEF LandsAt, graph
  <2>4. \A b : Below(rank, merge'[b], b) => Below(rank, merge[b], b)'
    BY <1>3
  <2> QED
    BY <2>1, <2>2, <2>3, <2>4
<1>9. Resolving(rank)'
  <2>1. todo' \subseteq Found /\ \A b \in Found : merge'[b] \in Live
    BY <1>1, <1>2, <1>4, <1>7 DEF Resolving
  <2>2. \A b \in Found \ todo' : merge'[b] \notin Found
    BY <1>1, <1>4, <1>6, <1>7 DEF Resolving
  <2> QED
    BY <1>3, <1>7, <1>8, <2>1, <2>2 DEF Resolving
<1>10. Walking(rank)'
  BY <1>1 DEF Walking, Idle
<1> QED
  BY <1>2, <1>3, <1>9, <1>10 DEF Order

\* What a block's branches are renamed to stays, and is on their way.
LEMMA RenamedFacts ==
  ASSUME Wired, NEW rank \in [Blocks -> Nat], Resolving(rank), todo = {}
  PROVE  \A y \in Live : /\ Renamed(y) \in Live \ Found
                         /\ LandsAt(Renamed(y)) = LandsAt(y)
                         /\ y \notin Found => Renamed(y) = y
                         /\ y \in Found => Below(rank, Renamed(y), y)
BY DEF Resolving, Renamed

\* Rewriting keeps the shape of every block.
LEMMA RewriteShape ==
  ASSUME Wired, NEW rank \in [Blocks -> Nat], Resolving(rank), Rewrite
  PROVE  /\ Live' = Live \ Found /\ Jumps' = Jumps /\ Wired'
         /\ \A b \in Live : \A l \in DOMAIN to[b] : to'[b][l] = Renamed(to[b][l])
         /\ \A b \in Blocks : DOMAIN to'[b] = DOMAIN to[b]
         /\ meant' = meant /\ body' = body /\ walk' = Idle /\ stage' # "resolve"
         /\ todo = {}
<1>1. /\ todo = {} /\ body' = body /\ meant' = meant /\ walk' = Idle /\ stage' \in {"scan", "prune"}
      /\ order' = Only(order, Live \ DOMAIN merge)
      /\ phi' = [b \in Blocks |-> IF b \in Live
              THEN [p \in DOMAIN phi[b] |-> Renamed(phi[b][p])] ELSE phi[b]]
      /\ to' = [b \in Blocks |-> IF b \in Live
              THEN [l \in DOMAIN to[b] |-> Renamed(to[b][l])] ELSE to[b]]
  BY DEF Rewrite
<1>2. order' \in Seq(Blocks) /\ Live' = Live \ Found
  <2>1. order \in Seq(Blocks) /\ DOMAIN merge = Found
    BY DEF Wired, Resolving
  <2>2. order' \in Seq(Blocks) /\ ToSet(order') = ToSet(order) \cap (Live \ DOMAIN merge)
    BY <1>1, <2>1, OnlyKeeps
  <2> QED
    BY <2>1, <2>2 DEF Live
<1>3. /\ \A b \in Live : \A l \in DOMAIN to[b] : to'[b][l] = Renamed(to[b][l])
      /\ \A b \in Blocks : DOMAIN to'[b] = DOMAIN to[b]
      /\ \A b \in Blocks \ Live : to'[b] = to[b]
  BY <1>1, JumpsFacts
<1>4. \A b \in Live : \A l \in DOMAIN to[b] : to[b][l] \in Live
  BY DEF Wired
<1>5. \A b \in Live : \A l \in DOMAIN to[b] : to'[b][l] \in Live \ Found
  <2>1. todo = {}
    BY <1>1
  <2>2. \A y \in Live : Renamed(y) \in Live \ Found
    BY <2>1, RenamedFacts
  <2> QED
    BY <1>3, <1>4, <2>2
<1>6. to' \in [Blocks -> Branches]
  <2>1. to \in [Blocks -> Branches] /\ Live \subseteq Blocks
    BY JumpsFacts DEF Wired
  <2>2. ASSUME NEW b \in Live PROVE to'[b] \in Branches
    <3>1. to[b] \in Branches /\ b \in Blocks
      BY <2>1
    <3>2. PICK ls \in SUBSET Labels : to[b] \in [ls -> Blocks]
      BY <3>1 DEF Branches
    <3>3. DOMAIN to[b] = ls
      BY <3>2
    <3>4. to'[b] = [l \in DOMAIN to[b] |-> Renamed(to[b][l])]
      BY <1>1, <3>1
    <3>5. \A l \in ls : Renamed(to[b][l]) \in Blocks
      BY <1>3, <1>5, <2>1, <3>3
    <3>6. to'[b] \in [ls -> Blocks]
      BY <3>3, <3>4, <3>5
    <3> QED
      BY <3>6 DEF Branches
  <2>3. \A b \in Blocks : to'[b] \in Branches
    BY <1>3, <2>1, <2>2
  <2> QED
    BY <1>1, <2>3
<1>7. \A b \in Blocks : DOMAIN phi'[b] = DOMAIN phi[b]
  BY <1>1
<1>8. Jumps' = Jumps
  <2>1. \A b \in Blocks : OnlyJumps(b)' <=> OnlyJumps(b)
    BY <1>1, <1>3, <1>7 DEF OnlyJumps, HasPhi
  <2> QED
    BY <2>1 DEF Jumps
<1>9. Wired'
  <2>1. DOMAIN phi' = Blocks
    BY <1>1
  <2>2. \A b \in Blocks : DOMAIN meant'[b] = DOMAIN to'[b]
    BY <1>1, <1>3 DEF Wired
  <2>3. \A b \in Live' : \A l \in DOMAIN to'[b] : to'[b][l] \in Live'
    BY <1>2, <1>3, <1>5, JumpsFacts
  <2> QED
    BY <1>1, <1>2, <1>6, <2>1, <2>2, <2>3 DEF Wired
<1> QED
  BY <1>1, <1>2, <1>3, <1>8, <1>9


\* Rewriting leads every branch to where the walks have come.
LEMMA RewriteStep ==
  ASSUME Wired, BranchesKept, NEW rank \in [Blocks -> Nat], Order(rank), Rewrite
  PROVE  Wired' /\ BranchesKept' /\ Order(rank)'
<1>1. Resolving(rank) /\ Descends(rank)
  BY DEF Order, Rewrite
<1>2. /\ Live' = Live \ Found /\ Jumps' = Jumps /\ Wired'
      /\ \A b \in Live : \A l \in DOMAIN to[b] : to'[b][l] = Renamed(to[b][l])
      /\ \A b \in Blocks : DOMAIN to'[b] = DOMAIN to[b]
      /\ meant' = meant /\ body' = body /\ walk' = Idle /\ stage' # "resolve"
      /\ todo = {}
  BY <1>1, RewriteShape
<1>3. \A y \in Live : /\ Renamed(y) \in Live \ Found
                      /\ LandsAt(Renamed(y)) = LandsAt(y)
                      /\ y \notin Found => Renamed(y) = y
                      /\ y \in Found => Below(rank, Renamed(y), y)
  BY <1>1, <1>2, RenamedFacts
<1>4. Jumpy(Jumps, to) /\ Live \subseteq Blocks /\ \A y \in Jumps : DOMAIN to[y] = {"dest_bb"}
  BY JumpsFacts
<1>5. Jumpy(Jumps, to')
  <2>1. to' \in [Blocks -> Branches]
    BY <1>2 DEF Wired
  <2>2. \A b \in Blocks : \A l \in DOMAIN to'[b] : to'[b][l] \in Blocks
    BY <2>1, BranchFacts
  <2> QED
    BY <1>2, <1>4, <2>2 DEF Jumpy
\* A branch to a block that stays is followed no further than before.
<1>6. ASSUME NEW y \in Live \ Found PROVE Landing(Jumps, to', y) = Landing(Jumps, to, y)
  <2>1. CASE y \notin Jumps
    BY <1>4, <1>5, <2>1, LandingEnd
  <2>2. CASE y \in Jumps
    <3>1. to[y]["dest_bb"] = y
      BY <2>2, JumpsFacts
    <3>2. to'[y]["dest_bb"] = y
      BY <1>2, <1>3, <1>4, <2>2, <3>1
    <3> QED
      BY <1>4, <1>5, <2>2, <3>1, <3>2, LandingLoop
  <2> QED
    BY <2>1, <2>2
<1>7. \A b \in Live : \A l \in DOMAIN to[b] : to[b][l] \in Live
  BY DEF Wired
<1>8. BranchesKept'
  <2>1. ASSUME NEW b \in Live', NEW l \in DOMAIN to'[b]
        PROVE  /\ to'[b][l] \in Live'
               /\ Landing(Jumps, to', to'[b][l]) = Landing(Jumps, meant, meant[b][l])
    <3>1. b \in Live /\ l \in DOMAIN to[b] /\ to[b][l] \in Live
      BY <1>2, <1>4, <1>7, <2>1
    <3>2. to'[b][l] = Renamed(to[b][l])
      BY <1>2, <3>1
    <3>3. to'[b][l] \in Live \ Found /\ LandsAt(to'[b][l]) = LandsAt(to[b][l])
      BY <1>3, <3>1, <3>2
    <3>4. LandsAt(to[b][l]) = Landing(Jumps, meant, meant[b][l])
      BY <3>1 DEF BranchesKept, LandsAt
    <3>5. Landing(Jumps, to', to'[b][l]) = Landing(Jumps, to, to'[b][l])
      BY <1>6, <3>3
    <3> QED
      BY <1>2, <3>3, <3>4, <3>5 DEF LandsAt
  <2> QED
    BY <1>2, <2>1 DEF BranchesKept
<1>9. Descends(rank)'
  <2>1. ASSUME NEW b \in Live', NEW l \in DOMAIN to'[b], body[b] # "effect", to'[b][l] # b
        PROVE  Below(rank, to'[b][l], b)
    <3>1. PICK x : x = to[b][l]
      OBVIOUS
    <3>2. b \in Live \ Found /\ b \in Blocks /\ l \in DOMAIN to[b] /\ x \in Live /\ x \in Blocks
      BY <1>2, <1>4, <1>7, <2>1, <3>1
    <3>3. to'[b][l] = Renamed(x) /\ Renamed(x) \in Blocks
      BY <1>2, <1>3, <1>4, <3>1, <3>2
    <3>4. CASE x \in Found
      <4>1. Below(rank, Renamed(x), x) /\ body[x] # "effect"
        BY <1>3, <3>4, FoundFacts
      <4>2. Below(rank, x, b)
        BY <1>1, <2>1, <3>1, <3>2, <3>4 DEF Descends
      <4> QED
        BY <3>2, <3>3, <4>1, <4>2, BelowTwice
    <3>5. CASE x \notin Found
      BY <1>1, <1>3, <2>1, <3>1, <3>2, <3>3, <3>5 DEF Descends
    <3> QED
      BY <3>4, <3>5
  <2> QED
    BY <1>2, <2>1 DEF Descends, Below
<1>10. Walking(rank)'
  BY <1>2 DEF Walking, Idle
<1> QED
  BY <1>2, <1>8, <1>9, <1>10 DEF Order


-----------------------------------------------------------------------------
(* What prune_dataflow does makes more blocks jump only.                    *)

\* Branches that led to the same blocks before still do, however many of the
\* blocks on the way only jump now.
SameLandings(live, js, t, m) ==
  \A b \in live : \A l \in DOMAIN t[b] : Landing(js, t, t[b][l]) = Landing(js, m, m[b][l])
LEMMA BranchesGrow ==
  ASSUME NEW js, NEW ks, js \subseteq ks, NEW t, NEW m, Jumpy(ks, t), Jumpy(ks, m),
         \A u \in ks : DOMAIN t[u] = {"dest_bb"},
         NEW live, live \subseteq Blocks,
         \A b \in live : \A l \in DOMAIN t[b] : t[b][l] \in live /\ m[b][l] \in Blocks,
         SameLandings(live, js, t, m)
  PROVE  SameLandings(live, ks, t, m)
<1> SUFFICES ASSUME NEW b \in live, NEW l \in DOMAIN t[b]
             PROVE  Landing(ks, t, t[b][l]) = Landing(ks, m, m[b][l])
  BY DEF SameLandings
<1>1. PICK x, y : x = t[b][l] /\ y = m[b][l]
  OBVIOUS
<1>2. x \in live /\ x \in Blocks /\ y \in Blocks /\ Landing(js, t, x) = Landing(js, m, y)
  BY <1>1 DEF SameLandings
<1>3. Trail(ks, t, x) \subseteq live
  <2>1. \A u \in live \cap ks : t[u]["dest_bb"] \in live
    OBVIOUS
  <2> QED
    BY <1>2, <2>1, TrailLeast
<1>4. \A u \in (ks \ js) \cap Trail(ks, t, x) :
         Landing(js, t, t[u]["dest_bb"]) = Landing(js, m, m[u]["dest_bb"])
  BY <1>3 DEF SameLandings
<1>5. Landing(ks, t, x) = Landing(ks, m, y)
  BY <1>2, <1>4, LandingsGrow
<1> QED
  BY <1>1, <1>5

LEMMA StillKept ==
  ASSUME Wired', Jumps \subseteq Jumps',
         \A b \in Live' : \A l \in DOMAIN to'[b] :
            Landing(Jumps, to', to'[b][l]) = Landing(Jumps, meant', meant'[b][l])
  PROVE  BranchesKept'
<1>0. PICK js, ks, t, m, live :
         js = Jumps /\ ks = Jumps' /\ t = to' /\ m = meant' /\ live = Live'
  OBVIOUS
<1>1. /\ js \subseteq ks /\ t \in [Blocks -> Branches] /\ m \in [Blocks -> Branches]
      /\ \A b \in Blocks : DOMAIN m[b] = DOMAIN t[b]
      /\ \A b \in live : \A l \in DOMAIN t[b] : t[b][l] \in live
  BY <1>0 DEF Wired
<1>2. live \subseteq Blocks
  <2>1. order' \in Seq(Blocks)
    BY DEF Wired
  <2> QED
    BY <1>0, <2>1 DEF Live, ToSet
<1>3. \A u \in ks : u \in Blocks /\ DOMAIN t[u] = {"dest_bb"}
  BY <1>0 DEF Jumps, OnlyJumps
<1>4. \A b \in Blocks : /\ \A l \in DOMAIN t[b] : t[b][l] \in Blocks
                        /\ \A l \in DOMAIN m[b] : m[b][l] \in Blocks
  BY <1>1, BranchFacts
<1>5. Jumpy(ks, t) /\ Jumpy(ks, m)
  BY <1>1, <1>3, <1>4 DEF Jumpy
<1>6. \A b \in live : \A l \in DOMAIN t[b] :
         t[b][l] \in live /\ m[b][l] \in Blocks
  BY <1>1, <1>2, <1>4
<1>7. \A u \in ks : DOMAIN t[u] = {"dest_bb"}
  BY <1>3
<1>8. js \subseteq ks /\ SameLandings(live, js, t, m)
  BY <1>0 DEF SameLandings
<1>9. SameLandings(live, ks, t, m)
  BY <1>2, <1>5, <1>6, <1>7, <1>8, BranchesGrow
<1> QED
  BY <1>0, <1>1, <1>9 DEF BranchesKept, SameLandings

\* A branch that is folded: the block may only jump now, to where one of its
\* branches led.
LEMMA FoldStep ==
  ASSUME Wired, BranchesKept, NEW rank \in [Blocks -> Nat], Order(rank), FoldBranch
  PROVE  Wired' /\ BranchesKept' /\ Order(rank)'
<1>1. PICK f \in Live : \E l \in DOMAIN to[f] \cap {"true_bb", "false_bb"} :
         to' = Folded(to, f, l) /\ meant' = Folded(meant, f, l)
  BY DEF FoldBranch
<1>2. PICK a \in DOMAIN to[f] : /\ a # "dest_bb"
                                /\ to' = Folded(to, f, a) /\ meant' = Folded(meant, f, a)
  BY <1>1
<1>3. /\ stage = "prune" /\ stage' = stage /\ walk' = walk
      /\ order' = order /\ body' = body /\ phi' = phi
  BY DEF FoldBranch, merging
<1>4. walk' = Idle /\ Descends(rank)
  BY <1>3 DEF Order, Walking
<1>5. /\ Live' = Live /\ Live \subseteq Blocks /\ f \in Blocks
      /\ to \in [Blocks -> Branches] /\ meant \in [Blocks -> Branches]
      /\ \A b \in Blocks : DOMAIN meant[b] = DOMAIN to[b]
      /\ \A b \in Live : \A l \in DOMAIN to[b] : to[b][l] \in Live
  BY <1>3, JumpsFacts DEF Wired, Live
<1>6. /\ DOMAIN to' = Blocks /\ DOMAIN meant' = Blocks
      /\ DOMAIN to'[f] = {"dest_bb"} /\ DOMAIN meant'[f] = {"dest_bb"}
      /\ to'[f]["dest_bb"] = to[f][a] /\ meant'[f]["dest_bb"] = meant[f][a]
      /\ \A b \in Blocks : b # f => to'[b] = to[b] /\ meant'[b] = meant[b]
  BY <1>2, <1>5 DEF Folded
<1>7. to[f][a] \in Live /\ a \in DOMAIN meant[f] /\ meant[f][a] \in Blocks
  BY <1>5, BranchFacts
<1>8. to' \in [Blocks -> Branches] /\ meant' \in [Blocks -> Branches]
  <2>1. \A x \in Blocks : [dest_bb |-> x] \in Branches
    <3>1. \A x \in Blocks : [dest_bb |-> x] \in [{"dest_bb"} -> Blocks]
      OBVIOUS
    <3>2. {"dest_bb"} \in SUBSET Labels
      BY DEF Labels
    <3> QED
      BY <3>1, <3>2 DEF Branches
  <2>2. to'[f] \in Branches /\ meant'[f] \in Branches
    BY <1>2, <1>5, <1>7, <2>1 DEF Folded
  <2> QED
    BY <1>2, <1>5, <1>6, <2>2 DEF Folded
<1>9. Wired'
  <2>1. \A b \in Live : \A l \in DOMAIN to'[b] : to'[b][l] \in Live
    BY <1>5, <1>6, <1>7
  <2>2. \A b \in Blocks : DOMAIN meant'[b] = DOMAIN to'[b]
    BY <1>5, <1>6
  <2> QED
    BY <1>3, <1>5, <1>8, <2>1, <2>2 DEF Wired
<1>10. Jumps \subseteq Jumps' /\ Jumps' \subseteq Jumps \cup {f} /\ f \notin Jumps
  <2>1. f \notin Jumps
    BY <1>2, JumpsFacts
  <2>2. \A b \in Blocks : b # f => (OnlyJumps(b)' <=> OnlyJumps(b))
    BY <1>3, <1>6 DEF OnlyJumps, HasPhi
  <2> QED
    BY <2>1, <2>2 DEF Jumps
<1>13. \A x : Landing(Jumps, to', x) = Landing(Jumps, to, x) /\ Landing(Jumps, meant', x) = Landing(Jumps, meant, x)
  <2>1. \A y \in Jumps : to[y]["dest_bb"] = to'[y]["dest_bb"] /\ meant[y]["dest_bb"] = meant'[y]["dest_bb"]
    BY <1>6, <1>10, JumpsFacts
  <2> QED
    BY <2>1, SameTrail
<1>14. \A b \in Live : \A l \in DOMAIN to'[b] :
          Landing(Jumps, to', to'[b][l]) = Landing(Jumps, meant', meant'[b][l])
  <2> TAKE b \in Live
  <2> TAKE l \in DOMAIN to'[b]
  <2>1. CASE b = f
    <3>1. l = "dest_bb"
      BY <1>6, <2>1
    <3>2. Landing(Jumps, to, to[f][a]) = Landing(Jumps, meant, meant[f][a])
      BY DEF BranchesKept
    <3> QED
      BY <1>6, <1>7, <1>13, <2>1, <3>1, <3>2
  <2>2. CASE b # f
    <3>1. b \in Blocks /\ to'[b] = to[b] /\ meant'[b] = meant[b] /\ l \in DOMAIN to[b]
      BY <1>5, <1>6, <2>2
    <3>2. Landing(Jumps, to, to[b][l]) = Landing(Jumps, meant, meant[b][l])
      BY <3>1 DEF BranchesKept
    <3> QED
      BY <1>13, <3>1, <3>2
  <2> QED
    BY <2>1, <2>2
<1>16. BranchesKept'
  BY <1>5, <1>9, <1>10, <1>14, StillKept
<1>17. Descends(rank)'
  <2>1. \A b \in Live : \A l \in DOMAIN to'[b] : \E k \in DOMAIN to[b] : to'[b][l] = to[b][k]
    BY <1>5, <1>6
  <2> QED
    BY <1>3, <1>4, <1>5, <2>1 DEF Descends, Below
<1>18. Walking(rank)'
  BY <1>4 DEF Walking
<1> QED
  BY <1>3, <1>9, <1>16, <1>17, <1>18 DEF Order


\* A block that is left empty may only jump now.
LEMMA EmptyStep ==
  ASSUME Wired, BranchesKept, NEW rank \in [Blocks -> Nat], Order(rank), EmptyBlock
  PROVE  Wired' /\ BranchesKept' /\ Order(rank)'
<1>1. /\ stage = "prune" /\ stage' = stage /\ walk' = walk
      /\ order' = order /\ to' = to /\ meant' = meant
  BY DEF EmptyBlock, merging
<1>2. PICK b \in Live :
         \/ body[b] = "pure" /\ body' = [body EXCEPT ![b] = "none"] /\ UNCHANGED phi
         \/ HasPhi(b) /\ phi' = [phi EXCEPT ![b] = <<>>] /\ UNCHANGED body
  BY DEF EmptyBlock
<1>3. /\ Live' = Live /\ Live \subseteq Blocks
      /\ body \in [Blocks -> Bodies] /\ DOMAIN phi = Blocks
  BY <1>1, JumpsFacts DEF Wired, Live
<1>4. /\ body' \in [Blocks -> Bodies] /\ DOMAIN phi' = Blocks
      /\ \A y \in Blocks : /\ body'[y] = body[y] \/ (body[y] = "pure" /\ body'[y] = "none")
                           /\ phi'[y] = phi[y] \/ phi'[y] = <<>>
  BY <1>2, <1>3 DEF Bodies
<1>5. Wired'
  BY <1>1, <1>3, <1>4 DEF Wired
<1>6. Jumps \subseteq Jumps'
  <2>1. DOMAIN <<>> = {}
    OBVIOUS
  <2>2. \A y \in Blocks : OnlyJumps(y) => OnlyJumps(y)'
    BY <1>1, <1>4, <2>1 DEF OnlyJumps, HasPhi
  <2> QED
    BY <2>2 DEF Jumps
<1>7. BranchesKept'
  <2>1. \A y \in Live' : \A l \in DOMAIN to'[y] :
           Landing(Jumps, to', to'[y][l]) = Landing(Jumps, meant', meant'[y][l])
    BY <1>1, <1>3 DEF BranchesKept
  <2> QED
    BY <1>5, <1>6, <2>1, StillKept
<1>8. walk = Idle /\ Descends(rank)
  BY <1>1 DEF Order, Walking
<1>9. Descends(rank)'
  <2>1. \A y \in Live : \A l \in DOMAIN to[y] : to[y][l] \in Blocks /\ y \in Blocks
    BY <1>3 DEF Wired
  <2>2. \A y \in Blocks : body'[y] = "effect" <=> body[y] = "effect"
    BY <1>4
  <2> QED
    BY <1>1, <1>3, <1>8, <2>1, <2>2 DEF Descends, Below
<1>10. Walking(rank)'
  BY <1>1, <1>8 DEF Walking, Idle
<1> QED
  BY <1>1, <1>5, <1>7, <1>9, <1>10 DEF Order

\* What can be reached along the branches of a set that they do not leave.
LEMMA ReachedClosed ==
  ASSUME NEW t, NEW bs, NEW e, \A b \in bs : \A l \in DOMAIN t[b] : t[b][l] \in bs
  PROVE  \A b \in bs \cap Reached(t, bs, e) : \A l \in DOMAIN t[b] : t[b][l] \in bs \cap Reached(t, bs, e)
<1> SUFFICES ASSUME NEW b \in bs, b \in Reached(t, bs, e), NEW l \in DOMAIN t[b]
             PROVE  t[b][l] \in Reached(t, bs, e)
  OBVIOUS
<1>1. ASSUME NEW s \in SUBSET (bs \cup {e}), e \in s,
             \A x \in s : \A k \in DOMAIN t[x] : t[x][k] \in bs => t[x][k] \in s
      PROVE  t[b][l] \in s
  <2>1. b \in s
    BY <1>1 DEF Reached
  <2> QED
    BY <1>1, <2>1
<1> QED
  BY <1>1 DEF Reached

\* What is not reached goes; none of what is reached branches to it.
LEMMA PruneStep ==
  ASSUME Wired, BranchesKept, NEW rank \in [Blocks -> Nat], Order(rank), PruneBlocks
  PROVE  Wired' /\ BranchesKept' /\ Order(rank)'
<1>0. PICK reached : reached = Reached(to, Live, order[1])
  OBVIOUS
<1>1. /\ stage = "prune" /\ stage' = "next" /\ walk' = walk
      /\ to' = to /\ meant' = meant /\ body' = body
      /\ order' = Only(order, reached)
      /\ phi' = [b \in Blocks |-> [p \in {q \in DOMAIN phi[b] : phi[b][q] \notin Live \ reached} |-> phi[b][p]]]
  BY <1>0 DEF PruneBlocks, merging
<1>2. order' \in Seq(Blocks) /\ Live' = Live \cap reached
  BY <1>1, OnlyKeeps DEF Wired, Live
<1>3. \A b \in Live' : \A l \in DOMAIN to[b] : to[b][l] \in Live'
  <2>1. \A b \in Live : \A l \in DOMAIN to[b] : to[b][l] \in Live
    BY DEF Wired
  <2>2. \A b \in Live \cap Reached(to, Live, order[1]) : \A l \in DOMAIN to[b] :
           to[b][l] \in Live \cap Reached(to, Live, order[1])
    BY <2>1, ReachedClosed
  <2> QED
    BY <1>0, <1>2, <2>2
<1>4. DOMAIN phi' = Blocks /\ \A b \in Blocks : DOMAIN phi'[b] \subseteq DOMAIN phi[b]
  BY <1>1
<1>5. Wired'
  BY <1>1, <1>2, <1>3, <1>4 DEF Wired
<1>6. Jumps \subseteq Jumps'
  <2>1. \A y \in Blocks : OnlyJumps(y) => OnlyJumps(y)'
    BY <1>1, <1>4 DEF OnlyJumps, HasPhi
  <2> QED
    BY <2>1 DEF Jumps
<1>7. BranchesKept'
  <2>1. \A y \in Live' : \A l \in DOMAIN to'[y] :
           Landing(Jumps, to', to'[y][l]) = Landing(Jumps, meant', meant'[y][l])
    BY <1>1, <1>2 DEF BranchesKept
  <2> QED
    BY <1>5, <1>6, <2>1, StillKept
<1>8. walk = Idle /\ Descends(rank)
  BY <1>1 DEF Order, Walking
<1>9. Descends(rank)'
  BY <1>1, <1>2, <1>8 DEF Descends, Below
<1>10. Walking(rank)'
  BY <1>1, <1>8 DEF Walking, Idle
<1> QED
  BY <1>1, <1>5, <1>7, <1>9, <1>10 DEF Order

\* Steps from one stage to the next leave the graph alone.
LEMMA StageStep ==
  ASSUME Wired, BranchesKept, NEW rank \in [Blocks -> Nat], Order(rank),
         stage # "resolve", stage' # "resolve", UNCHANGED <<graph, meant, walk>>
  PROVE  Wired' /\ BranchesKept' /\ Order(rank)'
<1>1. Wired' /\ BranchesKept' /\ (Descends(rank) => Descends(rank)')
  BY GraphStays
<1>2. walk' = Idle /\ Descends(rank)
  BY DEF Order, Walking
<1>3. Walking(rank)'
  BY <1>2 DEF Walking, Idle
<1> QED
  BY <1>1, <1>2, <1>3 DEF Order

LEMMA StutterStep ==
  ASSUME Wired, BranchesKept, NEW rank \in [Blocks -> Nat], Order(rank), UNCHANGED mergeVars
  PROVE  Wired' /\ BranchesKept' /\ Order(rank)'
<1>1. UNCHANGED <<graph, meant>> /\ merge' = merge /\ todo' = todo /\ walk' = walk /\ stage' = stage
  BY DEF mergeVars, merging
<1>2. /\ Wired' /\ BranchesKept' /\ Live' = Live /\ Found' = Found
      /\ \A y : LandsAt(y)' = LandsAt(y)
      /\ Descends(rank) => Descends(rank)'
      /\ \A d, y : Below(rank, d, y) => Below(rank, d, y)'
  BY <1>1, GraphStays
<1>3. (Resolving(rank) => Resolving(rank)') /\ (Walking(rank) => Walking(rank)')
  BY <1>1, <1>2 DEF Resolving, Walking
<1> QED
  BY <1>1, <1>2, <1>3 DEF Order

LEMMA MergeStep ==
  ASSUME MergeInv, [MergeNext]_mergeVars
  PROVE  MergeInv'
<1>1. PICK rank \in [Blocks -> Nat] : Order(rank)
  BY DEF MergeInv
<1>2. Wired /\ BranchesKept
  BY DEF MergeInv
<1>3. CASE ScanFindsNothing \/ NextRound \/ Finish
  <2>1. stage # "resolve" /\ stage' # "resolve" /\ UNCHANGED <<graph, meant, walk>>
    BY <1>3 DEF ScanFindsNothing, NextRound, Finish, merging
  <2> QED
    BY <1>1, <1>2, <2>1, StageStep DEF MergeInv
<1>4. CASE Scan
  BY <1>1, <1>2, <1>4, ScanStep DEF MergeInv
<1>5. CASE PickChain
  BY <1>1, <1>2, <1>5, PickStep DEF MergeInv
<1>6. CASE WalkOn
  BY <1>1, <1>2, <1>6, WalkStep DEF MergeInv
<1>7. CASE ChainResolved
  BY <1>1, <1>2, <1>7, ChainStep DEF MergeInv
<1>8. CASE Rewrite
  BY <1>1, <1>2, <1>8, RewriteStep DEF MergeInv
<1>9. CASE FoldBranch
  BY <1>1, <1>2, <1>9, FoldStep DEF MergeInv
<1>10. CASE EmptyBlock
  BY <1>1, <1>2, <1>10, EmptyStep DEF MergeInv
<1>11. CASE PruneBlocks
  BY <1>1, <1>2, <1>11, PruneStep DEF MergeInv
<1>12. CASE MergeDone \/ UNCHANGED mergeVars
  <2>1. UNCHANGED mergeVars
    BY <1>12 DEF MergeDone
  <2> QED
    BY <1>1, <1>2, <2>1, StutterStep DEF MergeInv
<1> QED
  BY <1>3, <1>4, <1>5, <1>6, <1>7, <1>8, <1>9, <1>10, <1>11, <1>12 DEF MergeNext

\* The clean-up is sound by construction as far as branches go
\* (src/Pipeline.cpp:569-570), for graphs in which blocks without effects do not
\* branch in circles: whatever is merged, folded, emptied and removed, in
\* whatever order, every branch of the function leads to a block that is there,
\* and from it to the block with work to do to which it led before.
THEOREM CleanUpKeepsBranches == NoIdleCycles => (MergeSpec => []BranchesKept)
<1> SUFFICES ASSUME NoIdleCycles PROVE MergeSpec => []BranchesKept
  OBVIOUS
<1>1. MergeInit => MergeInv
  BY MergeStart
<1>2. MergeInv /\ [MergeNext]_mergeVars => MergeInv'
  BY MergeStep
<1>3. MergeInv => BranchesKept
  BY DEF MergeInv
<1> QED
  BY <1>1, <1>2, <1>3, PTL DEF MergeSpec

-----------------------------------------------------------------------------
(* The memory optimiser: folds over sequences, step by step.                *)

\* A set of numbers that is not empty has a last member,
LEMMA HasLast ==
  ASSUME NEW N \in Nat, NEW S \in SUBSET (1..N), S # {}
  PROVE  Max(S) \in S /\ S \ {Max(S)} \in SUBSET (1..N)
<1>1. {N - y : y \in S} \subseteq Nat /\ {N - y : y \in S} # {}
  <2>1. PICK z \in S : TRUE
    OBVIOUS
  <2>2. N - z \in {N - y : y \in S}
    OBVIOUS
  <2>3. \A y \in S : N - y \in Nat
    OBVIOUS
  <2> QED
    BY <2>2, <2>3
<1>2. PICK d \in {N - y : y \in S} : \A z \in {N - y : y \in S} : d <= z
  BY <1>1, LeastNatural
<1>3. PICK m \in S : d = N - m
  BY <1>2
<1>4. \A y \in S : m >= y
  BY <1>2, <1>3
<1> QED
  BY <1>3, <1>4 DEF Max

\* and a first.
LEMMA HasFirst ==
  ASSUME NEW N \in Nat, NEW j \in Nat, NEW S \in SUBSET (j..N), S # {}
  PROVE  Min(S) \in S /\ S \ {Min(S)} \in SUBSET (j..N)
<1>1. S \subseteq Nat
  OBVIOUS
<1>2. PICK m \in S : \A y \in S : m <= y
  BY <1>1, LeastNatural
<1> QED
  BY <1>2 DEF Min

\* Whether the last number is in a set of numbers.
LEMMA LastOf ==
  ASSUME NEW j \in Nat, NEW S \in SUBSET (1..(j + 1))
  PROVE  /\ j + 1 \in S => Max(S) = j + 1 /\ S # {} /\ S \ {j + 1} \in SUBSET (1..j)
         /\ j + 1 \notin S => S \in SUBSET (1..j)
<1>1. ASSUME j + 1 \in S PROVE Max(S) = j + 1
  <2>1. \A y \in S : j + 1 >= y
    OBVIOUS
  <2>2. \A m \in S : (\A y \in S : m >= y) => m = j + 1
    BY <1>1
  <2> QED
    BY <1>1, <2>1, <2>2 DEF Max
<1> QED
  BY <1>1

\* The state that a run starts in.
Start == [env |-> [x \in {} |-> 0], mem |-> [a \in {} |-> 0], seen |-> <<>>]

\* The members of L that are in S, one after the other.
Collected(L, S0, N, h) ==
  /\ h[0] = <<>>
  /\ \A j \in 1..N : h[j] = (IF L[j] \in S0 THEN Append(h[j - 1], L[j]) ELSE h[j - 1])
  /\ Those(L, S0) = h[N]
\* Those goes through L member by member.
LEMMA ThoseSteps ==
  ASSUME NEW N \in Nat, NEW L, DOMAIN L = 1..N, NEW S0
  PROVE  \E h : Collected(L, S0, N, h)
<1> DEFINE Step(t, S) == IF S = {} THEN <<>> ELSE (IF L[Max(S)] \in S0 THEN Append(t[S \ {Max(S)}], L[Max(S)]) ELSE t[S \ {Max(S)}])
           Good(j) == \E t : \A S \in SUBSET (1..j) : t[S] = Step(t, S)
           Bad == {j \in 0..N : ~Good(j)}
<1>1. Good(0)
  <2>1. \A S \in SUBSET (1..0) : S = {}
    OBVIOUS
  <2> WITNESS [S \in {{}} |-> <<>>]
  <2> QED
    BY <2>1
<1>2. ASSUME NEW j \in Nat, Good(j) PROVE Good(j + 1)
  <2>1. PICK t : \A S \in SUBSET (1..j) : t[S] = Step(t, S)
    BY <1>2
  <2> DEFINE u == [S \in SUBSET (1..(j + 1)) |->
                     IF j + 1 \in S THEN (IF L[j + 1] \in S0 THEN Append(t[S \ {j + 1}], L[j + 1]) ELSE t[S \ {j + 1}]) ELSE t[S]]
  <2>2. ASSUME NEW S \in SUBSET (1..j) PROVE u[S] = t[S]
    OBVIOUS
  <2>3. ASSUME NEW S \in SUBSET (1..(j + 1)) PROVE u[S] = Step(u, S)
    <3>1. CASE j + 1 \in S
      <4>1. Max(S) = j + 1 /\ S # {} /\ S \ {j + 1} \in SUBSET (1..j)
        BY <3>1, LastOf
      <4>2. u[S] = (IF L[j + 1] \in S0 THEN Append(t[S \ {j + 1}], L[j + 1]) ELSE t[S \ {j + 1}])
        BY <3>1
      <4>3. u[S \ {j + 1}] = t[S \ {j + 1}]
        BY <2>2, <4>1
      <4> HIDE DEF u
      <4> QED
        BY <4>1, <4>2, <4>3
    <3>2. CASE j + 1 \notin S
      <4>1. S \in SUBSET (1..j)
        BY <3>2, LastOf
      <4>2. u[S] = Step(t, S)
        BY <2>1, <2>2, <4>1
      <4>3. S # {} => Max(S) \in S /\ S \ {Max(S)} \in SUBSET (1..j)
        BY <4>1, HasLast
      <4>4. S # {} => u[S \ {Max(S)}] = t[S \ {Max(S)}]
        BY <2>2, <4>3
      <4> HIDE DEF u
      <4> QED
        BY <4>2, <4>4
    <3> QED
      BY <3>1, <3>2
  <2> HIDE DEF u
  <2> QED
    BY <2>3
<1>3. Bad = {}
  <2> SUFFICES ASSUME Bad # {} PROVE FALSE
    OBVIOUS
  <2> HIDE DEF Good
  <2>0. Bad \subseteq Nat
    OBVIOUS
  <2>1. PICK m \in Bad : \A y \in Bad : m <= y
    <3> HIDE DEF Bad
    <3> QED
      BY <2>0, LeastNatural
  <2>2. m \in 0..N /\ m # 0 /\ ~Good(m)
    BY <1>1, <2>1
  <2>3. m - 1 \in 0..N /\ m - 1 \notin Bad
    BY <2>1, <2>2
  <2>4. Good(m - 1)
    BY <2>3
  <2>5. Good((m - 1) + 1)
    BY <1>2, <2>3, <2>4
  <2> QED
    BY <2>2, <2>5
<1>4. Good(N)
  <2> HIDE DEF Good
  <2> QED
    BY <1>3
<1>5. PICK t0 : \A S \in SUBSET (1..N) : t0[S] = Step(t0, S)
  BY <1>4
<1> DEFINE Eq(t) == t = [S \in SUBSET (1..N) |-> Step(t, S)]
           t1 == [S \in SUBSET (1..N) |-> t0[S]]
<1>6. ASSUME NEW S \in SUBSET (1..N), S # {} PROVE Max(S) \in S /\ S \ {Max(S)} \in SUBSET (1..N)
  BY <1>6, HasLast
<1>7. Eq(t1)
  <2>1. ASSUME NEW S \in SUBSET (1..N) PROVE t1[S] = Step(t1, S)
    BY <1>5, <1>6
  <2> QED
    BY <2>1
<1> DEFINE t == CHOOSE r : Eq(r)
<1>8. Eq(t)
  BY <1>7
<1>9. Those(L, S0) = t[1..N]
  BY DEF Those, FoldLeft, MapThenFoldSet
<1> HIDE DEF t
<1> DEFINE h == [j \in 0..N |-> t[1..j]]
<1>10. h[0] = <<>>
  BY <1>8
<1>11. ASSUME NEW j \in 1..N PROVE h[j] = (IF L[j] \in S0 THEN Append(h[j - 1], L[j]) ELSE h[j - 1])
  <2>1. 1..j \in SUBSET (1..((j - 1) + 1)) /\ (j - 1) + 1 = j /\ j - 1 \in Nat /\ j \in 1..j
    OBVIOUS
  <2>2. Max(1..j) = j /\ 1..j # {}
    BY <2>1, LastOf
  <2>3. (1..j) \ {j} = 1..(j - 1)
    OBVIOUS
  <2>4. t[1..j] = Step(t, 1..j)
    <3>1. 1..j \in SUBSET (1..N)
      OBVIOUS
    <3> QED
      BY <1>8, <3>1
  <2>5. t[1..j] = (IF L[j] \in S0 THEN Append(t[1..(j - 1)], L[j]) ELSE t[1..(j - 1)])
    BY <2>2, <2>3, <2>4
  <2> QED
    BY <2>5
<1>12. h[N] = t[1..N]
  OBVIOUS
<1> HIDE DEF h
<1> QED
  BY <1>9, <1>10, <1>11, <1>12 DEF Collected

\* The pointers that p is made of, one after the other.
LongerFor(b, p, L) == FoldLeft(LAMBDA path, n : Longer(b, path), <<p>>, L)
\* h[j] is the path after j steps.
Lengthened(b, p, N, h) == h[0] = <<p>> /\ \A j \in 1..N : h[j] = Longer(b, h[j - 1])
\* LongerFor follows the path step by step.
LEMMA ChainSteps ==
  ASSUME NEW N \in Nat, NEW L, DOMAIN L = 1..N, NEW b, NEW p
  PROVE  \E h : Lengthened(b, p, N, h) /\ LongerFor(b, p, L) = h[N]
<1> DEFINE Step(t, S) == IF S = {} THEN <<p>> ELSE Longer(b, t[S \ {Max(S)}])
           Good(j) == \E t : \A S \in SUBSET (1..j) : t[S] = Step(t, S)
           Bad == {j \in 0..N : ~Good(j)}
<1>1. Good(0)
  <2>1. \A S \in SUBSET (1..0) : S = {}
    OBVIOUS
  <2> WITNESS [S \in {{}} |-> <<p>>]
  <2> QED
    BY <2>1
<1>2. ASSUME NEW j \in Nat, Good(j) PROVE Good(j + 1)
  <2>1. PICK t : \A S \in SUBSET (1..j) : t[S] = Step(t, S)
    BY <1>2
  <2> DEFINE u == [S \in SUBSET (1..(j + 1)) |->
                     IF j + 1 \in S THEN Longer(b, t[S \ {j + 1}]) ELSE t[S]]
  <2>2. ASSUME NEW S \in SUBSET (1..j) PROVE u[S] = t[S]
    OBVIOUS
  <2>3. ASSUME NEW S \in SUBSET (1..(j + 1)) PROVE u[S] = Step(u, S)
    <3>1. CASE j + 1 \in S
      <4>1. Max(S) = j + 1 /\ S # {} /\ S \ {j + 1} \in SUBSET (1..j)
        BY <3>1, LastOf
      <4>2. u[S] = Longer(b, t[S \ {j + 1}])
        BY <3>1
      <4>3. u[S \ {j + 1}] = t[S \ {j + 1}]
        BY <2>2, <4>1
      <4> HIDE DEF u
      <4> QED
        BY <4>1, <4>2, <4>3
    <3>2. CASE j + 1 \notin S
      <4>1. S \in SUBSET (1..j)
        BY <3>2, LastOf
      <4>2. u[S] = Step(t, S)
        BY <2>1, <2>2, <4>1
      <4>3. S # {} => Max(S) \in S /\ S \ {Max(S)} \in SUBSET (1..j)
        BY <4>1, HasLast
      <4>4. S # {} => u[S \ {Max(S)}] = t[S \ {Max(S)}]
        BY <2>2, <4>3
      <4> HIDE DEF u
      <4> QED
        BY <4>2, <4>4
    <3> QED
      BY <3>1, <3>2
  <2> HIDE DEF u
  <2> QED
    BY <2>3
<1>3. Bad = {}
  <2> SUFFICES ASSUME Bad # {} PROVE FALSE
    OBVIOUS
  <2> HIDE DEF Good
  <2>0. Bad \subseteq Nat
    OBVIOUS
  <2>1. PICK m \in Bad : \A y \in Bad : m <= y
    <3> HIDE DEF Bad
    <3> QED
      BY <2>0, LeastNatural
  <2>2. m \in 0..N /\ m # 0 /\ ~Good(m)
    BY <1>1, <2>1
  <2>3. m - 1 \in 0..N /\ m - 1 \notin Bad
    BY <2>1, <2>2
  <2>4. Good(m - 1)
    BY <2>3
  <2>5. Good((m - 1) + 1)
    BY <1>2, <2>3, <2>4
  <2> QED
    BY <2>2, <2>5
<1>4. Good(N)
  <2> HIDE DEF Good
  <2> QED
    BY <1>3
<1>5. PICK t0 : \A S \in SUBSET (1..N) : t0[S] = Step(t0, S)
  BY <1>4
<1> DEFINE Eq(t) == t = [S \in SUBSET (1..N) |-> Step(t, S)]
           t1 == [S \in SUBSET (1..N) |-> t0[S]]
<1>6. ASSUME NEW S \in SUBSET (1..N), S # {} PROVE Max(S) \in S /\ S \ {Max(S)} \in SUBSET (1..N)
  BY <1>6, HasLast
<1>7. Eq(t1)
  <2>1. ASSUME NEW S \in SUBSET (1..N) PROVE t1[S] = Step(t1, S)
    BY <1>5, <1>6
  <2> QED
    BY <2>1
<1> DEFINE t == CHOOSE r : Eq(r)
<1>8. Eq(t)
  BY <1>7
<1>9. LongerFor(b, p, L) = t[1..N]
  BY DEF LongerFor, FoldLeft, MapThenFoldSet
<1> HIDE DEF t
<1> DEFINE h == [j \in 0..N |-> t[1..j]]
<1>10. h[0] = <<p>>
  BY <1>8
<1>11. ASSUME NEW j \in 1..N PROVE h[j] = Longer(b, h[j - 1])
  <2>1. 1..j \in SUBSET (1..((j - 1) + 1)) /\ (j - 1) + 1 = j /\ j - 1 \in Nat /\ j \in 1..j
    OBVIOUS
  <2>2. Max(1..j) = j /\ 1..j # {}
    BY <2>1, LastOf
  <2>3. (1..j) \ {j} = 1..(j - 1)
    OBVIOUS
  <2>4. t[1..j] = Step(t, 1..j)
    <3>1. 1..j \in SUBSET (1..N)
      OBVIOUS
    <3> QED
      BY <1>8, <3>1
  <2>5. t[1..j] = Longer(b, t[1..(j - 1)])
    BY <2>2, <2>3, <2>4
  <2> QED
    BY <2>5
<1>12. h[N] = t[1..N]
  OBVIOUS
<1> HIDE DEF h
<1> QED
  BY <1>9, <1>10, <1>11, <1>12 DEF Lengthened

\* The offset of a pointer from the one it is made of.
OffsetOf(b, l, q) ==
  IF Made(b, q).kind # "gep" THEN 0 ELSE Made(b, q).elem * Element(b, l, q)
\* The sum of their offsets.
Offsets(b, l, L) == FoldLeft(LAMBDA sum, q : sum + OffsetOf(b, l, q), 0, L)
\* Offsets adds them one by one.
LEMMA SumSteps ==
  ASSUME NEW N \in Nat, NEW L, DOMAIN L = 1..N, NEW b, NEW l
  PROVE  \E h : /\ h[0] = 0 /\ \A j \in 1..N : h[j] = h[j - 1] + OffsetOf(b, l, L[j])
                /\ Offsets(b, l, L) = h[N]
<1> DEFINE Step(t, S) == IF S = {} THEN 0 ELSE t[S \ {Max(S)}] + OffsetOf(b, l, L[Max(S)])
           Good(j) == \E t : \A S \in SUBSET (1..j) : t[S] = Step(t, S)
           Bad == {j \in 0..N : ~Good(j)}
<1>1. Good(0)
  <2>1. \A S \in SUBSET (1..0) : S = {}
    OBVIOUS
  <2> WITNESS [S \in {{}} |-> 0]
  <2> QED
    BY <2>1
<1>2. ASSUME NEW j \in Nat, Good(j) PROVE Good(j + 1)
  <2>1. PICK t : \A S \in SUBSET (1..j) : t[S] = Step(t, S)
    BY <1>2
  <2> DEFINE u == [S \in SUBSET (1..(j + 1)) |->
                     IF j + 1 \in S THEN t[S \ {j + 1}] + OffsetOf(b, l, L[j + 1]) ELSE t[S]]
  <2>2. ASSUME NEW S \in SUBSET (1..j) PROVE u[S] = t[S]
    OBVIOUS
  <2>3. ASSUME NEW S \in SUBSET (1..(j + 1)) PROVE u[S] = Step(u, S)
    <3>1. CASE j + 1 \in S
      <4>1. Max(S) = j + 1 /\ S # {} /\ S \ {j + 1} \in SUBSET (1..j)
        BY <3>1, LastOf
      <4>2. u[S] = t[S \ {j + 1}] + OffsetOf(b, l, L[j + 1])
        BY <3>1
      <4>3. u[S \ {j + 1}] = t[S \ {j + 1}]
        BY <2>2, <4>1
      <4> HIDE DEF u
      <4> QED
        BY <4>1, <4>2, <4>3
    <3>2. CASE j + 1 \notin S
      <4>1. S \in SUBSET (1..j)
        BY <3>2, LastOf
      <4>2. u[S] = Step(t, S)
        BY <2>1, <2>2, <4>1
      <4>3. S # {} => Max(S) \in S /\ S \ {Max(S)} \in SUBSET (1..j)
        BY <4>1, HasLast
      <4>4. S # {} => u[S \ {Max(S)}] = t[S \ {Max(S)}]
        BY <2>2, <4>3
      <4> HIDE DEF u
      <4> QED
        BY <4>2, <4>4
    <3> QED
      BY <3>1, <3>2
  <2> HIDE DEF u
  <2> QED
    BY <2>3
<1>3. Bad = {}
  <2> SUFFICES ASSUME Bad # {} PROVE FALSE
    OBVIOUS
  <2> HIDE DEF Good
  <2>0. Bad \subseteq Nat
    OBVIOUS
  <2>1. PICK m \in Bad : \A y \in Bad : m <= y
    <3> HIDE DEF Bad
    <3> QED
      BY <2>0, LeastNatural
  <2>2. m \in 0..N /\ m # 0 /\ ~Good(m)
    BY <1>1, <2>1
  <2>3. m - 1 \in 0..N /\ m - 1 \notin Bad
    BY <2>1, <2>2
  <2>4. Good(m - 1)
    BY <2>3
  <2>5. Good((m - 1) + 1)
    BY <1>2, <2>3, <2>4
  <2> QED
    BY <2>2, <2>5
<1>4. Good(N)
  <2> HIDE DEF Good
  <2> QED
    BY <1>3
<1>5. PICK t0 : \A S \in SUBSET (1..N) : t0[S] = Step(t0, S)
  BY <1>4
<1> DEFINE Eq(t) == t = [S \in SUBSET (1..N) |-> Step(t, S)]
           t1 == [S \in SUBSET (1..N) |-> t0[S]]
<1>6. ASSUME NEW S \in SUBSET (1..N), S # {} PROVE Max(S) \in S /\ S \ {Max(S)} \in SUBSET (1..N)
  BY <1>6, HasLast
<1>7. Eq(t1)
  <2>1. ASSUME NEW S \in SUBSET (1..N) PROVE t1[S] = Step(t1, S)
    BY <1>5, <1>6
  <2> QED
    BY <2>1
<1> DEFINE t == CHOOSE r : Eq(r)
<1>8. Eq(t)
  BY <1>7
<1>9. Offsets(b, l, L) = t[1..N]
  BY DEF Offsets, FoldLeft, MapThenFoldSet
<1> HIDE DEF t
<1> DEFINE h == [j \in 0..N |-> t[1..j]]
<1>10. h[0] = 0
  BY <1>8
<1>11. ASSUME NEW j \in 1..N PROVE h[j] = h[j - 1] + OffsetOf(b, l, L[j])
  <2>1. 1..j \in SUBSET (1..((j - 1) + 1)) /\ (j - 1) + 1 = j /\ j - 1 \in Nat /\ j \in 1..j
    OBVIOUS
  <2>2. Max(1..j) = j /\ 1..j # {}
    BY <2>1, LastOf
  <2>3. (1..j) \ {j} = 1..(j - 1)
    OBVIOUS
  <2>4. t[1..j] = Step(t, 1..j)
    <3>1. 1..j \in SUBSET (1..N)
      OBVIOUS
    <3> QED
      BY <1>8, <3>1
  <2>5. t[1..j] = t[1..(j - 1)] + OffsetOf(b, l, L[j])
    BY <2>2, <2>3, <2>4
  <2> QED
    BY <2>5
<1>12. h[N] = t[1..N]
  OBVIOUS
<1> HIDE DEF h
<1> QED
  BY <1>9, <1>10, <1>11, <1>12

\* The states of a run.
RanThrough(b, l, L) == FoldLeft(LAMBDA s, i : RunOne(b, l, s, i), Start, L)
LEMMA RunSteps ==
  ASSUME NEW N \in Nat, NEW L, DOMAIN L = 1..N, NEW b, NEW l
  PROVE  \E h : /\ h[0] = Start /\ \A j \in 1..N : h[j] = RunOne(b, l, h[j - 1], L[j])
                /\ RanThrough(b, l, L) = h[N]
<1> DEFINE Step(t, S) == IF S = {} THEN Start ELSE RunOne(b, l, t[S \ {Max(S)}], L[Max(S)])
           Good(j) == \E t : \A S \in SUBSET (1..j) : t[S] = Step(t, S)
           Bad == {j \in 0..N : ~Good(j)}
<1>1. Good(0)
  <2>1. \A S \in SUBSET (1..0) : S = {}
    OBVIOUS
  <2> WITNESS [S \in {{}} |-> Start]
  <2> QED
    BY <2>1
<1>2. ASSUME NEW j \in Nat, Good(j) PROVE Good(j + 1)
  <2>1. PICK t : \A S \in SUBSET (1..j) : t[S] = Step(t, S)
    BY <1>2
  <2> DEFINE u == [S \in SUBSET (1..(j + 1)) |->
                     IF j + 1 \in S THEN RunOne(b, l, t[S \ {j + 1}], L[j + 1]) ELSE t[S]]
  <2>2. ASSUME NEW S \in SUBSET (1..j) PROVE u[S] = t[S]
    OBVIOUS
  <2>3. ASSUME NEW S \in SUBSET (1..(j + 1)) PROVE u[S] = Step(u, S)
    <3>1. CASE j + 1 \in S
      <4>1. Max(S) = j + 1 /\ S # {} /\ S \ {j + 1} \in SUBSET (1..j)
        BY <3>1, LastOf
      <4>2. u[S] = RunOne(b, l, t[S \ {j + 1}], L[j + 1])
        BY <3>1
      <4>3. u[S \ {j + 1}] = t[S \ {j + 1}]
        BY <2>2, <4>1
      <4> HIDE DEF u
      <4> QED
        BY <4>1, <4>2, <4>3
    <3>2. CASE j + 1 \notin S
      <4>1. S \in SUBSET (1..j)
        BY <3>2, LastOf
      <4>2. u[S] = Step(t, S)
        BY <2>1, <2>2, <4>1
      <4>3. S # {} => Max(S) \in S /\ S \ {Max(S)} \in SUBSET (1..j)
        BY <4>1, HasLast
      <4>4. S # {} => u[S \ {Max(S)}] = t[S \ {Max(S)}]
        BY <2>2, <4>3
      <4> HIDE DEF u
      <4> QED
        BY <4>2, <4>4
    <3> QED
      BY <3>1, <3>2
  <2> HIDE DEF u
  <2> QED
    BY <2>3
<1>3. Bad = {}
  <2> SUFFICES ASSUME Bad # {} PROVE FALSE
    OBVIOUS
  <2> HIDE DEF Good
  <2>0. Bad \subseteq Nat
    OBVIOUS
  <2>1. PICK m \in Bad : \A y \in Bad : m <= y
    <3> HIDE DEF Bad
    <3> QED
      BY <2>0, LeastNatural
  <2>2. m \in 0..N /\ m # 0 /\ ~Good(m)
    BY <1>1, <2>1
  <2>3. m - 1 \in 0..N /\ m - 1 \notin Bad
    BY <2>1, <2>2
  <2>4. Good(m - 1)
    BY <2>3
  <2>5. Good((m - 1) + 1)
    BY <1>2, <2>3, <2>4
  <2> QED
    BY <2>2, <2>5
<1>4. Good(N)
  <2> HIDE DEF Good
  <2> QED
    BY <1>3
<1>5. PICK t0 : \A S \in SUBSET (1..N) : t0[S] = Step(t0, S)
  BY <1>4
<1> DEFINE Eq(t) == t = [S \in SUBSET (1..N) |-> Step(t, S)]
           t1 == [S \in SUBSET (1..N) |-> t0[S]]
<1>6. ASSUME NEW S \in SUBSET (1..N), S # {} PROVE Max(S) \in S /\ S \ {Max(S)} \in SUBSET (1..N)
  BY <1>6, HasLast
<1>7. Eq(t1)
  <2>1. ASSUME NEW S \in SUBSET (1..N) PROVE t1[S] = Step(t1, S)
    BY <1>5, <1>6
  <2> QED
    BY <2>1
<1> DEFINE t == CHOOSE r : Eq(r)
<1>8. Eq(t)
  BY <1>7
<1>9. RanThrough(b, l, L) = t[1..N]
  BY DEF RanThrough, FoldLeft, MapThenFoldSet
<1> HIDE DEF t
<1> DEFINE h == [j \in 0..N |-> t[1..j]]
<1>10. h[0] = Start
  BY <1>8
<1>11. ASSUME NEW j \in 1..N PROVE h[j] = RunOne(b, l, h[j - 1], L[j])
  <2>1. 1..j \in SUBSET (1..((j - 1) + 1)) /\ (j - 1) + 1 = j /\ j - 1 \in Nat /\ j \in 1..j
    OBVIOUS
  <2>2. Max(1..j) = j /\ 1..j # {}
    BY <2>1, LastOf
  <2>3. (1..j) \ {j} = 1..(j - 1)
    OBVIOUS
  <2>4. t[1..j] = Step(t, 1..j)
    <3>1. 1..j \in SUBSET (1..N)
      OBVIOUS
    <3> QED
      BY <1>8, <3>1
  <2>5. t[1..j] = RunOne(b, l, t[1..(j - 1)], L[j])
    BY <2>2, <2>3, <2>4
  <2> QED
    BY <2>5
<1>12. h[N] = t[1..N]
  OBVIOUS
<1> HIDE DEF h
<1> QED
  BY <1>9, <1>10, <1>11, <1>12

-----------------------------------------------------------------------------
(* What the oracle computes: the objects, and the bytes of an access.       *)

\* What holds of the first number, and of the next one with a number, holds of all.
LEMMA UpTo ==
  ASSUME NEW N \in Nat, NEW G, 0 \in G, \A j \in 1..N : j - 1 \in G => j \in G
  PROVE  \A j \in 0..N : j \in G
<1> DEFINE Bad == {j \in 0..N : j \notin G}
<1>1. Bad = {}
  <2> SUFFICES ASSUME Bad # {} PROVE FALSE
    OBVIOUS
  <2>0. Bad \subseteq Nat
    OBVIOUS
  <2>1. PICK m \in Bad : \A y \in Bad : m <= y
    <3> HIDE DEF Bad
    <3> QED
      BY <2>0, LeastNatural
  <2>2. m \in 1..N /\ m \notin G
    BY <2>1
  <2>3. m - 1 \in G
    BY <2>1, <2>2
  <2> QED
    BY <2>2, <2>3
<1> QED
  BY <1>1

\* A sequence is made of its own members.
LEMMA OfItsOwn ==
  ASSUME NEW T, NEW s \in Seq(T)
  PROVE  s \in Seq(Range(s)) /\ Range(s) \subseteq T
<1>1. Len(s) \in Nat /\ DOMAIN s = 1..Len(s) /\ s = [n \in 1..Len(s) |-> s[n]]
  OBVIOUS
<1>2. \A n \in 1..Len(s) : s[n] \in Range(s) /\ s[n] \in T
  BY DEF Range
<1> HIDE DEF Range
<1>3. [n \in 1..Len(s) |-> s[n]] \in [1..Len(s) -> Range(s)]
  BY <1>2
<1>4. [n \in 1..Len(s) |-> s[n]] \in Seq(Range(s))
  BY <1>1, <1>3
<1>5. Range(s) \subseteq T
  BY DEF Range
<1> QED
  BY <1>1, <1>4, <1>5

\* What is kept of a sequence of T is a sequence of T's members in S0.
LEMMA ThoseKept ==
  ASSUME NEW T, NEW L \in Seq(T), NEW S0
  PROVE  Those(L, S0) \in Seq(T \cap S0)
<1> DEFINE N == Len(L)
<1>1. N \in Nat /\ DOMAIN L = 1..N /\ \A n \in 1..N : L[n] \in T
  OBVIOUS
<1>2. PICK h : Collected(L, S0, N, h)
  BY <1>1, ThoseSteps
<1>20. /\ h[0] = <<>>
       /\ \A j \in 1..N : h[j] = (IF L[j] \in S0 THEN Append(h[j - 1], L[j]) ELSE h[j - 1])
       /\ Those(L, S0) = h[N]
  BY <1>2 DEF Collected
<1> DEFINE G == {j \in 0..N : h[j] \in Seq(T \cap S0)}
<1>3. 0 \in G
  <2>1. h[0] \in Seq(T \cap S0)
    BY <1>20
  <2> QED
    BY <1>1, <2>1
<1>4. ASSUME NEW j \in 1..N, j - 1 \in G PROVE j \in G
  <2> DEFINE u == h[j - 1]
             v == L[j]
  <2>1. u \in Seq(T \cap S0) /\ v \in T /\ h[j] = (IF v \in S0 THEN Append(u, v) ELSE u)
    BY <1>1, <1>20, <1>4
  <2> HIDE DEF u, v
  <2>2. h[j] \in Seq(T \cap S0)
    BY <2>1
  <2> QED
    BY <2>2
<1> HIDE DEF G
<1>5. \A j \in 0..N : j \in G
  BY <1>1, <1>3, <1>4, UpTo
<1>6. N \in G
  BY <1>1, <1>5
<1> QED
  BY <1>20, <1>6 DEF G

\* The pointers that p is made of are pointers of the block.
LEMMA ChainMade ==
  ASSUME NEW b, BlockFormed(b), NEW p \in DOMAIN b.ptrs
  PROVE  /\ Chain(b, p) \in Seq(DOMAIN b.ptrs) /\ Len(Chain(b, p)) \in Nat \ {0}
         /\ Root(b, p) \in DOMAIN b.ptrs
<1> DEFINE N == Cardinality(DOMAIN b.ptrs)
           L == [n \in 1..N |-> n]
           P == DOMAIN b.ptrs
<1>1. N \in Nat
  BY FS_CardinalityType DEF BlockFormed
<1>2. Chain(b, p) = LongerFor(b, p, L)
  BY DEF Chain, LongerFor
<1>3. DOMAIN L = 1..N
  OBVIOUS
<1> HIDE DEF N, L
<1>4. PICK h : Lengthened(b, p, N, h) /\ LongerFor(b, p, L) = h[N]
  BY <1>1, <1>3, ChainSteps
<1> DEFINE G == {j \in 0..N : h[j] \in Seq(P) /\ Len(h[j]) # 0}
<1>5. 0 \in G
  <2>1. ASSUME NEW D, NEW q \in D PROVE <<q>> \in Seq(D) /\ Len(<<q>>) # 0
    OBVIOUS
  <2>2. h[0] \in Seq(P) /\ Len(h[0]) # 0
    BY <1>4, <2>1 DEF Lengthened
  <2> QED
    BY <1>1, <2>2
<1>6. ASSUME NEW j \in 1..N, j - 1 \in G PROVE j \in G
  <2> DEFINE path == h[j - 1]
  <2>1. path \in Seq(P) /\ Len(path) # 0
    BY <1>6
  <2> HIDE DEF path
  <2>2. Last(path) \in P
    BY <2>1 DEF Last
  <2>3. Derived(b, Last(path)) => Made(b, Last(path)).base \in P
    BY <2>2 DEF BlockFormed
  <2>4. Longer(b, path) \in Seq(P) /\ Len(Longer(b, path)) # 0
    <3> DEFINE base == Made(b, Last(path)).base
    <3> HIDE DEF base
    <3>1. base \in P => Append(path, base) \in Seq(P) /\ Len(Append(path, base)) # 0
      BY <2>1
    <3> QED
      BY <2>1, <2>3, <3>1 DEF Longer, base
  <2>5. h[j] = Longer(b, path)
    BY <1>4 DEF path, Lengthened
  <2> QED
    BY <2>4, <2>5
<1> HIDE DEF G
<1>7. \A j \in 0..N : j \in G
  BY <1>1, <1>5, <1>6, UpTo
<1>8. N \in G
  BY <1>1, <1>7
<1>9. Chain(b, p) \in Seq(P) /\ Len(Chain(b, p)) # 0
  BY <1>2, <1>4, <1>8 DEF G
<1>10. Last(Chain(b, p)) \in P
  BY <1>9 DEF Last
<1> QED
  BY <1>9, <1>10 DEF Root

\* The address, with the sum by its name.
LEMMA AddressIs ==
  ASSUME NEW b, NEW l, NEW p
  PROVE  Address(b, l, p) = l.base[Root(b, p)] + Offsets(b, l, Chain(b, p))
BY DEF Address, Offsets, OffsetOf

\* An element is one of integer number; if its indices are constant, and one,
\* that index is its number.
LEMMA ElementIs ==
  ASSUME NEW b, BlockFormed(b), NEW l, LayoutFormed(b, l),
         NEW q \in DOMAIN b.ptrs, Made(b, q).kind = "gep"
  PROVE  /\ Element(b, l, q) \in Int
         /\ NotConst \notin Range(Made(b, q).idx) =>
              Element(b, l, q) = IF Len(Made(b, q).idx) = 1 THEN Made(b, q).idx[1] ELSE Made(b, q).flat
<1> DEFINE x == Made(b, q).idx
<1>1. x \in Seq(Int \cup {NotConst}) /\ Made(b, q).flat \in Int
  BY DEF BlockFormed
<1>2. NotConst \in Range(x) => l.index[q] \in Int
  BY DEF LayoutFormed
<1> HIDE DEF x
<1>3. ASSUME NotConst \notin Range(x), Len(x) = 1 PROVE x[1] \in Int
  <2>0. ASSUME NEW S, NEW s \in Seq(S), Len(s) = 1 PROVE s[1] \in S /\ 1 \in DOMAIN s
    <3>1. \A n \in 1 .. Len(s) : s[n] \in S
      OBVIOUS
    <3>2. DOMAIN s = 1 .. Len(s)
      OBVIOUS
    <3> QED
      BY <2>0, <3>1, <3>2
  <2>1. x[1] \in Int \cup {NotConst} /\ 1 \in DOMAIN x
    <3> DEFINE I0 == Int \cup {NotConst}
    <3> HIDE DEF I0
    <3>1. x \in Seq(I0)
      BY <1>1 DEF I0
    <3>2. x[1] \in I0 /\ 1 \in DOMAIN x
      BY <1>3, <2>0, <3>1
    <3> QED
      BY <3>2 DEF I0
  <2>2. x[1] \in Range(x)
    BY <2>1 DEF Range
  <2> QED
    BY <1>3, <2>1, <2>2
<1> QED
  BY <1>1, <1>2, <1>3 DEF Element, x

\* Only elements have an offset: a pointer with none of them is at its root, and
\* with one at that one's offset.
LEMMA OffsetSum ==
  ASSUME NEW b, BlockFormed(b), NEW l, LayoutFormed(b, l), NEW p \in DOMAIN b.ptrs
  PROVE  /\ Offsets(b, l, Chain(b, p)) \in Int
         /\ Geps(b, p) \in Seq({q \in DOMAIN b.ptrs : Made(b, q).kind = "gep"})
         /\ Geps(b, p) = <<>> => Offsets(b, l, Chain(b, p)) = 0
         /\ Len(Geps(b, p)) = 1 => Offsets(b, l, Chain(b, p)) = OffsetOf(b, l, Geps(b, p)[1])
<1> DEFINE L == Chain(b, p)
           N == Len(L)
           S0 == {q \in DOMAIN b.ptrs : Made(b, q).kind = "gep"}
<1>1. L \in Seq(DOMAIN b.ptrs)
  BY ChainMade
<1> HIDE DEF L
<1>2. N \in Nat /\ DOMAIN L = 1..N /\ \A n \in 1..N : L[n] \in DOMAIN b.ptrs
  BY <1>1
<1> HIDE DEF S0
<1>3. PICK k : Collected(L, S0, N, k)
  BY <1>2, ThoseSteps
<1>30. /\ k[0] = <<>>
       /\ \A j \in 1..N : k[j] = (IF L[j] \in S0 THEN Append(k[j - 1], L[j]) ELSE k[j - 1])
       /\ Those(L, S0) = k[N]
  BY <1>3 DEF Collected
<1>4. PICK h : /\ h[0] = 0 /\ \A j \in 1..N : h[j] = h[j - 1] + OffsetOf(b, l, L[j])
               /\ Offsets(b, l, L) = h[N]
  BY <1>2, SumSteps
<1>5. ASSUME NEW q \in DOMAIN b.ptrs
      PROVE  OffsetOf(b, l, q) \in Int /\ (q \notin S0 => OffsetOf(b, l, q) = 0)
  <2>1. Made(b, q).kind = "gep" => Made(b, q).elem \in Int
    BY DEF BlockFormed
  <2>2. Made(b, q).kind = "gep" => Element(b, l, q) \in Int
    BY ElementIs
  <2>3. ASSUME NEW x \in Int, NEW y \in Int PROVE x * y \in Int
    OBVIOUS
  <2> QED
    BY <2>1, <2>2, <2>3 DEF OffsetOf, S0
<1> DEFINE G == {j \in 0..N : /\ k[j] \in Seq(S0) /\ h[j] \in Int
                              /\ k[j] = <<>> => h[j] = 0
                              /\ Len(k[j]) = 1 => h[j] = OffsetOf(b, l, k[j][1])}
<1>6. 0 \in G
  <2>1. ASSUME NEW D PROVE <<>> \in Seq(D) /\ Len(<<>>) # 1
    OBVIOUS
  <2>2. k[0] \in Seq(S0) /\ Len(k[0]) # 1 /\ h[0] \in Int /\ h[0] = 0
    BY <1>30, <1>4, <2>1
  <2> QED
    BY <1>2, <2>2
<1>7. ASSUME NEW j \in 1..N, j - 1 \in G PROVE j \in G
  <2>1. /\ k[j - 1] \in Seq(S0) /\ h[j - 1] \in Int
        /\ k[j - 1] = <<>> => h[j - 1] = 0
        /\ Len(k[j - 1]) = 1 => h[j - 1] = OffsetOf(b, l, k[j - 1][1])
    BY <1>7
  <2>2. /\ k[j] = (IF L[j] \in S0 THEN Append(k[j - 1], L[j]) ELSE k[j - 1])
        /\ h[j] = h[j - 1] + OffsetOf(b, l, L[j])
    BY <1>30, <1>4
  <2>3. OffsetOf(b, l, L[j]) \in Int /\ (L[j] \notin S0 => OffsetOf(b, l, L[j]) = 0)
    BY <1>2, <1>5
  <2> DEFINE u == k[j - 1]
             v == L[j]
  <2> HIDE DEF u, v
  <2>4. CASE L[j] \in S0
    <3>1. u \in Seq(S0) /\ v \in S0 /\ k[j] = Append(u, v)
      BY <2>1, <2>2, <2>4 DEF u, v
    <3>2. k[j] \in Seq(S0) /\ k[j] # <<>> /\ Len(k[j]) = Len(u) + 1
      BY <3>1
    <3>3. Len(k[j]) = 1 => u = <<>> /\ k[j][1] = v
      BY <3>1, <3>2
    <3>4. k[j] \in Seq(S0) /\ k[j] # <<>>
      BY <3>2
    <3>5. h[j] \in Int
      BY <2>1, <2>2, <2>3
    <3>6. Len(k[j]) = 1 => h[j] = OffsetOf(b, l, k[j][1])
      <4> SUFFICES ASSUME Len(k[j]) = 1 PROVE h[j] = OffsetOf(b, l, k[j][1])
        OBVIOUS
      <4>1. h[j - 1] = 0 /\ k[j][1] = L[j]
        BY <2>1, <3>3 DEF u, v
      <4> QED
        BY <2>2, <2>3, <4>1
    <3> QED
      BY <3>4, <3>5, <3>6
  <2>5. CASE L[j] \notin S0
    BY <2>1, <2>2, <2>3, <2>5
  <2> QED
    BY <2>4, <2>5
<1> HIDE DEF G
<1>8. \A j \in 0..N : j \in G
  BY <1>2, <1>6, <1>7, UpTo
<1>9. N \in G
  BY <1>2, <1>8
<1>10. Geps(b, p) = k[N]
  BY <1>30 DEF Geps, L, S0
<1>11. Offsets(b, l, Chain(b, p)) = h[N]
  BY <1>4 DEF L
<1> QED
  BY <1>9, <1>10, <1>11 DEF G, S0

\* Where an access is, and the bytes that it is of.
LEMMA BytesIs ==
  ASSUME NEW b, BlockFormed(b), NEW l, LayoutFormed(b, l), NEW i \in Accesses(b)
  PROVE  /\ i.ptr \in DOMAIN b.ptrs /\ i.size \in Nat \ {0}
         /\ l.base[Root(b, i.ptr)] \in Int /\ Address(b, l, i.ptr) \in Int
         /\ Bytes(b, l, i) = [n \in 1..i.size |-> Address(b, l, i.ptr) + n - 1]
         /\ Range(Bytes(b, l, i)) = Address(b, l, i.ptr)..(Address(b, l, i.ptr) + i.size - 1)
<1>1. i.ptr \in DOMAIN b.ptrs /\ i.size \in Nat \ {0}
  BY DEF BlockFormed, Accesses
<1>2. l.base[Root(b, i.ptr)] \in Int
  BY DEF LayoutFormed
<1>3. Address(b, l, i.ptr) \in Int
  <2>1. Offsets(b, l, Chain(b, i.ptr)) \in Int
    BY <1>1, OffsetSum
  <2>2. ASSUME NEW x \in Int, NEW y \in Int PROVE x + y \in Int
    OBVIOUS
  <2> QED
    BY <1>2, <2>1, <2>2, AddressIs
<1>4. Bytes(b, l, i) = [n \in 1..i.size |-> Address(b, l, i.ptr) + n - 1]
  BY DEF Bytes
<1>5. ASSUME NEW a \in Int, NEW z \in Nat
      PROVE  {a + n - 1 : n \in 1..z} = a..(a + z - 1)
  <2>1. ASSUME NEW x \in a..(a + z - 1) PROVE x \in {a + n - 1 : n \in 1..z}
    <3>1. x - a + 1 \in 1..z /\ x = a + (x - a + 1) - 1
      OBVIOUS
    <3> QED
      BY <3>1
  <2>2. ASSUME NEW n \in 1..z PROVE a + n - 1 \in a..(a + z - 1)
    OBVIOUS
  <2> QED
    BY <2>1, <2>2
<1>6. Range(Bytes(b, l, i)) = {Address(b, l, i.ptr) + n - 1 : n \in 1..i.size}
  <2>1. DOMAIN Bytes(b, l, i) = 1..i.size
    BY <1>4
  <2>2. \A n \in 1..i.size : Bytes(b, l, i)[n] = Address(b, l, i.ptr) + n - 1
    BY <1>4
  <2> QED
    BY <2>1, <2>2 DEF Range
<1> QED
  BY <1>1, <1>2, <1>3, <1>4, <1>5, <1>6

-----------------------------------------------------------------------------
(* The alias oracle is sound.                                               *)

\* A pointer that is compared by its constant index is at that many elements.
LEMMA AtIndex ==
  ASSUME NEW b, BlockFormed(b), NEW l, LayoutFormed(b, l), NEW p \in DOMAIN b.ptrs,
         const_gep(b, p), indices(b, p) # <<>>
  PROVE  \E q \in Range(Geps(b, p)) :
           /\ Made(b, q).elem \in Nat \ {0} /\ Element(b, l, q) \in Int
           /\ indices(b, p) = Made(b, q).idx /\ gep_source_type(b, p) = Made(b, q).elem
           /\ Element(b, l, q) = IF Len(Made(b, q).idx) = 1 THEN Made(b, q).idx[1] ELSE Made(b, q).flat
           /\ Offsets(b, l, Chain(b, p)) = Made(b, q).elem * Element(b, l, q)
<1> DEFINE g == Geps(b, p)
           q == g[1]
<1>1. g # <<>>
  BY DEF indices
<1>2. Len(g) = 1 /\ NotConst \notin Range(Made(b, q).idx)
  BY <1>1 DEF const_gep
<1>3. /\ g \in Seq({x \in DOMAIN b.ptrs : Made(b, x).kind = "gep"})
      /\ Offsets(b, l, Chain(b, p)) = OffsetOf(b, l, q)
  BY <1>2, OffsetSum
<1>4. q \in DOMAIN b.ptrs /\ Made(b, q).kind = "gep"
  <2> DEFINE S0 == {x \in DOMAIN b.ptrs : Made(b, x).kind = "gep"}
  <2>1. ASSUME NEW S, NEW s \in Seq(S), Len(s) = 1 PROVE s[1] \in S
    <3>1. \A n \in 1..Len(s) : s[n] \in S
      OBVIOUS
    <3> QED
      BY <2>1, <3>1
  <2>2. q \in S0
    <3> HIDE DEF S0
    <3>1. g \in Seq(S0)
      BY <1>3 DEF S0
    <3> HIDE DEF g
    <3> QED
      BY <1>2, <2>1, <3>1
  <2> QED
    BY <2>2
<1>5. q \in Range(g)
  BY <1>2, <1>3 DEF Range
<1>6. /\ Made(b, q).elem \in Nat \ {0} /\ Element(b, l, q) \in Int
      /\ Element(b, l, q) = IF Len(Made(b, q).idx) = 1 THEN Made(b, q).idx[1] ELSE Made(b, q).flat
  <2>1. Made(b, q).elem \in Nat \ {0}
    BY <1>4 DEF BlockFormed
  <2> QED
    BY <1>2, <1>4, <2>1, ElementIs
<1>7. indices(b, p) = Made(b, q).idx /\ gep_source_type(b, p) = Made(b, q).elem
  BY <1>1 DEF indices, gep_source_type
<1>8. OffsetOf(b, l, q) = Made(b, q).elem * Element(b, l, q)
  BY <1>2, <1>4 DEF OffsetOf
<1> HIDE DEF g, q
<1> QED
  BY <1>3, <1>5, <1>6, <1>7, <1>8 DEF g

\* Indices are a sequence, empty for a pointer that is no element.
LEMMA IndicesType ==
  ASSUME NEW b, BlockFormed(b), NEW l, LayoutFormed(b, l), NEW p \in DOMAIN b.ptrs
  PROVE  /\ indices(b, p) \in Seq(Int \cup {NotConst})
         /\ indices(b, p) = <<>> => Geps(b, p) = <<>>
<1> DEFINE S0 == {x \in DOMAIN b.ptrs : Made(b, x).kind = "gep"}
           g == Geps(b, p)
<1>1. g \in Seq(S0)
  BY OffsetSum
<1> HIDE DEF g
<1>2. g # <<>> => g[1] \in S0
  BY <1>1
<1>3. g # <<>> => Made(b, g[1]).idx \in Seq(Int \cup {NotConst}) \ {<<>>}
  BY <1>2 DEF BlockFormed
<1> QED
  BY <1>3 DEF indices, g

\* Two elements of one object that are not the same share no byte.
LEMMA ElementsApart ==
  ASSUME NEW e \in Nat \ {0}, NEW x \in Int, NEW y \in Int, x < y
  PROVE  e * x + e <= e * y
<1> DEFINE d == y - x
<1>1. d \in Nat \ {0} /\ y = x + d
  OBVIOUS
<1> HIDE DEF d
<1>2. e * y = e * x + e * d
  BY <1>1
<1>3. e * d >= e
  BY <1>1
<1>4. e * x \in Int /\ e * d \in Int
  BY <1>1
<1> QED
  BY <1>2, <1>3, <1>4

\* What the oracle says: that two accesses are at one address, or share no byte.
LEMMA SameRootSound ==
  ASSUME NEW b, BlockFormed(b), AccessesFit(b), NEW l, LayoutFormed(b, l),
         NEW i \in Accesses(b), NEW j \in Accesses(b), Root(b, i.ptr) = Root(b, j.ptr),
         const_gep(b, i.ptr), const_gep(b, j.ptr),
         gep_source_type(b, i.ptr) = gep_source_type(b, j.ptr)
  PROVE  /\ indices(b, i.ptr) = indices(b, j.ptr) => Address(b, l, i.ptr) = Address(b, l, j.ptr)
         /\ indices(b, i.ptr) # indices(b, j.ptr) /\ Len(indices(b, i.ptr)) = 1
              /\ Len(indices(b, j.ptr)) = 1 =>
              Range(Bytes(b, l, i)) \cap Range(Bytes(b, l, j)) = {}
<1> DEFINE base == l.base[Root(b, i.ptr)]
<1>1. /\ i.ptr \in DOMAIN b.ptrs /\ j.ptr \in DOMAIN b.ptrs /\ base \in Int
      /\ i.size \in Nat \ {0} /\ j.size \in Nat \ {0}
      /\ Range(Bytes(b, l, i)) = Address(b, l, i.ptr)..(Address(b, l, i.ptr) + i.size - 1)
      /\ Range(Bytes(b, l, j)) = Address(b, l, j.ptr)..(Address(b, l, j.ptr) + j.size - 1)
  BY BytesIs
<1>2. /\ Address(b, l, i.ptr) = base + Offsets(b, l, Chain(b, i.ptr))
      /\ Address(b, l, j.ptr) = base + Offsets(b, l, Chain(b, j.ptr))
  BY AddressIs
<1>3. ASSUME NEW p \in DOMAIN b.ptrs, indices(b, p) = <<>>
      PROVE  Offsets(b, l, Chain(b, p)) = 0
  <2>1. Geps(b, p) = <<>>
    BY <1>3, IndicesType
  <2> QED
    BY <2>1, OffsetSum
<1>4. CASE indices(b, i.ptr) = <<>> \/ indices(b, j.ptr) = <<>>
  <2>1. ~(Len(indices(b, i.ptr)) = 1 /\ Len(indices(b, j.ptr)) = 1)
    BY <1>4
  <2>2. indices(b, i.ptr) = indices(b, j.ptr) => Address(b, l, i.ptr) = Address(b, l, j.ptr)
    BY <1>1, <1>2, <1>3, <1>4
  <2> QED
    BY <2>1, <2>2
<1>5. CASE indices(b, i.ptr) # <<>> /\ indices(b, j.ptr) # <<>>
  <2>1. PICK q \in Range(Geps(b, i.ptr)) :
           /\ Made(b, q).elem \in Nat \ {0} /\ Element(b, l, q) \in Int
           /\ indices(b, i.ptr) = Made(b, q).idx /\ gep_source_type(b, i.ptr) = Made(b, q).elem
           /\ Element(b, l, q) = IF Len(Made(b, q).idx) = 1 THEN Made(b, q).idx[1] ELSE Made(b, q).flat
           /\ Offsets(b, l, Chain(b, i.ptr)) = Made(b, q).elem * Element(b, l, q)
    BY <1>1, <1>5, AtIndex
  <2>2. PICK r \in Range(Geps(b, j.ptr)) :
           /\ Made(b, r).elem \in Nat \ {0} /\ Element(b, l, r) \in Int
           /\ indices(b, j.ptr) = Made(b, r).idx /\ gep_source_type(b, j.ptr) = Made(b, r).elem
           /\ Element(b, l, r) = IF Len(Made(b, r).idx) = 1 THEN Made(b, r).idx[1] ELSE Made(b, r).flat
           /\ Offsets(b, l, Chain(b, j.ptr)) = Made(b, r).elem * Element(b, l, r)
    BY <1>1, <1>5, AtIndex
  <2> DEFINE e == Made(b, q).elem
             x == Element(b, l, q)
             y == Element(b, l, r)
  <2>3. Made(b, r).elem = e /\ e \in Nat \ {0} /\ x \in Int /\ y \in Int
    BY <2>1, <2>2
  <2>4. i.size <= e /\ j.size <= e
    BY <2>1, <2>2, <2>3 DEF AccessesFit
  <2>5. Address(b, l, i.ptr) = base + e * x /\ Address(b, l, j.ptr) = base + e * y
    BY <1>2, <2>1, <2>2, <2>3
  <2>6. indices(b, i.ptr) = indices(b, j.ptr) => x = y
    <3>1. Made(b, q).idx = Made(b, r).idx => Made(b, q).flat = Made(b, r).flat
      BY <2>3 DEF AccessesFit
    <3> QED
      BY <2>1, <2>2, <3>1
  <2>8. /\ Len(indices(b, i.ptr)) = 1 => x = indices(b, i.ptr)[1]
        /\ Len(indices(b, j.ptr)) = 1 => y = indices(b, j.ptr)[1]
    BY <2>1, <2>2
  <2>9. indices(b, i.ptr) \in Seq(Int \cup {NotConst}) /\ indices(b, j.ptr) \in Seq(Int \cup {NotConst})
    BY <1>1, IndicesType
  <2> HIDE DEF e, x, y, base
  <2>7. ASSUME indices(b, i.ptr) # indices(b, j.ptr), Len(indices(b, i.ptr)) = 1,
               Len(indices(b, j.ptr)) = 1
        PROVE  Range(Bytes(b, l, i)) \cap Range(Bytes(b, l, j)) = {}
    <3>0. x # y
      <4>1. ASSUME NEW S, NEW s \in Seq(S), NEW t \in Seq(S), Len(s) = 1, Len(t) = 1, s[1] = t[1]
            PROVE  s = t
        BY <4>1
      <4> QED
        BY <2>7, <2>8, <2>9, <4>1
    <3>1. x < y \/ y < x
      BY <2>3, <3>0
    <3>2. e * x + e <= e * y \/ e * y + e <= e * x
      BY <2>3, <3>1, ElementsApart
    <3> DEFINE ex == e * x
               ey == e * y
    <3>3. ex \in Int /\ ey \in Int
      BY <2>3
    <3>4. Range(Bytes(b, l, i)) = (base + ex)..(base + ex + i.size - 1)
          /\ Range(Bytes(b, l, j)) = (base + ey)..(base + ey + j.size - 1)
      BY <1>1, <2>5
    <3>5. ex + e <= ey \/ ey + e <= ex
      BY <3>2
    <3> HIDE DEF ex, ey
    <3>6. base \in Int
      BY <1>1 DEF base
    <3>7. ASSUME NEW n, n \in (base + ex)..(base + ex + i.size - 1),
                 n \in (base + ey)..(base + ey + j.size - 1)
          PROVE  FALSE
      <4> DEFINE u == i.size
                 v == j.size
      <4>1. u \in Nat /\ v \in Nat /\ u <= e /\ v <= e /\ e \in Nat
        BY <1>1, <2>3, <2>4
      <4>2. n \in Int /\ n < base + ex + u /\ n < base + ey + v /\ base + ex <= n /\ base + ey <= n
        BY <3>3, <3>6, <3>7, <4>1
      <4> HIDE DEF u, v
      <4> QED
        BY <3>3, <3>5, <3>6, <4>1, <4>2
    <3> QED
      BY <3>4, <3>7
  <2> QED
    BY <2>5, <2>6, <2>7
<1> QED
  BY <1>4, <1>5

\* Two pointers into different objects that the oracle keeps apart share no byte.
LEMMA OtherRootSound ==
  ASSUME NEW b, NEW l, LayoutFormed(b, l),
         NEW i \in Accesses(b), NEW j \in Accesses(b),
         Made(b, Root(b, i.ptr)).kind = "unknown" \/ Root(b, i.ptr) # Root(b, j.ptr)
  PROVE  /\ OtherRoot(b, Root(b, i.ptr), Root(b, j.ptr)) # "MustAlias"
         /\ OtherRoot(b, Root(b, i.ptr), Root(b, j.ptr)) = "NoAlias" =>
              Range(Bytes(b, l, i)) \cap Range(Bytes(b, l, j)) = {}
<1> DEFINE r == Root(b, i.ptr)
           q == Root(b, j.ptr)
           kr == Made(b, r).kind
           kq == Made(b, q).kind
           known == {"alloca", "arg", "noalias", "global"}
<1>1. OtherRoot(b, r, q) # "MustAlias"
  BY DEF OtherRoot
<1>2. ASSUME OtherRoot(b, r, q) = "NoAlias"
      PROVE  \/ "alloca" \in {kr, kq} /\ {kr, kq} \subseteq known
             \/ kr = "alloca" /\ ~Escapes(b, r)
             \/ kq = "alloca" /\ ~Escapes(b, q)
             \/ {kr, kq} = {"noalias"}
  <2> HIDE DEF r, q
  <2>1. \/ "alloca" \in {kr, kq} /\ {kr, kq} \subseteq known
        \/ Private(b, r) \/ Private(b, q) \/ {kr, kq} = {"noalias"}
    BY <1>2 DEF OtherRoot
  <2> HIDE DEF known
  <2>2. ASSUME NEW a, Private(b, a) PROVE Made(b, a).kind = "alloca" /\ ~Escapes(b, a)
    BY <2>2 DEF Private
  <2> DEFINE ks == {kr, kq}
  <2> HIDE DEF ks
  <2> QED
    BY <2>1, <2>2 DEF ks
<1> HIDE DEF r, q
<1>3. r = q => kr = "unknown" /\ kq = "unknown"
  BY DEF r, q
<1>4. ASSUME OtherRoot(b, r, q) = "NoAlias"
      PROVE  Separate(b, r, q) \/ Separate(b, q, r)
  <2>1. r # q
    BY <1>2, <1>3, <1>4
  <2> QED
    BY <1>2, <1>4, <2>1 DEF Separate
<1>5. /\ Separate(b, r, q) => Range(Bytes(b, l, i)) \cap Range(Bytes(b, l, j)) = {}
      /\ Separate(b, q, r) => Range(Bytes(b, l, j)) \cap Range(Bytes(b, l, i)) = {}
  BY DEF LayoutFormed, r, q
<1> QED
  BY <1>1, <1>4, <1>5 DEF r, q

\* The alias oracle (AliasOracle::alias in src/Search/MemOpt.cpp), on the
\* accesses of a block that fit: what it says must be the same begins at one
\* address, and what it says is not the same shares no byte, wherever the objects
\* are and whatever the indices.
THEOREM AliasOracleSound ==
  ASSUME NEW b, BlockFormed(b), AccessesFit(b), NEW l, LayoutFormed(b, l),
         NEW i \in Accesses(b), NEW j \in Accesses(b)
  PROVE  /\ alias(b, i.ptr, j.ptr) = "MustAlias" => Address(b, l, i.ptr) = Address(b, l, j.ptr)
         /\ alias(b, i.ptr, j.ptr) = "NoAlias" =>
              Range(Bytes(b, l, i)) \cap Range(Bytes(b, l, j)) = {}
<1> DEFINE r == Root(b, i.ptr)
           q == Root(b, j.ptr)
           comparable == /\ const_gep(b, i.ptr) /\ const_gep(b, j.ptr)
                         /\ gep_source_type(b, i.ptr) = gep_source_type(b, j.ptr)
           same == Made(b, r).kind # "unknown" /\ r = q
<1>1. alias(b, i.ptr, j.ptr) = IF same THEN SameRoot(comparable, indices(b, i.ptr), indices(b, j.ptr))
                               ELSE OtherRoot(b, r, q)
  BY DEF alias, AliasOf
<1>2. ASSUME NEW x, NEW y
      PROVE  /\ SameRoot(comparable, x, y) = "MustAlias" => comparable /\ x = y
             /\ SameRoot(comparable, x, y) = "NoAlias" =>
                  comparable /\ x # y /\ Len(x) = 1 /\ Len(y) = 1
  <2> HIDE DEF comparable
  <2> QED
    BY DEF SameRoot
<1>3. CASE same
  <2> DEFINE x == indices(b, i.ptr)
             y == indices(b, j.ptr)
  <2>1. alias(b, i.ptr, j.ptr) = SameRoot(comparable, x, y)
    BY <1>1, <1>3
  <2>2. /\ SameRoot(comparable, x, y) = "MustAlias" => comparable /\ x = y
        /\ SameRoot(comparable, x, y) = "NoAlias" =>
             comparable /\ x # y /\ Len(x) = 1 /\ Len(y) = 1
    BY <1>2
  <2>3. r = q
    BY <1>3
  <2> QED
    BY <2>1, <2>2, <2>3, SameRootSound
<1>4. CASE ~same
  BY <1>1, <1>4, OtherRootSound
<1> QED
  BY <1>3, <1>4

-----------------------------------------------------------------------------
(* What one instruction does to a run.                                      *)

\* A state of a run is made of what is bound, memory, and what calls saw.
IsState(s) == s = [env |-> s.env, mem |-> s.mem, seen |-> s.seen]

\* One instruction: what it binds, what memory holds after it, what was seen.
LEMMA RunLoad ==
  ASSUME NEW b, NEW l, NEW s, IsState(s), NEW i, i.op = "load"
  PROVE  /\ IsState(RunOne(b, l, s, i)) /\ RunOne(b, l, s, i).seen = s.seen
         /\ RunOne(b, l, s, i).env =
              Bind(s.env, i.name, [n \in DOMAIN Bytes(b, l, i) |-> InMemory(b, l, s, Bytes(b, l, i)[n])])
         /\ \A a : InMemory(b, l, RunOne(b, l, s, i), a) = InMemory(b, l, s, a)
<1> DEFINE e == Bind(s.env, i.name, [n \in DOMAIN Bytes(b, l, i) |-> InMemory(b, l, s, Bytes(b, l, i)[n])])
           u == RunOne(b, l, s, i)
<1>1. u = [s EXCEPT !.env = e]
  BY DEF RunOne
<1> HIDE DEF e, u
<1>2. u = [env |-> e, mem |-> s.mem, seen |-> s.seen]
  BY <1>1 DEF IsState
<1>3. u.env = e /\ u.mem = s.mem /\ u.seen = s.seen
  BY <1>2
<1>4. \A a : InMemory(b, l, u, a) = InMemory(b, l, s, a)
  BY <1>3 DEF InMemory
<1> QED
  BY <1>2, <1>3, <1>4 DEF IsState, e, u

\* A load changes neither memory nor what was seen.
LEMMA LoadLeaves ==
  ASSUME NEW b, NEW l, NEW s, IsState(s), NEW i, i.op = "load"
  PROVE  /\ RunOne(b, l, s, i).seen = s.seen
         /\ \A a : InMemory(b, l, RunOne(b, l, s, i), a) = InMemory(b, l, s, a)
<1> DEFINE u == RunOne(b, l, s, i)
           z == [n \in DOMAIN Bytes(b, l, i) |-> InMemory(b, l, s, Bytes(b, l, i)[n])]
<1>1. IsState(u) /\ u.seen = s.seen /\ u.env = Bind(s.env, i.name, z)
      /\ \A a : InMemory(b, l, u, a) = InMemory(b, l, s, a)
  BY RunLoad
<1> HIDE DEF u
<1> QED
  BY <1>1 DEF u

\* A store: the bytes it writes are those of its value, the others stay.
LEMMA RunStore ==
  ASSUME NEW b, NEW l, NEW s, IsState(s), NEW i, i.op = "store"
  PROVE  /\ IsState(RunOne(b, l, s, i)) /\ RunOne(b, l, s, i).seen = s.seen
         /\ RunOne(b, l, s, i).env = s.env
         /\ \A a : InMemory(b, l, RunOne(b, l, s, i), a) =
                     IF a \in Range(Bytes(b, l, i)) THEN ByteOf(s.env, i.val, a - Bytes(b, l, i)[1] + 1)
                     ELSE InMemory(b, l, s, a)
<1> DEFINE at == Bytes(b, l, i)
           m == [a \in DOMAIN s.mem \cup Range(at) |->
                   IF a \in Range(at) THEN ByteOf(s.env, i.val, a - at[1] + 1) ELSE s.mem[a]]
           u == RunOne(b, l, s, i)
<1>1. u = [s EXCEPT !.mem = m]
  BY DEF RunOne
<1> HIDE DEF u
<1>2. u = [env |-> s.env, mem |-> m, seen |-> s.seen]
  <2> HIDE DEF m
  <2> QED
    BY <1>1 DEF IsState
<1>3. u.env = s.env /\ u.mem = m /\ u.seen = s.seen
  <2> HIDE DEF m
  <2> QED
    BY <1>2
<1>4. ASSUME NEW a
      PROVE  InMemory(b, l, u, a) = IF a \in Range(at) THEN ByteOf(s.env, i.val, a - at[1] + 1)
                                    ELSE InMemory(b, l, s, a)
  <2> HIDE DEF at
  <2>1. DOMAIN m = DOMAIN s.mem \cup Range(at)
    OBVIOUS
  <2>2. CASE a \in Range(at)
    <3>1. m[a] = ByteOf(s.env, i.val, a - at[1] + 1)
      BY <2>2
    <3> QED
      BY <1>3, <2>1, <2>2, <3>1 DEF InMemory
  <2>3. CASE a \notin Range(at)
    <3>1. a \in DOMAIN s.mem => m[a] = s.mem[a]
      BY <2>3
    <3> HIDE DEF m
    <3> QED
      BY <1>3, <2>1, <2>3, <3>1 DEF InMemory
  <2> QED
    BY <2>2, <2>3
<1> HIDE DEF m
<1> QED
  BY <1>2, <1>3, <1>4 DEF IsState, u

\* A call sees what it is shown, and leaves private memory alone.
LEMMA RunCall ==
  ASSUME NEW b, NEW l, NEW s, IsState(s), NEW i, i.op = "call"
  PROVE  /\ IsState(RunOne(b, l, s, i))
         /\ RunOne(b, l, s, i).seen = Append(s.seen, Seen(b, l, s, i))
         /\ RunOne(b, l, s, i).env = s.env
         /\ \A a : InMemory(b, l, RunOne(b, l, s, i), a) =
                     IF a \in PrivateBytes(b, l) THEN InMemory(b, l, s, a)
                     ELSE <<Len(RunOne(b, l, s, i).seen), a>>
<1> DEFINE P == PrivateBytes(b, l)
           m == [a \in DOMAIN s.mem \cap P |-> s.mem[a]]
           z == Append(s.seen, Seen(b, l, s, i))
           u == RunOne(b, l, s, i)
<1>1. u = [s EXCEPT !.seen = z, !.mem = m]
  BY DEF RunOne
<1> HIDE DEF P, z, u
<1>2. u = [env |-> s.env, mem |-> m, seen |-> z]
  <2> HIDE DEF m
  <2> QED
    BY <1>1 DEF IsState
<1>3. u.env = s.env /\ u.mem = m /\ u.seen = z
  <2> HIDE DEF m
  <2> QED
    BY <1>2
<1>4. ASSUME NEW a
      PROVE  InMemory(b, l, u, a) = IF a \in P THEN InMemory(b, l, s, a) ELSE <<Len(u.seen), a>>
  <2>1. DOMAIN m = DOMAIN s.mem \cap P /\ (a \in DOMAIN m => m[a] = s.mem[a])
    OBVIOUS
  <2> HIDE DEF m
  <2>2. InMemory(b, l, u, a) = IF a \in DOMAIN m THEN m[a] ELSE <<IF a \in P THEN 0 ELSE Len(u.seen), a>>
    BY <1>3 DEF InMemory, P
  <2>3. InMemory(b, l, s, a) = IF a \in DOMAIN s.mem THEN s.mem[a] ELSE <<IF a \in P THEN 0 ELSE Len(s.seen), a>>
    BY DEF InMemory, P
  <2> QED
    BY <2>1, <2>2, <2>3
<1> HIDE DEF m
<1> QED
  BY <1>2, <1>3, <1>4 DEF IsState, P, z, u

\* Two runs that hold the same show a call the same.
LEMMA SeenSame ==
  ASSUME NEW b, NEW l, NEW s, NEW t, t.seen = s.seen, NEW i, NEW j,
         DOMAIN j.uses = DOMAIN i.uses, j.size = i.size,
         \A a : InMemory(b, l, t, a) = InMemory(b, l, s, a),
         \A m \in DOMAIN i.uses : \A n \in 1..i.size :
           ByteOf(t.env, j.uses[m], n) = ByteOf(s.env, i.uses[m], n)
  PROVE  Seen(b, l, t, j) = Seen(b, l, s, i)
<1> DEFINE P == PrivateBytes(b, l)
           There(x) == {a \in DOMAIN x.mem \ P : x.mem[a] # <<Len(x.seen), a>>}
<1> HIDE DEF P
<1>1. ASSUME NEW x, NEW a \in There(x)
      PROVE  /\ InMemory(b, l, x, a) = x.mem[a] /\ a \notin P /\ InMemory(b, l, x, a) # <<Len(x.seen), a>>
  BY DEF InMemory
<1>2. ASSUME NEW x, NEW a, a \notin P, InMemory(b, l, x, a) # <<Len(x.seen), a>>
      PROVE  a \in There(x)
  <2>1. a \in DOMAIN x.mem
    BY <1>2 DEF InMemory, P
  <2>2. InMemory(b, l, x, a) = x.mem[a]
    BY <2>1 DEF InMemory
  <2> QED
    BY <1>2, <2>1, <2>2
<1>3. There(t) = There(s)
  <2> HIDE DEF There
  <2>1. ASSUME NEW a PROVE a \in There(t) <=> a \in There(s)
    <3>1. a \in There(t) => a \notin P /\ InMemory(b, l, t, a) # <<Len(t.seen), a>>
      BY <1>1
    <3>2. a \in There(s) => a \notin P /\ InMemory(b, l, s, a) # <<Len(s.seen), a>>
      BY <1>1
    <3>3. InMemory(b, l, t, a) = InMemory(b, l, s, a) /\ Len(t.seen) = Len(s.seen)
      OBVIOUS
    <3>4. a \in There(t) => a \in There(s)
      BY <3>1, <3>3, <1>2
    <3>5. a \in There(s) => a \in There(t)
      BY <3>2, <3>3, <1>2
    <3> QED
      BY <3>4, <3>5
  <2> QED
    BY <2>1
<1>4. \A a \in There(s) : t.mem[a] = s.mem[a]
  <2> HIDE DEF There
  <2>1. \A a \in There(s) : InMemory(b, l, s, a) = s.mem[a]
    BY <1>1
  <2>2. \A a \in There(t) : InMemory(b, l, t, a) = t.mem[a]
    BY <1>1
  <2> QED
    BY <1>3, <2>1, <2>2
<1>5. [a \in There(t) |-> t.mem[a]] = [a \in There(s) |-> s.mem[a]]
  <2> HIDE DEF There
  <2> QED
    BY <1>3, <1>4
<1>6. [m \in DOMAIN j.uses |-> [n \in 1..j.size |-> ByteOf(t.env, j.uses[m], n)]]
        = [m \in DOMAIN i.uses |-> [n \in 1..i.size |-> ByteOf(s.env, i.uses[m], n)]]
  <2>1. ASSUME NEW m \in DOMAIN i.uses
        PROVE  [n \in 1..j.size |-> ByteOf(t.env, j.uses[m], n)] = [n \in 1..i.size |-> ByteOf(s.env, i.uses[m], n)]
    OBVIOUS
  <2> QED
    BY <2>1
<1>7. ASSUME NEW x, NEW k
      PROVE  Seen(b, l, x, k) =
               [uses |-> [m \in DOMAIN k.uses |-> [n \in 1..k.size |-> ByteOf(x.env, k.uses[m], n)]],
                mem  |-> [a \in There(x) |-> x.mem[a]]]
  BY DEF Seen, P
<1> HIDE DEF There
<1>8. Seen(b, l, s, i) =
        [uses |-> [m \in DOMAIN i.uses |-> [n \in 1..i.size |-> ByteOf(s.env, i.uses[m], n)]],
         mem  |-> [a \in There(s) |-> s.mem[a]]]
  BY <1>7
<1>9. Seen(b, l, t, j) =
        [uses |-> [m \in DOMAIN j.uses |-> [n \in 1..j.size |-> ByteOf(t.env, j.uses[m], n)]],
         mem  |-> [a \in There(t) |-> t.mem[a]]]
  BY <1>7
<1> QED
  BY <1>5, <1>6, <1>8, <1>9

-----------------------------------------------------------------------------
(* What the optimiser knows after n instructions, and what is left out.     *)

\* The instruction i, and the block, with the replacements that sub holds.
Standing(sub, v) == IF v \in DOMAIN sub THEN sub[v] ELSE v
\* The instruction with its values replaced,
Written(sub, i) ==
  CASE i.op = "store" -> [i EXCEPT !.val = Standing(sub, i.val)]
    [] i.op = "call"  -> [i EXCEPT !.uses = [n \in DOMAIN i.uses |-> Standing(sub, i.uses[n])]]
    [] OTHER -> i
\* and the whole block.
Rewritten(b, sub) == [n \in DOMAIN b.code |-> Written(sub, b.code[n])]

\* The names read so far, and the values that are not read later.
ReadBy(b, n)  == {b.code[m].name : m \in {k \in 1..n : b.code[k].op = "load"}}
Old(b, n, v)  == \A m \in (n + 1)..Len(b.code) : b.code[m].op = "load" => b.code[m].name # v

\* An available value comes from an access, and is what memory holds.
EntryOf(c, q, r) ==
  /\ c[q].op \in {"load", "store"}
  /\ r = [ptr |-> c[q].ptr, value |-> r.value, size |-> c[q].size, at |-> r.at,
          maybe_read |-> r.maybe_read]
  /\ \/ c[q].op = "store" /\ r.at = q /\ r.value = c[q].val
     \/ c[q].op = "load" /\ r.at = 0 /\ r.value = c[q].name
\* Every available value comes from one of the first n instructions.
Entries(b, n, av) == \A k \in DOMAIN av : \E q \in 1..n : EntryOf(b.code, q, av[k])
\* Memory holds the value r, byte by byte.
HoldsAt(b, l, s, r) ==
  \A m \in 1..r.size : InMemory(b, l, s, Address(b, l, r.ptr) + m - 1) = ByteOf(s.env, r.value, m)
\* Memory holds every available value.
Available(b, l, s, av) == \A k \in DOMAIN av : HoldsAt(b, l, s, av[k])

\* A load that is deleted has a replacement that has its value.
Deleted(b, del) == {m \in del : b.code[m].op = "load"}
\* There is a replacement for each deleted load, which is not read again,
Replacements(b, n, del, sub) ==
  /\ DOMAIN sub = {b.code[m].name : m \in Deleted(b, del)}
  /\ \A x \in DOMAIN sub : Old(b, n, sub[x])
\* and whose value the load has read.
Forwarded(b, s, del, sub) ==
  \A m \in Deleted(b, del) : \A k \in 1..b.code[m].size :
    s.env[b.code[m].name][k] = ByteOf(s.env, sub[b.code[m].name], k)

\* The stores that may yet be found dead.
Pending(av) == {av[k].at : k \in {j \in DOMAIN av : av[j].at # 0 /\ ~av[j].maybe_read}}

\* What stays uses nothing that is gone.
Clean(b, n, D, sub) == \A m \in (1..n) \ D : Used(Written(sub, b.code[m])) \cap DOMAIN sub = {}

\* The run t without the deleted loads and the stores E has seen what s has,
\* and differs from it only where those stores wrote.
Covered(b, l, E) == UNION {Range(Bytes(b, l, b.code[e])) : e \in E}
\* t, which leaves out the stores E, has what s has, but for what they wrote.
Match(b, l, s, t, E, sub) ==
  /\ IsState(t) /\ t.seen = s.seen
  /\ \A a : a \notin Covered(b, l, E) => InMemory(b, l, t, a) = InMemory(b, l, s, a)
  /\ DOMAIN t.env = DOMAIN s.env \ DOMAIN sub
  /\ \A x \in DOMAIN t.env : t.env[x] = s.env[x]

\* An instruction of the block.
LEMMA AtPosition ==
  ASSUME NEW b, BlockFormed(b), NEW m \in 1..Len(b.code)
  PROVE  /\ Len(b.code) \in Nat /\ DOMAIN b.code = 1..Len(b.code)
         /\ b.code[m] \in Range(b.code) /\ b.code[m].size \in Nat \ {0}
         /\ b.code[m].op \in {"load", "store", "call"}
         /\ b.code[m].op \in {"load", "store"} => b.code[m] \in Accesses(b)
<1>1. b.code \in Seq(Range(b.code))
  BY DEF BlockFormed
<1>2. Len(b.code) \in Nat /\ DOMAIN b.code = 1..Len(b.code)
  BY <1>1
<1>3. b.code[m] \in Range(b.code)
  BY <1>2 DEF Range
<1> QED
  BY <1>2, <1>3 DEF BlockFormed, Accesses

\* The name of a load is not read, and not used, before it.
LEMMA Fresh ==
  ASSUME NEW b, BlockFormed(b), NEW n \in Nat, n + 1 \in 1..Len(b.code), b.code[n + 1].op = "load"
  PROVE  /\ b.code[n + 1].name \notin ReadBy(b, n)
         /\ \A m \in 1..(n + 1) : b.code[n + 1].name \notin Used(b.code[m])
         /\ ReadBy(b, n + 1) = ReadBy(b, n) \cup {b.code[n + 1].name}
<1>1. DOMAIN b.code = 1..Len(b.code) /\ Len(b.code) \in Nat
  BY AtPosition
<1>2. ASSUME NEW m \in 1..(n + 1) PROVE b.code[n + 1].name \notin Used(b.code[m])
  <2>1. m \in DOMAIN b.code /\ ~(n + 1 < m)
    BY <1>1
  <2> QED
    BY <1>1, <2>1 DEF BlockFormed
<1>3. ASSUME NEW m \in 1..n, b.code[m].op = "load" PROVE b.code[m].name # b.code[n + 1].name
  <2>1. m \in DOMAIN b.code /\ n + 1 \in DOMAIN b.code /\ m # n + 1
    BY <1>1
  <2> QED
    BY <1>3, <2>1 DEF BlockFormed
<1>4. b.code[n + 1].name \notin ReadBy(b, n)
  BY <1>3 DEF ReadBy
<1>5. 1..(n + 1) = (1..n) \cup {n + 1}
  OBVIOUS
<1>6. ReadBy(b, n + 1) = ReadBy(b, n) \cup {b.code[n + 1].name}
  BY <1>5 DEF ReadBy
<1> QED
  BY <1>2, <1>4, <1>6

\* Only a load reads a name.
LEMMA NotRead ==
  ASSUME NEW b, NEW n \in Nat, b.code[n + 1].op # "load"
  PROVE  ReadBy(b, n + 1) = ReadBy(b, n)
<1>1. 1..(n + 1) = (1..n) \cup {n + 1}
  OBVIOUS
<1> QED
  BY <1>1 DEF ReadBy

\* Where an available value comes from, and that it is not read again.
LEMMA Entry ==
  ASSUME NEW b, BlockFormed(b), NEW n \in 0..Len(b.code), NEW q \in 1..n, NEW r, EntryOf(b.code, q, r)
  PROVE  /\ b.code[q] \in Accesses(b) /\ r.ptr = b.code[q].ptr /\ r.size = b.code[q].size
         /\ r.at # 0 => r.at = q /\ b.code[q].op = "store"
         /\ Old(b, n, r.value)
<1>0. Len(b.code) \in Nat
  <2>1. b.code \in Seq(Range(b.code))
    BY DEF BlockFormed
  <2> QED
    BY <2>1
<1>1. q \in 1..Len(b.code) /\ DOMAIN b.code = 1..Len(b.code)
  BY <1>0, AtPosition
<1>2. b.code[q] \in Accesses(b)
  BY <1>1, AtPosition DEF EntryOf
<1>3. r.ptr = b.code[q].ptr /\ r.size = b.code[q].size
  BY DEF EntryOf
<1>4. r.at # 0 => r.at = q /\ b.code[q].op = "store"
  BY DEF EntryOf
<1>5. ASSUME NEW m \in (n + 1)..Len(b.code), b.code[m].op = "load" PROVE b.code[m].name # r.value
  <2>1. m \in DOMAIN b.code /\ q \in DOMAIN b.code /\ q # m /\ ~(m < q)
    BY <1>0, <1>1
  <2>2. b.code[q].op = "load" => b.code[q].name # b.code[m].name
    BY <1>5, <2>1 DEF BlockFormed
  <2>3. b.code[q].op = "store" => b.code[q].val # b.code[m].name
    <3>1. b.code[m].name \notin Used(b.code[q])
      BY <1>5, <2>1 DEF BlockFormed
    <3>2. b.code[q].op = "store" => Used(b.code[q]) = {b.code[q].val}
      BY DEF Used
    <3> QED
      BY <3>1, <3>2
  <2> QED
    BY <2>2, <2>3 DEF EntryOf
<1> QED
  BY <1>2, <1>3, <1>4, <1>5 DEF Old

\* The available values that a load and a store make.
ReadEntry(i) == [ptr |-> i.ptr, value |-> i.name, size |-> i.size, at |-> 0, maybe_read |-> FALSE]
\* The one that the store makes, which is the nth instruction.
StoredEntry(i, n) == [ptr |-> i.ptr, value |-> i.val, size |-> i.size, at |-> n, maybe_read |-> FALSE]

\* What the state of the unchanged block's run is after n instructions.
Arrived(b, l, n, av, del, sub, s) ==
  /\ IsState(s) /\ DOMAIN s.env = ReadBy(b, n)
  /\ Available(b, l, s, av) /\ Forwarded(b, s, del, sub)

\* A value that is not the one read next is what it was.
LEMMA LoadBinds ==
  ASSUME NEW b, BlockFormed(b), NEW l, LayoutFormed(b, l), NEW s, IsState(s),
         NEW i \in Accesses(b), i.op = "load"
  PROVE  LET u == RunOne(b, l, s, i)
         IN  /\ DOMAIN u.env = DOMAIN s.env \cup {i.name}
             /\ \A m \in 1..i.size : u.env[i.name][m] = InMemory(b, l, s, Address(b, l, i.ptr) + m - 1)
             /\ \A y \in DOMAIN s.env : y # i.name => u.env[y] = s.env[y]
             /\ \A y, m : y # i.name => ByteOf(u.env, y, m) = ByteOf(s.env, y, m)
             /\ \A m : ByteOf(u.env, i.name, m) = u.env[i.name][m]
<1> DEFINE u == RunOne(b, l, s, i)
           at == Bytes(b, l, i)
           z == [n \in DOMAIN at |-> InMemory(b, l, s, at[n])]
<1>1. u.env = Bind(s.env, i.name, z)
  BY RunLoad
<1>2. i.size \in Nat \ {0} /\ at = [n \in 1..i.size |-> Address(b, l, i.ptr) + n - 1]
  BY BytesIs
<1> HIDE DEF u, at
<1>3. \A m \in 1..i.size : z[m] = InMemory(b, l, s, Address(b, l, i.ptr) + m - 1)
  BY <1>2
<1> HIDE DEF z
<1>4. /\ DOMAIN u.env = DOMAIN s.env \cup {i.name} /\ u.env[i.name] = z
      /\ \A y \in DOMAIN s.env : y # i.name => u.env[y] = s.env[y]
  BY <1>1 DEF Bind
<1>5. ASSUME NEW y, NEW m, y # i.name PROVE ByteOf(u.env, y, m) = ByteOf(s.env, y, m)
  BY <1>4, <1>5 DEF ByteOf
<1>6. \A m : ByteOf(u.env, i.name, m) = u.env[i.name][m]
  BY <1>4 DEF ByteOf
<1> QED
  BY <1>3, <1>4, <1>5, <1>6 DEF u

\* After a load the available values, and the one that was read, are in memory.
LEMMA LoadReaches ==
  ASSUME NEW b, BlockFormed(b), NEW l, LayoutFormed(b, l),
         NEW n \in Nat, n + 1 \in 1..Len(b.code), b.code[n + 1].op = "load",
         NEW av, NEW del \in SUBSET (1..n), NEW sub, Entries(b, n, av), Replacements(b, n, del, sub),
         NEW s, Arrived(b, l, n, av, del, sub, s)
  PROVE  LET i == b.code[n + 1]
             u == RunOne(b, l, s, i)
         IN  /\ IsState(u) /\ DOMAIN u.env = ReadBy(b, n + 1)
             /\ Available(b, l, u, av) /\ Forwarded(b, u, del, sub)
             /\ HoldsAt(b, l, u, ReadEntry(i))
<1> DEFINE i == b.code[n + 1]
           u == RunOne(b, l, s, i)
<1>1. /\ i \in Accesses(b) /\ IsState(s) /\ DOMAIN s.env = ReadBy(b, n)
      /\ Available(b, l, s, av) /\ Forwarded(b, s, del, sub)
  BY AtPosition DEF Arrived
<1>2. n \in 0..Len(b.code) /\ Len(b.code) \in Nat
  BY AtPosition
<1>3. /\ i.name \notin ReadBy(b, n) /\ ReadBy(b, n + 1) = ReadBy(b, n) \cup {i.name}
  BY Fresh
<1>4. /\ IsState(u) /\ \A a : InMemory(b, l, u, a) = InMemory(b, l, s, a)
  BY <1>1, RunLoad
<1>5. /\ DOMAIN u.env = DOMAIN s.env \cup {i.name}
      /\ \A m \in 1..i.size : u.env[i.name][m] = InMemory(b, l, s, Address(b, l, i.ptr) + m - 1)
      /\ \A y \in DOMAIN s.env : y # i.name => u.env[y] = s.env[y]
      /\ \A y, m : y # i.name => ByteOf(u.env, y, m) = ByteOf(s.env, y, m)
      /\ \A m : ByteOf(u.env, i.name, m) = u.env[i.name][m]
  <2>1. i.op = "load"
    OBVIOUS
  <2> HIDE DEF i
  <2> QED
    BY <1>1, <2>1, LoadBinds
<1>6. ASSUME NEW v, Old(b, n, v) PROVE v # i.name
  <2>1. n + 1 \in (n + 1)..Len(b.code)
    BY <1>2
  <2> QED
    BY <1>6, <2>1 DEF Old
<1> HIDE DEF u, i
<1>7. ASSUME NEW k \in DOMAIN av PROVE HoldsAt(b, l, u, av[k])
  <2>1. PICK q \in 1..n : EntryOf(b.code, q, av[k])
    BY DEF Entries
  <2>2. av[k].value # i.name
    BY <1>2, <1>6, <2>1, Entry
  <2>3. HoldsAt(b, l, s, av[k])
    BY <1>1 DEF Available
  <2> QED
    BY <1>4, <1>5, <2>2, <2>3 DEF HoldsAt
<1>8. ASSUME NEW m \in Deleted(b, del), NEW k \in 1..b.code[m].size
      PROVE  u.env[b.code[m].name][k] = ByteOf(u.env, sub[b.code[m].name], k)
  <2> DEFINE y == b.code[m].name
  <2>1. y \in ReadBy(b, n)
    BY DEF Deleted, ReadBy
  <2>2. y \in DOMAIN sub
    BY DEF Replacements
  <2>3. sub[y] # i.name
    BY <1>6, <2>2 DEF Replacements
  <2>4. y # i.name /\ u.env[y] = s.env[y]
    BY <1>1, <1>3, <1>5, <2>1
  <2>5. s.env[y][k] = ByteOf(s.env, sub[y], k)
    BY <1>1 DEF Forwarded
  <2>6. ByteOf(u.env, sub[y], k) = ByteOf(s.env, sub[y], k)
    BY <1>5, <2>3
  <2> QED
    BY <2>4, <2>5, <2>6
<1>9. HoldsAt(b, l, u, ReadEntry(i))
  BY <1>4, <1>5 DEF HoldsAt, ReadEntry
<1> QED
  BY <1>1, <1>3, <1>4, <1>5, <1>7, <1>8, <1>9 DEF Available, Forwarded, i, u

\* After a store, what is still available is in memory, and what was stored.
LEMMA StoreReaches ==
  ASSUME NEW b, BlockFormed(b), NEW l, LayoutFormed(b, l),
         NEW n \in Nat, n + 1 \in 1..Len(b.code), b.code[n + 1].op = "store",
         NEW av, NEW del, NEW sub, NEW s, Arrived(b, l, n, av, del, sub, s)
  PROVE  LET i == b.code[n + 1]
             u == RunOne(b, l, s, i)
         IN  /\ IsState(u) /\ DOMAIN u.env = ReadBy(b, n + 1) /\ Forwarded(b, u, del, sub)
             /\ \A r : /\ HoldsAt(b, l, s, r)
                       /\ \A m \in 1..r.size : Address(b, l, r.ptr) + m - 1 \notin Range(Bytes(b, l, i))
                       => HoldsAt(b, l, u, r)
             /\ \A k : HoldsAt(b, l, u, StoredEntry(i, k))
<1> DEFINE i == b.code[n + 1]
           u == RunOne(b, l, s, i)
<1>1. /\ i \in Accesses(b) /\ IsState(s) /\ DOMAIN s.env = ReadBy(b, n) /\ Forwarded(b, s, del, sub)
  BY AtPosition DEF Arrived
<1>2. ReadBy(b, n + 1) = ReadBy(b, n)
  BY NotRead
<1>3. /\ IsState(u) /\ u.env = s.env
      /\ \A a : InMemory(b, l, u, a) =
                  IF a \in Range(Bytes(b, l, i)) THEN ByteOf(s.env, i.val, a - Bytes(b, l, i)[1] + 1)
                  ELSE InMemory(b, l, s, a)
  BY <1>1, RunStore
<1>4. /\ i.size \in Nat \ {0} /\ Address(b, l, i.ptr) \in Int
      /\ Bytes(b, l, i) = [m \in 1..i.size |-> Address(b, l, i.ptr) + m - 1]
      /\ Range(Bytes(b, l, i)) = Address(b, l, i.ptr)..(Address(b, l, i.ptr) + i.size - 1)
  <2> HIDE DEF i
  <2> QED
    BY <1>1, BytesIs
<1> HIDE DEF u, i
<1>5. ASSUME NEW r, HoldsAt(b, l, s, r),
             \A m \in 1..r.size : Address(b, l, r.ptr) + m - 1 \notin Range(Bytes(b, l, i))
      PROVE  HoldsAt(b, l, u, r)
  BY <1>3, <1>5 DEF HoldsAt
<1>6. ASSUME NEW m \in 1..i.size
      PROVE  InMemory(b, l, u, Address(b, l, i.ptr) + m - 1) = ByteOf(u.env, i.val, m)
  <2> DEFINE a == Address(b, l, i.ptr)
  <2>0. a \in Int /\ i.size \in Nat /\ m \in Int
    BY <1>4
  <2>1. Bytes(b, l, i)[1] = a
    BY <1>4
  <2>2. a + m - 1 \in Range(Bytes(b, l, i))
    BY <1>4
  <2> HIDE DEF a
  <2>3. (a + m - 1) - a + 1 = m
    BY <2>0
  <2> QED
    BY <1>3, <2>1, <2>2, <2>3 DEF a
<1>7. Forwarded(b, u, del, sub)
  BY <1>1, <1>3 DEF Forwarded
<1>8. \A k : HoldsAt(b, l, u, StoredEntry(i, k))
  BY <1>6 DEF HoldsAt, StoredEntry
<1> QED
  BY <1>1, <1>2, <1>3, <1>5, <1>7, <1>8 DEF i, u

\* A value that stays is in the shortened run what it is in the whole one.
UsesSame(b, n, sub, s, t) ==
  \A v \in Used(b.code[n + 1]) : \A m \in 1..b.code[n + 1].size :
    Standing(sub, v) \notin DOMAIN sub => ByteOf(t.env, Standing(sub, v), m) = ByteOf(s.env, v, m)
LEMMA SameUses ==
  ASSUME NEW b, BlockFormed(b), NEW l, NEW n \in Nat, n + 1 \in 1..Len(b.code),
         NEW av, NEW del \in SUBSET (1..n), NEW sub, Replacements(b, n, del, sub),
         NEW s, Arrived(b, l, n, av, del, sub, s), NEW t, NEW E, Match(b, l, s, t, E, sub)
  PROVE  UsesSame(b, n, sub, s, t)
<1> SUFFICES ASSUME NEW v \in Used(b.code[n + 1]), Standing(sub, v) \notin DOMAIN sub,
                    NEW m \in 1..b.code[n + 1].size
             PROVE  ByteOf(t.env, Standing(sub, v), m) = ByteOf(s.env, v, m)
  BY DEF UsesSame
<1>1. ASSUME NEW w, w \notin DOMAIN sub PROVE ByteOf(t.env, w, m) = ByteOf(s.env, w, m)
  BY <1>1 DEF Match, ByteOf
<1>2. CASE v \notin DOMAIN sub
  BY <1>1, <1>2 DEF Standing
<1>3. CASE v \in DOMAIN sub
  <2>1. PICK d \in Deleted(b, del) : v = b.code[d].name
    BY <1>3 DEF Replacements
  <2>2. d \in 1..n /\ b.code[d].op = "load"
    BY <2>1 DEF Deleted
  <2>3. d \in DOMAIN b.code /\ n + 1 \in DOMAIN b.code /\ Len(b.code) \in Nat
    BY <2>2, AtPosition
  <2>4. b.code[n + 1].size <= b.code[d].size
    BY <2>1, <2>2, <2>3 DEF BlockFormed
  <2>5. b.code[n + 1].size \in Nat /\ b.code[d].size \in Nat
    BY <2>3, AtPosition
  <2>6. m \in 1..b.code[d].size
    BY <2>4, <2>5
  <2>7. s.env[v][m] = ByteOf(s.env, sub[v], m)
    BY <2>1, <2>6 DEF Arrived, Forwarded
  <2>8. v \in DOMAIN s.env
    BY <2>1, <2>2 DEF Arrived, ReadBy
  <2>9. ByteOf(s.env, v, m) = s.env[v][m]
    BY <2>8 DEF ByteOf
  <2>10. Standing(sub, v) = sub[v]
    BY <1>3 DEF Standing
  <2> QED
    BY <1>1, <2>7, <2>9, <2>10
<1> QED
  BY <1>2, <1>3

-----------------------------------------------------------------------------
(* One instruction in the whole run and in the one that leaves some out.    *)

\* Both runs read the same bytes, where no store that is left out wrote.
LEMMA MatchLoad ==
  ASSUME NEW b, BlockFormed(b), NEW l, LayoutFormed(b, l),
         NEW n \in Nat, n + 1 \in 1..Len(b.code), b.code[n + 1].op = "load",
         NEW av, NEW del \in SUBSET (1..n), NEW sub, Replacements(b, n, del, sub),
         NEW s, Arrived(b, l, n, av, del, sub, s), NEW t, NEW E, Match(b, l, s, t, E, sub),
         Range(Bytes(b, l, b.code[n + 1])) \cap Covered(b, l, E) = {}
  PROVE  Match(b, l, RunOne(b, l, s, b.code[n + 1]), RunOne(b, l, t, b.code[n + 1]), E, sub)
<1> DEFINE i == b.code[n + 1]
           at == Bytes(b, l, i)
           u == RunOne(b, l, s, i)
           w == RunOne(b, l, t, i)
           Z(x) == [k \in DOMAIN at |-> InMemory(b, l, x, at[k])]
<1>0. IsState(s) /\ IsState(t) /\ i.op = "load"
  BY DEF Arrived, Match
<1>1. /\ IsState(s) /\ IsState(t) /\ t.seen = s.seen /\ i.op = "load"
      /\ DOMAIN t.env = DOMAIN s.env \ DOMAIN sub /\ \A x \in DOMAIN t.env : t.env[x] = s.env[x]
      /\ \A a : a \notin Covered(b, l, E) => InMemory(b, l, t, a) = InMemory(b, l, s, a)
  BY DEF Arrived, Match
<1>2. i.name \notin DOMAIN sub
  <2>1. i.name \notin ReadBy(b, n)
    BY Fresh
  <2>2. DOMAIN sub \subseteq ReadBy(b, n)
    BY DEF Replacements, Deleted, ReadBy
  <2> QED
    BY <2>1, <2>2
<1> HIDE DEF i
<1>3. /\ IsState(u) /\ u.seen = s.seen /\ u.env = Bind(s.env, i.name, Z(s))
      /\ \A a : InMemory(b, l, u, a) = InMemory(b, l, s, a)
  BY <1>0, RunLoad
<1>4. /\ IsState(w) /\ w.seen = t.seen /\ w.env = Bind(t.env, i.name, Z(t))
      /\ \A a : InMemory(b, l, w, a) = InMemory(b, l, t, a)
  BY <1>0, RunLoad
<1>5. Z(t) = Z(s)
  <2> HIDE DEF at
  <2>1. ASSUME NEW k \in DOMAIN at PROVE InMemory(b, l, t, at[k]) = InMemory(b, l, s, at[k])
    <3>1. at[k] \in Range(at)
      BY DEF Range
    <3>2. at[k] \notin Covered(b, l, E)
      BY <3>1 DEF at, i
    <3> QED
      BY <1>1, <3>2
  <2> QED
    BY <2>1
<1> HIDE DEF Z, u, w, at
<1>6. ASSUME NEW z, w.env = Bind(t.env, i.name, z), u.env = Bind(s.env, i.name, z)
      PROVE  DOMAIN w.env = DOMAIN u.env \ DOMAIN sub /\ \A x \in DOMAIN w.env : w.env[x] = u.env[x]
  <2>1. DOMAIN w.env = DOMAIN t.env \cup {i.name} /\ DOMAIN u.env = DOMAIN s.env \cup {i.name}
    BY <1>6 DEF Bind
  <2>2. ASSUME NEW x \in DOMAIN w.env PROVE w.env[x] = u.env[x]
    <3>1. CASE x = i.name
      BY <1>6, <2>1, <3>1 DEF Bind
    <3>2. CASE x # i.name
      <4>1. x \in DOMAIN t.env /\ x \in DOMAIN s.env
        BY <1>1, <2>1, <3>2
      <4>2. w.env[x] = t.env[x] /\ u.env[x] = s.env[x]
        BY <1>6, <3>2, <4>1 DEF Bind
      <4> QED
        BY <1>1, <4>1, <4>2
    <3> QED
      BY <3>1, <3>2
  <2> QED
    BY <1>1, <1>2, <2>1, <2>2
<1>7. DOMAIN w.env = DOMAIN u.env \ DOMAIN sub /\ \A x \in DOMAIN w.env : w.env[x] = u.env[x]
  BY <1>3, <1>4, <1>5, <1>6
<1>8. Match(b, l, u, w, E, sub)
  BY <1>1, <1>3, <1>4, <1>7 DEF Match
<1> QED
  BY <1>8 DEF u, w, i

\* The load that is left out gives its name a value in the whole run only.
LEMMA MatchForwarded ==
  ASSUME NEW b, BlockFormed(b), NEW l, LayoutFormed(b, l),
         NEW n \in Nat, n + 1 \in 1..Len(b.code), b.code[n + 1].op = "load",
         NEW av, NEW del, NEW sub, NEW v,
         NEW s, Arrived(b, l, n, av, del, sub, s), NEW t, NEW E, Match(b, l, s, t, E, sub)
  PROVE  Match(b, l, RunOne(b, l, s, b.code[n + 1]), t, E, Bind(sub, b.code[n + 1].name, v))
<1> DEFINE i == b.code[n + 1]
           u == RunOne(b, l, s, i)
           sub2 == Bind(sub, i.name, v)
<1>0. IsState(s) /\ IsState(t) /\ i.op = "load"
  BY DEF Arrived, Match
<1>1. /\ IsState(s) /\ IsState(t) /\ t.seen = s.seen /\ i.op = "load"
      /\ DOMAIN t.env = DOMAIN s.env \ DOMAIN sub /\ \A x \in DOMAIN t.env : t.env[x] = s.env[x]
      /\ \A a : a \notin Covered(b, l, E) => InMemory(b, l, t, a) = InMemory(b, l, s, a)
  BY DEF Arrived, Match
<1>2. i.name \notin DOMAIN s.env /\ i \in Accesses(b)
  BY Fresh, AtPosition DEF Arrived
<1>3. DOMAIN sub2 = DOMAIN sub \cup {i.name}
  BY DEF Bind
<1> HIDE DEF i
<1>4. u.seen = s.seen /\ \A a : InMemory(b, l, u, a) = InMemory(b, l, s, a)
  BY <1>0, LoadLeaves
<1>5. /\ DOMAIN u.env = DOMAIN s.env \cup {i.name}
      /\ \A y \in DOMAIN s.env : y # i.name => u.env[y] = s.env[y]
  BY <1>1, <1>2, LoadBinds
<1> HIDE DEF u, sub2
<1>6. DOMAIN t.env = DOMAIN u.env \ DOMAIN sub2 /\ \A x \in DOMAIN t.env : t.env[x] = u.env[x]
  BY <1>1, <1>2, <1>3, <1>5
<1>7. Match(b, l, u, t, E, sub2)
  BY <1>1, <1>4, <1>6 DEF Match
<1> QED
  BY <1>7 DEF u, i, sub2

\* A store that stays writes the same in both runs.
LEMMA MatchStore ==
  ASSUME NEW b, BlockFormed(b), NEW l, LayoutFormed(b, l),
         NEW n \in Nat, n + 1 \in 1..Len(b.code), b.code[n + 1].op = "store",
         NEW av, NEW del \in SUBSET (1..n), NEW sub, Replacements(b, n, del, sub),
         NEW s, Arrived(b, l, n, av, del, sub, s), NEW t, NEW E, Match(b, l, s, t, E, sub),
         NEW F, Covered(b, l, E) \subseteq Covered(b, l, F) \cup Range(Bytes(b, l, b.code[n + 1])),
         Used(Written(sub, b.code[n + 1])) \cap DOMAIN sub = {}
  PROVE  Match(b, l, RunOne(b, l, s, b.code[n + 1]),
               RunOne(b, l, t, Written(sub, b.code[n + 1])), F, sub)
<1> DEFINE i == b.code[n + 1]
           j == Written(sub, i)
           at == Bytes(b, l, i)
           u == RunOne(b, l, s, i)
           w == RunOne(b, l, t, j)
<1>0. IsState(s) /\ IsState(t) /\ i.op = "store"
  BY DEF Arrived, Match
<1>1. /\ IsState(s) /\ IsState(t) /\ t.seen = s.seen /\ i.op = "store"
      /\ DOMAIN t.env = DOMAIN s.env \ DOMAIN sub /\ \A x \in DOMAIN t.env : t.env[x] = s.env[x]
      /\ \A a : a \notin Covered(b, l, E) => InMemory(b, l, t, a) = InMemory(b, l, s, a)
  BY DEF Arrived, Match
<1>2. i \in Accesses(b) /\ {"op", "val", "ptr", "size"} \subseteq DOMAIN i
  BY AtPosition DEF BlockFormed
<1>3. Used(i) = {i.val}
  BY <1>1 DEF Used
<1>4. ASSUME NEW v \in Used(i), NEW m \in 1..i.size, Standing(sub, v) \notin DOMAIN sub
      PROVE  ByteOf(t.env, Standing(sub, v), m) = ByteOf(s.env, v, m)
  <2>1. UsesSame(b, n, sub, s, t)
    BY SameUses
  <2> QED
    BY <1>4, <2>1 DEF UsesSame
<1> HIDE DEF i
<1>5. j.op = "store" /\ j.val = Standing(sub, i.val) /\ j.ptr = i.ptr /\ j.size = i.size
  <2>1. j = [i EXCEPT !.val = Standing(sub, i.val)]
    BY <1>1 DEF Written
  <2> HIDE DEF j
  <2> QED
    BY <1>1, <1>2, <2>1
<1>6. Standing(sub, i.val) \notin DOMAIN sub
  <2>1. Used(j) = {j.val}
    BY <1>5 DEF Used
  <2>2. Used(j) \cap DOMAIN sub = {}
    BY DEF i
  <2> HIDE DEF j
  <2> QED
    BY <1>5, <2>1, <2>2
<1> HIDE DEF j
<1>7. Bytes(b, l, j) = at
  BY <1>5 DEF Bytes
<1>8. /\ i.size \in Nat \ {0} /\ Address(b, l, i.ptr) \in Int
      /\ at[1] = Address(b, l, i.ptr)
      /\ Range(at) = Address(b, l, i.ptr)..(Address(b, l, i.ptr) + i.size - 1)
  <2>1. 1 \in 1..i.size
    BY <1>2, BytesIs
  <2> QED
    BY <1>2, <2>1, BytesIs
<1> HIDE DEF at
<1>9. /\ IsState(u) /\ u.env = s.env /\ u.seen = s.seen
      /\ \A a : InMemory(b, l, u, a) =
                  IF a \in Range(at) THEN ByteOf(s.env, i.val, a - at[1] + 1) ELSE InMemory(b, l, s, a)
  BY <1>0, RunStore DEF at
<1>10. /\ IsState(w) /\ w.env = t.env /\ w.seen = t.seen
       /\ \A a : InMemory(b, l, w, a) =
                   IF a \in Range(at) THEN ByteOf(t.env, j.val, a - at[1] + 1) ELSE InMemory(b, l, t, a)
  BY <1>0, <1>5, <1>7, RunStore
<1> HIDE DEF u, w
<1>11. ASSUME NEW a, a \notin Covered(b, l, F) PROVE InMemory(b, l, w, a) = InMemory(b, l, u, a)
  <2>1. CASE a \in Range(at)
    <3>1. a - at[1] + 1 \in 1..i.size
      BY <1>8, <2>1
    <3> QED
      BY <1>3, <1>4, <1>5, <1>6, <1>9, <1>10, <2>1, <3>1
  <2>2. CASE a \notin Range(at)
    <3>1. a \notin Covered(b, l, E)
      BY <1>11, <2>2 DEF at, i
    <3> QED
      BY <1>1, <1>9, <1>10, <2>2, <3>1
  <2> QED
    BY <2>1, <2>2
<1>12. Match(b, l, u, w, F, sub)
  BY <1>1, <1>9, <1>10, <1>11 DEF Match
<1> QED
  BY <1>12 DEF u, w, i, j

\* A store that is left out writes in the whole run only.
LEMMA MatchLeftOut ==
  ASSUME NEW b, NEW l, NEW i, i.op = "store", NEW sub,
         NEW s, IsState(s), NEW t, NEW E, Match(b, l, s, t, E, sub),
         NEW F, Covered(b, l, E) \cup Range(Bytes(b, l, i)) \subseteq Covered(b, l, F)
  PROVE  Match(b, l, RunOne(b, l, s, i), t, F, sub)
<1> DEFINE at == Bytes(b, l, i)
           u == RunOne(b, l, s, i)
<1>1. /\ u.env = s.env /\ u.seen = s.seen
      /\ \A a : InMemory(b, l, u, a) =
                  IF a \in Range(at) THEN ByteOf(s.env, i.val, a - at[1] + 1) ELSE InMemory(b, l, s, a)
  BY RunStore
<1> HIDE DEF u
<1>2. ASSUME NEW a, a \notin Covered(b, l, F) PROVE InMemory(b, l, t, a) = InMemory(b, l, u, a)
  <2>1. a \notin Range(at) /\ a \notin Covered(b, l, E)
    BY <1>2
  <2>2. InMemory(b, l, t, a) = InMemory(b, l, s, a)
    BY <2>1 DEF Match
  <2> HIDE DEF at
  <2> QED
    BY <1>1, <2>1, <2>2
<1>3. Match(b, l, u, t, F, sub)
  BY <1>1, <1>2 DEF Match
<1> QED
  BY <1>3 DEF u

\* A call is shown the same, when no store is left out that it could see.
LEMMA MatchCall ==
  ASSUME NEW b, BlockFormed(b), NEW l,
         NEW n \in Nat, n + 1 \in 1..Len(b.code), b.code[n + 1].op = "call",
         NEW av, NEW del \in SUBSET (1..n), NEW sub, Replacements(b, n, del, sub),
         NEW s, Arrived(b, l, n, av, del, sub, s), NEW t, Match(b, l, s, t, {}, sub),
         Used(Written(sub, b.code[n + 1])) \cap DOMAIN sub = {}
  PROVE  Match(b, l, RunOne(b, l, s, b.code[n + 1]),
               RunOne(b, l, t, Written(sub, b.code[n + 1])), {}, sub)
<1> DEFINE i == b.code[n + 1]
           j == Written(sub, i)
           u == RunOne(b, l, s, i)
           w == RunOne(b, l, t, j)
<1>0. IsState(s) /\ IsState(t) /\ i.op = "call"
  BY DEF Arrived, Match
<1>1. /\ IsState(s) /\ IsState(t) /\ t.seen = s.seen /\ i.op = "call"
      /\ DOMAIN t.env = DOMAIN s.env \ DOMAIN sub /\ \A x \in DOMAIN t.env : t.env[x] = s.env[x]
      /\ \A a : a \notin Covered(b, l, {}) => InMemory(b, l, t, a) = InMemory(b, l, s, a)
  BY DEF Arrived, Match
<1>2. {"op", "uses", "size"} \subseteq DOMAIN i
  BY AtPosition DEF BlockFormed
<1>3. Covered(b, l, {}) = {}
  BY DEF Covered
<1>4. \A a : InMemory(b, l, t, a) = InMemory(b, l, s, a)
  BY <1>1, <1>3
<1>5. ASSUME NEW v \in Used(i), NEW m \in 1..i.size, Standing(sub, v) \notin DOMAIN sub
      PROVE  ByteOf(t.env, Standing(sub, v), m) = ByteOf(s.env, v, m)
  <2>1. UsesSame(b, n, sub, s, t)
    BY SameUses
  <2> QED
    BY <1>5, <2>1 DEF UsesSame
<1>6. Used(j) \cap DOMAIN sub = {}
  OBVIOUS
<1> HIDE DEF i
<1>7. /\ j.op = "call" /\ j.size = i.size /\ DOMAIN j.uses = DOMAIN i.uses
      /\ \A m \in DOMAIN i.uses : j.uses[m] = Standing(sub, i.uses[m])
  <2> DEFINE z == [k \in DOMAIN i.uses |-> Standing(sub, i.uses[k])]
  <2>1. j = [i EXCEPT !.uses = z]
    BY <1>1 DEF Written
  <2> HIDE DEF j, z
  <2>2. j.op = "call" /\ j.size = i.size /\ j.uses = z
    BY <1>1, <1>2, <2>1
  <2> QED
    BY <2>2 DEF z
<1> HIDE DEF j
<1>8. Used(i) = Range(i.uses) /\ Used(j) = Range(j.uses)
  BY <1>1, <1>7 DEF Used
<1>9. ASSUME NEW m \in DOMAIN i.uses, NEW k \in 1..i.size
      PROVE  ByteOf(t.env, j.uses[m], k) = ByteOf(s.env, i.uses[m], k)
  <2>1. i.uses[m] \in Used(i) /\ j.uses[m] \in Used(j)
    BY <1>7, <1>8 DEF Range
  <2>2. j.uses[m] = Standing(sub, i.uses[m]) /\ j.uses[m] \notin DOMAIN sub
    BY <1>6, <1>7, <2>1
  <2> QED
    BY <1>5, <2>1, <2>2
<1>10. Seen(b, l, t, j) = Seen(b, l, s, i)
  BY <1>1, <1>4, <1>7, <1>9, SeenSame
<1>11. /\ IsState(u) /\ u.env = s.env /\ u.seen = Append(s.seen, Seen(b, l, s, i))
       /\ \A a : InMemory(b, l, u, a) =
                   IF a \in PrivateBytes(b, l) THEN InMemory(b, l, s, a) ELSE <<Len(u.seen), a>>
  BY <1>0, RunCall
<1>12. /\ IsState(w) /\ w.env = t.env /\ w.seen = Append(t.seen, Seen(b, l, t, j))
       /\ \A a : InMemory(b, l, w, a) =
                   IF a \in PrivateBytes(b, l) THEN InMemory(b, l, t, a) ELSE <<Len(w.seen), a>>
  BY <1>0, <1>7, RunCall
<1> HIDE DEF u, w
<1>13. w.seen = u.seen
  BY <1>1, <1>10, <1>11, <1>12
<1>14. \A a : InMemory(b, l, w, a) = InMemory(b, l, u, a)
  BY <1>4, <1>11, <1>12, <1>13
<1>15. Match(b, l, u, w, {}, sub)
  BY <1>1, <1>11, <1>12, <1>13, <1>14 DEF Match
<1> QED
  BY <1>15 DEF u, w, i, j

\* t is the run of the first n instructions of c, those of D left out.
Ran(b, l, c, D, n, t) ==
  /\ t[0] = Start
  /\ \A m \in 1..n : t[m] = IF m \in D THEN t[m - 1] ELSE RunOne(b, l, t[m - 1], c[m])

\* All of this after n instructions, whichever of the pending stores turn out
\* to be dead.
Simulated(b, l, n, av, del, sub) ==
  \A s : Ran(b, l, b.code, {}, n, s) =>
    /\ Arrived(b, l, n, av, del, sub, s[n])
    /\ \A E \in SUBSET Pending(av) : \A t :
         Ran(b, l, Rewritten(b, sub), del \cup E, n, t) /\ Clean(b, n, del \cup E, sub) =>
           Match(b, l, s[n], t[n], E, sub)

\* What is known of the values and the deletions after n instructions,
Swept(b, n, av, del, sub) ==
  /\ n \in 0..Len(b.code) /\ del \in SUBSET (1..n)
  /\ av \in Seq(Range(av)) /\ Entries(b, n, av) /\ Replacements(b, n, del, sub)
\* and of the runs, whatever the layout.
Sweep(b, n, av, del, sub) ==
  Swept(b, n, av, del, sub) /\ \A l \in Layouts(b) : Simulated(b, l, n, av, del, sub)

\* A run is one of the instructions before, and its last step.
LEMMA RanShorter ==
  ASSUME NEW b, NEW l, NEW c, NEW D, NEW n \in Nat, NEW t, Ran(b, l, c, D, n + 1, t)
  PROVE  /\ Ran(b, l, c, D, n, t)
         /\ t[n + 1] = IF n + 1 \in D THEN t[n] ELSE RunOne(b, l, t[n], c[n + 1])
<1>1. /\ \A m \in 1..n : m \in 1..(n + 1)
      /\ n + 1 \in 1..(n + 1) /\ (n + 1) - 1 = n
  OBVIOUS
<1> QED
  BY <1>1 DEF Ran

\* What is left out does not matter.
LEMMA RanAlike ==
  ASSUME NEW b, NEW l, NEW c, NEW D, NEW n \in Nat, NEW t, Ran(b, l, c, D, n, t),
         NEW d, NEW F, \A m \in 1..n : m \in F <=> m \in D, \A m \in (1..n) \ D : d[m] = c[m]
  PROVE  Ran(b, l, d, F, n, t)
BY DEF Ran

\* What is so of n instructions is so of one more.
LEMMA OneMore ==
  ASSUME NEW b, BlockFormed(b), NEW n \in Nat, n + 1 \in 1..Len(b.code)
  PROVE  /\ \A v : Old(b, n, v) => Old(b, n + 1, v)
         /\ \A av : Entries(b, n, av) => Entries(b, n + 1, av)
         /\ \A del, sub : Replacements(b, n, del, sub) => Replacements(b, n + 1, del, sub)
<1>0. Len(b.code) \in Nat
  BY AtPosition
<1>1. ASSUME NEW v, Old(b, n, v) PROVE Old(b, n + 1, v)
  <2>1. \A m \in ((n + 1) + 1)..Len(b.code) : m \in (n + 1)..Len(b.code)
    BY <1>0
  <2> QED
    BY <1>1, <2>1 DEF Old
<1>2. ASSUME NEW av, Entries(b, n, av) PROVE Entries(b, n + 1, av)
  <2>1. \A q \in 1..n : q \in 1..(n + 1)
    OBVIOUS
  <2> QED
    BY <1>2, <2>1 DEF Entries
<1>3. ASSUME NEW del, NEW sub, Replacements(b, n, del, sub) PROVE Replacements(b, n + 1, del, sub)
  BY <1>1, <1>3 DEF Replacements
<1> QED
  BY <1>1, <1>2, <1>3

\* What holds of the instructions that stay holds of the first of them.
LEMMA CleanBefore ==
  ASSUME NEW b, NEW n \in Nat, NEW D, NEW sub, Clean(b, n + 1, D, sub),
         NEW F, \A m \in 1..n : m \in F <=> m \in D
  PROVE  /\ Clean(b, n, F, sub)
         /\ n + 1 \notin D => Used(Written(sub, b.code[n + 1])) \cap DOMAIN sub = {}
<1>1. \A m \in 1..n : m \in 1..(n + 1)
  OBVIOUS
<1>2. n + 1 \in 1..(n + 1)
  OBVIOUS
<1> QED
  BY <1>1, <1>2 DEF Clean

\* A pending store.
LEMMA PendingStore ==
  ASSUME NEW b, BlockFormed(b), NEW n \in 0..Len(b.code), NEW av, Entries(b, n, av), NEW e \in Pending(av)
  PROVE  /\ e \in 1..n /\ b.code[e].op = "store" /\ b.code[e] \in Accesses(b)
         /\ \E k \in DOMAIN av : /\ av[k].at = e /\ av[k].at # 0 /\ ~av[k].maybe_read
                                 /\ av[k].ptr = b.code[e].ptr /\ av[k].size = b.code[e].size
<1>1. PICK k \in DOMAIN av : av[k].at = e /\ av[k].at # 0 /\ ~av[k].maybe_read
  BY DEF Pending
<1>2. PICK q \in 1..n : EntryOf(b.code, q, av[k])
  BY DEF Entries
<1>3. /\ b.code[q] \in Accesses(b) /\ av[k].ptr = b.code[q].ptr /\ av[k].size = b.code[q].size
      /\ av[k].at = q /\ b.code[q].op = "store"
  BY <1>1, <1>2, Entry
<1> QED
  BY <1>1, <1>3

\* The replacement of a name that was not used before is of no account there.
LEMMA WrittenBefore ==
  ASSUME NEW sub, NEW x, NEW v, NEW i, i.op \in {"load", "store", "call"}, x \notin Used(i)
  PROVE  Written(Bind(sub, x, v), i) = Written(sub, i)
<1> DEFINE sub2 == Bind(sub, x, v)
<1>1. ASSUME NEW y, y # x PROVE Standing(sub2, y) = Standing(sub, y)
  BY <1>1 DEF Standing, Bind
<1> HIDE DEF sub2
<1>2. CASE i.op = "load"
  BY <1>2 DEF Written
<1>3. CASE i.op = "store"
  <2>1. i.val # x
    BY <1>3 DEF Used
  <2>2. Standing(sub2, i.val) = Standing(sub, i.val)
    BY <1>1, <2>1
  <2>3. Written(sub2, i) = [i EXCEPT !.val = Standing(sub2, i.val)]
        /\ Written(sub, i) = [i EXCEPT !.val = Standing(sub, i.val)]
    BY <1>3 DEF Written
  <2> QED
    BY <2>2, <2>3 DEF sub2
<1>4. CASE i.op = "call"
  <2>1. ASSUME NEW n \in DOMAIN i.uses PROVE Standing(sub2, i.uses[n]) = Standing(sub, i.uses[n])
    <3>1. i.uses[n] # x
      BY <1>4 DEF Used, Range
    <3> QED
      BY <1>1, <3>1
  <2>2. [n \in DOMAIN i.uses |-> Standing(sub2, i.uses[n])] = [n \in DOMAIN i.uses |-> Standing(sub, i.uses[n])]
    BY <2>1
  <2>3. Written(sub2, i) = [i EXCEPT !.uses = [n \in DOMAIN i.uses |-> Standing(sub2, i.uses[n])]]
        /\ Written(sub, i) = [i EXCEPT !.uses = [n \in DOMAIN i.uses |-> Standing(sub, i.uses[n])]]
    BY <1>4 DEF Written
  <2> QED
    BY <2>2, <2>3 DEF sub2
<1> QED
  BY <1>2, <1>3, <1>4

\* A sequence with one more member.
LEMMA Appended ==
  ASSUME NEW s, s \in Seq(Range(s)), NEW x
  PROVE  /\ Append(s, x) \in Seq(Range(Append(s, x))) /\ DOMAIN Append(s, x) = 1..(Len(s) + 1)
         /\ Len(s) \in Nat /\ DOMAIN s = 1..Len(s)
         /\ \A k \in DOMAIN s : Append(s, x)[k] = s[k]
         /\ Append(s, x)[Len(s) + 1] = x
<1> DEFINE T == Range(s)
<1>1. T \subseteq T \cup {x}
  OBVIOUS
<1> HIDE DEF T
<1>2. s \in Seq(T \cup {x})
  <2>1. s \in Seq(T)
    BY DEF T
  <2> QED
    BY <2>1
<1>3. /\ Append(s, x) \in Seq(T \cup {x}) /\ DOMAIN Append(s, x) = 1..(Len(s) + 1)
      /\ Len(s) \in Nat /\ DOMAIN s = 1..Len(s)
      /\ \A k \in DOMAIN s : Append(s, x)[k] = s[k]
      /\ Append(s, x)[Len(s) + 1] = x
  BY <1>2
<1>4. Append(s, x) \in Seq(Range(Append(s, x)))
  BY <1>3, OfItsOwn
<1> QED
  BY <1>3, <1>4

-----------------------------------------------------------------------------
(* A load that stays.                                                       *)

\* The available values after the load i, of which those that i may read are
\* marked.
Marked(b, av, i) ==
  [k \in DOMAIN av |->
     IF av[k].at # 0 /\ alias(b, i.ptr, av[k].ptr) # "NoAlias"
     THEN [av[k] EXCEPT !.maybe_read = TRUE] ELSE av[k]]

\* mk is av, some of its stores marked as read.
MarksOnly(b, i, av, mk) ==
  \A k \in DOMAIN av :
    /\ mk[k].ptr = av[k].ptr /\ mk[k].value = av[k].value
    /\ mk[k].size = av[k].size /\ mk[k].at = av[k].at
    /\ mk[k].at # 0 /\ ~mk[k].maybe_read =>
         ~av[k].maybe_read /\ alias(b, i.ptr, av[k].ptr) = "NoAlias"

\* What marking leaves as it was; a pending store is one that the load cannot read.
LEMMA MarkedEntries ==
  ASSUME NEW b, NEW n, NEW av, av \in Seq(Range(av)), Entries(b, n, av), NEW i
  PROVE  /\ Marked(b, av, i) \in Seq(Range(Marked(b, av, i))) /\ DOMAIN Marked(b, av, i) = DOMAIN av
         /\ Entries(b, n, Marked(b, av, i))
         /\ MarksOnly(b, i, av, Marked(b, av, i))
<1> DEFINE mk == Marked(b, av, i)
<1>1. DOMAIN mk = DOMAIN av
  BY DEF Marked
<1>2. mk \in Seq(Range(mk))
  <2>1. Len(av) \in Nat /\ DOMAIN av = 1..Len(av)
    OBVIOUS
  <2>2. mk = [k \in 1..Len(av) |-> mk[k]]
    BY <2>1 DEF Marked
  <2> HIDE DEF mk
  <2>3. \A k \in 1..Len(av) : mk[k] \in Range(mk)
    BY <1>1, <2>1 DEF Range
  <2> DEFINE T == Range(mk)
  <2>4. [k \in 1..Len(av) |-> mk[k]] \in Seq(T)
    <3> HIDE DEF T
    <3>1. \A k \in 1..Len(av) : mk[k] \in T
      BY <2>3 DEF T
    <3> QED
      BY <2>1, <3>1
  <2> QED
    BY <2>2, <2>4
<1>3. ASSUME NEW k \in DOMAIN av
      PROVE  /\ \E q \in 1..n : EntryOf(b.code, q, mk[k])
             /\ mk[k].ptr = av[k].ptr /\ mk[k].value = av[k].value
             /\ mk[k].size = av[k].size /\ mk[k].at = av[k].at
             /\ mk[k].at # 0 /\ ~mk[k].maybe_read =>
                  ~av[k].maybe_read /\ alias(b, i.ptr, av[k].ptr) = "NoAlias"
  <2>1. PICK q \in 1..n : EntryOf(b.code, q, av[k])
    BY DEF Entries
  <2> DEFINE r == av[k]
             m == [r EXCEPT !.maybe_read = TRUE]
             read == r.at # 0 /\ alias(b, i.ptr, r.ptr) # "NoAlias"
  <2>2. mk[k] = IF read THEN m ELSE r
    BY DEF Marked
  <2>3. r = [ptr |-> b.code[q].ptr, value |-> r.value, size |-> b.code[q].size, at |-> r.at,
             maybe_read |-> r.maybe_read]
    BY <2>1 DEF EntryOf
  <2>4. /\ b.code[q].op \in {"load", "store"}
        /\ \/ b.code[q].op = "store" /\ r.at = q /\ r.value = b.code[q].val
           \/ b.code[q].op = "load" /\ r.at = 0 /\ r.value = b.code[q].name
    BY <2>1 DEF EntryOf
  <2> HIDE DEF mk, r, read
  <2>5. m = [ptr |-> b.code[q].ptr, value |-> r.value, size |-> b.code[q].size, at |-> r.at,
             maybe_read |-> TRUE]
    <3>1. ASSUME NEW p, NEW v, NEW z, NEW a, NEW x, NEW y,
                 r = [ptr |-> p, value |-> v, size |-> z, at |-> a, maybe_read |-> x]
          PROVE  [r EXCEPT !.maybe_read = y]
                   = [ptr |-> p, value |-> v, size |-> z, at |-> a, maybe_read |-> y]
      BY <3>1
    <3>2. PICK y : y = TRUE
      OBVIOUS
    <3>3. [r EXCEPT !.maybe_read = y] = [ptr |-> b.code[q].ptr, value |-> r.value,
             size |-> b.code[q].size, at |-> r.at, maybe_read |-> y]
      BY <2>3, <3>1
    <3> QED
      BY <3>2, <3>3
  <2>6. /\ m.ptr = b.code[q].ptr /\ m.value = r.value /\ m.size = b.code[q].size /\ m.at = r.at
        /\ m.maybe_read = TRUE
    BY <2>5
  <2>7. r.ptr = b.code[q].ptr /\ r.size = b.code[q].size
    BY <2>3
  <2>8. EntryOf(b.code, q, m)
    BY <2>4, <2>5, <2>6 DEF EntryOf
  <2>9. EntryOf(b.code, q, mk[k])
    BY <2>1, <2>2, <2>8 DEF r
  <2>10. /\ mk[k].ptr = r.ptr /\ mk[k].value = r.value /\ mk[k].size = r.size /\ mk[k].at = r.at
         /\ mk[k].at # 0 /\ ~mk[k].maybe_read => ~r.maybe_read /\ ~read
    BY <2>2, <2>6, <2>7
  <2>11. mk[k].at # 0 /\ ~read => alias(b, i.ptr, r.ptr) = "NoAlias"
    BY <2>10 DEF read
  <2> QED
    BY <2>9, <2>10, <2>11 DEF r
<1> HIDE DEF mk
<1>4. Entries(b, n, mk)
  BY <1>1, <1>3 DEF Entries
<1> QED
  BY <1>1, <1>2, <1>3, <1>4 DEF mk, MarksOnly

\* av2 are the values after the load i, which stays.
AfterLoad(b, av, i, av2) ==
  /\ Len(av) \in Nat /\ DOMAIN av = 1..Len(av) /\ DOMAIN av2 = 1..(Len(av) + 1)
  /\ \A k \in DOMAIN av : av2[k] = Marked(b, av, i)[k]
  /\ av2[Len(av) + 1] = ReadEntry(i)

\* The values after a load that stays.
LEMMA KeptLoadSwept ==
  ASSUME NEW b, BlockFormed(b), NEW n \in Nat, n + 1 \in 1..Len(b.code), b.code[n + 1].op = "load",
         NEW av, NEW del, NEW sub, Swept(b, n, av, del, sub),
         NEW av2, av2 = Append(Marked(b, av, b.code[n + 1]), ReadEntry(b.code[n + 1]))
  PROVE  Swept(b, n + 1, av2, del, sub) /\ AfterLoad(b, av, b.code[n + 1], av2)
<1> DEFINE i == b.code[n + 1]
           mk == Marked(b, av, i)
           N == Len(av)
<1>1. /\ n \in 0..Len(b.code) /\ del \in SUBSET (1..n) /\ av \in Seq(Range(av))
      /\ Entries(b, n, av) /\ Replacements(b, n, del, sub)
  BY DEF Swept
<1>2. N \in Nat /\ DOMAIN av = 1..N /\ Len(b.code) \in Nat
  BY <1>1, AtPosition
<1>3. mk \in Seq(Range(mk)) /\ DOMAIN mk = DOMAIN av /\ Entries(b, n, mk)
  BY <1>1, MarkedEntries
<1> HIDE DEF mk
<1>4. Len(mk) = N
  BY <1>2, <1>3
<1>5. /\ av2 \in Seq(Range(av2)) /\ DOMAIN av2 = 1..(N + 1)
      /\ \A k \in DOMAIN av : av2[k] = mk[k]
      /\ av2[N + 1] = ReadEntry(i)
  BY <1>3, <1>4, Appended DEF mk
<1>6. EntryOf(b.code, n + 1, ReadEntry(i))
  BY DEF EntryOf, ReadEntry
<1>7. ASSUME NEW k \in DOMAIN av2 PROVE \E q \in 1..(n + 1) : EntryOf(b.code, q, av2[k])
  <2>1. CASE k = N + 1
    <3>1. n + 1 \in 1..(n + 1)
      OBVIOUS
    <3> QED
      BY <1>5, <1>6, <2>1, <3>1
  <2>2. CASE k # N + 1
    <3>1. k \in DOMAIN mk
      BY <1>2, <1>3, <1>5, <2>2
    <3>2. PICK q \in 1..n : EntryOf(b.code, q, mk[k])
      BY <1>3, <3>1 DEF Entries
    <3>3. q \in 1..(n + 1)
      OBVIOUS
    <3> QED
      BY <1>3, <1>5, <3>1, <3>2, <3>3
  <2> QED
    BY <2>1, <2>2
<1>8. Entries(b, n + 1, av2)
  BY <1>7 DEF Entries
<1>9. Replacements(b, n + 1, del, sub)
  BY <1>1, OneMore
<1>10. n + 1 \in 0..Len(b.code) /\ del \in SUBSET (1..(n + 1))
  BY <1>1, <1>2
<1> QED
  BY <1>2, <1>5, <1>8, <1>9, <1>10 DEF Swept, AfterLoad, mk

\* A load that stays.
LEMMA KeptLoadStep ==
  ASSUME NEW b, BlockFormed(b), AccessesFit(b), NEW l, LayoutFormed(b, l),
         NEW n \in Nat, n + 1 \in 1..Len(b.code), b.code[n + 1].op = "load",
         NEW av, NEW del, NEW sub, Swept(b, n, av, del, sub), Simulated(b, l, n, av, del, sub),
         NEW av2, av2 = Append(Marked(b, av, b.code[n + 1]), ReadEntry(b.code[n + 1]))
  PROVE  Simulated(b, l, n + 1, av2, del, sub)
<1> DEFINE i == b.code[n + 1]
<1>1. /\ n \in 0..Len(b.code) /\ del \in SUBSET (1..n) /\ av \in Seq(Range(av))
      /\ Entries(b, n, av) /\ Replacements(b, n, del, sub)
  BY DEF Swept
<1>2. /\ Len(av) \in Nat /\ DOMAIN av = 1..Len(av) /\ DOMAIN av2 = 1..(Len(av) + 1)
      /\ \A k \in DOMAIN av : av2[k] = Marked(b, av, i)[k]
      /\ av2[Len(av) + 1] = ReadEntry(i)
  <2>1. AfterLoad(b, av, b.code[n + 1], av2)
    BY KeptLoadSwept
  <2> QED
    BY <2>1 DEF AfterLoad
<1>3. \A k \in DOMAIN av :
        /\ av2[k].ptr = av[k].ptr /\ av2[k].value = av[k].value
        /\ av2[k].size = av[k].size /\ av2[k].at = av[k].at
        /\ av2[k].at # 0 /\ ~av2[k].maybe_read =>
             ~av[k].maybe_read /\ alias(b, i.ptr, av[k].ptr) = "NoAlias"
  <2> DEFINE mk == Marked(b, av, i)
  <2>1. MarksOnly(b, i, av, mk)
    BY <1>1, MarkedEntries
  <2> HIDE DEF mk, i
  <2> QED
    BY <1>2, <2>1 DEF mk, MarksOnly
<1>4. i \in Accesses(b) /\ DOMAIN b.code = 1..Len(b.code)
  BY AtPosition
<1>5. ASSUME NEW e \in Pending(av2)
      PROVE  e \in Pending(av) /\ Range(Bytes(b, l, i)) \cap Range(Bytes(b, l, b.code[e])) = {}
  <2>1. PICK k \in DOMAIN av2 : av2[k].at = e /\ av2[k].at # 0 /\ ~av2[k].maybe_read
    BY DEF Pending
  <2>2. k # Len(av) + 1
    BY <1>2, <2>1 DEF ReadEntry
  <2>3. k \in DOMAIN av
    BY <1>2, <2>2
  <2>4. av[k].at = e /\ ~av[k].maybe_read /\ alias(b, i.ptr, av[k].ptr) = "NoAlias" /\ av[k].at # 0
    BY <1>3, <2>1, <2>3
  <2>5. e \in Pending(av)
    BY <2>3, <2>4 DEF Pending
  <2>6. PICK q \in 1..n : EntryOf(b.code, q, av[k])
    BY <1>1, <2>3 DEF Entries
  <2>7. b.code[e] \in Accesses(b) /\ av[k].ptr = b.code[e].ptr
    BY <1>1, <2>4, <2>6, Entry
  <2>8. Range(Bytes(b, l, i)) \cap Range(Bytes(b, l, b.code[e])) = {}
    <3> HIDE DEF i
    <3> QED
      BY <1>4, <2>4, <2>7, AliasOracleSound
  <2> QED
    BY <2>5, <2>8
<1>6. ASSUME NEW E \in SUBSET Pending(av2)
      PROVE  /\ E \in SUBSET Pending(av) /\ Range(Bytes(b, l, i)) \cap Covered(b, l, E) = {}
             /\ n + 1 \notin del \cup E
  <2>1. E \in SUBSET Pending(av)
    BY <1>5
  <2>2. Range(Bytes(b, l, i)) \cap Covered(b, l, E) = {}
    BY <1>5 DEF Covered
  <2>3. \A e \in Pending(av) : e \in 1..n
    BY <1>1, PendingStore
  <2> QED
    BY <1>1, <2>1, <2>2, <2>3
<1>7. Rewritten(b, sub)[n + 1] = i
  BY <1>4 DEF Rewritten, Written
<1> SUFFICES ASSUME NEW s, Ran(b, l, b.code, {}, n + 1, s)
             PROVE  /\ Arrived(b, l, n + 1, av2, del, sub, s[n + 1])
                    /\ \A E \in SUBSET Pending(av2) : \A t :
                         Ran(b, l, Rewritten(b, sub), del \cup E, n + 1, t)
                           /\ Clean(b, n + 1, del \cup E, sub) =>
                         Match(b, l, s[n + 1], t[n + 1], E, sub)
  BY DEF Simulated
<1>8. Ran(b, l, b.code, {}, n, s) /\ s[n + 1] = RunOne(b, l, s[n], i)
  <2>1. n + 1 \notin {}
    OBVIOUS
  <2> HIDE DEF i
  <2>2. Ran(b, l, b.code, {}, n, s) /\ s[n + 1] = RunOne(b, l, s[n], b.code[n + 1])
    BY <2>1, RanShorter
  <2> QED
    BY <2>2 DEF i
<1>9. /\ Arrived(b, l, n, av, del, sub, s[n])
      /\ \A E \in SUBSET Pending(av) : \A t :
           Ran(b, l, Rewritten(b, sub), del \cup E, n, t) /\ Clean(b, n, del \cup E, sub) =>
             Match(b, l, s[n], t[n], E, sub)
  BY <1>8 DEF Simulated
<1> DEFINE u == RunOne(b, l, s[n], i)
<1>10. /\ IsState(u) /\ DOMAIN u.env = ReadBy(b, n + 1)
       /\ Available(b, l, u, av) /\ Forwarded(b, u, del, sub)
       /\ HoldsAt(b, l, u, ReadEntry(i))
  BY <1>1, <1>9, LoadReaches
<1> HIDE DEF u
<1>11. ASSUME NEW k \in DOMAIN av2 PROVE HoldsAt(b, l, u, av2[k])
  <2>1. CASE k = Len(av) + 1
    BY <1>2, <1>10, <2>1
  <2>2. CASE k # Len(av) + 1
    <3>1. k \in DOMAIN av
      BY <1>2, <2>2
    <3>2. HoldsAt(b, l, u, av[k])
      BY <1>10, <3>1 DEF Available
    <3> QED
      BY <1>3, <3>1, <3>2 DEF HoldsAt
  <2> QED
    BY <2>1, <2>2
<1>12. Arrived(b, l, n + 1, av2, del, sub, s[n + 1])
  BY <1>8, <1>10, <1>11 DEF Arrived, Available, u
<1>13. ASSUME NEW E \in SUBSET Pending(av2), NEW t,
              Ran(b, l, Rewritten(b, sub), del \cup E, n + 1, t), Clean(b, n + 1, del \cup E, sub)
       PROVE  Match(b, l, s[n + 1], t[n + 1], E, sub)
  <2>1. Ran(b, l, Rewritten(b, sub), del \cup E, n, t)
        /\ t[n + 1] = IF n + 1 \in del \cup E THEN t[n] ELSE RunOne(b, l, t[n], Rewritten(b, sub)[n + 1])
    BY <1>13, RanShorter
  <2>2. Clean(b, n, del \cup E, sub)
    BY <1>13, CleanBefore
  <2>3. Match(b, l, s[n], t[n], E, sub)
    BY <1>6, <1>9, <2>1, <2>2
  <2>4. t[n + 1] = RunOne(b, l, t[n], i)
    BY <1>6, <1>7, <2>1
  <2>5. Match(b, l, RunOne(b, l, s[n], i), RunOne(b, l, t[n], i), E, sub)
    BY <1>1, <1>6, <1>9, <2>3, MatchLoad
  <2> QED
    BY <1>8, <2>4, <2>5
<1> QED
  BY <1>12, <1>13

-----------------------------------------------------------------------------
(* A load that is deleted.                                                  *)

\* The replacements after a load that is deleted.
LEMMA ForwardedSwept ==
  ASSUME NEW b, BlockFormed(b), NEW n \in Nat, n + 1 \in 1..Len(b.code), b.code[n + 1].op = "load",
         NEW av, NEW del, NEW sub, Swept(b, n, av, del, sub), NEW k \in DOMAIN av,
         NEW del2, del2 = del \cup {n + 1}, NEW sub2, sub2 = Bind(sub, b.code[n + 1].name, av[k].value)
  PROVE  Swept(b, n + 1, av, del2, sub2)
<1> DEFINE i == b.code[n + 1]
           x == i.name
           v == av[k].value
<1>1. /\ n \in 0..Len(b.code) /\ del \in SUBSET (1..n) /\ av \in Seq(Range(av))
      /\ Entries(b, n, av) /\ Replacements(b, n, del, sub)
  BY DEF Swept
<1>2. Len(b.code) \in Nat
  BY AtPosition
<1>3. Old(b, n, v)
  <2>1. PICK q \in 1..n : EntryOf(b.code, q, av[k])
    BY <1>1 DEF Entries
  <2> QED
    BY <1>1, <2>1, Entry
<1>4. Deleted(b, del2) = Deleted(b, del) \cup {n + 1}
  BY DEF Deleted
<1> HIDE DEF v, i
<1>5. DOMAIN sub2 = DOMAIN sub \cup {x} /\ sub2[x] = v /\ \A y \in DOMAIN sub : y # x => sub2[y] = sub[y]
  BY DEF Bind, i, v
<1>6. DOMAIN sub2 = {b.code[m].name : m \in Deleted(b, del2)}
  BY <1>1, <1>4, <1>5 DEF Replacements, i
<1>7. ASSUME NEW y \in DOMAIN sub2 PROVE Old(b, n + 1, sub2[y])
  <2>1. Old(b, n, sub2[y])
    BY <1>1, <1>3, <1>5 DEF Replacements
  <2> QED
    BY <2>1, OneMore
<1>8. Replacements(b, n + 1, del2, sub2)
  BY <1>6, <1>7 DEF Replacements
<1>9. Entries(b, n + 1, av)
  BY <1>1, OneMore
<1>10. n + 1 \in 0..Len(b.code) /\ del2 \in SUBSET (1..(n + 1))
  BY <1>1, <1>2
<1> QED
  BY <1>1, <1>8, <1>9, <1>10 DEF Swept

\* A load that is deleted: its name has the value of its replacement.
LEMMA ForwardedStep ==
  ASSUME NEW b, BlockFormed(b), AccessesFit(b), NEW l, LayoutFormed(b, l),
         NEW n \in Nat, n + 1 \in 1..Len(b.code), b.code[n + 1].op = "load",
         NEW av, NEW del, NEW sub, Swept(b, n, av, del, sub), Simulated(b, l, n, av, del, sub),
         NEW k \in DOMAIN av, alias(b, b.code[n + 1].ptr, av[k].ptr) = "MustAlias",
         av[k].size = b.code[n + 1].size,
         NEW del2, del2 = del \cup {n + 1}, NEW sub2, sub2 = Bind(sub, b.code[n + 1].name, av[k].value)
  PROVE  Simulated(b, l, n + 1, av, del2, sub2)
<1> DEFINE i == b.code[n + 1]
           x == i.name
           v == av[k].value
<1>1. /\ n \in 0..Len(b.code) /\ del \in SUBSET (1..n) /\ av \in Seq(Range(av))
      /\ Entries(b, n, av) /\ Replacements(b, n, del, sub)
  BY DEF Swept
<1>2. i \in Accesses(b) /\ DOMAIN b.code = 1..Len(b.code) /\ Len(b.code) \in Nat
  BY AtPosition
<1>3. PICK q \in 1..n : EntryOf(b.code, q, av[k])
  BY <1>1 DEF Entries
<1>4. b.code[q] \in Accesses(b) /\ av[k].ptr = b.code[q].ptr /\ Old(b, n, v)
  BY <1>1, <1>3, Entry
<1>5. Address(b, l, i.ptr) = Address(b, l, av[k].ptr)
  <2>1. alias(b, i.ptr, b.code[q].ptr) = "MustAlias"
    BY <1>4
  <2> HIDE DEF i
  <2> QED
    BY <1>2, <1>4, <2>1, AliasOracleSound
<1>6. v # x
  <2>1. n + 1 \in (n + 1)..Len(b.code)
    BY <1>2
  <2> QED
    BY <1>4, <2>1 DEF Old
<1>7. x \notin ReadBy(b, n) /\ \A m \in 1..(n + 1) : x \notin Used(b.code[m])
  BY Fresh
<1>8. DOMAIN sub \subseteq ReadBy(b, n)
  BY <1>1 DEF Replacements, Deleted, ReadBy
<1>9. /\ DOMAIN sub2 = DOMAIN sub \cup {x} /\ sub2[x] = v
      /\ \A y \in DOMAIN sub : sub2[y] = sub[y]
  BY <1>7, <1>8 DEF Bind
<1>10. ASSUME NEW m \in 1..n PROVE Written(sub2, b.code[m]) = Written(sub, b.code[m])
  <2>1. m \in 1..(n + 1) /\ m \in 1..Len(b.code)
    BY <1>1, <1>2
  <2>2. b.code[m].op \in {"load", "store", "call"} /\ x \notin Used(b.code[m])
    BY <1>7, <2>1, AtPosition
  <2> QED
    BY <2>2, WrittenBefore
<1>11. ASSUME NEW E \in SUBSET Pending(av)
       PROVE  /\ n + 1 \in del2 \cup E
              /\ \A m \in 1..n : m \in del \cup E <=> m \in del2 \cup E
  BY <1>1
<1> SUFFICES ASSUME NEW s, Ran(b, l, b.code, {}, n + 1, s)
             PROVE  /\ Arrived(b, l, n + 1, av, del2, sub2, s[n + 1])
                    /\ \A E \in SUBSET Pending(av) : \A t :
                         Ran(b, l, Rewritten(b, sub2), del2 \cup E, n + 1, t)
                           /\ Clean(b, n + 1, del2 \cup E, sub2) =>
                         Match(b, l, s[n + 1], t[n + 1], E, sub2)
  BY DEF Simulated
<1>12. Ran(b, l, b.code, {}, n, s) /\ s[n + 1] = RunOne(b, l, s[n], i)
  <2>1. n + 1 \notin {}
    OBVIOUS
  <2> HIDE DEF i
  <2>2. Ran(b, l, b.code, {}, n, s) /\ s[n + 1] = RunOne(b, l, s[n], b.code[n + 1])
    BY <2>1, RanShorter
  <2> QED
    BY <2>2 DEF i
<1>13. /\ Arrived(b, l, n, av, del, sub, s[n])
       /\ \A E \in SUBSET Pending(av) : \A t :
            Ran(b, l, Rewritten(b, sub), del \cup E, n, t) /\ Clean(b, n, del \cup E, sub) =>
              Match(b, l, s[n], t[n], E, sub)
  BY <1>12 DEF Simulated
<1> DEFINE u == RunOne(b, l, s[n], i)
<1>14. /\ IsState(u) /\ DOMAIN u.env = ReadBy(b, n + 1)
       /\ Available(b, l, u, av) /\ Forwarded(b, u, del, sub)
       /\ HoldsAt(b, l, u, ReadEntry(i))
  BY <1>1, <1>13, LoadReaches
<1>15. x \in DOMAIN u.env
  BY <1>14, Fresh
<1> HIDE DEF u, x, v
<1>16. ASSUME NEW m \in Deleted(b, del2), NEW j \in 1..b.code[m].size
       PROVE  u.env[b.code[m].name][j] = ByteOf(u.env, sub2[b.code[m].name], j)
  <2>1. CASE m = n + 1
    <3>1. HoldsAt(b, l, u, av[k]) /\ j \in 1..i.size /\ av[k].size = i.size
      BY <1>14, <2>1 DEF Available
    <3>2. InMemory(b, l, u, Address(b, l, av[k].ptr) + j - 1) = ByteOf(u.env, v, j)
      BY <3>1 DEF HoldsAt, v
    <3>3. InMemory(b, l, u, Address(b, l, i.ptr) + j - 1) = ByteOf(u.env, x, j)
      BY <1>14, <3>1 DEF x, HoldsAt, ReadEntry
    <3>4. ByteOf(u.env, x, j) = u.env[x][j]
      BY <1>15 DEF ByteOf
    <3>5. b.code[m].name = x
      BY <2>1 DEF x
    <3> QED
      BY <1>5, <1>9, <3>2, <3>3, <3>4, <3>5
  <2>2. CASE m # n + 1
    <3>1. m \in Deleted(b, del)
      BY <2>2 DEF Deleted
    <3>2. b.code[m].name \in DOMAIN sub
      BY <1>1, <3>1 DEF Replacements
    <3> QED
      BY <1>9, <1>14, <3>1, <3>2 DEF Forwarded
  <2> QED
    BY <2>1, <2>2
<1>17. Arrived(b, l, n + 1, av, del2, sub2, s[n + 1])
  BY <1>12, <1>14, <1>16 DEF Arrived, Forwarded, u
<1>18. ASSUME NEW E \in SUBSET Pending(av), NEW t,
              Ran(b, l, Rewritten(b, sub2), del2 \cup E, n + 1, t), Clean(b, n + 1, del2 \cup E, sub2)
       PROVE  Match(b, l, s[n + 1], t[n + 1], E, sub2)
  <2> DEFINE D == del2 \cup E
             F == del \cup E
  <2>1. n + 1 \in D /\ \A m \in 1..n : m \in F <=> m \in D
    BY <1>11
  <2>2. \A m \in (1..n) \ D : Rewritten(b, sub)[m] = Rewritten(b, sub2)[m]
    <3>1. \A m \in 1..n : m \in DOMAIN b.code
      BY <1>1, <1>2
    <3> QED
      BY <1>10, <3>1 DEF Rewritten
  <2>3. Ran(b, l, Rewritten(b, sub2), D, n + 1, t) /\ Clean(b, n + 1, D, sub2)
    BY <1>18
  <2> HIDE DEF D, F
  <2>4. /\ Ran(b, l, Rewritten(b, sub2), D, n, t)
        /\ t[n + 1] = IF n + 1 \in D THEN t[n] ELSE RunOne(b, l, t[n], Rewritten(b, sub2)[n + 1])
    BY <2>3, RanShorter
  <2>9. Ran(b, l, Rewritten(b, sub), F, n, t)
    BY <2>1, <2>2, <2>4, RanAlike
  <2>5. Clean(b, n, F, sub2)
    BY <2>1, <2>3, CleanBefore
  <2>6. Clean(b, n, F, sub)
    <3>1. ASSUME NEW m \in (1..n) \ F PROVE Used(Written(sub, b.code[m])) \cap DOMAIN sub = {}
      <4>1. Used(Written(sub2, b.code[m])) \cap DOMAIN sub2 = {}
        BY <2>5 DEF Clean
      <4>2. Written(sub2, b.code[m]) = Written(sub, b.code[m])
        BY <1>10
      <4> QED
        BY <1>9, <4>1, <4>2
    <3> QED
      BY <3>1 DEF Clean
  <2>7. Match(b, l, s[n], t[n], E, sub)
    BY <1>13, <2>6, <2>9 DEF F
  <2>8. Match(b, l, RunOne(b, l, s[n], i), t[n], E, sub2)
    BY <1>13, <2>7, MatchForwarded
  <2> QED
    BY <1>12, <2>1, <2>4, <2>8
<1> QED
  BY <1>17, <1>18

-----------------------------------------------------------------------------
(* A store.                                                                 *)

\* The available values that the store i leaves, with what it stores.
Apart(b, av, i) == Those(av, {r \in Range(av) : alias(b, i.ptr, r.ptr) = "NoAlias"})
\* The store of k, which the store i overwrites before anything may read it.
FoundDead(b, av, i, k) ==
  /\ av[k].at # 0 /\ ~av[k].maybe_read
  /\ alias(b, i.ptr, av[k].ptr) = "MustAlias" /\ av[k].size = i.size
\* E0 holds stores that i, the nth instruction, overwrites.
DeadOnes(b, av, i, E0) == \A e \in E0 : \E k \in DOMAIN av : FoundDead(b, av, i, k) /\ e = av[k].at
\* What the values after a store are.
LeftOrStored(b, av, i, n, av2) ==
  \A k \in DOMAIN av2 : \/ av2[k] = StoredEntry(i, n)
                        \/ \E j \in DOMAIN av : av2[k] = av[j] /\ alias(b, i.ptr, av[j].ptr) = "NoAlias"
\* av2 are the values after the store i, which is the nth instruction.
AfterStore(b, av, i, n, av2) == av2 = Append(Apart(b, av, i), StoredEntry(i, n))

\* What is available after a store: the store, and what it does not touch.
LEMMA ApartEntries ==
  ASSUME NEW b, NEW av, av \in Seq(Range(av)), NEW i, NEW n,
         NEW av2, AfterStore(b, av, i, n, av2)
  PROVE  /\ av2 \in Seq(Range(av2))
         /\ LeftOrStored(b, av, i, n, av2)
         /\ \E k \in DOMAIN av2 : av2[k] = StoredEntry(i, n)
<1> DEFINE S0 == {r \in Range(av) : alias(b, i.ptr, r.ptr) = "NoAlias"}
           T == Range(av)
           ap == Apart(b, av, i)
<1>1. ap \in Seq(T \cap S0)
  <2>1. av \in Seq(T) /\ ap = Those(av, S0)
    BY DEF Apart
  <2> HIDE DEF T, S0, ap
  <2> QED
    BY <2>1, ThoseKept
<1> HIDE DEF ap
<1>2. ap \in Seq(Range(ap)) /\ Range(ap) \subseteq T \cap S0
  <2> HIDE DEF T, S0
  <2> QED
    BY <1>1, OfItsOwn
<1>3. /\ av2 \in Seq(Range(av2)) /\ DOMAIN av2 = 1..(Len(ap) + 1)
      /\ Len(ap) \in Nat /\ DOMAIN ap = 1..Len(ap)
      /\ \A k \in DOMAIN ap : av2[k] = ap[k]
      /\ av2[Len(ap) + 1] = StoredEntry(i, n)
  BY <1>2, Appended DEF ap, AfterStore
<1>4. ASSUME NEW k \in DOMAIN av2
      PROVE  \/ av2[k] = StoredEntry(i, n)
             \/ \E j \in DOMAIN av : av2[k] = av[j] /\ alias(b, i.ptr, av[j].ptr) = "NoAlias"
  <2>1. CASE k = Len(ap) + 1
    BY <1>3, <2>1
  <2>2. CASE k # Len(ap) + 1
    <3>1. k \in DOMAIN ap
      BY <1>3, <2>2
    <3>2. ap[k] \in Range(ap)
      BY <3>1 DEF Range
    <3>3. ap[k] \in T /\ ap[k] \in S0
      BY <1>2, <3>2
    <3>4. PICK j \in DOMAIN av : ap[k] = av[j]
      BY <3>3 DEF Range
    <3> QED
      BY <1>3, <3>1, <3>3, <3>4
  <2> QED
    BY <2>1, <2>2
<1>5. Len(ap) + 1 \in DOMAIN av2
  BY <1>3
<1> QED
  BY <1>3, <1>4, <1>5 DEF LeftOrStored

\* del2 are the deletions with the dead stores E0.
Both(del, E0, del2) == del2 = del \cup E0
\* No further load is deleted.
SameLoads(b, del, del2) == Deleted(b, del2) = Deleted(b, del)
\* The stores E0 were pending.
DeadOf(n, av, E0) == E0 \subseteq Pending(av) /\ \A e \in E0 : e \in 1..n
\* Only the store itself becomes pending.
NewlyPending(n, av, av2) == \A e \in Pending(av2) : e = n + 1 \/ e \in Pending(av)

\* The values after a store, and the store that it finds dead.
LEMMA StoreSwept ==
  ASSUME NEW b, BlockFormed(b), NEW n \in Nat, n + 1 \in 1..Len(b.code), b.code[n + 1].op = "store",
         NEW av, NEW del, NEW sub, Swept(b, n, av, del, sub),
         NEW E0, DeadOnes(b, av, b.code[n + 1], E0),
         NEW del2, Both(del, E0, del2), NEW av2, AfterStore(b, av, b.code[n + 1], n + 1, av2)
  PROVE  /\ Swept(b, n + 1, av2, del2, sub)
         /\ SameLoads(b, del, del2) /\ DeadOf(n, av, E0) /\ NewlyPending(n, av, av2)
<1> DEFINE i == b.code[n + 1]
<1>1. /\ n \in 0..Len(b.code) /\ del \in SUBSET (1..n) /\ av \in Seq(Range(av))
      /\ Entries(b, n, av) /\ Replacements(b, n, del, sub)
  BY DEF Swept
<1>2. Len(b.code) \in Nat
  BY AtPosition
<1>3. /\ av2 \in Seq(Range(av2))
      /\ LeftOrStored(b, av, i, n + 1, av2)
  BY <1>1, ApartEntries
<1>4. ASSUME NEW e \in E0 PROVE e \in Pending(av) /\ e \in 1..n /\ b.code[e].op = "store"
  <2>1. PICK k \in DOMAIN av : FoundDead(b, av, i, k) /\ e = av[k].at
    BY DEF DeadOnes
  <2>2. e \in Pending(av)
    BY <2>1 DEF FoundDead, Pending
  <2> QED
    BY <1>1, <2>2, PendingStore
<1>5. Deleted(b, del2) = Deleted(b, del)
  BY <1>4 DEF Deleted, Both
<1>6. ASSUME NEW e \in Pending(av2) PROVE e = n + 1 \/ e \in Pending(av)
  <2>1. PICK k \in DOMAIN av2 : av2[k].at = e /\ av2[k].at # 0 /\ ~av2[k].maybe_read
    BY DEF Pending
  <2>2. CASE av2[k] = StoredEntry(i, n + 1)
    BY <2>1, <2>2 DEF StoredEntry
  <2>3. CASE \E j \in DOMAIN av : av2[k] = av[j] /\ alias(b, i.ptr, av[j].ptr) = "NoAlias"
    BY <2>1, <2>3 DEF Pending
  <2> QED
    BY <1>3, <2>2, <2>3 DEF LeftOrStored
<1>7. EntryOf(b.code, n + 1, StoredEntry(i, n + 1))
  BY DEF EntryOf, StoredEntry
<1>8. ASSUME NEW k \in DOMAIN av2 PROVE \E q \in 1..(n + 1) : EntryOf(b.code, q, av2[k])
  <2>1. CASE av2[k] = StoredEntry(i, n + 1)
    <3>1. n + 1 \in 1..(n + 1)
      OBVIOUS
    <3> QED
      BY <1>7, <2>1, <3>1
  <2>2. CASE \E j \in DOMAIN av : av2[k] = av[j] /\ alias(b, i.ptr, av[j].ptr) = "NoAlias"
    <3>1. PICK j \in DOMAIN av : av2[k] = av[j]
      BY <2>2
    <3>2. PICK q \in 1..n : EntryOf(b.code, q, av[j])
      BY <1>1 DEF Entries
    <3>3. q \in 1..(n + 1)
      OBVIOUS
    <3> QED
      BY <3>1, <3>2, <3>3
  <2> QED
    BY <1>3, <2>1, <2>2 DEF LeftOrStored
<1>9. Entries(b, n + 1, av2)
  BY <1>8 DEF Entries
<1>10. Replacements(b, n + 1, del2, sub)
  <2>1. Replacements(b, n + 1, del, sub)
    BY <1>1, OneMore
  <2> QED
    BY <1>5, <2>1 DEF Replacements
<1>11. n + 1 \in 0..Len(b.code) /\ del2 \in SUBSET (1..(n + 1))
  <2>1. n + 1 \in 0..Len(b.code)
    BY <1>2
  <2>2. \A e \in del \cup E0 : e \in 1..n
    BY <1>1, <1>4
  <2>3. \A e \in 1..n : e \in 1..(n + 1)
    OBVIOUS
  <2> QED
    BY <2>1, <2>2, <2>3 DEF Both
<1> QED
  BY <1>3, <1>4, <1>5, <1>6, <1>9, <1>10, <1>11 DEF Swept, SameLoads, DeadOf, NewlyPending

\* The bytes that some stores write are among those that more stores write.
LEMMA CoveredBy ==
  ASSUME NEW b, NEW l, NEW E, NEW F
  PROVE  /\ E \subseteq F => Covered(b, l, E) \subseteq Covered(b, l, F)
         /\ Covered(b, l, E \cup F) = Covered(b, l, E) \cup Covered(b, l, F)
         /\ \A e \in F : Range(Bytes(b, l, b.code[e])) \subseteq Covered(b, l, F)
BY DEF Covered

\* A store, which makes the one it overwrites dead.
LEMMA StoreStep ==
  ASSUME NEW b, BlockFormed(b), AccessesFit(b), NEW l, LayoutFormed(b, l),
         NEW n \in Nat, n + 1 \in 1..Len(b.code), b.code[n + 1].op = "store",
         NEW av, NEW del, NEW sub, Swept(b, n, av, del, sub), Simulated(b, l, n, av, del, sub),
         NEW E0, DeadOnes(b, av, b.code[n + 1], E0),
         NEW del2, Both(del, E0, del2), NEW av2, AfterStore(b, av, b.code[n + 1], n + 1, av2)
  PROVE  Simulated(b, l, n + 1, av2, del2, sub)
<1> DEFINE i == b.code[n + 1]
           at == Range(Bytes(b, l, i))
<1>1. /\ n \in 0..Len(b.code) /\ del \in SUBSET (1..n) /\ av \in Seq(Range(av))
      /\ Entries(b, n, av) /\ Replacements(b, n, del, sub)
  BY DEF Swept
<1>2. i \in Accesses(b) /\ DOMAIN b.code = 1..Len(b.code) /\ Len(b.code) \in Nat
  BY AtPosition
<1>3. LeftOrStored(b, av, i, n + 1, av2)
  BY <1>1, ApartEntries
<1>4. /\ Deleted(b, del2) = Deleted(b, del)
      /\ E0 \subseteq Pending(av) /\ \A e \in E0 : e \in 1..n
      /\ \A e \in Pending(av2) : e = n + 1 \/ e \in Pending(av)
  <2>1. SameLoads(b, del, del2) /\ DeadOf(n, av, E0) /\ NewlyPending(n, av, av2)
    BY StoreSwept
  <2> QED
    BY <2>1 DEF SameLoads, DeadOf, NewlyPending
<1> HIDE DEF i
<1>5. ASSUME NEW j \in DOMAIN av
      PROVE  \E q \in 1..n : /\ b.code[q] \in Accesses(b) /\ av[j].ptr = b.code[q].ptr
                             /\ av[j].size = b.code[q].size /\ (av[j].at # 0 => av[j].at = q)
  <2>1. PICK q \in 1..n : EntryOf(b.code, q, av[j])
    BY <1>1 DEF Entries
  <2> QED
    BY <1>1, <2>1, Entry
<1>6. Covered(b, l, E0) \subseteq at
  <2> SUFFICES ASSUME NEW e \in E0 PROVE Range(Bytes(b, l, b.code[e])) \subseteq at
    BY DEF Covered
  <2>1. PICK k \in DOMAIN av : FoundDead(b, av, i, k) /\ e = av[k].at
    BY DEF i, DeadOnes
  <2>2. PICK q \in 1..n : /\ b.code[q] \in Accesses(b) /\ av[k].ptr = b.code[q].ptr
                          /\ av[k].size = b.code[q].size /\ (av[k].at # 0 => av[k].at = q)
    BY <1>5
  <2>3. e = q /\ alias(b, i.ptr, b.code[e].ptr) = "MustAlias" /\ b.code[e].size = i.size
    BY <2>1, <2>2 DEF FoundDead
  <2>4. Address(b, l, i.ptr) = Address(b, l, b.code[e].ptr)
    BY <1>2, <2>2, <2>3, AliasOracleSound
  <2>5. Bytes(b, l, b.code[e]) = Bytes(b, l, i)
    BY <2>3, <2>4 DEF Bytes
  <2> QED
    BY <2>5
<1>7. ASSUME NEW j \in DOMAIN av, alias(b, i.ptr, av[j].ptr) = "NoAlias", NEW m \in 1..av[j].size
      PROVE  Address(b, l, av[j].ptr) + m - 1 \notin at
  <2>1. PICK q \in 1..n : /\ b.code[q] \in Accesses(b) /\ av[j].ptr = b.code[q].ptr
                          /\ av[j].size = b.code[q].size
    BY <1>5
  <2> DEFINE o == b.code[q]
  <2>2. o \in Accesses(b) /\ alias(b, i.ptr, o.ptr) = "NoAlias"
    BY <1>7, <2>1
  <2> HIDE DEF o
  <2>3. at \cap Range(Bytes(b, l, o)) = {}
    BY <1>2, <2>2, AliasOracleSound
  <2>4. Address(b, l, o.ptr) + m - 1 \in Range(Bytes(b, l, o))
    <3>1. /\ o.size \in Nat /\ Address(b, l, o.ptr) \in Int
          /\ Range(Bytes(b, l, o)) = Address(b, l, o.ptr)..(Address(b, l, o.ptr) + o.size - 1)
      BY <2>2, BytesIs
    <3>2. m \in 1..o.size
      BY <2>1 DEF o
    <3> DEFINE a == Address(b, l, o.ptr)
               z == o.size
    <3>3. a \in Int /\ z \in Nat /\ m \in 1..z
      BY <3>1, <3>2
    <3> HIDE DEF a, z
    <3>4. a + m - 1 \in a..(a + z - 1)
      BY <3>3
    <3> QED
      BY <3>1, <3>4 DEF a, z
  <2> QED
    BY <2>1, <2>3, <2>4 DEF o
<1>8. n + 1 \notin del2
  BY <1>1, <1>4 DEF Both
<1>9. Rewritten(b, sub)[n + 1] = Written(sub, i)
  BY <1>2 DEF Rewritten, i
<1> HIDE DEF at
<1> SUFFICES ASSUME NEW s, Ran(b, l, b.code, {}, n + 1, s)
             PROVE  /\ Arrived(b, l, n + 1, av2, del2, sub, s[n + 1])
                    /\ \A E \in SUBSET Pending(av2) : \A t :
                         Ran(b, l, Rewritten(b, sub), del2 \cup E, n + 1, t)
                           /\ Clean(b, n + 1, del2 \cup E, sub) =>
                         Match(b, l, s[n + 1], t[n + 1], E, sub)
  BY DEF Simulated
<1>10. Ran(b, l, b.code, {}, n, s) /\ s[n + 1] = RunOne(b, l, s[n], i)
  <2>1. n + 1 \notin {}
    OBVIOUS
  <2>2. Ran(b, l, b.code, {}, n, s) /\ s[n + 1] = RunOne(b, l, s[n], b.code[n + 1])
    BY <2>1, RanShorter
  <2> QED
    BY <2>2 DEF i
<1>11. /\ Arrived(b, l, n, av, del, sub, s[n])
       /\ \A E \in SUBSET Pending(av) : \A t :
            Ran(b, l, Rewritten(b, sub), del \cup E, n, t) /\ Clean(b, n, del \cup E, sub) =>
              Match(b, l, s[n], t[n], E, sub)
  BY <1>10 DEF Simulated
<1> DEFINE u == RunOne(b, l, s[n], i)
<1>12. /\ IsState(u) /\ DOMAIN u.env = ReadBy(b, n + 1) /\ Forwarded(b, u, del, sub)
       /\ \A r : /\ HoldsAt(b, l, s[n], r)
                 /\ \A m \in 1..r.size : Address(b, l, r.ptr) + m - 1 \notin at
                 => HoldsAt(b, l, u, r)
       /\ \A k : HoldsAt(b, l, u, StoredEntry(i, k))
  BY <1>11, StoreReaches DEF i, at
<1> HIDE DEF u
<1>13. ASSUME NEW k \in DOMAIN av2 PROVE HoldsAt(b, l, u, av2[k])
  <2>1. CASE av2[k] = StoredEntry(i, n + 1)
    BY <1>12, <2>1
  <2>2. CASE \E j \in DOMAIN av : av2[k] = av[j] /\ alias(b, i.ptr, av[j].ptr) = "NoAlias"
    <3>1. PICK j \in DOMAIN av : av2[k] = av[j] /\ alias(b, i.ptr, av[j].ptr) = "NoAlias"
      BY <2>2
    <3>2. HoldsAt(b, l, s[n], av[j])
      BY <1>11 DEF Arrived, Available
    <3> QED
      BY <1>7, <1>12, <3>1, <3>2
  <2> QED
    BY <1>3, <2>1, <2>2 DEF LeftOrStored
<1>14. Arrived(b, l, n + 1, av2, del2, sub, s[n + 1])
  BY <1>4, <1>10, <1>12, <1>13 DEF Arrived, Available, Forwarded, u
<1>15. ASSUME NEW F \in SUBSET Pending(av2), NEW t,
              Ran(b, l, Rewritten(b, sub), del2 \cup F, n + 1, t), Clean(b, n + 1, del2 \cup F, sub)
       PROVE  Match(b, l, s[n + 1], t[n + 1], F, sub)
  <2> DEFINE E == E0 \cup (F \ {n + 1})
             D == del2 \cup F
             G == del \cup E
  <2>1. E \in SUBSET Pending(av)
    BY <1>4
  <2>2. \A m \in 1..n : m \in G <=> m \in D
    BY DEF Both
  <2>3. /\ Ran(b, l, Rewritten(b, sub), D, n + 1, t) /\ Clean(b, n + 1, D, sub)
        /\ (n + 1 \in D <=> n + 1 \in F)
    BY <1>8, <1>15
  <2>4. Covered(b, l, E) \subseteq at \cup Covered(b, l, F)
    <3>1. Covered(b, l, E) = Covered(b, l, E0) \cup Covered(b, l, F \ {n + 1})
      BY CoveredBy
    <3>2. Covered(b, l, F \ {n + 1}) \subseteq Covered(b, l, F)
      BY CoveredBy
    <3> QED
      BY <1>6, <3>1, <3>2
  <2> HIDE DEF D, G, E
  <2>5. /\ Ran(b, l, Rewritten(b, sub), D, n, t)
        /\ t[n + 1] = IF n + 1 \in D THEN t[n] ELSE RunOne(b, l, t[n], Rewritten(b, sub)[n + 1])
    BY <2>3, RanShorter
  <2>6. Ran(b, l, Rewritten(b, sub), G, n, t)
    BY <2>2, <2>5, RanAlike
  <2>7. Clean(b, n, G, sub) /\ (n + 1 \notin D => Used(Written(sub, b.code[n + 1])) \cap DOMAIN sub = {})
    BY <2>2, <2>3, CleanBefore
  <2>8. Match(b, l, s[n], t[n], E, sub)
    BY <1>11, <2>1, <2>6, <2>7 DEF G
  <2>9. CASE n + 1 \in F
    <3>1. at \subseteq Covered(b, l, F)
      BY <2>9, CoveredBy DEF at, i
    <3>2. Covered(b, l, E) \cup at \subseteq Covered(b, l, F)
      BY <2>4, <3>1
    <3>3. i.op = "store" /\ IsState(s[n])
      BY <1>11 DEF Arrived, i
    <3>4. Match(b, l, RunOne(b, l, s[n], i), t[n], F, sub)
      BY <2>8, <3>2, <3>3, MatchLeftOut DEF at
    <3> QED
      BY <1>10, <2>3, <2>5, <2>9, <3>4
  <2>10. CASE n + 1 \notin F
    <3>1. Covered(b, l, E) \subseteq Covered(b, l, F) \cup Range(Bytes(b, l, b.code[n + 1]))
      BY <2>4 DEF at, i
    <3>2. Used(Written(sub, b.code[n + 1])) \cap DOMAIN sub = {}
      BY <2>3, <2>7, <2>10
    <3>3. Match(b, l, RunOne(b, l, s[n], b.code[n + 1]),
                RunOne(b, l, t[n], Written(sub, b.code[n + 1])), F, sub)
      BY <1>1, <1>11, <2>8, <3>1, <3>2, MatchStore
    <3> QED
      BY <1>9, <1>10, <2>3, <2>5, <2>10, <3>3 DEF i
  <2> QED
    BY <2>9, <2>10
<1> QED
  BY <1>14, <1>15

-----------------------------------------------------------------------------
(* A call, and the beginning.                                               *)

\* A call, after which nothing is known of memory.
LEMMA CallSwept ==
  ASSUME NEW b, BlockFormed(b), NEW n \in Nat, n + 1 \in 1..Len(b.code),
         NEW av, NEW del, NEW sub, Swept(b, n, av, del, sub)
  PROVE  Swept(b, n + 1, <<>>, del, sub)
<1>1. n \in 0..Len(b.code) /\ del \in SUBSET (1..n) /\ Replacements(b, n, del, sub)
  BY DEF Swept
<1>2. Len(b.code) \in Nat
  BY AtPosition
<1>3. Replacements(b, n + 1, del, sub)
  BY <1>1, OneMore
<1>4. Entries(b, n + 1, <<>>)
  BY DEF Entries
<1>5. <<>> \in Seq(Range(<<>>))
  OBVIOUS
<1>6. n + 1 \in 0..Len(b.code)
  BY <1>2
<1>7. del \in SUBSET (1..(n + 1))
  <2>1. \A e \in del : e \in 1..n
    BY <1>1
  <2>2. \A e \in 1..n : e \in 1..(n + 1)
    OBVIOUS
  <2> QED
    BY <2>1, <2>2
<1> QED
  BY <1>3, <1>4, <1>5, <1>6, <1>7 DEF Swept

\* A call binds nothing.
LEMMA CallBinds ==
  ASSUME NEW b, NEW l, NEW s, IsState(s), NEW i, i.op = "call"
  PROVE  IsState(RunOne(b, l, s, i)) /\ RunOne(b, l, s, i).env = s.env
<1> DEFINE u == RunOne(b, l, s, i)
<1>1. /\ IsState(u) /\ u.env = s.env /\ u.seen = Append(s.seen, Seen(b, l, s, i))
      /\ \A a : InMemory(b, l, u, a) =
                  IF a \in PrivateBytes(b, l) THEN InMemory(b, l, s, a) ELSE <<Len(u.seen), a>>
  BY RunCall
<1> HIDE DEF u
<1> QED
  BY <1>1 DEF u

\* After a call nothing is available and no store is pending: the runs agree everywhere.
LEMMA CallStep ==
  ASSUME NEW b, BlockFormed(b), NEW l, LayoutFormed(b, l),
         NEW n \in Nat, n + 1 \in 1..Len(b.code), b.code[n + 1].op = "call",
         NEW av, NEW del, NEW sub, Swept(b, n, av, del, sub), Simulated(b, l, n, av, del, sub)
  PROVE  Simulated(b, l, n + 1, <<>>, del, sub)
<1> DEFINE i == b.code[n + 1]
<1>1. n \in 0..Len(b.code) /\ del \in SUBSET (1..n) /\ Replacements(b, n, del, sub)
  BY DEF Swept
<1>2. DOMAIN b.code = 1..Len(b.code) /\ Len(b.code) \in Nat
  BY AtPosition
<1>3. Pending(<<>>) = {}
  BY DEF Pending
<1>4. n + 1 \notin del
  BY <1>1
<1>5. Rewritten(b, sub)[n + 1] = Written(sub, i)
  BY <1>2 DEF Rewritten
<1> SUFFICES ASSUME NEW s, Ran(b, l, b.code, {}, n + 1, s)
             PROVE  /\ Arrived(b, l, n + 1, <<>>, del, sub, s[n + 1])
                    /\ \A E \in SUBSET Pending(<<>>) : \A t :
                         Ran(b, l, Rewritten(b, sub), del \cup E, n + 1, t)
                           /\ Clean(b, n + 1, del \cup E, sub) =>
                         Match(b, l, s[n + 1], t[n + 1], E, sub)
  BY DEF Simulated
<1>6. Ran(b, l, b.code, {}, n, s) /\ s[n + 1] = RunOne(b, l, s[n], i)
  <2>1. n + 1 \notin {}
    OBVIOUS
  <2> HIDE DEF i
  <2>2. Ran(b, l, b.code, {}, n, s) /\ s[n + 1] = RunOne(b, l, s[n], b.code[n + 1])
    BY <2>1, RanShorter
  <2> QED
    BY <2>2 DEF i
<1>7. /\ Arrived(b, l, n, av, del, sub, s[n])
      /\ \A t : Ran(b, l, Rewritten(b, sub), del, n, t) /\ Clean(b, n, del, sub) =>
           Match(b, l, s[n], t[n], {}, sub)
  <2>1. {} \in SUBSET Pending(av) /\ del \cup {} = del
    OBVIOUS
  <2> QED
    BY <1>6, <2>1 DEF Simulated
<1> DEFINE u == RunOne(b, l, s[n], i)
<1>8. IsState(s[n]) /\ DOMAIN s[n].env = ReadBy(b, n) /\ Forwarded(b, s[n], del, sub)
  BY <1>7 DEF Arrived
<1>9. IsState(u) /\ u.env = s[n].env
  <2> DEFINE z == s[n]
  <2>1. IsState(z) /\ i.op = "call"
    BY <1>8
  <2> HIDE DEF z, i
  <2>2. IsState(RunOne(b, l, z, i)) /\ RunOne(b, l, z, i).env = z.env
    BY <2>1, CallBinds
  <2> QED
    BY <2>2 DEF z, i
<1>10. ReadBy(b, n + 1) = ReadBy(b, n)
  BY NotRead
<1> HIDE DEF u
<1>11. Forwarded(b, u, del, sub)
  BY <1>8, <1>9 DEF Forwarded
<1>12. Available(b, l, u, <<>>)
  BY DEF Available
<1>13. Arrived(b, l, n + 1, <<>>, del, sub, s[n + 1])
  BY <1>6, <1>8, <1>9, <1>10, <1>11, <1>12 DEF Arrived, u
<1>14. ASSUME NEW t, Ran(b, l, Rewritten(b, sub), del, n + 1, t), Clean(b, n + 1, del, sub)
       PROVE  Match(b, l, s[n + 1], t[n + 1], {}, sub)
  <2>1. /\ Ran(b, l, Rewritten(b, sub), del, n, t)
        /\ t[n + 1] = IF n + 1 \in del THEN t[n] ELSE RunOne(b, l, t[n], Rewritten(b, sub)[n + 1])
    BY <1>14, RanShorter
  <2>2. /\ Clean(b, n, del, sub)
        /\ n + 1 \notin del => Used(Written(sub, b.code[n + 1])) \cap DOMAIN sub = {}
    BY <1>14, CleanBefore
  <2>3. Match(b, l, s[n], t[n], {}, sub)
    BY <1>7, <2>1, <2>2
  <2>4. Used(Written(sub, b.code[n + 1])) \cap DOMAIN sub = {}
    BY <1>4, <2>2
  <2>5. Match(b, l, RunOne(b, l, s[n], b.code[n + 1]),
              RunOne(b, l, t[n], Written(sub, b.code[n + 1])), {}, sub)
    BY <1>1, <1>7, <2>3, <2>4, MatchCall
  <2> QED
    BY <1>4, <1>5, <1>6, <2>1, <2>5
<1>15. ASSUME NEW E \in SUBSET Pending(<<>>), NEW t,
              Ran(b, l, Rewritten(b, sub), del \cup E, n + 1, t), Clean(b, n + 1, del \cup E, sub)
       PROVE  Match(b, l, s[n + 1], t[n + 1], E, sub)
  <2>1. E = {}
    BY <1>3
  <2>2. del \cup E = del
    BY <2>1
  <2> QED
    BY <1>14, <1>15, <2>1, <2>2
<1> QED
  BY <1>13, <1>15

\* Nothing has been looked at.
LEMMA SweepBegins ==
  ASSUME NEW b, BlockFormed(b)
  PROVE  Sweep(b, 0, <<>>, {}, [x \in {} |-> 0])
<1> DEFINE sub == [x \in {} |-> 0]
<1>1. Len(b.code) \in Nat
  BY DEF BlockFormed
<1>2. Deleted(b, {}) = {} /\ DOMAIN sub = {}
  BY DEF Deleted
<1>3. Swept(b, 0, <<>>, {}, sub)
  <2>1. Replacements(b, 0, {}, sub)
    BY <1>2 DEF Replacements
  <2>2. Entries(b, 0, <<>>)
    BY DEF Entries
  <2>3. <<>> \in Seq(Range(<<>>)) /\ 0 \in 0..Len(b.code) /\ {} \in SUBSET (1..0)
    BY <1>1
  <2> QED
    BY <2>1, <2>2, <2>3 DEF Swept
<1>4. ASSUME NEW l, NEW s, Ran(b, l, b.code, {}, 0, s)
      PROVE  /\ Arrived(b, l, 0, <<>>, {}, sub, s[0])
             /\ \A E \in SUBSET Pending(<<>>) : \A t :
                  Ran(b, l, Rewritten(b, sub), {} \cup E, 0, t) /\ Clean(b, 0, {} \cup E, sub) =>
                    Match(b, l, s[0], t[0], E, sub)
  <2>1. s[0] = Start
    BY <1>4 DEF Ran
  <2>2. IsState(Start) /\ DOMAIN Start.env = {}
    BY DEF Start, IsState
  <2>3. ReadBy(b, 0) = {}
    <3>1. 1..0 = {}
      OBVIOUS
    <3> QED
      BY <3>1 DEF ReadBy
  <2>4. Available(b, l, Start, <<>>)
    BY DEF Available
  <2>5. Forwarded(b, Start, {}, sub)
    BY <1>2 DEF Forwarded
  <2>6. Arrived(b, l, 0, <<>>, {}, sub, s[0])
    BY <2>1, <2>2, <2>3, <2>4, <2>5 DEF Arrived
  <2>7. ASSUME NEW E, NEW t, Ran(b, l, Rewritten(b, sub), E, 0, t) PROVE Match(b, l, s[0], t[0], E, sub)
    <3>1. t[0] = Start
      BY <2>7 DEF Ran
    <3> QED
      BY <1>2, <2>1, <2>2, <3>1 DEF Match
  <2>8. \A E : {} \cup E = E
    OBVIOUS
  <2> QED
    BY <2>6, <2>7, <2>8
<1>5. \A l : Simulated(b, l, 0, <<>>, {}, sub)
  BY <1>4 DEF Simulated
<1> QED
  BY <1>3, <1>5 DEF Sweep

-----------------------------------------------------------------------------
(* What is kept, and its run.                                               *)

\* c[j] of the instructions up to the jth are kept, and kept says which.
PlacedBy(N, del, kept, c) ==
  /\ kept \in Seq(1..N) /\ c[0] = 0 /\ c[N] = Len(kept)
  /\ \A j \in 1..N :
       /\ c[j - 1] \in Nat
       /\ j \in del => c[j] = c[j - 1]
       /\ j \notin del => c[j] = c[j - 1] + 1 /\ c[j] \in 1..Len(kept) /\ kept[c[j]] = j

\* s is the beginning of t.
Heads(s, t) == Len(s) <= Len(t) /\ \A q \in 1..Len(s) : s[q] = t[q]
\* A sequence begins with itself.
LEMMA HeadsItself == ASSUME NEW s, Len(s) \in Nat PROVE Heads(s, s)
BY DEF Heads
\* What begins with s and one more begins with s, and has the one more after it.
LEMMA HeadsBefore ==
  ASSUME NEW T, NEW y \in Seq(T), NEW j \in T, NEW t \in Seq(T), Heads(Append(y, j), t)
  PROVE  /\ Heads(y, t) /\ Len(Append(y, j)) = Len(y) + 1 /\ Len(y) \in Nat
         /\ Len(Append(y, j)) \in 1..Len(t) /\ t[Len(Append(y, j))] = j
<1> DEFINE x == Append(y, j)
<1>1. x \in Seq(T) /\ Len(x) = Len(y) + 1 /\ Len(y) \in Nat /\ Len(t) \in Nat /\ x[Len(y) + 1] = j
      /\ \A q \in 1..Len(y) : x[q] = y[q]
  OBVIOUS
<1>2. Len(x) <= Len(t) /\ \A q \in 1..Len(x) : x[q] = t[q]
  BY DEF Heads
<1> HIDE DEF x
<1>3. Len(x) \in 1..Len(x) /\ Len(x) \in 1..Len(t) /\ Len(y) <= Len(t)
  BY <1>1, <1>2
<1>4. t[Len(x)] = j
  BY <1>1, <1>2, <1>3
<1>5. ASSUME NEW q \in 1..Len(y) PROVE y[q] = t[q]
  <2>1. q \in 1..Len(x)
    BY <1>1
  <2> QED
    BY <1>1, <1>2, <2>1
<1> QED
  BY <1>1, <1>3, <1>4, <1>5 DEF Heads, x

\* Where the instructions that are kept come to stand.
LEMMA Positions ==
  ASSUME NEW N \in Nat, NEW del, NEW L, L = [n \in 1..N |-> n], NEW kept, kept = Those(L, (1..N) \ del)
  PROVE  \E c : PlacedBy(N, del, kept, c)
<1> DEFINE S0 == (1..N) \ del
<1>1. DOMAIN L = 1..N /\ L \in Seq(1..N) /\ \A j \in 1..N : L[j] = j
  OBVIOUS
<1> HIDE DEF S0
<1>2. PICK k : Collected(L, S0, N, k)
  BY <1>1, ThoseSteps
<1>20. /\ k[0] = <<>>
       /\ \A j \in 1..N : k[j] = (IF L[j] \in S0 THEN Append(k[j - 1], L[j]) ELSE k[j - 1])
       /\ Those(L, S0) = k[N]
  BY <1>2 DEF Collected
<1>3. \A j \in 1..N : k[j] = IF j \in del THEN k[j - 1] ELSE Append(k[j - 1], j)
  BY <1>1, <1>20 DEF S0
<1>4. kept = k[N]
  BY <1>20 DEF S0
<1> DEFINE G == {j \in 0..N : k[j] \in Seq(1..N)}
<1>5. \A j \in 0..N : j \in G
  <2>1. 0 \in G
    <3>1. k[0] \in Seq(1..N)
      BY <1>20
    <3> QED
      BY <3>1
  <2>2. ASSUME NEW j \in 1..N, j - 1 \in G PROVE j \in G
    <3>1. k[j - 1] \in Seq(1..N)
      BY <2>2
    <3> DEFINE y == k[j - 1]
           x == k[j]
           T == 1..N
    <3>3. y \in Seq(T) /\ j \in T /\ (x = y \/ x = Append(y, j))
      BY <1>3, <3>1
    <3> HIDE DEF x, y, T
    <3>2. x \in Seq(T)
      BY <3>3
    <3> QED
      BY <3>2 DEF x, T
  <2> HIDE DEF G
  <2> QED
    BY <2>1, <2>2, UpTo
<1>6. \A j \in 0..N : k[j] \in Seq(1..N) /\ Len(k[j]) \in Nat
  BY <1>5
<1> HIDE DEF G
<1> DEFINE H == {m \in 0..N : Heads(k[N - m], kept)}
<1>7. \A m \in 0..N : m \in H
  <2>1. 0 \in H
    <3>1. N \in 0..N /\ N - 0 = N /\ 0 \in 0..N
      OBVIOUS
    <3>2. Len(k[N]) \in Nat
      BY <1>6, <3>1
    <3>3. Heads(k[N], k[N])
      BY <3>2, HeadsItself
    <3> QED
      BY <1>4, <3>1, <3>3
  <2>2. ASSUME NEW m \in 1..N, m - 1 \in H PROVE m \in H
    <3> DEFINE j == N - m + 1
    <3>1. j \in 1..N /\ N - (m - 1) = j /\ N - m = j - 1 /\ j - 1 \in 0..N /\ j \in 0..N /\ m \in 0..N /\ N \in 0..N
      OBVIOUS
    <3>2. Heads(k[j], kept)
      BY <2>2, <3>1
    <3> HIDE DEF j
    <3>3. k[j] \in Seq(1..N) /\ k[j - 1] \in Seq(1..N) /\ kept \in Seq(1..N)
      BY <1>4, <1>6, <3>1
    <3>4. k[j] = IF j \in del THEN k[j - 1] ELSE Append(k[j - 1], j)
      BY <1>3, <3>1
    <3>5. CASE j \in del
      BY <3>1, <3>2, <3>4, <3>5
    <3>6. CASE j \notin del
      <4>1. Heads(Append(k[j - 1], j), kept)
        BY <3>2, <3>4, <3>6
      <4>2. Heads(k[j - 1], kept)
        BY <3>1, <3>3, <4>1, HeadsBefore
      <4> QED
        BY <3>1, <4>2
    <3> QED
      BY <3>5, <3>6
  <2> HIDE DEF H
  <2> QED
    BY <2>1, <2>2, UpTo
<1>8. ASSUME NEW j \in 0..N PROVE Heads(k[j], kept)
  <2>1. N - j \in 0..N /\ N - (N - j) = j
    OBVIOUS
  <2>2. N - j \in H
    BY <1>7, <2>1
  <2> QED
    BY <2>1, <2>2
<1> HIDE DEF H
<1> DEFINE c == [j \in 0..N |-> Len(k[j])]
<1>9. kept \in Seq(1..N) /\ c[0] = 0 /\ c[N] = Len(kept)
  <2>1. N \in 0..N /\ 0 \in 0..N
    OBVIOUS
  <2> QED
    BY <1>20, <1>4, <1>6, <2>1
<1>10. ASSUME NEW j \in 1..N
       PROVE  /\ c[j - 1] \in Nat
              /\ j \in del => c[j] = c[j - 1]
              /\ j \notin del => c[j] = c[j - 1] + 1 /\ c[j] \in 1..Len(kept) /\ kept[c[j]] = j
  <2>1. j \in 0..N /\ j - 1 \in 0..N
    OBVIOUS
  <2>2. c[j] = Len(k[j]) /\ c[j - 1] = Len(k[j - 1])
    BY <2>1
  <2>3. k[j] \in Seq(1..N) /\ k[j - 1] \in Seq(1..N) /\ Heads(k[j], kept)
    BY <1>6, <1>8, <2>1
  <2> HIDE DEF c
  <2>4. CASE j \in del
    BY <1>3, <1>6, <2>1, <2>2, <2>4
  <2>5. CASE j \notin del
    <3>1. k[j] = Append(k[j - 1], j) /\ Heads(Append(k[j - 1], j), kept)
      BY <1>3, <2>3, <2>5
    <3> DEFINE y == k[j - 1]
           T == 1..N
    <3>2. y \in Seq(T) /\ kept \in Seq(T) /\ j \in T /\ Heads(Append(y, j), kept)
      BY <1>9, <2>3, <3>1
    <3>3. k[j] = Append(y, j) /\ c[j] = Len(k[j]) /\ c[j - 1] = Len(y)
      BY <2>2, <3>1
    <3> HIDE DEF y, T
    <3>4. /\ Heads(y, kept) /\ Len(Append(y, j)) = Len(y) + 1 /\ Len(y) \in Nat
          /\ Len(Append(y, j)) \in 1..Len(kept) /\ kept[Len(Append(y, j))] = j
      BY <3>2, HeadsBefore
    <3> QED
      BY <2>5, <3>3, <3>4
  <2> QED
    BY <2>4, <2>5
<1> HIDE DEF c
<1> QED
  BY <1>9, <1>10 DEF PlacedBy

\* Each instruction in turn.
LEMMA RunAll ==
  ASSUME NEW N \in Nat, NEW L, DOMAIN L = 1..N, NEW b, NEW l
  PROVE  \E h : Ran(b, l, L, {}, N, h) /\ RanThrough(b, l, L) = h[N]
<1>1. PICK h : /\ h[0] = Start /\ \A j \in 1..N : h[j] = RunOne(b, l, h[j - 1], L[j])
               /\ RanThrough(b, l, L) = h[N]
  BY RunSteps
<1>2. \A j \in 1..N : j \notin {}
  OBVIOUS
<1>3. Ran(b, l, L, {}, N, h)
  BY <1>1, <1>2 DEF Ran
<1> QED
  BY <1>1, <1>3

\* work has the instructions of c at the positions kept.
TakenFrom(work, c, kept) == \A q \in 1..Len(kept) : work[q] = c[kept[q]]
\* A run of c without D ends in u.
CanRun(b, l, c, D, N, u) == \E t : Ran(b, l, c, D, N, t) /\ t[N] = u

\* The run of what is kept is the run that leaves out the rest.
LEMMA KeptRuns ==
  ASSUME NEW b, NEW l, NEW N \in Nat, NEW c, NEW del, NEW kept, NEW p, PlacedBy(N, del, kept, p),
         NEW work, TakenFrom(work, c, kept), NEW h, Ran(b, l, work, {}, Len(kept), h)
  PROVE  CanRun(b, l, c, del, N, h[Len(kept)])
<1> DEFINE M == Len(kept)
           t == [j \in 0..N |-> h[p[j]]]
<1>1. t[0] = Start
  BY DEF PlacedBy, Ran
<1>2. t[N] = h[M]
  BY DEF PlacedBy
<1>3. ASSUME NEW j \in 1..N
      PROVE  t[j] = IF j \in del THEN t[j - 1] ELSE RunOne(b, l, t[j - 1], c[j])
  <2>1. t[j] = h[p[j]] /\ t[j - 1] = h[p[j - 1]]
    OBVIOUS
  <2>2. CASE j \in del
    BY <2>1, <2>2 DEF PlacedBy
  <2>3. CASE j \notin del
    <3> DEFINE q == p[j]
               r == p[j - 1]
    <3>1. q = r + 1 /\ r \in Nat /\ q \in 1..M /\ kept[q] = j
      BY <2>3 DEF PlacedBy
    <3>2. t[j] = h[q] /\ t[j - 1] = h[r] /\ work[q] = c[j]
      BY <2>1, <3>1 DEF TakenFrom
    <3> HIDE DEF t, q, r
    <3>3. q \notin {} /\ q - 1 = r
      BY <3>1
    <3>4. h[q] = RunOne(b, l, h[q - 1], work[q])
      BY <3>1, <3>3 DEF Ran
    <3> QED
      BY <2>3, <3>2, <3>3, <3>4
  <2> QED
    BY <2>2, <2>3
<1> HIDE DEF t
<1>4. Ran(b, l, c, del, N, t)
  BY <1>1, <1>3 DEF Ran
<1> QED
  BY <1>2, <1>4 DEF CanRun

\* Substituted and the names that are lost, for a block and what was decided.
LostNames(b, del) == {b.code[n].name : n \in {m \in del : b.code[m].op = "load"}}
\* The positions that are kept,
KeptOf(b, del) == Those([n \in DOMAIN b.code |-> n], DOMAIN b.code \ del)
\* and the instructions there, with their values replaced.
WorkOf(b, del, sub) == [n \in DOMAIN KeptOf(b, del) |-> Written(sub, b.code[KeptOf(b, del)[n]])]

\* At the end, what is left shows what the block does.
LEMMA EndShows ==
  ASSUME NEW b, BlockFormed(b), NEW l, NEW N, N = Len(b.code), NEW av, NEW del, NEW sub,
         Swept(b, N, av, del, sub), Simulated(b, l, N, av, del, sub),
         \A i \in Range(WorkOf(b, del, sub)) : Used(i) \cap LostNames(b, del) = {}
  PROVE  RanThrough(b, l, WorkOf(b, del, sub)).seen = RanThrough(b, l, b.code).seen
<1> DEFINE L == [n \in 1..N |-> n]
           kept == KeptOf(b, del)
           work == WorkOf(b, del, sub)
           M == Len(kept)
<1>1. N \in Nat /\ DOMAIN b.code = 1..N
  BY DEF BlockFormed
<1>2. kept = Those(L, (1..N) \ del)
  BY <1>1 DEF KeptOf
<1> HIDE DEF kept, L
<1>3. PICK p : PlacedBy(N, del, kept, p)
  BY <1>1, <1>2, Positions DEF L
<1>4. M \in Nat /\ DOMAIN kept = 1..M
  BY <1>3 DEF PlacedBy
<1> HIDE DEF M
<1>5. DOMAIN work = 1..M /\ \A q \in 1..M : work[q] = Written(sub, b.code[kept[q]])
  BY <1>4 DEF WorkOf, kept
<1>6. \A q \in 1..M : work[q] = Rewritten(b, sub)[kept[q]]
  <2>1. \A q \in 1..M : kept[q] \in DOMAIN b.code
    BY <1>1, <1>3, <1>4 DEF PlacedBy
  <2> HIDE DEF work
  <2> QED
    BY <1>5, <2>1 DEF Rewritten
<1>7. LostNames(b, del) = DOMAIN sub
  BY DEF Swept, Replacements, Deleted, LostNames
<1> HIDE DEF work
<1>8. ASSUME NEW m \in (1..N) \ del PROVE Used(Written(sub, b.code[m])) \cap DOMAIN sub = {}
  <2>1. p[m] \in 1..M /\ kept[p[m]] = m
    BY <1>3 DEF PlacedBy, M
  <2>2. work[p[m]] \in Range(work) /\ work[p[m]] = Written(sub, b.code[m])
    BY <1>5, <2>1 DEF Range
  <2> QED
    BY <1>7, <2>2 DEF work
<1>9. Clean(b, N, del, sub)
  BY <1>8 DEF Clean
<1>10. PICK s : Ran(b, l, b.code, {}, N, s) /\ RanThrough(b, l, b.code) = s[N]
  BY <1>1, RunAll
<1>11. PICK h : Ran(b, l, work, {}, M, h) /\ RanThrough(b, l, work) = h[M]
  BY <1>4, <1>5, RunAll
<1> HIDE DEF work
<1>12. PICK t : Ran(b, l, Rewritten(b, sub), del, N, t) /\ t[N] = h[M]
  <2> DEFINE c == Rewritten(b, sub)
  <2>1. TakenFrom(work, c, kept)
    BY <1>6 DEF TakenFrom, M
  <2>2. Ran(b, l, work, {}, Len(kept), h)
    BY <1>11 DEF M
  <2> HIDE DEF c
  <2>3. CanRun(b, l, c, del, N, h[Len(kept)])
    BY <1>1, <1>3, <2>1, <2>2, KeptRuns
  <2> QED
    BY <2>3 DEF c, M, CanRun
<1>13. Match(b, l, s[N], t[N], {}, sub)
  <2>1. {} \in SUBSET Pending(av) /\ del \cup {} = del
    OBVIOUS
  <2> QED
    BY <1>9, <1>10, <1>12, <2>1 DEF Simulated
<1> QED
  BY <1>10, <1>11, <1>12, <1>13 DEF Match, work

-----------------------------------------------------------------------------
(* The invariant, and the steps that keep it.                               *)

\* The same for every layout: a load that stays.
LEMMA KeptLoad ==
  ASSUME NEW b \in Programs, AccessesFit(b), NEW n \in Nat, n + 1 \in 1..Len(b.code),
         b.code[n + 1].op = "load", NEW av, NEW del, NEW sub, Sweep(b, n, av, del, sub),
         NEW av2, av2 = Append(Marked(b, av, b.code[n + 1]), ReadEntry(b.code[n + 1]))
  PROVE  Sweep(b, n + 1, av2, del, sub)
<1>1. BlockFormed(b) /\ \A l \in Layouts(b) : LayoutFormed(b, l)
  BY MemoryAssumption
<1>2. Swept(b, n, av, del, sub) /\ \A l \in Layouts(b) : Simulated(b, l, n, av, del, sub)
  BY DEF Sweep
<1>3. Swept(b, n + 1, av2, del, sub)
  BY <1>1, <1>2, KeptLoadSwept
<1>4. ASSUME NEW l \in Layouts(b) PROVE Simulated(b, l, n + 1, av2, del, sub)
  <2>1. LayoutFormed(b, l) /\ Simulated(b, l, n, av, del, sub)
    BY <1>1, <1>2
  <2> QED
    BY <1>1, <1>2, <2>1, KeptLoadStep
<1> QED
  BY <1>3, <1>4 DEF Sweep

\* A load that is deleted.
LEMMA ForwardedLoad ==
  ASSUME NEW b \in Programs, AccessesFit(b), NEW n \in Nat, n + 1 \in 1..Len(b.code),
         b.code[n + 1].op = "load", NEW av, NEW del, NEW sub, Sweep(b, n, av, del, sub),
         NEW k \in DOMAIN av, alias(b, b.code[n + 1].ptr, av[k].ptr) = "MustAlias",
         av[k].size = b.code[n + 1].size,
         NEW del2, del2 = del \cup {n + 1}, NEW sub2, sub2 = Bind(sub, b.code[n + 1].name, av[k].value)
  PROVE  Sweep(b, n + 1, av, del2, sub2)
<1>1. BlockFormed(b) /\ \A l \in Layouts(b) : LayoutFormed(b, l)
  BY MemoryAssumption
<1>2. Swept(b, n, av, del, sub) /\ \A l \in Layouts(b) : Simulated(b, l, n, av, del, sub)
  BY DEF Sweep
<1>3. Swept(b, n + 1, av, del2, sub2)
  BY <1>1, <1>2, ForwardedSwept
<1>4. ASSUME NEW l \in Layouts(b) PROVE Simulated(b, l, n + 1, av, del2, sub2)
  <2>1. LayoutFormed(b, l) /\ Simulated(b, l, n, av, del, sub)
    BY <1>1, <1>2
  <2> QED
    BY <1>1, <1>2, <2>1, ForwardedStep
<1> QED
  BY <1>3, <1>4 DEF Sweep

\* A store.
LEMMA Store ==
  ASSUME NEW b \in Programs, AccessesFit(b), NEW n \in Nat, n + 1 \in 1..Len(b.code),
         b.code[n + 1].op = "store", NEW av, NEW del, NEW sub, Sweep(b, n, av, del, sub),
         NEW E0, DeadOnes(b, av, b.code[n + 1], E0),
         NEW del2, Both(del, E0, del2), NEW av2, AfterStore(b, av, b.code[n + 1], n + 1, av2)
  PROVE  Sweep(b, n + 1, av2, del2, sub)
<1>1. BlockFormed(b) /\ \A l \in Layouts(b) : LayoutFormed(b, l)
  BY MemoryAssumption
<1>2. Swept(b, n, av, del, sub) /\ \A l \in Layouts(b) : Simulated(b, l, n, av, del, sub)
  BY DEF Sweep
<1>3. Swept(b, n + 1, av2, del2, sub)
  BY <1>1, <1>2, StoreSwept
<1>4. ASSUME NEW l \in Layouts(b) PROVE Simulated(b, l, n + 1, av2, del2, sub)
  <2>1. LayoutFormed(b, l) /\ Simulated(b, l, n, av, del, sub)
    BY <1>1, <1>2
  <2> QED
    BY <1>1, <1>2, <2>1, StoreStep
<1> QED
  BY <1>3, <1>4 DEF Sweep

\* A call.
LEMMA Call ==
  ASSUME NEW b \in Programs, NEW n \in Nat, n + 1 \in 1..Len(b.code),
         b.code[n + 1].op = "call", NEW av, NEW del, NEW sub, Sweep(b, n, av, del, sub)
  PROVE  Sweep(b, n + 1, <<>>, del, sub)
<1>1. BlockFormed(b) /\ \A l \in Layouts(b) : LayoutFormed(b, l)
  BY MemoryAssumption
<1>2. Swept(b, n, av, del, sub) /\ \A l \in Layouts(b) : Simulated(b, l, n, av, del, sub)
  BY DEF Sweep
<1>3. Swept(b, n + 1, <<>>, del, sub)
  BY <1>1, <1>2, CallSwept
<1>4. ASSUME NEW l \in Layouts(b) PROVE Simulated(b, l, n + 1, <<>>, del, sub)
  <2>1. LayoutFormed(b, l) /\ Simulated(b, l, n, av, del, sub)
    BY <1>1, <1>2
  <2> QED
    BY <1>1, <1>2, <2>1, CallStep
<1> QED
  BY <1>3, <1>4 DEF Sweep

\* What calls saw is what the last state of the run says.
LEMMA ObservedIs ==
  ASSUME NEW b, NEW l, NEW code
  PROVE  Observed(b, l, code) = RanThrough(b, l, code).seen
BY DEF Observed, RanThrough, Start

\* The invariant.
MemInv ==
  /\ block \in Programs /\ next \in Nat \ {0}
  /\ result = <<>> => Sweep(block, next - 1, avail, to_delete, subst)
  /\ MemoryKept

\* The invariant holds before anything is looked at.
LEMMA MemInvInit == MemInit => MemInv
<1> SUFFICES ASSUME MemInit PROVE MemInv
  OBVIOUS
<1>1. /\ block \in Programs /\ next = 1 /\ avail = <<>> /\ to_delete = {}
      /\ subst = [x \in {} |-> 0] /\ result = <<>>
  BY DEF MemInit
<1>2. BlockFormed(block)
  BY <1>1, MemoryAssumption
<1>3. Sweep(block, 0, <<>>, {}, [x \in {} |-> 0])
  BY <1>2, SweepBegins
<1>4. next - 1 = 0
  BY <1>1
<1>5. Sweep(block, next - 1, avail, to_delete, subst)
  BY <1>1, <1>3, <1>4
<1>6. MemoryKept
  BY <1>1 DEF MemoryKept
<1> QED
  BY <1>1, <1>5, <1>6 DEF MemInv

\* The instruction that a step is at.
LEMMA Position ==
  ASSUME MemInv, result = <<>>, next <= Len(block.code)
  PROVE  /\ block \in Programs /\ next - 1 \in Nat /\ (next - 1) + 1 = next /\ next \in Nat
         /\ next \in 1..Len(block.code)
         /\ Sweep(block, next - 1, avail, to_delete, subst)
         /\ Len(avail) \in Nat /\ DOMAIN avail = 1..Len(avail)
<1>1. block \in Programs /\ next \in Nat \ {0}
  BY DEF MemInv
<1>2. Sweep(block, next - 1, avail, to_delete, subst)
  BY DEF MemInv
<1>3. avail \in Seq(Range(avail))
  BY <1>2 DEF Sweep, Swept
<1>4. Len(avail) \in Nat /\ DOMAIN avail = 1..Len(avail)
  BY <1>3
<1>5. BlockFormed(block)
  BY <1>1, MemoryAssumption
<1>6. Len(block.code) \in Nat
  BY <1>5 DEF BlockFormed
<1> QED
  BY <1>1, <1>2, <1>4, <1>6

\* It is kept by a load, whether it stays or takes a value,
LEMMA MemLoadStep ==
  ASSUME MemInv, \A b \in Programs : AccessesFit(b), MemLoad
  PROVE  MemInv'
<1> DEFINE n == next - 1
           i == block.code[n + 1]
<1>1. /\ Here.op = "load" /\ next <= Len(block.code) /\ next' = next + 1
      /\ LoadFrom(Forwardable) /\ block' = block /\ result' = result /\ result = <<>>
  BY DEF MemLoad, At
<1>2. /\ block \in Programs /\ n \in Nat /\ n + 1 = next /\ next' - 1 = n + 1 /\ next' \in Nat \ {0}
      /\ n + 1 \in 1..Len(block.code) /\ Here = i /\ i.op = "load"
      /\ Sweep(block, n, avail, to_delete, subst)
      /\ Len(avail) \in Nat /\ DOMAIN avail = 1..Len(avail)
  <2>1. /\ block \in Programs /\ n \in Nat /\ n + 1 = next /\ next \in Nat
        /\ next \in 1..Len(block.code)
        /\ Sweep(block, n, avail, to_delete, subst)
        /\ Len(avail) \in Nat /\ DOMAIN avail = 1..Len(avail)
    BY <1>1, Position
  <2> HIDE DEF n
  <2> QED
    BY <1>1, <2>1 DEF Here
<1>3. AccessesFit(block)
  BY <1>2
<1> HIDE DEF n
<1>4. Sweep(block, n + 1, avail', to_delete', subst')
  <2>1. CASE Forwardable # {}
    <3> DEFINE k == Min(Forwardable)
    <3>1. k \in Forwardable
      <4>1. Forwardable \in SUBSET (1..Len(avail))
        BY <1>2 DEF Forwardable
      <4>2. 1 \in Nat
        OBVIOUS
      <4> QED
        BY <1>2, <2>1, <4>1, <4>2, HasFirst
    <3>2. k \in DOMAIN avail /\ alias(block, i.ptr, avail[k].ptr) = "MustAlias" /\ avail[k].size = i.size
      BY <1>2, <3>1 DEF Forwardable, Alias
    <3>3. /\ subst' = Bind(subst, i.name, avail[k].value)
          /\ to_delete' = to_delete \cup {n + 1} /\ avail' = avail
      BY <1>1, <1>2, <2>1 DEF LoadFrom
    <3> HIDE DEF k
    <3>4. Sweep(block, n + 1, avail, to_delete', subst')
      BY <1>2, <1>3, <3>2, <3>3, ForwardedLoad
    <3> QED
      BY <3>3, <3>4
  <2>2. CASE Forwardable = {}
    <3>1. /\ avail' = Append(
               [k \in DOMAIN avail |->
                  IF avail[k].at # 0 /\ Alias(avail[k]) # "NoAlias"
                  THEN [avail[k] EXCEPT !.maybe_read = TRUE] ELSE avail[k]],
               [ptr |-> Here.ptr, value |-> Here.name, size |-> Here.size,
                at |-> 0, maybe_read |-> FALSE])
          /\ to_delete' = to_delete /\ subst' = subst
      BY <1>1, <2>2 DEF LoadFrom
    <3>2. avail' = Append(Marked(block, avail, i), ReadEntry(i))
      BY <1>2, <3>1 DEF Marked, ReadEntry, Alias
    <3>3. Sweep(block, n + 1, avail', to_delete, subst)
      BY <1>2, <1>3, <3>2, KeptLoad
    <3> QED
      BY <3>1, <3>3
  <2> QED
    BY <2>1, <2>2
<1>5. Sweep(block, next - 1, avail, to_delete, subst)'
  BY <1>1, <1>2, <1>4
<1>6. MemoryKept'
  BY <1>1 DEF MemoryKept
<1> QED
  BY <1>1, <1>2, <1>5, <1>6 DEF MemInv

\* by a store, with the store it makes dead,
LEMMA MemStoreStep ==
  ASSUME MemInv, \A b \in Programs : AccessesFit(b), MemStore
  PROVE  MemInv'
<1> DEFINE n == next - 1
           i == block.code[n + 1]
           E0 == FirstOf(Overwritten)
<1>1. /\ Here.op = "store" /\ next <= Len(block.code) /\ next' = next + 1
      /\ block' = block /\ result' = result /\ result = <<>>
      /\ to_delete' = to_delete \cup E0 /\ subst' = subst
      /\ avail' = Append(Those(avail, {r \in Range(avail) : Alias(r) = "NoAlias"}),
                         [ptr |-> Here.ptr, value |-> Here.val, size |-> Here.size,
                          at |-> next, maybe_read |-> FALSE])
  BY DEF MemStore, At
<1>2. /\ block \in Programs /\ n \in Nat /\ n + 1 = next /\ next' - 1 = n + 1 /\ next' \in Nat \ {0}
      /\ n + 1 \in 1..Len(block.code) /\ Here = i /\ i.op = "store"
      /\ Sweep(block, n, avail, to_delete, subst)
      /\ Len(avail) \in Nat /\ DOMAIN avail = 1..Len(avail)
  <2>1. /\ block \in Programs /\ n \in Nat /\ n + 1 = next /\ next \in Nat
        /\ next \in 1..Len(block.code)
        /\ Sweep(block, n, avail, to_delete, subst)
        /\ Len(avail) \in Nat /\ DOMAIN avail = 1..Len(avail)
    BY <1>1, Position
  <2> HIDE DEF n
  <2> QED
    BY <1>1, <2>1 DEF Here
<1>3. AccessesFit(block)
  BY <1>2
<1> HIDE DEF n
<1>4. DeadOnes(block, avail, i, E0)
  <2>1. CASE Overwritten = {}
    BY <2>1 DEF DeadOnes, FirstOf
  <2>2. CASE Overwritten # {}
    <3> DEFINE k == Min(Overwritten)
    <3>1. k \in Overwritten
      <4>1. Overwritten \in SUBSET (1..Len(avail))
        BY <1>2 DEF Overwritten
      <4>2. 1 \in Nat
        OBVIOUS
      <4> QED
        BY <1>2, <2>2, <4>1, <4>2, HasFirst
    <3>2. k \in DOMAIN avail /\ FoundDead(block, avail, i, k)
      BY <1>2, <3>1 DEF Overwritten, Alias, FoundDead
    <3>3. E0 = {avail[k].at}
      BY <2>2 DEF FirstOf
    <3> HIDE DEF k, E0
    <3> QED
      BY <3>2, <3>3 DEF DeadOnes
  <2> QED
    BY <2>1, <2>2
<1>5. AfterStore(block, avail, i, n + 1, avail')
  BY <1>1, <1>2 DEF AfterStore, Apart, StoredEntry, Alias
<1>6. Both(to_delete, E0, to_delete')
  BY <1>1 DEF Both
<1>7. Sweep(block, n + 1, avail', to_delete', subst)
  <2> HIDE DEF E0
  <2> QED
    BY <1>2, <1>3, <1>4, <1>5, <1>6, Store
<1>8. Sweep(block, next - 1, avail, to_delete, subst)'
  BY <1>1, <1>2, <1>7
<1>9. MemoryKept'
  BY <1>1 DEF MemoryKept
<1> QED
  BY <1>1, <1>2, <1>8, <1>9 DEF MemInv

\* by a call,
LEMMA MemBarrierStep ==
  ASSUME MemInv, MemBarrier
  PROVE  MemInv'
<1> DEFINE n == next - 1
<1>1. /\ Here.op = "call" /\ next <= Len(block.code) /\ next' = next + 1
      /\ block' = block /\ result' = result /\ result = <<>>
      /\ to_delete' = to_delete /\ subst' = subst /\ avail' = <<>>
  BY DEF MemBarrier, At
<1>2. /\ block \in Programs /\ n \in Nat /\ n + 1 = next /\ next' - 1 = n + 1 /\ next' \in Nat \ {0}
      /\ n + 1 \in 1..Len(block.code) /\ block.code[n + 1].op = "call"
      /\ Sweep(block, n, avail, to_delete, subst)
  <2>1. /\ block \in Programs /\ n \in Nat /\ n + 1 = next /\ next \in Nat
        /\ next \in 1..Len(block.code)
        /\ Sweep(block, n, avail, to_delete, subst)
        /\ Len(avail) \in Nat /\ DOMAIN avail = 1..Len(avail)
    BY <1>1, Position
  <2> HIDE DEF n
  <2> QED
    BY <1>1, <2>1 DEF Here
<1> HIDE DEF n
<1>3. Sweep(block, n + 1, <<>>, to_delete, subst)
  BY <1>2, Call
<1>4. Sweep(block, next - 1, avail, to_delete, subst)'
  BY <1>1, <1>2, <1>3
<1>5. MemoryKept'
  BY <1>1 DEF MemoryKept
<1> QED
  BY <1>1, <1>2, <1>4, <1>5 DEF MemInv

\* The replacement the code makes.
LEMMA SubstitutedIs == ASSUME NEW i PROVE Substituted(i) = Written(subst, i)
BY DEF Substituted, Written, Standing

\* and by the end, rejected or not, where it says that the result is right.
LEMMA MemEndStep ==
  ASSUME MemInv, MemEnd
  PROVE  MemInv'
<1> DEFINE work == [n \in DOMAIN Kept |-> Substituted(block.code[Kept[n]])]
           lost == {block.code[n].name : n \in {m \in to_delete : block.code[m].op = "load"}}
<1>1. /\ result = <<>> /\ next = Len(block.code) + 1
      /\ result' = IF \E i \in Range(work) : Used(i) \cap lost # {} THEN block.code ELSE work
      /\ block' = block /\ next' = next /\ avail' = avail /\ to_delete' = to_delete /\ subst' = subst
  BY DEF MemEnd
<1>2. /\ block \in Programs /\ next \in Nat \ {0}
      /\ Sweep(block, next - 1, avail, to_delete, subst)
  BY <1>1 DEF MemInv
<1>3. BlockFormed(block)
  BY <1>2, MemoryAssumption
<1>4. Len(block.code) \in Nat
  BY <1>3 DEF BlockFormed
<1>5. work = WorkOf(block, to_delete, subst)
  <2>1. Kept = KeptOf(block, to_delete)
    BY DEF Kept, KeptOf
  <2> QED
    BY <2>1, SubstitutedIs DEF WorkOf
<1>6. lost = LostNames(block, to_delete)
  BY DEF LostNames
<1>7. Sweep(block, Len(block.code), avail, to_delete, subst)
  BY <1>1, <1>2, <1>4
<1> HIDE DEF work, lost
<1>8. ASSUME NEW l \in Layouts(block)
      PROVE  Observed(block, l, result') = Observed(block, l, block.code)
  <2>1. CASE \E i \in Range(work) : Used(i) \cap lost # {}
    BY <1>1, <2>1
  <2>2. CASE ~ \E i \in Range(work) : Used(i) \cap lost # {}
    <3>1. \A i \in Range(WorkOf(block, to_delete, subst)) : Used(i) \cap LostNames(block, to_delete) = {}
      BY <1>5, <1>6, <2>2
    <3>2. /\ Swept(block, Len(block.code), avail, to_delete, subst)
          /\ Simulated(block, l, Len(block.code), avail, to_delete, subst)
      BY <1>7 DEF Sweep
    <3>3. RanThrough(block, l, WorkOf(block, to_delete, subst)).seen = RanThrough(block, l, block.code).seen
      BY <1>3, <3>1, <3>2, EndShows
    <3>4. result' = WorkOf(block, to_delete, subst)
      BY <1>1, <1>5, <2>2
    <3> QED
      BY <3>3, <3>4, ObservedIs
  <2> QED
    BY <2>1, <2>2
<1>9. MemoryKept'
  BY <1>1, <1>8 DEF MemoryKept
<1> QED
  BY <1>1, <1>2, <1>9 DEF MemInv

\* Whatever the blocks, the layouts and the values of indices: the optimised
\* block (MemOptimizer::optimize in src/Search/MemOpt.cpp) shows every call, and
\* the caller at the end, what the given block does, byte by byte, provided that
\* no access is wider than the element that its pointer points to.
THEOREM MemOptKeepsMemory ==
  ASSUME \A b \in Programs : AccessesFit(b)
  PROVE  MemSpec => []MemoryKept
<1>1. MemInit => MemInv
  BY MemInvInit
<1>2. MemInv /\ [MemNext]_memVars => MemInv'
  <2> SUFFICES ASSUME MemInv, [MemNext]_memVars PROVE MemInv'
    OBVIOUS
  <2>1. CASE MemLoad
    BY <2>1, MemLoadStep
  <2>2. CASE MemStore
    BY <2>2, MemStoreStep
  <2>3. CASE MemBarrier
    BY <2>3, MemBarrierStep
  <2>4. CASE MemEnd
    BY <2>4, MemEndStep
  <2>5. CASE UNCHANGED memVars
    BY <2>5 DEF memVars, MemInv, MemoryKept
  <2> QED
    BY <2>1, <2>2, <2>3, <2>4, <2>5 DEF MemNext
<1>3. MemInv => MemoryKept
  BY DEF MemInv
<1> QED
  BY <1>1, <1>2, <1>3, PTL DEF MemSpec

=============================================================================
