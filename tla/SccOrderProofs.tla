--------------------------- MODULE SccOrderProofs ----------------------------
(***************************************************************************)
(* Proofs about the search for components, for every call graph: the       *)
(* components it emits are complete, correctly marked and in order, at     *)
(* every step.  The argument is that of Tarjan: what stands on the stack   *)
(* above a node with a frame is reached from it, and leads back to some    *)
(* frame below; a node is a root exactly if nothing above it leads below.  *)
(***************************************************************************)
EXTENDS SccOrder, FiniteSetTheorems, WellFoundedInduction, TLAPS

\* A set of numbers that is not empty has a least member.
LEMMA LeastNatural ==
  ASSUME NEW S, S \subseteq Nat, S # {}
  PROVE  \E m \in S : \A x \in S : m <= x
<1>1. PICK m \in S : \A x \in S : <<x, m>> \notin OpToRel(<, Nat)
  BY NatLessThanWellFounded, WFMin
<1>2. \A x \in S : ~(x < m)
  BY <1>1 DEF OpToRel
<1> QED
  BY <1>2

-----------------------------------------------------------------------------
(* The order in which functions are processed.                              *)

\* Sequences are strung together one after the other.
LEMMA FlattenIs ==
  ASSUME NEW T, NEW ss \in Seq(Seq(T)), NEW F \in [0..Len(ss) -> Seq(T)], F[0] = <<>>,
         \A n \in 1..Len(ss) : F[n] = F[n - 1] \o ss[n]
  PROVE  FlattenSeq(ss) = F[Len(ss)]
<1>1. CASE Len(ss) = 0
  <2>1. ss = <<>>
    BY <1>1
  <2> QED
    BY <1>1, <2>1 DEF FlattenSeq
<1>2. CASE Len(ss) # 0
  <2> DEFINE N == Len(ss)
             Eq(f) == f = [i \in 1..Len(ss) |-> IF i = 1 THEN ss[i] ELSE f[i - 1] \o ss[i]]
             f == CHOOSE f : Eq(f)
             H == [i \in 1..N |-> F[i]]
  <2>1. FlattenSeq(ss) = f[N]
    BY <1>2 DEF FlattenSeq
  <2>2. N \in Nat /\ N # 0 /\ \A i \in 1..N : ss[i] \in Seq(T)
    BY <1>2
  <2>3. ASSUME NEW i \in 1..N PROVE H[i] = IF i = 1 THEN ss[i] ELSE H[i - 1] \o ss[i]
    <3>1. F[i] = F[i - 1] \o ss[i] /\ ss[i] \in Seq(T)
      BY <2>2
    <3>2. CASE i = 1
      <4>1. i - 1 = 0 /\ F[i - 1] = <<>>
        BY <3>2
      <4>2. F[i] = <<>> \o ss[i]
        BY <3>1, <4>1
      <4>3. F[i] = ss[i]
        BY <3>1, <4>2
      <4> QED
        BY <3>2, <4>3
    <3>3. CASE i # 1
      <4>1. i - 1 \in 1..N
        BY <2>2, <3>3
      <4> QED
        BY <3>1, <3>3, <4>1
    <3> QED
      BY <3>2, <3>3
  <2>4. Eq(H)
    BY <2>3
  <2>5. PICK g : g = f /\ Eq(g)
    BY <2>4
  <2>6. \A i \in 1..N : g[i] = IF i = 1 THEN ss[i] ELSE g[i - 1] \o ss[i]
    BY <2>5
  <2> DEFINE Bad == {i \in 1..N : g[i] # H[i]}
  <2>7. ASSUME Bad # {} PROVE FALSE
    <3>1. PICK i \in Bad : \A j \in Bad : i <= j
      <4>1. Bad \subseteq Nat
        OBVIOUS
      <4> HIDE DEF Bad
      <4> QED
        BY <2>7, <4>1, LeastNatural
    <3>2. i \in 1..N /\ g[i] # H[i]
      OBVIOUS
    <3>3. CASE i = 1
      BY <2>3, <2>6, <3>2, <3>3
    <3>4. CASE i # 1
      <4>1. i - 1 \in 1..N /\ ~(i <= i - 1)
        BY <2>2, <3>2, <3>4
      <4>2. g[i - 1] = H[i - 1]
        BY <3>1, <4>1
      <4>3. g[i] = g[i - 1] \o ss[i]
        BY <2>6, <3>2, <3>4
      <4>4. H[i] = H[i - 1] \o ss[i]
        BY <2>3, <3>2, <3>4
      <4> HIDE DEF H
      <4> QED
        BY <3>2, <4>2, <4>3, <4>4
    <3> QED
      BY <3>3, <3>4
  <2>8. N \in 1..N
    BY <2>2
  <2>9. g[N] = H[N]
    BY <2>7, <2>8
  <2> QED
    BY <2>1, <2>5, <2>8, <2>9
<1> QED
  BY <1>1, <1>2

\* One sequence after the other gives a sequence.
Strung(T, ss) ==
  \E F \in [0..Len(ss) -> Seq(T)] : F[0] = <<>> /\ \A n \in 1..Len(ss) : F[n] = F[n - 1] \o ss[n]

LEMMA FlattenAppend ==
  ASSUME NEW T, NEW ss \in Seq(Seq(T)), NEW s \in Seq(T), Strung(T, ss)
  PROVE  /\ FlattenSeq(ss) \in Seq(T) /\ Strung(T, Append(ss, s))
         /\ FlattenSeq(Append(ss, s)) = FlattenSeq(ss) \o s
<1>1. PICK N : N = Len(ss) /\ N \in Nat /\ DOMAIN ss = 1..N
  OBVIOUS
<1>2. PICK F \in [0..N -> Seq(T)] : F[0] = <<>> /\ \A n \in 1..N : F[n] = F[n - 1] \o ss[n]
  BY <1>1 DEF Strung
<1>3. FlattenSeq(ss) = F[N] /\ F[N] \in Seq(T)
  <2>1. FlattenSeq(ss) = F[Len(ss)]
    BY <1>1, <1>2, FlattenIs
  <2>2. N \in 0..N
    BY <1>1
  <2> QED
    BY <1>1, <1>2, <2>1, <2>2
<1>4. PICK ts : ts = Append(ss, s)
  OBVIOUS
<1>5. ts \in Seq(Seq(T)) /\ Len(ts) = N + 1 /\ ts[N + 1] = s /\ \A n \in 1..N : ts[n] = ss[n]
  BY <1>1, <1>4
<1>6. PICK H : H = [n \in 0..(N + 1) |-> IF n = N + 1 THEN F[N] \o s ELSE F[n]]
  OBVIOUS
<1>7. H \in [0..Len(ts) -> Seq(T)] /\ H[0] = <<>>
  <2>1. F[N] \o s \in Seq(T)
    BY <1>3
  <2>2. \A n \in 0..(N + 1) : n # N + 1 => n \in 0..N
    BY <1>1
  <2> QED
    BY <1>1, <1>2, <1>5, <1>6, <2>1, <2>2
<1>8. \A n \in 1..Len(ts) : H[n] = H[n - 1] \o ts[n]
  <2> SUFFICES ASSUME NEW n \in 1..(N + 1) PROVE H[n] = H[n - 1] \o ts[n]
    BY <1>5
  <2>1. n - 1 \in 0..N /\ n - 1 # N + 1 /\ n \in 0..(N + 1) /\ n - 1 \in 0..(N + 1)
    BY <1>1
  <2>2. H[n - 1] = F[n - 1]
    BY <1>6, <2>1
  <2>3. CASE n = N + 1
    <3>1. n - 1 = N
      BY <1>1, <2>3
    <3>2. H[n] = F[N] \o s
      BY <1>6, <2>1, <2>3
    <3> QED
      BY <1>5, <2>2, <2>3, <3>1, <3>2
  <2>4. CASE n # N + 1
    <3>1. n \in 1..N
      BY <1>1, <2>4
    <3>2. H[n] = F[n]
      BY <1>6, <2>1, <2>4
    <3> QED
      BY <1>2, <1>5, <2>2, <3>1, <3>2
  <2> QED
    BY <2>3, <2>4
<1>9. FlattenSeq(ts) = H[Len(ts)]
  BY <1>5, <1>7, <1>8, FlattenIs
<1>10. H[Len(ts)] = F[N] \o s
  BY <1>1, <1>5, <1>6
<1>11. Strung(T, ts)
  BY <1>7, <1>8 DEF Strung
<1> QED
  BY <1>3, <1>4, <1>9, <1>10, <1>11

-----------------------------------------------------------------------------
(* Who reaches whom.                                                        *)

LEMMA ReachFacts ==
  ASSUME callees \in Seq(Seq(Nodes)), NEW v \in Nodes
  PROVE  /\ Reaches(v) \subseteq Nodes /\ ToSet(callees[v]) \subseteq Reaches(v)
         /\ \A x \in Reaches(v) : ToSet(callees[x]) \subseteq Reaches(v)
         /\ \A s \in SUBSET Nodes :
              ToSet(callees[v]) \subseteq s /\ (\A x \in s : ToSet(callees[x]) \subseteq s) => Reaches(v) \subseteq s
<1>1. \A x \in Nodes : ToSet(callees[x]) \subseteq Nodes
  BY DEF Nodes, ToSet
<1>2. Reaches(v) \subseteq Nodes
  BY DEF Reaches
<1>3. \A s \in SUBSET Nodes :
        ToSet(callees[v]) \subseteq s /\ (\A x \in s : ToSet(callees[x]) \subseteq s) => Reaches(v) \subseteq s
  BY DEF Reaches
<1>4. ToSet(callees[v]) \subseteq Reaches(v)
  BY <1>1 DEF Reaches
<1>5. ASSUME NEW x \in Reaches(v) PROVE ToSet(callees[x]) \subseteq Reaches(v)
  <2> SUFFICES ASSUME NEW u \in ToSet(callees[x]) PROVE u \in Reaches(v)
    OBVIOUS
  <2>1. u \in Nodes
    BY <1>1, <1>2
  <2>2. ASSUME NEW s \in SUBSET Nodes, ToSet(callees[v]) \subseteq s, \A y \in s : ToSet(callees[y]) \subseteq s
        PROVE  u \in s
    BY <1>3, <2>2
  <2> QED
    BY <2>1, <2>2 DEF Reaches
<1> QED
  BY <1>2, <1>3, <1>4, <1>5

LEMMA ReachTransitive ==
  ASSUME callees \in Seq(Seq(Nodes)), NEW v \in Nodes, NEW u \in Reaches(v)
  PROVE  u \in Nodes /\ Reaches(u) \subseteq Reaches(v)
<1>1. u \in Nodes
  BY ReachFacts
<1>2. Reaches(v) \in SUBSET Nodes /\ ToSet(callees[u]) \subseteq Reaches(v)
      /\ \A x \in Reaches(v) : ToSet(callees[x]) \subseteq Reaches(v)
  BY ReachFacts
<1>3. Reaches(u) \subseteq Reaches(v)
  BY <1>1, <1>2, ReachFacts
<1> QED
  BY <1>1, <1>3

\* A chain of calls, perhaps of none.
Leads(x, y) == x = y \/ y \in Reaches(x)

LEMMA LeadsTransitive ==
  ASSUME callees \in Seq(Seq(Nodes)), NEW x \in Nodes, NEW y, NEW z, Leads(x, y), Leads(y, z)
  PROVE  Leads(x, z)
BY ReachTransitive DEF Leads

-----------------------------------------------------------------------------
(* The invariant of the search.                                             *)

\* On the stack, emitted, and those with a frame.
OnStack == ToSet(visitStack)
Emitted == UNION {ToSet(sccs[k].members) : k \in DOMAIN sccs}
Gray    == {frames[k].v : k \in DOMAIN frames}

Shape ==
  /\ callees \in CallGraphs /\ start \in 1..Len(callees) + 1
  /\ index \in [Nodes -> Int] /\ lowlink \in [Nodes -> Nat]
  /\ onStack = [v \in Nodes |-> v \in OnStack]
  /\ counter \in Nat /\ visitStack \in Seq(Nodes)
  /\ frames \in Seq([v : Nodes, child : Nat])
  /\ sccs \in Seq([members : Seq(Nodes), recursive : BOOLEAN])

\* Numbers tell what has been seen and rise along the stack.
Numbered ==
  /\ \A v \in Nodes : index[v] \in -1..(counter - 1)
  /\ \A v \in Nodes : index[v] = -1 <=> v \notin OnStack \cup Emitted
  /\ Cardinality({v \in Nodes : index[v] # -1}) = counter
  /\ OnStack \cap Emitted = {}
  /\ \A i, j \in DOMAIN visitStack : i < j => index[visitStack[i]] < index[visitStack[j]]
  /\ \A v \in Nodes : v < start => index[v] # -1

\* The frames are a chain of calls, each at the callee it looks at; the first holds
\* the bottom of the stack.
Path ==
  /\ Gray \subseteq OnStack
  /\ \A k \in DOMAIN frames : frames[k].child <= Len(callees[frames[k].v])
  /\ \A k, m \in DOMAIN frames : k < m =>
       /\ index[frames[k].v] < index[frames[m].v]
       /\ m = k + 1 => frames[k].child # 0 /\ callees[frames[k].v][frames[k].child] = frames[m].v
  /\ IF frames = <<>> THEN visitStack = <<>>
     ELSE visitStack # <<>> /\ visitStack[1] = frames[1].v

\* What has been looked at has been seen; of nodes that were left, all callees.
Looked ==
  /\ \A k \in DOMAIN frames : \A n \in 1..frames[k].child : index[callees[frames[k].v][n]] # -1
  /\ \A b \in OnStack \ Gray : \A u \in ToSet(callees[b]) : index[u] # -1

\* A node with a frame leads to all that was seen after it and is still there, and all
\* that is there leads back to a frame.
Connected ==
  /\ \A g \in Gray : \A u \in OnStack : index[g] <= index[u] => Leads(g, u)
  /\ \A b \in OnStack : \E g \in Gray : index[g] <= index[b] /\ Leads(b, g)

\* A link is the number of a node on the stack that can be come to; and it is no more than
\* the numbers of all on the stack that its frame has looked at, and of all that the
\* nodes left since then, above it and below the next frame, call.
Links ==
  /\ \A b \in OnStack :
       lowlink[b] <= index[b] /\ \E u \in OnStack : index[u] = lowlink[b] /\ Leads(b, u)
  /\ \A k \in DOMAIN frames :
       /\ \A n \in 1..frames[k].child :
            callees[frames[k].v][n] \in OnStack => lowlink[frames[k].v] <= index[callees[frames[k].v][n]]
       /\ \A b \in OnStack \ Gray :
            /\ index[frames[k].v] < index[b]
            /\ k + 1 \in DOMAIN frames => index[b] < index[frames[k + 1].v]
            => \A u \in ToSet(callees[b]) \cap OnStack : lowlink[frames[k].v] <= index[u]

\* The order of processing for the components ss.
MembersOf(ss) == [k \in DOMAIN ss |-> ss[k].members]
OrderOf(ss)   == FlattenSeq(MembersOf(ss))

\* A component with its mark.
Exactly(ms, mark) ==
  /\ \A v \in ms : ms = {v} \cup {u \in Nodes : u \in Reaches(v) /\ v \in Reaches(u)}
  /\ mark = (\E v \in ms : v \in Reaches(v))

\* What was emitted calls only what was emitted.
Out ==
  /\ \A v \in Emitted : ToSet(callees[v]) \subseteq Emitted
  /\ Strung(Nodes, MembersOf(sccs)) /\ ToSet(ProcessingOrder) = Emitted
  /\ CalleesStandFirst
  /\ \A k \in DOMAIN sccs : Exactly(ToSet(sccs[k].members), sccs[k].recursive)

SccInv == Shape /\ Numbered /\ Path /\ Looked /\ Connected /\ Links /\ Out

-----------------------------------------------------------------------------
(* The steps of the search keep the invariant.                              *)

Frame     == [v : Nodes, child : Nat]
Component == [members : Seq(Nodes), recursive : BOOLEAN]

LEMMA GraphType == callees \in CallGraphs => callees \in Seq(Seq(Nodes)) /\ Len(callees) \in Nat
BY SccAssumption DEF SccAssumption, Nodes

LEMMA CalledSeq ==
  ASSUME callees \in Seq(Seq(Nodes))
  PROVE  \A x \in Nodes : callees[x] \in Seq(Nodes)
BY DEF Nodes

\* What the calls alone decide stays.
LEMMA SameGraph ==
  ASSUME callees' = callees
  PROVE  /\ Nodes' = Nodes /\ \A x, y : Leads(x, y)' <=> Leads(x, y)
         /\ \A x : Reaches(x)' = Reaches(x)
<1>1. Nodes' = Nodes
  BY DEF Nodes
<1>2. \A x : Reaches(x)' = Reaches(x)
  BY <1>1 DEF Reaches
<1> QED
  BY <1>1, <1>2 DEF Leads

LEMMA OrderGrows ==
  ASSUME NEW ss \in Seq(Component), NEW r \in Component, Strung(Nodes, MembersOf(ss))
  PROVE  /\ OrderOf(ss) \in Seq(Nodes) /\ Strung(Nodes, MembersOf(Append(ss, r)))
         /\ OrderOf(Append(ss, r)) = OrderOf(ss) \o r.members
<1>1. PICK N, ms, ts : N = Len(ss) /\ ms = MembersOf(ss) /\ ts = Append(ss, r)
  OBVIOUS
<1>2. N \in Nat /\ DOMAIN ss = 1..N /\ r.members \in Seq(Nodes) /\ \A k \in 1..N : ss[k].members \in Seq(Nodes)
  <2>1. N \in Nat /\ DOMAIN ss = 1..N /\ \A k \in 1..N : ss[k] \in Component
    BY <1>1
  <2> QED
    BY <2>1 DEF Component
<1>3. ms = [k \in 1..N |-> ss[k].members]
  BY <1>1, <1>2 DEF MembersOf
<1>4. ms \in Seq(Seq(Nodes)) /\ Len(ms) = N
  BY <1>2, <1>3
<1>5. DOMAIN ts = 1..(N + 1) /\ ts[N + 1] = r /\ \A k \in 1..N : ts[k] = ss[k]
  BY <1>1, <1>2
<1>6. MembersOf(ts) = Append(ms, r.members)
  <2>1. DOMAIN Append(ms, r.members) = 1..(N + 1)
    BY <1>2, <1>4
  <2>2. \A k \in 1..(N + 1) : ts[k].members = Append(ms, r.members)[k]
    BY <1>2, <1>3, <1>4, <1>5
  <2>3. Append(ms, r.members) = [k \in 1..(N + 1) |-> Append(ms, r.members)[k]]
    BY <1>2, <1>4
  <2> QED
    BY <1>5, <2>2, <2>3 DEF MembersOf
<1>7. /\ FlattenSeq(ms) \in Seq(Nodes) /\ Strung(Nodes, Append(ms, r.members))
      /\ FlattenSeq(Append(ms, r.members)) = FlattenSeq(ms) \o r.members
  BY <1>1, <1>2, <1>4, FlattenAppend
<1> QED
  BY <1>1, <1>6, <1>7 DEF OrderOf

LEMMA OrderNone == OrderOf(<<>>) = <<>> /\ Strung(Nodes, MembersOf(<<>>))
<1>1. MembersOf(<<>>) = <<>>
  BY DEF MembersOf
<1>2. FlattenSeq(<<>>) = <<>>
  BY DEF FlattenSeq
<1>3. Strung(Nodes, <<>>)
  <2>1. PICK F : F = [n \in 0..0 |-> <<>>]
    OBVIOUS
  <2>2. F \in [0..Len(<<>>) -> Seq(Nodes)] /\ F[0] = <<>> /\ \A n \in 1..Len(<<>>) : F[n] = F[n - 1] \o <<>>[n]
    BY <2>1
  <2> QED
    BY <2>2 DEF Strung
<1> QED
  BY <1>1, <1>2, <1>3 DEF OrderOf

LEMMA SccStart == SccInit => SccInv
<1> SUFFICES ASSUME SccInit PROVE SccInv
  OBVIOUS
<1>1. /\ callees \in CallGraphs /\ start = 1 /\ counter = 0
      /\ index = [v \in Nodes |-> -1] /\ lowlink = [v \in Nodes |-> 0]
      /\ onStack = [v \in Nodes |-> FALSE]
      /\ visitStack = <<>> /\ frames = <<>> /\ sccs = <<>>
  BY DEF SccInit
<1>2. callees \in Seq(Seq(Nodes)) /\ Len(callees) \in Nat
  BY <1>1, GraphType
<1>3. OnStack = {} /\ Emitted = {} /\ Gray = {}
  BY <1>1 DEF OnStack, Emitted, Gray, ToSet
<1>4. Shape
  <2>1. frames \in Seq([v : Nodes, child : Nat]) /\ sccs \in Seq([members : Seq(Nodes), recursive : BOOLEAN])
        /\ visitStack \in Seq(Nodes)
    BY <1>1
  <2>2. start \in 1..Len(callees) + 1
    BY <1>1, <1>2
  <2>3. index \in [Nodes -> Int] /\ lowlink \in [Nodes -> Nat] /\ counter \in Nat
    BY <1>1
  <2>4. onStack = [v \in Nodes |-> v \in OnStack]
    <3>1. \A v \in Nodes : (v \in OnStack) = FALSE
      BY <1>3
    <3> QED
      BY <1>1, <3>1, Zenon
  <2> QED
    BY <1>1, <2>1, <2>2, <2>3, <2>4 DEF Shape
<1>5. Numbered
  <2>1. {v \in Nodes : index[v] # -1} = {}
    BY <1>1
  <2>2. Cardinality({v \in Nodes : index[v] # -1}) = 0
    BY <2>1, FS_EmptySet
  <2>3. \A v \in Nodes : ~(v < start)
    BY <1>1 DEF Nodes
  <2> QED
    BY <1>1, <1>3, <2>2, <2>3 DEF Numbered
<1>6. Path /\ Looked /\ Connected /\ Links
  BY <1>1, <1>3 DEF Path, Looked, Connected, Links
<1>7. ProcessingOrder = <<>>
  BY <1>1, OrderNone DEF ProcessingOrder, OrderOf, MembersOf
<1>8. Out
  <2>1. ToSet(ProcessingOrder) = {} /\ CalleesStandFirst /\ Strung(Nodes, MembersOf(sccs))
    BY <1>1, <1>7, OrderNone DEF ToSet, CalleesStandFirst
  <2> QED
    BY <1>1, <1>3, <2>1 DEF Out
<1> QED
  BY <1>4, <1>5, <1>6, <1>8 DEF SccInv

\* The frames in their order, the one on top last.
LEMMA FrameFacts ==
  ASSUME SccInv
  PROVE  /\ Len(frames) \in Nat /\ DOMAIN frames = 1..Len(frames)
         /\ \A k \in 1..Len(frames) :
              /\ frames[k] \in Frame /\ frames[k].v \in Nodes /\ frames[k].child \in Nat
              /\ frames[k].v \in OnStack /\ frames[k].v \in Gray
         /\ \A g \in Gray : \E k \in 1..Len(frames) : g = frames[k].v
         /\ frames = <<>> <=> Len(frames) = 0
<1>1. frames \in Seq(Frame)
  BY DEF SccInv, Shape, Frame
<1>2. Len(frames) \in Nat /\ DOMAIN frames = 1..Len(frames) /\ (frames = <<>> <=> Len(frames) = 0)
  BY <1>1
<1>3. \A k \in 1..Len(frames) : frames[k] \in Frame
  BY <1>1
<1>4. \A k \in 1..Len(frames) : frames[k].v \in Gray
  BY <1>2 DEF Gray
<1>5. \A g \in Gray : \E k \in 1..Len(frames) : g = frames[k].v
  BY <1>2 DEF Gray
<1> QED
  BY <1>2, <1>3, <1>4, <1>5 DEF SccInv, Path, Frame

LEMMA StackFacts ==
  ASSUME SccInv
  PROVE  /\ Len(visitStack) \in Nat /\ DOMAIN visitStack = 1..Len(visitStack)
         /\ OnStack \subseteq Nodes /\ Emitted \subseteq Nodes
         /\ \A b \in OnStack :
              /\ index[b] \in 0..(counter - 1) /\ lowlink[b] \in Nat /\ b \notin Emitted
              /\ \E n \in 1..Len(visitStack) : visitStack[n] = b
         /\ \A n \in 1..Len(visitStack) : visitStack[n] \in OnStack
         /\ \A b, d \in OnStack : index[b] = index[d] => b = d
<1>1. visitStack \in Seq(Nodes)
  BY DEF SccInv, Shape
<1>2. Len(visitStack) \in Nat /\ DOMAIN visitStack = 1..Len(visitStack)
  BY <1>1
<1>3. /\ \A n \in 1..Len(visitStack) : visitStack[n] \in OnStack /\ visitStack[n] \in Nodes
      /\ \A b \in OnStack : \E n \in 1..Len(visitStack) : visitStack[n] = b
  BY <1>1, <1>2 DEF OnStack, ToSet
<1>4. Emitted \subseteq Nodes
  <2>1. ASSUME NEW k \in DOMAIN sccs PROVE ToSet(sccs[k].members) \subseteq Nodes
    <3>1. sccs \in Seq(Component)
      BY DEF SccInv, Shape, Component
    <3>2. sccs[k] \in Component
      BY <3>1
    <3>3. sccs[k].members \in Seq(Nodes)
      BY <3>2 DEF Component
    <3> QED
      BY <3>3 DEF ToSet
  <2> QED
    BY <2>1 DEF Emitted
<1>5. \A b \in OnStack : index[b] \in 0..(counter - 1) /\ lowlink[b] \in Nat /\ b \notin Emitted
  <2> TAKE b \in OnStack
  <2>1. b \in Nodes /\ b \notin Emitted
    BY <1>3 DEF SccInv, Numbered
  <2>2. index[b] # -1 /\ index[b] \in -1..(counter - 1) /\ counter \in Nat
    BY <2>1 DEF SccInv, Shape, Numbered
  <2> QED
    BY <2>1, <2>2 DEF SccInv, Shape
<1>6. \A b, d \in OnStack : index[b] = index[d] => b = d
  <2> SUFFICES ASSUME NEW b \in OnStack, NEW d \in OnStack, index[b] = index[d] PROVE b = d
    OBVIOUS
  <2>1. PICK i, j \in 1..Len(visitStack) : visitStack[i] = b /\ visitStack[j] = d
    BY <1>3
  <2>2. index[b] \in Int /\ index[d] \in Int
    BY <1>5
  <2>3. ~(i < j) /\ ~(j < i)
    BY <1>2, <2>1, <2>2 DEF SccInv, Numbered
  <2> QED
    BY <1>2, <2>1, <2>3
<1> QED
  BY <1>2, <1>3, <1>4, <1>5, <1>6

\* What was emitted stays as it is while nothing else is.
LEMMA OutStays ==
  ASSUME SccInv, callees' = callees, sccs' = sccs
  PROVE  Out'
<1>1. Nodes' = Nodes /\ Emitted' = Emitted /\ ProcessingOrder' = ProcessingOrder
  BY DEF Nodes, Emitted, ProcessingOrder
<1>2. \A x : Reaches(x)' = Reaches(x)
  BY SameGraph
<1>3. CalleesStandFirst'
  BY <1>1, <1>2 DEF SccInv, Out, CalleesStandFirst
<1>4. \A c, mark : Exactly(c, mark)' <=> Exactly(c, mark)
  BY <1>1, <1>2 DEF Exactly
<1>5. Strung(Nodes, MembersOf(sccs))'
  <2>1. Strung(Nodes, MembersOf(sccs))
    BY DEF SccInv, Out
  <2> QED
    BY <1>1, <2>1 DEF Strung, MembersOf
<1> QED
  BY <1>1, <1>3, <1>4, <1>5 DEF SccInv, Out

\* A node is entered: it has not been seen before, and the frame on top, if there
\* is one, has just come to it.
LEMMA EnterStep ==
  ASSUME SccInv, NEW w \in Nodes, index[w] = -1, NEW below \in Seq(Frame), Enter(w, below),
         UNCHANGED <<callees, start, sccs>>,
         NEW m, m = Len(frames), Len(below) = m,
         \A k \in 1..m : below[k].v = frames[k].v,
         \A k \in 1..m : k # m => below[k].child = frames[k].child,
         m # 0 => /\ below[m].child = frames[m].child + 1
                  /\ below[m].child <= Len(callees[frames[m].v])
                  /\ callees[frames[m].v][below[m].child] = w
  PROVE  SccInv'
<1>1. /\ m \in Nat /\ DOMAIN frames = 1..m
      /\ \A k \in 1..m : /\ frames[k].v \in Nodes /\ frames[k].child \in Nat
                         /\ frames[k].v \in OnStack /\ frames[k].v \in Gray
      /\ \A g \in Gray : \E k \in 1..m : g = frames[k].v
      /\ frames = <<>> <=> m = 0
  BY FrameFacts
<1>2. /\ frames' \in Seq(Frame) /\ DOMAIN frames' = 1..(m + 1)
      /\ frames'[m + 1].v = w /\ frames'[m + 1].child = 0
      /\ \A k \in 1..m : frames'[k].v = frames[k].v /\ frames'[k].child = below[k].child
  <2>1. frames' = Append(below, [v |-> w, child |-> 0]) /\ [v |-> w, child |-> 0] \in Frame
    BY DEF Enter, Frame
  <2>2. frames' \in Seq(Frame) /\ DOMAIN frames' = 1..(m + 1) /\ frames'[m + 1] = [v |-> w, child |-> 0]
    BY <1>1, <2>1
  <2>3. \A k \in 1..m : frames'[k] = below[k]
    BY <1>1, <2>1
  <2> QED
    BY <2>2, <2>3
\* What its frame has come to now.
<1>3. \A k \in 1..m : \A n \in 1..frames'[k].child :
        n \in 1..frames[k].child \/ (k = m /\ callees[frames[k].v][n] = w)
  <2> TAKE k \in 1..m
  <2> TAKE n \in 1..frames'[k].child
  <2>1. CASE k # m
    <3>1. frames'[k].child = frames[k].child
      BY <1>2, <2>1
    <3> QED
      BY <3>1
  <2>2. CASE k = m
    <3>1. frames[m].child \in Nat /\ n \in 1..(frames[m].child + 1) /\ m # 0
      BY <1>1, <1>2, <2>2
    <3>2. n \in 1..frames[m].child \/ n = frames[m].child + 1
      BY <3>1
    <3>3. callees[frames[m].v][frames[m].child + 1] = w
      BY <3>1
    <3> QED
      BY <2>2, <3>2, <3>3
  <2> QED
    BY <2>1, <2>2
<1>4. /\ callees' = callees /\ start' = start /\ sccs' = sccs
      /\ index' = [index EXCEPT ![w] = counter] /\ lowlink' = [lowlink EXCEPT ![w] = counter]
      /\ counter' = counter + 1 /\ visitStack' = Append(visitStack, w)
      /\ onStack' = [onStack EXCEPT ![w] = TRUE]
  BY DEF Enter
<1>5. callees \in Seq(Seq(Nodes)) /\ Len(callees) \in Nat /\ Nodes = 1..Len(callees)
  BY GraphType DEF SccInv, Shape, Nodes
<1>6. /\ Nodes' = Nodes /\ (\A x, y : Leads(x, y)' <=> Leads(x, y)) /\ (\A x : Reaches(x)' = Reaches(x))
  BY <1>4, SameGraph
<1>7. /\ counter \in Nat /\ index \in [Nodes -> Int] /\ lowlink \in [Nodes -> Nat]
      /\ index' \in [Nodes -> Int] /\ index'[w] = counter /\ \A u \in Nodes : u # w => index'[u] = index[u]
      /\ lowlink' \in [Nodes -> Nat] /\ lowlink'[w] = counter
      /\ \A u \in Nodes : u # w => lowlink'[u] = lowlink[u]
  BY <1>4 DEF SccInv, Shape
<1>8. /\ OnStack \subseteq Nodes /\ Emitted \subseteq Nodes
      /\ \A b \in OnStack : index[b] \in 0..(counter - 1) /\ lowlink[b] \in Nat
      /\ w \notin OnStack \cup Emitted
  BY StackFacts DEF SccInv, Numbered
<1>9. Emitted' = Emitted
  BY <1>4 DEF Emitted
<1>10. PICK L : /\ L \in Nat /\ L = Len(visitStack) /\ DOMAIN visitStack = 1..L
                /\ visitStack' \in Seq(Nodes) /\ DOMAIN visitStack' = 1..(L + 1)
                /\ visitStack'[L + 1] = w /\ \A n \in 1..L : visitStack'[n] = visitStack[n] /\ visitStack[n] \in OnStack
  <2>1. visitStack \in Seq(Nodes)
    BY DEF SccInv, Shape
  <2>2. Len(visitStack) \in Nat /\ DOMAIN visitStack = 1..Len(visitStack)
    BY <2>1
  <2>3. /\ visitStack' \in Seq(Nodes) /\ DOMAIN visitStack' = 1..(Len(visitStack) + 1)
        /\ visitStack'[Len(visitStack) + 1] = w /\ \A n \in 1..Len(visitStack) : visitStack'[n] = visitStack[n]
    BY <1>4, <2>1
  <2>4. \A n \in 1..Len(visitStack) : visitStack[n] \in OnStack
    BY StackFacts
  <2> QED
    BY <2>2, <2>3, <2>4
<1>11. OnStack' = OnStack \cup {w}
  <2>1. \A n \in 1..L : n \in 1..(L + 1)
    BY <1>10
  <2>2. L + 1 \in 1..(L + 1) /\ \A n \in 1..(L + 1) : n \in 1..L \/ n = L + 1
    BY <1>10
  <2>3. /\ \A b \in OnStack : \E n \in 1..L : visitStack[n] = b
        /\ \A b \in OnStack' : \E n \in 1..(L + 1) : visitStack'[n] = b
        /\ \A n \in 1..(L + 1) : visitStack'[n] \in OnStack'
    BY <1>10 DEF OnStack, ToSet
  <2>4. OnStack' \subseteq OnStack \cup {w}
    BY <1>10, <2>2, <2>3
  <2>5. OnStack \cup {w} \subseteq OnStack'
    BY <1>10, <2>1, <2>2, <2>3
  <2> QED
    BY <2>4, <2>5
<1>12. Gray' = Gray \cup {w}
  <2>1. (\A k \in 1..m : k \in 1..(m + 1)) /\ m + 1 \in 1..(m + 1) /\ \A k \in 1..(m + 1) : k \in 1..m \/ k = m + 1
    BY <1>1
  <2>2. Gray' = {frames'[k].v : k \in 1..(m + 1)}
    BY <1>2 DEF Gray
  <2>3. ASSUME NEW k \in 1..(m + 1) PROVE frames'[k].v \in Gray \cup {w}
    BY <1>1, <1>2, <2>1
  <2>4. ASSUME NEW g \in Gray PROVE \E k \in 1..(m + 1) : g = frames'[k].v
    <3>1. PICK k \in 1..m : g = frames[k].v
      BY <1>1
    <3> QED
      BY <1>2, <2>1, <3>1
  <2>5. w = frames'[m + 1].v
    BY <1>2
  <2> QED
    BY <2>1, <2>2, <2>3, <2>4, <2>5
<1>13. \A b \in OnStack : index'[b] = index[b] /\ lowlink'[b] = lowlink[b] /\ index[b] < counter
  BY <1>7, <1>8
\* All nodes entered lead to the one on top, and from there to this one.
<1>14. \A g \in Gray : Leads(g, w)
  <2> TAKE g \in Gray
  <2>1. PICK k \in 1..m : g = frames[k].v
    BY <1>1
  <2>2. m \in 1..m /\ m # 0 /\ frames[m].v \in OnStack /\ frames[m].v \in Nodes /\ g \in Nodes
    BY <1>1, <2>1
  <2>3. index[g] <= index[frames[m].v]
    <3>1. CASE k = m
      BY <1>8, <2>1, <2>2, <3>1
    <3>2. CASE k # m
      <4>1. k < m
        BY <1>1, <3>2
      <4>2. index[frames[k].v] < index[frames[m].v]
        BY <1>1, <2>2, <4>1 DEF SccInv, Path
      <4>3. index[g] \in Int /\ index[frames[m].v] \in Int
        BY <1>7, <2>2
      <4> QED
        BY <2>1, <4>2, <4>3
    <3> QED
      BY <3>1, <3>2
  <2>4. Leads(g, frames[m].v)
    BY <2>2, <2>3 DEF SccInv, Connected
  <2>5. w \in ToSet(callees[frames[m].v])
    <3>1. callees[frames[m].v] \in Seq(Nodes)
      <4>1. \A v \in Nodes : callees[v] \in Seq(Nodes)
        BY <1>5, CalledSeq
      <4> QED
        BY <2>2, <4>1
    <3>2. below[m].child \in 1..Len(callees[frames[m].v])
      BY <1>1, <2>2, <3>1
    <3> QED
      BY <2>2, <3>1, <3>2 DEF ToSet
  <2>6. Leads(frames[m].v, w)
    BY <1>5, <2>2, <2>5, ReachFacts DEF Leads
  <2> QED
    BY <1>5, <2>2, <2>4, <2>6, LeadsTransitive
<1>15. Shape'
  <2>1. onStack' = [v \in Nodes |-> v \in OnStack']
    <3>1. onStack = [v \in Nodes |-> v \in OnStack]
      BY DEF SccInv, Shape
    <3>2. \A v \in Nodes : onStack'[v] = (v \in OnStack')
      <4> TAKE v \in Nodes
      <4>1. CASE v = w
        <5>1. onStack'[v] = TRUE /\ v \in OnStack'
          BY <1>4, <1>11, <3>1, <4>1
        <5> QED
          BY <5>1, Zenon
      <4>2. CASE v # w
        <5>1. onStack'[v] = onStack[v] /\ onStack[v] = (v \in OnStack)
          BY <1>4, <3>1, <4>2, Zenon
        <5>2. (v \in OnStack') = (v \in OnStack)
          BY <1>11, <4>2
        <5> QED
          BY <5>1, <5>2, Zenon
      <4> QED
        BY <4>1, <4>2
    <3>3. onStack' = [v \in Nodes |-> onStack'[v]]
      BY <1>4, <3>1, Zenon
    <3> QED
      BY <3>2, <3>3, Zenon
  <2>2. /\ callees \in CallGraphs /\ start \in 1..Len(callees) + 1
        /\ sccs \in Seq([members : Seq(Nodes), recursive : BOOLEAN])
    BY DEF SccInv, Shape
  <2>3. frames' \in Seq([v : Nodes, child : Nat])
    BY <1>2 DEF Frame
  <2>4. counter' \in Nat /\ visitStack' \in Seq(Nodes)
    BY <1>4, <1>7, <1>10
  <2> QED
    BY <1>4, <1>6, <1>7, <2>1, <2>2, <2>3, <2>4 DEF Shape
<1>16. Numbered'
  <2>1. \A v \in Nodes : index'[v] \in -1..(counter' - 1)
    <3>1. \A v \in Nodes : index[v] \in -1..(counter - 1)
      BY DEF SccInv, Numbered
    <3> QED
      BY <1>4, <1>7, <3>1
  <2>2. \A v \in Nodes : index'[v] = -1 <=> v \notin OnStack' \cup Emitted'
    <3>1. \A v \in Nodes : index[v] = -1 <=> v \notin OnStack \cup Emitted
      BY DEF SccInv, Numbered
    <3>2. counter # -1
      BY <1>7
    <3> QED
      BY <1>7, <1>9, <1>11, <3>1, <3>2
  <2>3. Cardinality({v \in Nodes : index'[v] # -1}) = counter'
    <3>1. PICK S : S = {v \in Nodes : index[v] # -1}
      OBVIOUS
    <3>2. {v \in Nodes : index'[v] # -1} = S \cup {w} /\ w \notin S
      <4>1. counter # -1
        BY <1>7
      <4> QED
        BY <1>7, <3>1, <4>1
    <3>3. IsFiniteSet(S)
      <4>1. IsFiniteSet(Nodes)
        BY <1>5, FS_Interval
      <4> QED
        BY <3>1, <4>1, FS_Subset
    <3>4. Cardinality(S) = counter
      BY <3>1 DEF SccInv, Numbered
    <3> QED
      BY <1>4, <3>2, <3>3, <3>4, FS_AddElement
  <2>4. OnStack' \cap Emitted' = {}
    BY <1>8, <1>9, <1>11 DEF SccInv, Numbered
  <2>5. \A i, j \in DOMAIN visitStack' : i < j => index'[visitStack'[i]] < index'[visitStack'[j]]
    <3> SUFFICES ASSUME NEW i \in 1..(L + 1), NEW j \in 1..(L + 1), i < j
                 PROVE  index'[visitStack'[i]] < index'[visitStack'[j]]
      BY <1>10
    <3>1. i \in 1..L /\ (j \in 1..L \/ j = L + 1)
      BY <1>10
    <3>2. CASE j \in 1..L
      <4>1. index[visitStack[i]] < index[visitStack[j]]
        BY <1>10, <3>1, <3>2 DEF SccInv, Numbered
      <4> QED
        BY <1>10, <1>13, <3>1, <3>2, <4>1
    <3>3. CASE j = L + 1
      BY <1>7, <1>10, <1>13, <3>1, <3>3
    <3> QED
      BY <3>1, <3>2, <3>3
  <2>6. \A v \in Nodes : v < start => index'[v] # -1
    <3>1. counter # -1
      BY <1>7
    <3> QED
      BY <1>7, <3>1 DEF SccInv, Numbered
  <2> QED
    BY <1>4, <1>6, <2>1, <2>2, <2>3, <2>4, <2>5, <2>6 DEF Numbered
<1>17. Path'
  <2>1. Gray' \subseteq OnStack'
    BY <1>11, <1>12 DEF SccInv, Path
  <2>2. \A k \in DOMAIN frames' : frames'[k].child <= Len(callees[frames'[k].v])
    <3> SUFFICES ASSUME NEW k \in 1..(m + 1) PROVE frames'[k].child <= Len(callees[frames'[k].v])
      BY <1>2
    <3>1. k \in 1..m \/ k = m + 1
      BY <1>1
    <3>2. CASE k = m + 1
      <4>1. callees[w] \in Seq(Nodes)
        BY <1>5
      <4> QED
        BY <1>2, <3>2, <4>1
    <3>3. CASE k \in 1..m /\ k # m
      <4>1. frames[k].child <= Len(callees[frames[k].v])
        BY <1>1, <3>3 DEF SccInv, Path
      <4> QED
        BY <1>2, <3>3, <4>1
    <3>4. CASE k = m /\ m # 0
      BY <1>1, <1>2, <3>4
    <3> QED
      BY <3>1, <3>2, <3>3, <3>4
  <2>3. \A k, l \in DOMAIN frames' : k < l =>
          /\ index'[frames'[k].v] < index'[frames'[l].v]
          /\ l = k + 1 => frames'[k].child # 0 /\ callees[frames'[k].v][frames'[k].child] = frames'[l].v
    <3> SUFFICES ASSUME NEW k \in 1..(m + 1), NEW l \in 1..(m + 1), k < l
                 PROVE  /\ index'[frames'[k].v] < index'[frames'[l].v]
                        /\ l = k + 1 => frames'[k].child # 0 /\ callees[frames'[k].v][frames'[k].child] = frames'[l].v
      BY <1>2
    <3>1. k \in 1..m /\ (l \in 1..m \/ l = m + 1)
      <4>1. m \in Nat
        BY <1>1
      <4> QED
        BY <4>1
    <3>2. CASE l \in 1..m
      <4>1. k # m
        BY <1>1, <3>2
      <4>2. /\ index[frames[k].v] < index[frames[l].v]
            /\ l = k + 1 => frames[k].child # 0 /\ callees[frames[k].v][frames[k].child] = frames[l].v
        <5>1. k \in DOMAIN frames /\ l \in DOMAIN frames
          BY <1>1, <3>1, <3>2
        <5> QED
          BY <5>1 DEF SccInv, Path
      <4>3. frames[k].v \in OnStack /\ frames[l].v \in OnStack /\ frames'[k].child = frames[k].child
        BY <1>1, <1>2, <3>1, <3>2, <4>1
      <4> QED
        BY <1>2, <1>13, <3>1, <3>2, <4>2, <4>3
    <3>3. CASE l = m + 1
      <4>1. index'[frames'[k].v] < index'[frames'[l].v]
        BY <1>1, <1>2, <1>7, <1>13, <3>1, <3>3
      <4>2. ASSUME l = k + 1 PROVE frames'[k].child # 0 /\ callees[frames'[k].v][frames'[k].child] = w
        <5>1. k = m /\ m # 0
          BY <1>1, <3>1, <3>3, <4>2
        <5> QED
          BY <1>1, <1>2, <3>1, <5>1
      <4> QED
        BY <1>2, <3>3, <4>1, <4>2
    <3> QED
      BY <3>1, <3>2, <3>3
  <2>4. frames' # <<>> /\ visitStack' # <<>> /\ visitStack'[1] = frames'[1].v
    <3>1. 1 \in 1..(m + 1) /\ 1 \in 1..(L + 1)
      BY <1>1, <1>10
    <3>2. frames' # <<>> /\ visitStack' # <<>>
      BY <1>2, <1>10, <3>1
    <3>3. CASE m = 0
      <4>1. visitStack = <<>>
        BY <1>1, <3>3 DEF SccInv, Path
      <4>2. L = 0
        BY <1>10, <4>1
      <4> QED
        BY <1>2, <1>10, <3>2, <3>3, <4>2
    <3>4. CASE m # 0
      <4>1. visitStack # <<>> /\ visitStack[1] = frames[1].v
        BY <1>1, <3>4 DEF SccInv, Path
      <4>2. 1 \in 1..L
        <5>1. visitStack \in Seq(Nodes)
          BY DEF SccInv, Shape
        <5> QED
          BY <1>10, <4>1, <5>1
      <4>3. 1 \in 1..m
        BY <1>1, <3>4
      <4> QED
        BY <1>2, <1>10, <3>2, <4>1, <4>2, <4>3
    <3> QED
      BY <3>3, <3>4
  <2> QED
    BY <1>4, <2>1, <2>2, <2>3, <2>4 DEF Path
<1>18. Looked'
  <2>1. counter # -1
    BY <1>7
  <2>2. ASSUME NEW u \in Nodes, index[u] # -1 PROVE index'[u] # -1
    BY <1>7, <2>1, <2>2
  <2>3. \A k \in DOMAIN frames' : \A n \in 1..frames'[k].child : index'[callees[frames'[k].v][n]] # -1
    <3> SUFFICES ASSUME NEW k \in 1..(m + 1), NEW n \in 1..frames'[k].child
                 PROVE  index'[callees[frames'[k].v][n]] # -1
      BY <1>2
    <3>1. CASE k = m + 1
      BY <1>2, <3>1
    <3>2. CASE k \in 1..m
      <4>1. CASE n \in 1..frames[k].child
        <5>1. index[callees[frames[k].v][n]] # -1
          BY <1>1, <3>2, <4>1 DEF SccInv, Looked
        <5>2. callees[frames[k].v][n] \in Nodes
          <6>1. callees[frames[k].v] \in Seq(Nodes)
            <7>1. frames[k].v \in Nodes
              BY <1>1, <3>2
            <7> QED
              BY <1>5, <7>1, CalledSeq
          <6>2. n \in 1..Len(callees[frames[k].v])
            <7>1. frames[k].child <= Len(callees[frames[k].v]) /\ frames[k].child \in Nat
              BY <1>1, <3>2 DEF SccInv, Path
            <7>2. Len(callees[frames[k].v]) \in Nat
              BY <6>1
            <7> QED
              BY <4>1, <7>1, <7>2
          <6> QED
            BY <6>1, <6>2
        <5> QED
          BY <1>2, <2>2, <3>2, <5>1, <5>2
      <4>2. CASE callees[frames[k].v][n] = w
        BY <1>2, <1>7, <2>1, <3>2, <4>2
      <4> QED
        BY <1>3, <3>2, <4>1, <4>2
    <3>3. k = m + 1 \/ k \in 1..m
      BY <1>1
    <3> QED
      BY <3>1, <3>2, <3>3
  <2>4. \A b \in OnStack' \ Gray' : \A u \in ToSet(callees[b]) : index'[u] # -1
    <3> SUFFICES ASSUME NEW b \in OnStack \ Gray, NEW u \in ToSet(callees[b]) PROVE index'[u] # -1
      BY <1>11, <1>12
    <3>1. index[u] # -1
      BY DEF SccInv, Looked
    <3>2. u \in Nodes
      <4>1. callees[b] \in Seq(Nodes)
        BY <1>5, <1>8
      <4> QED
        BY <4>1 DEF ToSet
    <3> QED
      BY <2>2, <3>1, <3>2
  <2> QED
    BY <1>4, <2>3, <2>4 DEF Looked
<1>19. Connected'
  <2>1. \A g \in Gray' : \A u \in OnStack' : index'[g] <= index'[u] => Leads(g, u)
    <3> SUFFICES ASSUME NEW g \in Gray \cup {w}, NEW u \in OnStack \cup {w}, index'[g] <= index'[u]
                 PROVE  Leads(g, u)
      BY <1>11, <1>12
    <3>1. CASE g = w
      <4>1. u = w
        <5>1. ASSUME u \in OnStack PROVE FALSE
          <6>1. index'[u] = index[u] /\ index[u] \in Int /\ index[u] < counter
            BY <1>8, <1>13, <5>1
          <6> QED
            BY <1>7, <3>1, <6>1
        <5> QED
          BY <5>1
      <4> QED
        BY <3>1, <4>1 DEF Leads
    <3>2. CASE g \in Gray /\ u \in OnStack
      <4>1. g \in OnStack
        BY <3>2 DEF SccInv, Path
      <4>2. index[g] <= index[u]
        BY <1>13, <3>2, <4>1
      <4> QED
        BY <3>2, <4>2 DEF SccInv, Connected
    <3>3. CASE g \in Gray /\ u = w
      BY <1>14, <3>3
    <3> QED
      BY <3>1, <3>2, <3>3
  <2>2. \A b \in OnStack' : \E g \in Gray' : index'[g] <= index'[b] /\ Leads(b, g)
    <3> SUFFICES ASSUME NEW b \in OnStack \cup {w}
                 PROVE  \E g \in Gray \cup {w} : index'[g] <= index'[b] /\ Leads(b, g)
      BY <1>11, <1>12
    <3>1. CASE b = w
      BY <1>7, <3>1 DEF Leads
    <3>2. CASE b \in OnStack
      <4>1. PICK g \in Gray : index[g] <= index[b] /\ Leads(b, g)
        BY <3>2 DEF SccInv, Connected
      <4>2. g \in OnStack
        BY DEF SccInv, Path
      <4> QED
        BY <1>13, <3>2, <4>1, <4>2
    <3> QED
      BY <3>1, <3>2
  <2> QED
    BY <1>6, <2>1, <2>2 DEF Connected
<1>20. Links'
  <2>1. \A b \in OnStack' :
          lowlink'[b] <= index'[b] /\ \E u \in OnStack' : index'[u] = lowlink'[b] /\ Leads(b, u)
    <3> SUFFICES ASSUME NEW b \in OnStack \cup {w}
                 PROVE  lowlink'[b] <= index'[b] /\ \E u \in OnStack \cup {w} : index'[u] = lowlink'[b] /\ Leads(b, u)
      BY <1>11
    <3>1. CASE b = w
      BY <1>7, <3>1 DEF Leads
    <3>2. CASE b \in OnStack
      <4>1. lowlink[b] <= index[b] /\ \E u \in OnStack : index[u] = lowlink[b] /\ Leads(b, u)
        BY <3>2 DEF SccInv, Links
      <4> QED
        BY <1>13, <3>2, <4>1
    <3> QED
      BY <3>1, <3>2
  \* The link of a node below is no more than its index, and that less than the new one.
  <2>2. ASSUME NEW k \in 1..m PROVE lowlink'[frames'[k].v] = lowlink[frames[k].v] /\ lowlink[frames[k].v] <= index'[w]
    <3>1. frames[k].v \in OnStack
      BY <1>1
    <3>2. lowlink[frames[k].v] <= index[frames[k].v]
      BY <3>1 DEF SccInv, Links
    <3>3. index[frames[k].v] < counter /\ index[frames[k].v] \in Int /\ lowlink[frames[k].v] \in Nat
      BY <1>8, <1>13, <3>1
    <3>4. frames'[k].v = frames[k].v /\ lowlink'[frames[k].v] = lowlink[frames[k].v]
      BY <1>2, <1>13, <3>1
    <3>5. index'[w] = counter /\ counter \in Nat
      BY <1>7
    <3>6. lowlink[frames[k].v] <= counter
      BY <3>2, <3>3, <3>5
    <3> QED
      BY <3>4, <3>5, <3>6
  <2>3. ASSUME NEW k \in 1..(m + 1), NEW n \in 1..frames'[k].child, callees[frames'[k].v][n] \in OnStack'
        PROVE  lowlink'[frames'[k].v] <= index'[callees[frames'[k].v][n]]
    <3>1. CASE k = m + 1
      BY <1>2, <3>1
    <3>2. CASE k \in 1..m
      <4>1. CASE callees[frames[k].v][n] = w
        BY <1>2, <2>2, <3>2, <4>1
      <4>2. CASE n \in 1..frames[k].child /\ callees[frames[k].v][n] # w
        <5>1. callees[frames[k].v][n] \in OnStack
          BY <1>2, <1>11, <2>3, <3>2, <4>2
        <5>2. lowlink[frames[k].v] <= index[callees[frames[k].v][n]]
          BY <1>1, <3>2, <4>2, <5>1 DEF SccInv, Links
        <5> QED
          BY <1>2, <1>13, <2>2, <3>2, <5>1, <5>2
      <4> QED
        BY <1>3, <2>3, <3>2, <4>1, <4>2
    <3>3. k = m + 1 \/ k \in 1..m
      BY <1>1
    <3> QED
      BY <3>1, <3>2, <3>3
  <2>4. ASSUME NEW k \in 1..(m + 1), NEW b \in OnStack' \ Gray',
               index'[frames'[k].v] < index'[b],
               k + 1 \in 1..(m + 1) => index'[b] < index'[frames'[k + 1].v],
               NEW u \in ToSet(callees[b]) \cap OnStack'
        PROVE  lowlink'[frames'[k].v] <= index'[u]
    <3>1. b \in OnStack \ Gray
      BY <1>11, <1>12
    <3>2. CASE k = m + 1
      <4>1. index'[b] = index[b] /\ index[b] \in Int /\ index[b] < counter
        BY <1>8, <1>13, <3>1
      <4> QED
        BY <1>2, <1>7, <2>4, <3>2, <4>1
    <3>3. CASE k \in 1..m
      <4>1. CASE u = w
        BY <2>2, <3>3, <4>1
      <4>2. CASE u # w
        <5>1. u \in ToSet(callees[b]) \cap OnStack
          BY <1>11, <4>2
        <5>2. index[frames[k].v] < index[b]
          BY <1>1, <1>2, <1>13, <2>4, <3>1, <3>3
        <5>3. k + 1 \in 1..m => index[b] < index[frames[k + 1].v]
          <6> SUFFICES ASSUME k + 1 \in 1..m PROVE index[b] < index[frames[k + 1].v]
            OBVIOUS
          <6>1. k + 1 \in 1..(m + 1)
            BY <1>1
          <6> QED
            BY <1>1, <1>2, <1>13, <2>4, <3>1, <6>1
        <5>4. lowlink[frames[k].v] <= index[u]
          BY <1>1, <3>1, <3>3, <5>1, <5>2, <5>3 DEF SccInv, Links
        <5> QED
          BY <1>13, <2>2, <3>3, <5>1, <5>4
      <4> QED
        BY <4>1, <4>2
    <3>4. k = m + 1 \/ k \in 1..m
      BY <1>1
    <3> QED
      BY <3>2, <3>3, <3>4
  <2> QED
    BY <1>2, <1>4, <1>6, <2>1, <2>3, <2>4 DEF Links
<1>21. Out'
  BY <1>4, OutStays
<1> QED
  BY <1>15, <1>16, <1>17, <1>18, <1>19, <1>20, <1>21 DEF SccInv

\* The frame on top.
LEMMA TopFacts ==
  ASSUME SccInv, NEW m, m = Len(frames), frames # <<>>
  PROVE  /\ m \in Nat /\ m # 0 /\ m \in 1..m /\ DOMAIN frames = 1..m
         /\ Top = frames[m] /\ Top.v \in Nodes /\ Top.v \in OnStack /\ Top.v \in Gray /\ Top.child \in Nat
         /\ Top.child <= Len(callees[Top.v]) /\ callees[Top.v] \in Seq(Nodes)
         /\ \A k \in 1..m : /\ frames[k].v \in Nodes /\ frames[k].child \in Nat
                            /\ frames[k].v \in OnStack /\ frames[k].v \in Gray
                            /\ k # m => frames[k].v # Top.v /\ index[frames[k].v] < index[Top.v]
         /\ \A g \in Gray : \E k \in 1..m : g = frames[k].v
<1>1. /\ m \in Nat /\ m # 0 /\ DOMAIN frames = 1..m
      /\ \A k \in 1..m : /\ frames[k].v \in Nodes /\ frames[k].child \in Nat
                         /\ frames[k].v \in OnStack /\ frames[k].v \in Gray
      /\ \A g \in Gray : \E k \in 1..m : g = frames[k].v
  BY FrameFacts
<1>2. m \in 1..m /\ Top = frames[m]
  BY <1>1 DEF Top
<1>3. ASSUME NEW k \in 1..m, k # m PROVE frames[k].v # Top.v /\ index[frames[k].v] < index[Top.v]
  <2>1. k \in DOMAIN frames /\ m \in DOMAIN frames /\ k < m
    BY <1>1, <1>2, <1>3
  <2>2. index[frames[k].v] < index[frames[m].v]
    BY <2>1 DEF SccInv, Path
  <2>3. index[frames[k].v] \in Int
    BY <1>1, <1>3, StackFacts
  <2> QED
    BY <1>2, <2>2, <2>3
<1>4. Top.child <= Len(callees[Top.v])
  BY <1>1, <1>2 DEF SccInv, Path
<1>5. callees[Top.v] \in Seq(Nodes)
  BY <1>1, <1>2, GraphType, CalledSeq DEF SccInv, Shape
<1> QED
  BY <1>1, <1>2, <1>3, <1>4, <1>5

\* The frame on top looks at the next callee and stays on top.
LEMMA LookStep ==
  ASSUME SccInv, HasCallee, index[Callee] # -1, frames' = Advanced,
         UNCHANGED <<callees, start, index, onStack, visitStack, counter, sccs>>,
         \/ Callee \in OnStack /\ lowlink' = Lowered(Top.v, index[Callee])
         \/ Callee \notin OnStack /\ lowlink' = lowlink
  PROVE  SccInv'
<1>1. PICK m, t, c : m = Len(frames) /\ t = Top.v /\ c = Callee
  OBVIOUS
<1>2. frames # <<>> /\ Top.child < Len(callees[t]) /\ c = callees[t][Top.child + 1]
  BY <1>1 DEF HasCallee, Callee
<1>3. /\ m \in Nat /\ m # 0 /\ m \in 1..m /\ DOMAIN frames = 1..m
      /\ Top = frames[m] /\ t \in Nodes /\ t \in OnStack /\ t \in Gray /\ frames[m].child \in Nat
      /\ callees[t] \in Seq(Nodes)
      /\ \A k \in 1..m : /\ frames[k].v \in Nodes /\ frames[k].child \in Nat
                         /\ frames[k].v \in OnStack /\ frames[k].v \in Gray
                         /\ k # m => frames[k].v # t
  BY <1>1, <1>2, TopFacts
<1>4. /\ frames' \in Seq(Frame) /\ DOMAIN frames' = 1..m
      /\ \A k \in 1..m : frames'[k].v = frames[k].v /\ (k # m => frames'[k].child = frames[k].child)
      /\ frames'[m].child = frames[m].child + 1
  <2>1. frames \in Seq(Frame)
    BY DEF SccInv, Shape, Frame
  <2>2. frames' = [frames EXCEPT ![m].child = frames[m].child + 1]
    BY <1>1 DEF Advanced
  <2>3. [frames[m] EXCEPT !.child = frames[m].child + 1] \in Frame
    <3>1. frames[m] \in Frame
      BY <1>3, <2>1
    <3> QED
      BY <3>1 DEF Frame
  <2>4. frames' \in Seq(Frame)
    BY <1>3, <2>1, <2>2, <2>3
  <2>5. DOMAIN frames' = 1..m /\ (\A k \in 1..m : k # m => frames'[k] = frames[k])
        /\ frames'[m] = [frames[m] EXCEPT !.child = frames[m].child + 1]
    BY <1>3, <2>2
  <2>6. frames[m] \in Frame
    BY <1>3, <2>1
  <2>7. frames'[m].v = frames[m].v /\ frames'[m].child = frames[m].child + 1
    BY <2>5, <2>6 DEF Frame
  <2> QED
    BY <1>3, <2>4, <2>5, <2>7
<1>5. c \in ToSet(callees[t]) /\ c \in Nodes
  <2>1. frames[m].child + 1 \in 1..Len(callees[t])
    BY <1>2, <1>3
  <2> QED
    BY <1>2, <1>3, <2>1 DEF ToSet
<1>6. \A k \in 1..m : \A n \in 1..frames'[k].child :
        n \in 1..frames[k].child \/ (k = m /\ callees[frames[k].v][n] = c)
  <2> TAKE k \in 1..m
  <2> TAKE n \in 1..frames'[k].child
  <2>1. CASE k # m
    <3>1. frames'[k].child = frames[k].child
      BY <1>4, <2>1
    <3> QED
      BY <3>1
  <2>2. CASE k = m
    <3>1. n \in 1..frames[m].child \/ n = frames[m].child + 1
      BY <1>3, <1>4, <2>2
    <3>2. callees[frames[m].v][frames[m].child + 1] = c
      BY <1>1, <1>2, <1>3
    <3> QED
      BY <2>2, <3>1, <3>2
  <2> QED
    BY <2>1, <2>2
<1>7. Gray' = Gray /\ OnStack' = OnStack /\ Emitted' = Emitted
  <2>1. Gray = {frames[k].v : k \in 1..m} /\ Gray' = {frames'[k].v : k \in 1..m}
    BY <1>3, <1>4 DEF Gray
  <2> QED
    BY <1>4, <2>1 DEF OnStack, Emitted
<1>8. callees \in Seq(Seq(Nodes))
  BY GraphType DEF SccInv, Shape
<1>9. Nodes' = Nodes /\ (\A x, y : Leads(x, y)' <=> Leads(x, y)) /\ (\A x : Reaches(x)' = Reaches(x))
  BY SameGraph
<1>10. /\ OnStack \subseteq Nodes
       /\ \A b \in OnStack : index[b] \in Int /\ index[b] \in Nat /\ lowlink[b] \in Nat
  BY StackFacts
<1>11. /\ lowlink' \in [Nodes -> Nat] /\ \A u \in Nodes : u # t => lowlink'[u] = lowlink[u]
       /\ lowlink'[t] <= lowlink[t]
       /\ c \in OnStack => lowlink'[t] <= index[c]
       /\ lowlink'[t] = lowlink[t] \/ (c \in OnStack /\ lowlink'[t] = index[c])
  <2>1. lowlink \in [Nodes -> Nat]
    BY DEF SccInv, Shape
  <2>2. CASE c \in OnStack /\ lowlink' = Lowered(t, index[c])
    <3>1. lowlink' = [lowlink EXCEPT ![t] = IF index[c] < lowlink[t] THEN index[c] ELSE lowlink[t]]
      BY <2>2 DEF Lowered
    <3>2. index[c] \in Nat /\ lowlink[t] \in Nat
      BY <1>3, <1>10, <2>2
    <3> QED
      BY <1>3, <2>1, <2>2, <3>1, <3>2
  <2>3. CASE c \notin OnStack /\ lowlink' = lowlink
    <3>1. lowlink[t] \in Nat
      BY <1>3, <2>1
    <3> QED
      BY <2>1, <2>3, <3>1
  <2> QED
    BY <1>1, <2>2, <2>3
\* No link has grown.
<1>12. \A b \in OnStack : lowlink'[b] <= lowlink[b] /\ lowlink'[b] \in Nat
  <2> TAKE b \in OnStack
  <2>1. b \in Nodes /\ lowlink[b] \in Nat
    BY <1>10
  <2> QED
    BY <1>11, <2>1
<1>13. Shape'
  <2>1. /\ callees \in CallGraphs /\ start \in 1..Len(callees) + 1 /\ counter \in Nat
        /\ index \in [Nodes -> Int] /\ visitStack \in Seq(Nodes)
        /\ onStack = [v \in Nodes |-> v \in OnStack]
        /\ sccs \in Seq([members : Seq(Nodes), recursive : BOOLEAN])
    BY DEF SccInv, Shape
  <2>2. frames' \in Seq([v : Nodes, child : Nat])
    BY <1>4 DEF Frame
  <2> QED
    BY <1>7, <1>9, <1>11, <2>1, <2>2 DEF Shape
<1>14. Numbered'
  BY <1>7, <1>9 DEF SccInv, Numbered
<1>15. Path'
  <2>1. \A k \in DOMAIN frames' : frames'[k].child <= Len(callees[frames'[k].v])
    <3> SUFFICES ASSUME NEW k \in 1..m PROVE frames'[k].child <= Len(callees[frames'[k].v])
      BY <1>4
    <3>1. CASE k = m
      <4>1. Len(callees[t]) \in Nat
        BY <1>3
      <4> QED
        BY <1>1, <1>2, <1>3, <1>4, <3>1, <4>1
    <3>2. CASE k # m
      <4>1. frames[k].child <= Len(callees[frames[k].v])
        BY <1>3 DEF SccInv, Path
      <4> QED
        BY <1>4, <3>2, <4>1
    <3> QED
      BY <3>1, <3>2
  <2>2. \A k, l \in DOMAIN frames' : k < l =>
          /\ index[frames'[k].v] < index[frames'[l].v]
          /\ l = k + 1 => frames'[k].child # 0 /\ callees[frames'[k].v][frames'[k].child] = frames'[l].v
    <3> SUFFICES ASSUME NEW k \in 1..m, NEW l \in 1..m, k < l
                 PROVE  /\ index[frames'[k].v] < index[frames'[l].v]
                        /\ l = k + 1 => frames'[k].child # 0 /\ callees[frames'[k].v][frames'[k].child] = frames'[l].v
      BY <1>4
    <3>1. k # m
      BY <1>3
    <3>2. k \in DOMAIN frames /\ l \in DOMAIN frames
      BY <1>3
    <3>3. /\ index[frames[k].v] < index[frames[l].v]
          /\ l = k + 1 => frames[k].child # 0 /\ callees[frames[k].v][frames[k].child] = frames[l].v
      BY <3>2 DEF SccInv, Path
    <3> QED
      BY <1>4, <3>1, <3>3
  <2>3. frames' # <<>> /\ visitStack # <<>> /\ visitStack[1] = frames'[1].v
    <3>1. 1 \in 1..m
      BY <1>3
    <3>2. visitStack # <<>> /\ visitStack[1] = frames[1].v
      BY <1>2 DEF SccInv, Path
    <3>3. frames' # <<>>
      <4>1. Len(frames') \in Nat /\ DOMAIN frames' = 1..Len(frames')
        BY <1>4
      <4>2. 1 \in 1..Len(frames')
        BY <1>4, <3>1, <4>1
      <4>3. Len(frames') # 0
        BY <4>1, <4>2
      <4> QED
        BY <4>3
    <3> QED
      BY <1>4, <3>1, <3>2, <3>3
  <2>4. Gray \subseteq OnStack
    BY DEF SccInv, Path
  <2> QED
    BY <1>7, <2>1, <2>2, <2>3, <2>4 DEF Path
<1>16. Looked'
  <2>1. \A k \in DOMAIN frames' : \A n \in 1..frames'[k].child : index[callees[frames'[k].v][n]] # -1
    <3> SUFFICES ASSUME NEW k \in 1..m, NEW n \in 1..frames'[k].child PROVE index[callees[frames'[k].v][n]] # -1
      BY <1>4
    <3>1. CASE n \in 1..frames[k].child
      <4>1. index[callees[frames[k].v][n]] # -1
        BY <1>3, <3>1 DEF SccInv, Looked
      <4> QED
        BY <1>4, <4>1
    <3>2. CASE callees[frames[k].v][n] = c
      BY <1>1, <1>4, <3>2
    <3> QED
      BY <1>6, <3>1, <3>2
  <2> QED
    BY <1>7, <2>1 DEF SccInv, Looked
<1>17. Connected'
  BY <1>7, <1>9 DEF SccInv, Connected
<1>18. Links'
  <2>1. \A b \in OnStack :
          lowlink'[b] <= index[b] /\ \E u \in OnStack : index[u] = lowlink'[b] /\ Leads(b, u)
    <3> TAKE b \in OnStack
    <3>1. PICK u \in OnStack : lowlink[b] <= index[b] /\ index[u] = lowlink[b] /\ Leads(b, u)
      BY DEF SccInv, Links
    <3>2. lowlink'[b] <= index[b]
      BY <1>10, <1>12, <3>1
    <3>3. CASE lowlink'[b] = lowlink[b]
      BY <3>1, <3>2, <3>3
    <3>4. CASE lowlink'[b] # lowlink[b]
      <4>1. b = t /\ c \in OnStack /\ lowlink'[t] = index[c]
        BY <1>10, <1>11, <3>4
      <4>2. Leads(t, c)
        BY <1>3, <1>5, <1>8, ReachFacts DEF Leads
      <4> QED
        BY <3>2, <4>1, <4>2
    <3> QED
      BY <3>3, <3>4
  <2>2. ASSUME NEW k \in 1..m, NEW n \in 1..frames'[k].child, callees[frames'[k].v][n] \in OnStack
        PROVE  lowlink'[frames'[k].v] <= index[callees[frames'[k].v][n]]
    <3>1. frames'[k].v = frames[k].v /\ frames[k].v \in OnStack
      BY <1>3, <1>4
    <3>2. CASE n \in 1..frames[k].child
      <4>1. lowlink[frames[k].v] <= index[callees[frames[k].v][n]]
        BY <1>3, <2>2, <3>1, <3>2 DEF SccInv, Links
      <4>2. index[callees[frames[k].v][n]] \in Int /\ lowlink[frames[k].v] \in Nat
        BY <1>10, <2>2, <3>1
      <4> QED
        BY <1>12, <3>1, <4>1, <4>2
    <3>3. CASE k = m /\ callees[frames[k].v][n] = c
      BY <1>1, <1>3, <1>11, <2>2, <3>1, <3>3
    <3> QED
      BY <1>6, <3>2, <3>3
  <2>3. ASSUME NEW k \in 1..m, NEW b \in OnStack \ Gray,
               index[frames'[k].v] < index[b],
               k + 1 \in 1..m => index[b] < index[frames'[k + 1].v],
               NEW u \in ToSet(callees[b]) \cap OnStack
        PROVE  lowlink'[frames'[k].v] <= index[u]
    <3>1. frames'[k].v = frames[k].v /\ frames[k].v \in OnStack /\ k \in DOMAIN frames
      BY <1>3, <1>4
    <3>2. k + 1 \in 1..m => index[b] < index[frames[k + 1].v]
      BY <1>4, <2>3
    <3>3. lowlink[frames[k].v] <= index[u]
      BY <1>3, <2>3, <3>1, <3>2 DEF SccInv, Links
    <3>4. index[u] \in Int /\ lowlink[frames[k].v] \in Nat
      BY <1>10, <3>1
    <3> QED
      BY <1>12, <3>1, <3>3, <3>4
  <2> QED
    BY <1>4, <1>7, <1>9, <2>1, <2>2, <2>3 DEF Links
<1>19. Out'
  BY OutStays
<1> QED
  BY <1>13, <1>14, <1>15, <1>16, <1>17, <1>18, <1>19 DEF SccInv

\* The frame of t, at m, is popped.
Left(m, t) ==
  /\ m - 1 \in Nat /\ frames' \in Seq(Frame) /\ DOMAIN frames' = 1..(m - 1) /\ Len(frames') = m - 1
  /\ \A k \in 1..(m - 1) : frames'[k] = frames[k] /\ k \in 1..m /\ k # m /\ k + 1 \in 1..m
  /\ Gray' = Gray \ {t}
  /\ \A k \in 1..m : k = m \/ k \in 1..(m - 1)
  /\ \A u \in ToSet(callees[t]) : \E n \in 1..frames[m].child : u = callees[t][n]

\* A node that is left is done: all its calls were looked at.
LEMMA LeftFacts ==
  ASSUME SccInv, frames # <<>>, ~HasCallee, frames' = Front(frames)
  PROVE  Left(Len(frames), Top.v)
<1>1. PICK m, t : m = Len(frames) /\ t = Top.v
  OBVIOUS
<1>2. /\ m \in Nat /\ m # 0 /\ m \in 1..m /\ DOMAIN frames = 1..m
      /\ Top = frames[m] /\ Top.child \in Nat /\ Top.child <= Len(callees[t]) /\ callees[t] \in Seq(Nodes)
      /\ \A k \in 1..m : k # m => frames[k].v # t
  BY <1>1, TopFacts
<1>3. m - 1 \in Nat /\ \A k \in 1..m : k = m \/ k \in 1..(m - 1)
  BY <1>2
<1>4. frames \in Seq(Frame)
  BY DEF SccInv, Shape, Frame
<1>5. /\ frames' \in Seq(Frame) /\ DOMAIN frames' = 1..(m - 1) /\ Len(frames') = m - 1
      /\ \A k \in 1..(m - 1) : frames'[k] = frames[k]
  <2>1. frames' = SubSeq(frames, 1, m - 1)
    BY <1>1 DEF Front
  <2>2. \A i \in 1..(m - 1) : frames[i] \in Frame
    BY <1>2, <1>3, <1>4
  <2>3. frames' = [i \in 1..(m - 1) |-> frames[i]]
    BY <1>2, <1>4, <2>1
  <2>4. frames' \in Seq(Frame) /\ DOMAIN frames' = 1..(m - 1)
    BY <1>3, <2>2, <2>3
  <2> QED
    BY <1>3, <2>3, <2>4
<1>6. \A k \in 1..(m - 1) : k \in 1..m /\ k # m /\ k + 1 \in 1..m
  BY <1>2
<1>7. Gray' = Gray \ {t}
  <2>1. Gray = {frames[k].v : k \in 1..m} /\ Gray' = {frames'[k].v : k \in 1..(m - 1)}
    BY <1>2, <1>5 DEF Gray
  <2>2. \A k \in 1..(m - 1) : frames'[k].v = frames[k].v
    BY <1>5
  <2>3. ASSUME NEW g \in Gray, g # t PROVE g \in Gray'
    <3>1. PICK k \in 1..m : g = frames[k].v
      BY <2>1
    <3>2. k \in 1..(m - 1)
      BY <1>1, <1>2, <1>3, <2>3, <3>1
    <3> QED
      BY <2>1, <2>2, <3>1, <3>2
  <2>4. ASSUME NEW g \in Gray' PROVE g \in Gray /\ g # t
    BY <1>2, <1>6, <2>1, <2>2
  <2> QED
    BY <2>3, <2>4
<1>8. \A u \in ToSet(callees[t]) : \E n \in 1..frames[m].child : u = callees[t][n]
  <2>1. frames[m].child = Len(callees[t])
    BY <1>1, <1>2 DEF HasCallee
  <2> QED
    BY <1>2, <2>1 DEF ToSet
<1> QED
  BY <1>1, <1>3, <1>5, <1>6, <1>7, <1>8 DEF Left

\* A node that is no root is left: its component's root is below it, and the node
\* that called it takes over what it can come to.
LEMMA InnerStep ==
  ASSUME SccInv, LeaveInner
  PROVE  SccInv'
<1>1. PICK m, t, p : m = Len(frames) /\ t = Top.v /\ p = frames[m - 1].v
  OBVIOUS
<1>2. /\ frames # <<>> /\ ~HasCallee /\ lowlink[t] # index[t] /\ frames' = Front(frames)
      /\ UNCHANGED <<callees, start, index, onStack, visitStack, counter, sccs>>
      /\ lowlink' = IF m = 1 THEN lowlink ELSE Lowered(p, lowlink[t])
  BY <1>1 DEF LeaveInner, Leave
<1>3. /\ m \in Nat /\ m # 0 /\ m \in 1..m /\ DOMAIN frames = 1..m
      /\ Top = frames[m] /\ t \in Nodes /\ t \in OnStack /\ t \in Gray
      /\ \A k \in 1..m : /\ frames[k].v \in Nodes /\ frames[k].child \in Nat
                         /\ frames[k].v \in OnStack /\ frames[k].v \in Gray
                         /\ k # m => frames[k].v # t /\ index[frames[k].v] < index[t]
  BY <1>1, <1>2, TopFacts
<1>4. /\ m - 1 \in Nat /\ frames' \in Seq(Frame) /\ DOMAIN frames' = 1..(m - 1) /\ Len(frames') = m - 1
      /\ \A k \in 1..(m - 1) : frames'[k] = frames[k] /\ k \in 1..m /\ k # m /\ k + 1 \in 1..m
      /\ Gray' = Gray \ {t}
      /\ \A k \in 1..m : k = m \/ k \in 1..(m - 1)
      /\ \A u \in ToSet(callees[t]) : \E n \in 1..frames[m].child : u = callees[t][n]
  BY <1>1, <1>2, LeftFacts DEF Left
<1>5. OnStack' = OnStack /\ Emitted' = Emitted
  BY <1>2 DEF OnStack, Emitted
<1>6. callees \in Seq(Seq(Nodes))
  BY GraphType DEF SccInv, Shape
<1>7. Nodes' = Nodes /\ (\A x, y : Leads(x, y)' <=> Leads(x, y)) /\ (\A x : Reaches(x)' = Reaches(x))
  BY <1>2, SameGraph
<1>8. /\ OnStack \subseteq Nodes
      /\ \A b \in OnStack : /\ index[b] \in Int /\ index[b] \in Nat /\ lowlink[b] \in Nat
                            /\ \E n \in 1..Len(visitStack) : visitStack[n] = b
      /\ \A b, d \in OnStack : index[b] = index[d] => b = d
      /\ DOMAIN visitStack = 1..Len(visitStack)
  BY StackFacts
<1>9. PICK r \in OnStack : index[r] = lowlink[t] /\ lowlink[t] <= index[t] /\ Leads(t, r)
  BY <1>3 DEF SccInv, Links
<1>10. index[r] < index[t]
  BY <1>2, <1>3, <1>8, <1>9
<1>11. m # 1
  <2> SUFFICES ASSUME m = 1 PROVE FALSE
    OBVIOUS
  <2>1. visitStack[1] = t
    BY <1>1, <1>2, <1>3 DEF SccInv, Path
  <2>2. PICK n \in 1..Len(visitStack) : visitStack[n] = r
    BY <1>8
  <2>3. 1 \in 1..Len(visitStack) /\ (n = 1 \/ 1 < n)
    OBVIOUS
  <2>4. n = 1 \/ index[t] < index[r]
    BY <1>8, <2>1, <2>2, <2>3 DEF SccInv, Numbered
  <2> QED
    BY <1>3, <1>8, <1>10, <2>1, <2>2, <2>4
<1>12. /\ m - 1 \in 1..(m - 1) /\ m - 1 \in 1..m /\ m - 1 # m /\ p \in Nodes /\ p \in OnStack /\ p \in Gray
       /\ p # t /\ index[p] < index[t]
  <2>1. m - 1 \in 1..(m - 1) /\ m - 1 \in 1..m /\ m - 1 # m
    BY <1>3, <1>11
  <2> QED
    BY <1>1, <1>3, <1>4, <2>1
<1>13. Leads(p, t)
  <2>1. m - 1 \in DOMAIN frames /\ m \in DOMAIN frames /\ m - 1 < m /\ m = (m - 1) + 1
    BY <1>3, <1>12
  <2>2. frames[m - 1].child # 0 /\ callees[p][frames[m - 1].child] = t
    BY <1>1, <1>3, <2>1 DEF SccInv, Path
  <2>3. frames[m - 1].child <= Len(callees[p]) /\ frames[m - 1].child \in Nat
    BY <1>1, <1>3, <1>12, <2>1 DEF SccInv, Path
  <2>4. callees[p] \in Seq(Nodes)
    BY <1>6, <1>12, CalledSeq
  <2>5. t \in ToSet(callees[p])
    BY <2>2, <2>3, <2>4 DEF ToSet
  <2> QED
    BY <1>6, <1>12, <2>5, ReachFacts DEF Leads
<1>14. /\ lowlink' \in [Nodes -> Nat] /\ \A u \in Nodes : u # p => lowlink'[u] = lowlink[u]
       /\ lowlink'[p] <= lowlink[p] /\ lowlink'[p] <= lowlink[t]
       /\ lowlink'[p] = lowlink[p] \/ lowlink'[p] = lowlink[t]
  <2>1. lowlink \in [Nodes -> Nat] /\ lowlink[t] \in Nat /\ lowlink[p] \in Nat
    BY <1>3, <1>8, <1>12 DEF SccInv, Shape
  <2>2. lowlink' = [lowlink EXCEPT ![p] = IF lowlink[t] < lowlink[p] THEN lowlink[t] ELSE lowlink[p]]
    BY <1>2, <1>11 DEF Lowered
  <2> QED
    BY <1>12, <2>1, <2>2
<1>15. \A b \in OnStack : lowlink'[b] <= lowlink[b] /\ lowlink'[b] \in Nat
  <2> TAKE b \in OnStack
  <2>1. b \in Nodes /\ lowlink[b] \in Nat
    BY <1>8
  <2> QED
    BY <1>14, <2>1
<1>16. Shape'
  <2>1. /\ callees \in CallGraphs /\ start \in 1..Len(callees) + 1 /\ counter \in Nat
        /\ index \in [Nodes -> Int] /\ visitStack \in Seq(Nodes)
        /\ onStack = [v \in Nodes |-> v \in OnStack]
        /\ sccs \in Seq([members : Seq(Nodes), recursive : BOOLEAN])
    BY DEF SccInv, Shape
  <2>2. frames' \in Seq([v : Nodes, child : Nat])
    BY <1>4 DEF Frame
  <2> QED
    BY <1>2, <1>5, <1>7, <1>14, <2>1, <2>2 DEF Shape
<1>17. Numbered'
  BY <1>2, <1>5, <1>7 DEF SccInv, Numbered
<1>18. Path'
  <2>1. \A k \in DOMAIN frames' : frames'[k].child <= Len(callees[frames'[k].v])
    BY <1>3, <1>4 DEF SccInv, Path
  <2>2. \A k, l \in DOMAIN frames' : k < l =>
          /\ index[frames'[k].v] < index[frames'[l].v]
          /\ l = k + 1 => frames'[k].child # 0 /\ callees[frames'[k].v][frames'[k].child] = frames'[l].v
    <3> SUFFICES ASSUME NEW k \in 1..(m - 1), NEW l \in 1..(m - 1), k < l
                 PROVE  /\ index[frames'[k].v] < index[frames'[l].v]
                        /\ l = k + 1 => frames'[k].child # 0 /\ callees[frames'[k].v][frames'[k].child] = frames'[l].v
      BY <1>4
    <3>1. k \in DOMAIN frames /\ l \in DOMAIN frames
      BY <1>3, <1>4
    <3>2. /\ index[frames[k].v] < index[frames[l].v]
          /\ l = k + 1 => frames[k].child # 0 /\ callees[frames[k].v][frames[k].child] = frames[l].v
      BY <3>1 DEF SccInv, Path
    <3> QED
      BY <1>4, <3>2
  <2>3. frames' # <<>> /\ visitStack # <<>> /\ visitStack[1] = frames'[1].v
    <3>1. 1 \in 1..(m - 1) /\ Len(frames') # 0
      BY <1>4, <1>12
    <3>2. visitStack # <<>> /\ visitStack[1] = frames[1].v
      BY <1>2 DEF SccInv, Path
    <3>3. frames' # <<>>
      BY <3>1
    <3> QED
      BY <1>4, <3>1, <3>2, <3>3
  <2>4. Gray' \subseteq OnStack
    BY <1>4 DEF SccInv, Path
  <2> QED
    BY <1>2, <1>5, <2>1, <2>2, <2>3, <2>4 DEF Path
<1>19. Looked'
  <2>1. \A k \in DOMAIN frames' : \A n \in 1..frames'[k].child : index[callees[frames'[k].v][n]] # -1
    BY <1>3, <1>4 DEF SccInv, Looked
  <2>2. ASSUME NEW b \in OnStack \ Gray', NEW u \in ToSet(callees[b]) PROVE index[u] # -1
    <3>1. CASE b = t
      <4>1. PICK n \in 1..frames[m].child : u = callees[t][n]
        BY <1>4, <2>2, <3>1
      <4> QED
        BY <1>1, <1>3, <4>1 DEF SccInv, Looked
    <3>2. CASE b # t
      <4>1. b \in OnStack \ Gray
        BY <1>4, <3>2
      <4> QED
        BY <2>2, <4>1 DEF SccInv, Looked
    <3> QED
      BY <3>1, <3>2
  <2> QED
    BY <1>2, <1>5, <2>1, <2>2 DEF Looked
<1>20. Connected'
  <2>1. \A g \in Gray' : \A u \in OnStack : index[g] <= index[u] => Leads(g, u)
    BY <1>4 DEF SccInv, Connected
  <2>2. ASSUME NEW b \in OnStack PROVE \E g \in Gray' : index[g] <= index[b] /\ Leads(b, g)
    <3>1. PICK g \in Gray : index[g] <= index[b] /\ Leads(b, g)
      BY DEF SccInv, Connected
    <3>2. CASE g # t
      BY <1>4, <3>1, <3>2
    <3>3. CASE g = t
      <4>1. PICK h \in Gray : index[h] <= index[r] /\ Leads(r, h)
        BY <1>9 DEF SccInv, Connected
      <4>2. h \in OnStack
        BY DEF SccInv, Path
      <4>3. h # t /\ index[h] <= index[b]
        BY <1>3, <1>8, <1>10, <3>1, <3>3, <4>1, <4>2
      <4>4. Leads(b, r)
        BY <1>3, <1>6, <1>8, <1>9, <3>1, <3>3, LeadsTransitive
      <4>5. Leads(b, h)
        BY <1>6, <1>8, <4>1, <4>4, LeadsTransitive
      <4> QED
        BY <1>4, <4>3, <4>5
    <3> QED
      BY <3>2, <3>3
  <2> QED
    BY <1>2, <1>5, <1>7, <2>1, <2>2 DEF Connected
<1>21. Links'
  <2>1. \A b \in OnStack :
          lowlink'[b] <= index[b] /\ \E u \in OnStack : index[u] = lowlink'[b] /\ Leads(b, u)
    <3> TAKE b \in OnStack
    <3>1. PICK u \in OnStack : lowlink[b] <= index[b] /\ index[u] = lowlink[b] /\ Leads(b, u)
      BY DEF SccInv, Links
    <3>2. lowlink'[b] <= index[b]
      BY <1>8, <1>15, <3>1
    <3>3. CASE lowlink'[b] = lowlink[b]
      BY <3>1, <3>2, <3>3
    <3>4. CASE lowlink'[b] # lowlink[b]
      <4>1. b = p /\ lowlink'[p] = lowlink[t]
        BY <1>8, <1>14, <3>4
      <4>2. Leads(p, r)
        BY <1>6, <1>9, <1>12, <1>13, LeadsTransitive
      <4> QED
        BY <1>9, <3>2, <4>1, <4>2
    <3> QED
      BY <3>3, <3>4
  <2>2. ASSUME NEW k \in 1..(m - 1), NEW n \in 1..frames'[k].child, callees[frames'[k].v][n] \in OnStack
        PROVE  lowlink'[frames'[k].v] <= index[callees[frames'[k].v][n]]
    <3>1. frames'[k] = frames[k] /\ frames[k].v \in OnStack /\ k \in DOMAIN frames
      BY <1>3, <1>4
    <3>2. lowlink[frames[k].v] <= index[callees[frames[k].v][n]]
      BY <2>2, <3>1 DEF SccInv, Links
    <3>3. index[callees[frames[k].v][n]] \in Int /\ lowlink[frames[k].v] \in Nat
      BY <1>8, <2>2, <3>1
    <3> QED
      BY <1>15, <3>1, <3>2, <3>3
  <2>3. ASSUME NEW k \in 1..(m - 1), NEW b \in OnStack \ Gray',
               index[frames'[k].v] < index[b],
               k + 1 \in 1..(m - 1) => index[b] < index[frames'[k + 1].v],
               NEW u \in ToSet(callees[b]) \cap OnStack
        PROVE  lowlink'[frames'[k].v] <= index[u]
    <3>1. /\ frames'[k] = frames[k] /\ frames[k].v \in OnStack /\ k \in DOMAIN frames
          /\ index[frames[k].v] < index[b]
      BY <1>3, <1>4, <2>3
    <3>2. index[u] \in Int /\ lowlink[frames[k].v] \in Nat /\ index[b] \in Int /\ index[t] \in Int /\ lowlink[t] \in Nat
      BY <1>3, <1>8, <3>1
    \* Left earlier, between this frame and the next.
    <3>3. ASSUME b \in OnStack \ Gray, k + 1 \in 1..m => index[b] < index[frames[k + 1].v]
          PROVE  lowlink'[frames'[k].v] <= index[u]
      <4>1. lowlink[frames[k].v] <= index[u]
        BY <1>3, <3>1, <3>3 DEF SccInv, Links
      <4> QED
        BY <1>15, <3>1, <3>2, <4>1
    <3>4. CASE k + 1 \in 1..(m - 1)
      <4>1. index[b] < index[frames[k + 1].v] /\ frames[k + 1].v \in OnStack /\ index[frames[k + 1].v] < index[t]
        BY <1>3, <1>4, <2>3, <3>4
      <4>2. b # t
        BY <1>8, <3>2, <4>1
      <4> QED
        BY <1>4, <3>3, <4>1, <4>2
    <3>5. CASE k + 1 \notin 1..(m - 1)
      <4>1. k = m - 1 /\ k + 1 = m
        BY <1>3, <3>5
      <4>2. ASSUME lowlink[t] <= index[u] PROVE lowlink'[frames'[k].v] <= index[u]
        BY <1>1, <1>12, <1>14, <1>15, <3>1, <3>2, <4>1, <4>2
      <4>3. CASE b = t
        <5>1. PICK n \in 1..frames[m].child : u = callees[t][n]
          BY <1>4, <4>3
        <5>2. lowlink[t] <= index[u]
          BY <1>1, <1>3, <5>1 DEF SccInv, Links
        <5> QED
          BY <4>2, <5>2
      <4>4. CASE b # t /\ index[b] < index[t]
        <5>1. b \in OnStack \ Gray
          BY <1>4, <4>4
        <5> QED
          BY <1>1, <1>3, <3>3, <4>1, <4>4, <5>1
      <4>5. CASE b # t /\ ~(index[b] < index[t])
        <5>1. b \in OnStack \ Gray
          BY <1>4, <4>5
        <5>2. index[t] < index[b]
          BY <1>3, <1>8, <3>2, <4>5
        <5>3. ~(m + 1 \in DOMAIN frames) /\ m \in DOMAIN frames /\ frames[m].v = t
          BY <1>1, <1>3
        <5>4. lowlink[t] <= index[u]
          BY <5>1, <5>2, <5>3 DEF SccInv, Links
        <5> QED
          BY <4>2, <5>4
      <4> QED
        BY <4>3, <4>4, <4>5
    <3> QED
      BY <3>4, <3>5
  <2> QED
    BY <1>2, <1>4, <1>5, <1>7, <2>1, <2>2, <2>3 DEF Links
<1>22. Out'
  BY <1>2, OutStays
<1> QED
  BY <1>16, <1>17, <1>18, <1>19, <1>20, <1>21, <1>22 DEF SccInv

-----------------------------------------------------------------------------
(* A component is popped.                                                   *)

Above(t) == {b \in OnStack : index[t] <= index[b]}

\* What is popped is what was pushed since the root, each node once.
Cut(t, members, at) ==
  /\ members \in Seq(Nodes) /\ ToSet(members) = Above(t) /\ Len(members) = Len(visitStack) - at + 1
  /\ \A i, j \in DOMAIN members : members[i] = members[j] => i = j
  /\ at \in 1..Len(visitStack) /\ visitStack[at] = t
  /\ \A n \in 1..Len(visitStack) : n < at <=> visitStack[n] \notin Above(t)

LEMMA PoppedFacts ==
  ASSUME SccInv, NEW t \in OnStack
  PROVE  \E at : Cut(t, Popped(t), at)
<1>1. PICK L : /\ L = Len(visitStack) /\ L \in Nat /\ DOMAIN visitStack = 1..L /\ visitStack \in Seq(Nodes)
               /\ \A n \in 1..L : visitStack[n] \in OnStack /\ index[visitStack[n]] \in Int
               /\ \A b \in OnStack : \E n \in 1..L : visitStack[n] = b
  <2>1. visitStack \in Seq(Nodes)
    BY DEF SccInv, Shape
  <2> QED
    BY <2>1, StackFacts
<1>2. PICK at : at \in 1..L /\ visitStack[at] = t
                /\ Popped(t) = Reverse(SubSeq(visitStack, at, Len(visitStack)))
  <2>1. \E k \in DOMAIN visitStack : visitStack[k] = t
    BY <1>1
  <2>2. PICK at : at = CHOOSE k \in DOMAIN visitStack : visitStack[k] = t
    OBVIOUS
  <2>3. at \in DOMAIN visitStack /\ visitStack[at] = t
    BY <2>1, <2>2
  <2> QED
    BY <1>1, <2>2, <2>3 DEF Popped
<1>3. \A i, j \in 1..L : i < j => index[visitStack[i]] < index[visitStack[j]]
  BY <1>1 DEF SccInv, Numbered
<1>4. \A i, j \in 1..L : visitStack[i] = visitStack[j] => i = j
  <2> SUFFICES ASSUME NEW i \in 1..L, NEW j \in 1..L, visitStack[i] = visitStack[j] PROVE i = j
    OBVIOUS
  <2>1. index[visitStack[i]] = index[visitStack[j]] /\ index[visitStack[i]] \in Int
    BY <1>1
  <2>2. ~(i < j) /\ ~(j < i)
    BY <1>3, <2>1
  <2> QED
    BY <1>1, <2>2
<1>5. \A n \in 1..L : n < at <=> visitStack[n] \notin Above(t)
  <2> TAKE n \in 1..L
  <2>1. visitStack[n] \in OnStack /\ index[visitStack[n]] \in Int /\ index[t] \in Int
    BY <1>1, <1>2
  <2>2. n < at => ~(index[t] <= index[visitStack[n]])
    BY <1>2, <1>3, <2>1
  <2>3. at <= n => index[t] <= index[visitStack[n]]
    <3>1. CASE at = n
      BY <1>2, <2>1, <3>1
    <3>2. CASE at < n
      BY <1>2, <1>3, <2>1, <3>2
    <3>3. at \in Int /\ n \in Int
      BY <1>2
    <3> QED
      BY <3>1, <3>2, <3>3
  <2>4. n < at \/ at <= n
    BY <1>2
  <2> QED
    BY <2>1, <2>2, <2>3, <2>4 DEF Above
<1>6. PICK q : q = SubSeq(visitStack, at, L)
  OBVIOUS
<1>7. /\ L - at + 1 \in Nat /\ Len(q) = L - at + 1
      /\ \A i \in 1..(L - at + 1) : at + i - 1 \in 1..L /\ q[i] = visitStack[at + i - 1]
  BY <1>1, <1>2, <1>6
<1>8. PICK ms : ms = Popped(t)
  OBVIOUS
<1>9. ms = [i \in 1..(L - at + 1) |-> visitStack[L + 1 - i]] /\ \A i \in 1..(L - at + 1) : L + 1 - i \in at..L
  <2>1. ms = [i \in 1..Len(q) |-> q[(Len(q) - i) + 1]]
    BY <1>1, <1>2, <1>6, <1>8 DEF Reverse
  <2>2. ms = [i \in 1..(L - at + 1) |-> q[((L - at + 1) - i) + 1]]
    BY <1>7, <2>1
  <2>3. \A i \in 1..(L - at + 1) : /\ ((L - at + 1) - i) + 1 \in 1..(L - at + 1)
                                   /\ at + (((L - at + 1) - i) + 1) - 1 = L + 1 - i
                                   /\ L + 1 - i \in at..L
    BY <1>1, <1>2
  <2>4. \A i \in 1..(L - at + 1) : q[((L - at + 1) - i) + 1] = visitStack[L + 1 - i]
    BY <1>7, <2>3
  <2> QED
    BY <2>2, <2>3, <2>4
<1>10. \A n \in at..L : n \in 1..L
  BY <1>1, <1>2
<1>11. ms \in Seq(Nodes) /\ Len(ms) = L - at + 1 /\ DOMAIN ms = 1..(L - at + 1)
  <2>1. \A i \in 1..(L - at + 1) : visitStack[L + 1 - i] \in Nodes
    BY <1>1, <1>9, <1>10
  <2> QED
    BY <1>7, <1>9, <2>1
<1>12. ToSet(ms) = Above(t)
  <2>1. ASSUME NEW i \in 1..(L - at + 1) PROVE ms[i] \in Above(t)
    <3>1. L + 1 - i \in 1..L /\ ~(L + 1 - i < at)
      BY <1>1, <1>2, <1>9, <1>10
    <3>2. visitStack[L + 1 - i] \in Above(t)
      BY <1>5, <3>1
    <3> QED
      BY <1>9, <3>2
  <2>2. ASSUME NEW b \in Above(t) PROVE \E i \in 1..(L - at + 1) : ms[i] = b
    <3>1. PICK n \in 1..L : visitStack[n] = b
      BY <1>1 DEF Above
    <3>2. ~(n < at)
      BY <1>5, <3>1
    <3>3. L + 1 - n \in 1..(L - at + 1) /\ L + 1 - (L + 1 - n) = n
      BY <1>1, <1>2, <3>2
    <3> QED
      BY <1>9, <3>1, <3>3
  <2> QED
    BY <1>11, <2>1, <2>2 DEF ToSet
<1>13. \A i, j \in DOMAIN ms : ms[i] = ms[j] => i = j
  <2> SUFFICES ASSUME NEW i \in 1..(L - at + 1), NEW j \in 1..(L - at + 1), ms[i] = ms[j] PROVE i = j
    BY <1>11
  <2>1. L + 1 - i \in 1..L /\ L + 1 - j \in 1..L
    BY <1>9, <1>10
  <2>2. L + 1 - i = L + 1 - j
    BY <1>4, <1>9, <2>1
  <2> QED
    BY <1>1, <2>2
<1>14. Cut(t, ms, at)
  BY <1>1, <1>2, <1>5, <1>11, <1>12, <1>13 DEF Cut
<1> QED
  BY <1>8, <1>14

\* The nodes above a root are a component: what they call is among them or was
\* emitted before, and they reach each other.
Complete(ms, t) ==
  /\ t \in ms /\ ms \subseteq OnStack
  /\ \A v \in ms : ToSet(callees[v]) \subseteq Emitted \cup ms
  /\ \A v \in ms : ms = {v} \cup {u \in Nodes : u \in Reaches(v) /\ v \in Reaches(u)}
  /\ (\E v \in ms : v \in Reaches(v)) <=> (ms # {t} \/ t \in ToSet(callees[t]))

LEMMA RootComplete ==
  ASSUME SccInv, frames # <<>>, ~HasCallee, lowlink[Top.v] = index[Top.v]
  PROVE  Complete(Above(Top.v), Top.v)
<1>1. PICK m, t, ms : m = Len(frames) /\ t = Top.v /\ ms = Above(t)
  OBVIOUS
<1>2. /\ m \in Nat /\ m # 0 /\ m \in 1..m /\ DOMAIN frames = 1..m
      /\ Top = frames[m] /\ t \in Nodes /\ t \in OnStack /\ t \in Gray
      /\ Top.child \in Nat /\ Top.child <= Len(callees[t]) /\ callees[t] \in Seq(Nodes)
      /\ \A k \in 1..m : k # m => frames[k].v # t /\ index[frames[k].v] < index[t]
      /\ \A g \in Gray : \E k \in 1..m : g = frames[k].v
  BY <1>1, TopFacts
<1>3. callees \in Seq(Seq(Nodes)) /\ \A x \in Nodes : callees[x] \in Seq(Nodes)
  BY GraphType, CalledSeq DEF SccInv, Shape
<1>4. /\ OnStack \subseteq Nodes /\ Emitted \subseteq Nodes /\ OnStack \cap Emitted = {}
      /\ \A b \in OnStack : index[b] \in Int /\ index[b] \in Nat /\ lowlink[b] \in Nat
      /\ \A b, d \in OnStack : index[b] = index[d] => b = d
  BY StackFacts DEF SccInv, Numbered
<1>5. t \in ms /\ ms \subseteq OnStack /\ ms \subseteq Nodes /\ \A v \in ms : index[t] <= index[v]
  BY <1>1, <1>2, <1>4 DEF Above
<1>6. \A v \in ms : ToSet(callees[v]) \subseteq Emitted \cup ms
  <2> SUFFICES ASSUME NEW v \in ms, NEW u \in ToSet(callees[v]) PROVE u \in Emitted \cup ms
    OBVIOUS
  <2>1. u \in Nodes
    BY <1>3, <1>5 DEF ToSet
  <2>2. index[u] # -1 /\ (u \in OnStack => lowlink[t] <= index[u])
    <3>1. CASE v = t
      <4>1. PICK n \in 1..frames[m].child : u = callees[t][n]
        <5>1. frames[m].child = Len(callees[t])
          BY <1>1, <1>2 DEF HasCallee
        <5> QED
          BY <1>2, <3>1, <5>1 DEF ToSet
      <4>2. index[u] # -1
        BY <1>1, <1>2, <4>1 DEF SccInv, Looked
      <4>3. u \in OnStack => lowlink[t] <= index[u]
        BY <1>1, <1>2, <4>1 DEF SccInv, Links
      <4> QED
        BY <4>2, <4>3
    <3>2. CASE v # t
      <4>1. index[t] < index[v]
        BY <1>2, <1>4, <1>5, <3>2
      <4>2. v \notin Gray
        <5> SUFFICES ASSUME v \in Gray PROVE FALSE
          OBVIOUS
        <5>1. PICK k \in 1..m : v = frames[k].v
          BY <1>2
        <5>2. k # m
          BY <1>1, <1>2, <3>2, <5>1
        <5>3. index[v] < index[t]
          BY <1>2, <5>1, <5>2
        <5> QED
          BY <1>2, <1>4, <1>5, <4>1, <5>3
      <4>3. v \in OnStack \ Gray
        BY <1>5, <4>2
      <4>4. index[u] # -1
        BY <4>3 DEF SccInv, Looked
      <4>5. ~(m + 1 \in DOMAIN frames) /\ m \in DOMAIN frames /\ frames[m].v = t
        BY <1>1, <1>2
      <4>6. u \in OnStack => lowlink[t] <= index[u]
        BY <4>1, <4>3, <4>5 DEF SccInv, Links
      <4> QED
        BY <4>4, <4>6
    <3> QED
      BY <3>1, <3>2
  <2>3. u \in OnStack \cup Emitted
    BY <2>1, <2>2 DEF SccInv, Numbered
  <2>4. lowlink[t] = index[t]
    BY <1>1
  <2> QED
    BY <1>1, <2>2, <2>3, <2>4 DEF Above
\* Nothing outside is reached but what was emitted, and that does not come back.
<1>7. \A v \in ms : Reaches(v) \subseteq Emitted \cup ms
  <2> TAKE v \in ms
  <2>1. v \in Nodes /\ Emitted \cup ms \in SUBSET Nodes
    BY <1>4, <1>5
  <2>2. \A x \in Emitted \cup ms : ToSet(callees[x]) \subseteq Emitted \cup ms
    BY <1>6 DEF SccInv, Out
  <2> QED
    BY <1>3, <1>6, <2>1, <2>2, ReachFacts
<1>8. \A v \in Emitted : Reaches(v) \subseteq Emitted
  <2> TAKE v \in Emitted
  <2>1. v \in Nodes /\ Emitted \in SUBSET Nodes
    BY <1>4
  <2>2. \A x \in Emitted : ToSet(callees[x]) \subseteq Emitted
    BY DEF SccInv, Out
  <2> QED
    BY <1>3, <2>1, <2>2, ReachFacts
<1>9. \A v \in ms : Leads(t, v) /\ Leads(v, t)
  <2> TAKE v \in ms
  <2>1. Leads(t, v)
    BY <1>2, <1>5 DEF SccInv, Connected
  <2>2. PICK g \in Gray : Leads(v, g)
    BY <1>5 DEF SccInv, Connected
  <2>3. PICK k \in 1..m : g = frames[k].v
    BY <1>2
  <2>4. g \in OnStack /\ g \in Nodes /\ index[g] <= index[t]
    <3>1. g \in OnStack
      BY DEF SccInv, Path
    <3>2. CASE k = m
      BY <1>1, <1>2, <1>4, <2>3, <3>1, <3>2
    <3>3. CASE k # m
      BY <1>2, <1>4, <2>3, <3>1, <3>3
    <3> QED
      BY <1>4, <3>1, <3>2, <3>3
  <2>5. Leads(g, t)
    BY <1>2, <2>4 DEF SccInv, Connected
  <2> QED
    BY <1>3, <1>5, <2>1, <2>2, <2>5, LeadsTransitive
<1>10. \A v \in ms : ms = {v} \cup {u \in Nodes : u \in Reaches(v) /\ v \in Reaches(u)}
  <2> TAKE v \in ms
  <2>1. ASSUME NEW u \in ms, u # v PROVE u \in Nodes /\ u \in Reaches(v) /\ v \in Reaches(u)
    <3>1. u \in Nodes /\ v \in Nodes
      BY <1>5
    <3>2. Leads(u, v) /\ Leads(v, u)
      BY <1>2, <1>3, <1>9, <3>1, LeadsTransitive
    <3> QED
      BY <2>1, <3>1, <3>2 DEF Leads
  <2>2. ASSUME NEW u \in Reaches(v), v \in Reaches(u) PROVE u \in ms
    <3>1. u \in Emitted => v \in Emitted
      BY <1>8, <2>2
    <3> QED
      BY <1>4, <1>5, <1>7, <3>1
  <2> QED
    BY <2>1, <2>2
<1>11. (\E v \in ms : v \in Reaches(v)) <=> (ms # {t} \/ t \in ToSet(callees[t]))
  <2>1. CASE ms # {t}
    <3>1. PICK v \in ms : v # t
      BY <1>5, <2>1
    <3>2. v \in Reaches(t) /\ t \in Reaches(v)
      BY <1>9, <3>1 DEF Leads
    <3>3. t \in Reaches(t)
      BY <1>2, <1>3, <3>2, ReachTransitive
    <3> QED
      BY <1>5, <2>1, <3>3
  <2>2. CASE ms = {t}
    <3>1. t \in ToSet(callees[t]) => t \in Reaches(t)
      BY <1>2, <1>3, ReachFacts
    <3>2. ASSUME t \notin ToSet(callees[t]) PROVE t \notin Reaches(t)
      <4>1. ToSet(callees[t]) \subseteq Emitted
        BY <1>5, <1>6, <2>2, <3>2
      <4>2. \A x \in Emitted : ToSet(callees[x]) \subseteq Emitted
        BY DEF SccInv, Out
      <4>3. Emitted \in SUBSET Nodes
        BY <1>4
      <4>4. Reaches(t) \subseteq Emitted
        BY <1>2, <1>3, <4>1, <4>2, <4>3, ReachFacts
      <4> QED
        BY <1>2, <1>4, <4>4
    <3> QED
      BY <2>2, <3>1, <3>2
  <2> QED
    BY <2>1, <2>2
<1> QED
  BY <1>1, <1>5, <1>6, <1>10, <1>11 DEF Complete

\* The component goes behind those that were emitted.
LEMMA EmitStep ==
  ASSUME SccInv, NEW t \in Nodes, NEW members \in Seq(Nodes), NEW ms, ms = ToSet(members), Complete(ms, t),
         \A i, j \in DOMAIN members : members[i] = members[j] => i = j,
         callees' = callees,
         sccs' = Append(sccs, [members |-> members, recursive |-> Recursive(t, members)])
  PROVE  Out' /\ Emitted' = Emitted \cup ms /\ sccs' \in Seq(Component)
<1>1. sccs \in Seq(Component) /\ callees \in Seq(Seq(Nodes))
  BY GraphType DEF SccInv, Shape, Component
<1>2. \A x \in Nodes : callees[x] \in Seq(Nodes)
  BY <1>1, CalledSeq
<1>3. /\ t \in ms /\ ms \subseteq OnStack /\ ms \subseteq Nodes
      /\ \A v \in ms : ToSet(callees[v]) \subseteq Emitted \cup ms
      /\ \A v \in ms : ms = {v} \cup {u \in Nodes : u \in Reaches(v) /\ v \in Reaches(u)}
      /\ (\E v \in ms : v \in Reaches(v)) <=> (ms # {t} \/ t \in ToSet(callees[t]))
      /\ OnStack \cap Emitted = {}
  BY StackFacts DEF Complete, SccInv, Numbered
<1>4. Nodes' = Nodes /\ (\A x : Reaches(x)' = Reaches(x))
  BY SameGraph
<1>5. Len(members) > 1 <=> ms # {t}
  <2>1. Len(members) \in Nat /\ DOMAIN members = 1..Len(members)
    OBVIOUS
  <2>2. PICK i \in 1..Len(members) : members[i] = t
    BY <1>3, <2>1 DEF ToSet
  <2>3. ASSUME Len(members) > 1 PROVE ms # {t}
    <3>1. 1 \in 1..Len(members) /\ 2 \in 1..Len(members) /\ 1 # 2
      BY <2>1, <2>3
    <3>2. members[1] # members[2] /\ members[1] \in ms /\ members[2] \in ms
      BY <2>1, <3>1 DEF ToSet
    <3> QED
      BY <3>2
  <2>4. ASSUME ms # {t} PROVE Len(members) > 1
    <3>1. PICK v \in ms : v # t
      BY <1>3, <2>4
    <3>2. PICK j \in 1..Len(members) : members[j] = v
      BY <2>1 DEF ToSet
    <3>3. i # j
      BY <2>2, <3>1, <3>2
    <3> QED
      BY <2>1, <3>3
  <2> QED
    BY <2>3, <2>4
<1>6. PICK rec : rec = Recursive(t, members)
  OBVIOUS
<1>7. rec \in BOOLEAN /\ rec = (\E v \in ms : v \in Reaches(v))
  <2>1. (Len(members) > 1 \/ t \in ToSet(callees[t])) <=> (\E v \in ms : v \in Reaches(v))
    BY <1>3, <1>5
  <2>2. rec = (Len(members) > 1 \/ t \in ToSet(callees[t]))
    BY <1>6 DEF Recursive
  <2>3. rec = (\E v \in ms : v \in Reaches(v))
    BY <2>1, <2>2, Zenon
  <2>4. (\E v \in ms : v \in Reaches(v)) \in BOOLEAN
    OBVIOUS
  <2> QED
    BY <2>3, <2>4, Zenon
<1>8. PICK r : r = [members |-> members, recursive |-> rec]
  OBVIOUS
<1>9. r \in Component /\ r.members = members /\ r.recursive = rec
  BY <1>7, <1>8 DEF Component
<1>10. PICK n : /\ n = Len(sccs) /\ n \in Nat /\ DOMAIN sccs = 1..n /\ sccs' \in Seq(Component)
                /\ DOMAIN sccs' = 1..(n + 1) /\ sccs'[n + 1] = r /\ \A k \in 1..n : sccs'[k] = sccs[k]
  <2>1. sccs' = Append(sccs, r)
    BY <1>6, <1>8
  <2>2. PICK n : n = Len(sccs)
    OBVIOUS
  <2>3. n \in Nat /\ DOMAIN sccs = 1..n
    BY <1>1, <2>2
  <2>4. sccs' \in Seq(Component)
    BY <1>1, <1>9, <2>1
  <2>5. DOMAIN sccs' = 1..(n + 1) /\ sccs'[n + 1] = r /\ \A k \in 1..n : sccs'[k] = sccs[k]
    BY <1>1, <2>1, <2>2, <2>3
  <2> QED
    BY <2>2, <2>3, <2>4, <2>5
<1>11. \A k \in 1..(n + 1) : k \in 1..n \/ k = n + 1
  BY <1>10
<1>12. (\A k \in 1..n : k \in 1..(n + 1)) /\ n + 1 \in 1..(n + 1)
  BY <1>10
<1>13. Emitted' = Emitted \cup ms
  <2>1. Emitted = UNION {ToSet(sccs[k].members) : k \in 1..n}
    BY <1>10 DEF Emitted
  <2>2. Emitted' = UNION {ToSet(sccs'[k].members) : k \in 1..(n + 1)}
    BY <1>10 DEF Emitted
  <2>3. ToSet(sccs'[n + 1].members) = ms
    BY <1>9, <1>10
  <2>4. \A k \in 1..n : ToSet(sccs'[k].members) = ToSet(sccs[k].members)
    BY <1>10
  <2>5. ASSUME NEW x \in Emitted' PROVE x \in Emitted \cup ms
    <3>1. PICK k \in 1..(n + 1) : x \in ToSet(sccs'[k].members)
      BY <2>2, <2>5
    <3> QED
      BY <1>11, <2>1, <2>3, <2>4, <3>1
  <2>6. ASSUME NEW x \in Emitted PROVE x \in Emitted'
    <3>1. PICK k \in 1..n : x \in ToSet(sccs[k].members)
      BY <2>1, <2>6
    <3> QED
      BY <1>12, <2>2, <2>4, <3>1
  <2>7. ms \subseteq Emitted'
    BY <1>12, <2>2, <2>3
  <2> QED
    BY <2>5, <2>6, <2>7
\* Where the functions stand.
<1>14. PICK f, h : f = ProcessingOrder /\ h = ProcessingOrder'
  OBVIOUS
<1>15. f \in Seq(Nodes) /\ h = f \o members /\ Strung(Nodes, MembersOf(sccs'))
  <2>1. f = OrderOf(sccs) /\ h = OrderOf(sccs')
    BY <1>14 DEF ProcessingOrder, OrderOf, MembersOf
  <2>2. sccs' = Append(sccs, r)
    BY <1>6, <1>8
  <2>3. Strung(Nodes, MembersOf(sccs))
    BY DEF SccInv, Out
  <2> QED
    BY <1>1, <1>9, <2>1, <2>2, <2>3, OrderGrows
<1>16. PICK N, M : N = Len(f) /\ M = Len(members)
  OBVIOUS
<1>17. /\ N \in Nat /\ M \in Nat /\ DOMAIN f = 1..N /\ DOMAIN members = 1..M /\ DOMAIN h = 1..(N + M)
       /\ \A i \in 1..N : h[i] = f[i]
       /\ \A i \in 1..M : h[N + i] = members[i]
  BY <1>15, <1>16
<1>18. /\ \A i \in 1..(N + M) : i \in 1..N \/ (i - N \in 1..M /\ h[i] = members[i - N])
       /\ \A i \in 1..N : i \in 1..(N + M)
       /\ \A i \in 1..M : N + i \in 1..(N + M)
  <2>1. ASSUME NEW i \in 1..(N + M), i \notin 1..N PROVE i - N \in 1..M /\ h[i] = members[i - N]
    <3>1. i - N \in 1..M /\ N + (i - N) = i
      BY <1>17, <2>1
    <3> QED
      BY <1>17, <3>1
  <2> QED
    BY <1>17, <2>1
<1>19. ToSet(f) = Emitted /\ CalleesStandFirst
  BY <1>14 DEF SccInv, Out
<1>20. (\A i \in 1..N : f[i] \in Emitted) /\ (\A x \in Emitted : \E i \in 1..N : f[i] = x)
  BY <1>17, <1>19 DEF ToSet
<1>21. (\A i \in 1..M : members[i] \in ms) /\ (\A x \in ms : \E i \in 1..M : members[i] = x)
  BY <1>17 DEF ToSet
<1>22. ToSet(h) = Emitted \cup ms
  <2>1. ASSUME NEW i \in 1..(N + M) PROVE h[i] \in Emitted \cup ms
    BY <1>17, <1>18, <1>20, <1>21
  <2>2. ASSUME NEW x \in Emitted PROVE \E i \in 1..(N + M) : h[i] = x
    BY <1>17, <1>18, <1>20
  <2>3. ASSUME NEW x \in ms PROVE \E i \in 1..(N + M) : h[i] = x
    BY <1>17, <1>18, <1>21
  <2>4. ToSet(h) = {h[i] : i \in 1..(N + M)}
    BY <1>17 DEF ToSet
  <2> QED
    BY <2>1, <2>2, <2>3, <2>4
<1>23. \A i, j \in 1..N : f[i] = f[j] => i = j
  BY <1>14, <1>17, <1>19 DEF CalleesStandFirst
<1>24. \A i, j \in 1..(N + M) : h[i] = h[j] => i = j
  <2> SUFFICES ASSUME NEW i \in 1..(N + M), NEW j \in 1..(N + M), h[i] = h[j] PROVE i = j
    OBVIOUS
  <2>1. CASE i \in 1..N /\ j \in 1..N
    BY <1>17, <1>23, <2>1
  <2>2. CASE i - N \in 1..M /\ h[i] = members[i - N] /\ j - N \in 1..M /\ h[j] = members[j - N]
    <3>1. i - N = j - N
      BY <1>17, <2>2
    <3> QED
      BY <1>17, <3>1
  <2>3. ASSUME NEW x \in 1..N, NEW y \in 1..(N + M), y - N \in 1..M, h[y] = members[y - N] PROVE h[x] # h[y]
    <3>1. h[x] \in Emitted /\ h[y] \in ms
      BY <1>17, <1>20, <1>21, <2>3
    <3> QED
      BY <1>3, <3>1
  <2> QED
    BY <1>18, <2>1, <2>2, <2>3
<1>25. ASSUME NEW i \in 1..(N + M), NEW u \in ToSet(callees[h[i]])
       PROVE  (\E j \in 1..i : h[j] = u) \/ h[i] \in Reaches(u)
  <2>1. CASE i \in 1..N
    <3>1. u \in ToSet(callees[f[i]])
      BY <1>17, <1>25, <2>1
    <3>2. (\E j \in 1..i : f[j] = u) \/ f[i] \in Reaches(u)
      BY <1>14, <1>17, <1>19, <2>1, <3>1 DEF CalleesStandFirst
    <3>3. \A j \in 1..i : j \in 1..N
      BY <1>17, <2>1
    <3> QED
      BY <1>17, <2>1, <3>2, <3>3
  <2>2. CASE i - N \in 1..M /\ h[i] = members[i - N]
    <3>1. h[i] \in ms
      BY <1>21, <2>2
    <3>2. u \in Emitted \cup ms
      BY <1>3, <1>25, <3>1
    <3>3. CASE u \in Emitted
      <4>1. PICK j \in 1..N : f[j] = u
        BY <1>20, <3>3
      <4>2. j \in 1..i
        BY <1>17, <2>2
      <4> QED
        BY <1>17, <4>1, <4>2
    <3>4. CASE u \in ms /\ u # h[i]
      BY <1>3, <3>1, <3>4
    <3>5. CASE u = h[i]
      BY <1>17, <3>5
    <3> QED
      BY <3>2, <3>3, <3>4, <3>5
  <2> QED
    BY <1>18, <2>1, <2>2
<1>26. CalleesStandFirst'
  BY <1>4, <1>14, <1>17, <1>24, <1>25 DEF CalleesStandFirst
<1>27. \A v \in Emitted' : ToSet(callees[v]) \subseteq Emitted'
  BY <1>3, <1>13 DEF SccInv, Out
\* The components before are the same, and this one is complete.
<1>28. ASSUME NEW k \in 1..(n + 1) PROVE Exactly(ToSet(sccs'[k].members), sccs'[k].recursive)
  <2>1. CASE k \in 1..n
    <3>1. sccs'[k] = sccs[k] /\ k \in DOMAIN sccs
      BY <1>10, <2>1
    <3>2. Exactly(ToSet(sccs[k].members), sccs[k].recursive)
      BY <3>1 DEF SccInv, Out
    <3> QED
      BY <3>1, <3>2
  <2>2. CASE k = n + 1
    <3>1. ToSet(sccs'[k].members) = ms /\ sccs'[k].recursive = rec
      BY <1>9, <1>10, <2>2
    <3>2. Exactly(ms, rec)
      <4>1. \A v \in ms : ms = {v} \cup {u \in Nodes : u \in Reaches(v) /\ v \in Reaches(u)}
        BY <1>3
      <4> QED
        BY <1>7, <4>1, Zenon DEF Exactly
    <3> QED
      BY <3>1, <3>2
  <2> QED
    BY <1>11, <2>1, <2>2
<1>29. Out'
  <2>1. ToSet(ProcessingOrder') = Emitted'
    BY <1>13, <1>14, <1>22
  <2>2. \A v \in Emitted' : ToSet(callees'[v]) \subseteq Emitted'
    BY <1>27
  <2>3. \A c, mark : Exactly(c, mark)' <=> Exactly(c, mark)
    BY <1>4 DEF Exactly
  <2>4. \A k \in DOMAIN sccs' : Exactly(ToSet(sccs'[k].members), sccs'[k].recursive)
    BY <1>10, <1>28
  <2>5. (\A k \in DOMAIN sccs : Exactly(ToSet(sccs[k].members), sccs[k].recursive))'
    BY <2>3, <2>4
  <2>6. Strung(Nodes, MembersOf(sccs))'
    BY <1>4, <1>15 DEF Strung, MembersOf
  <2> QED
    BY <1>26, <2>1, <2>2, <2>5, <2>6 DEF Out
<1> QED
  BY <1>10, <1>13, <1>29

\* A root is left: its component leaves the stack with it, and nothing below had
\* come to it.
LEMMA RootStep ==
  ASSUME SccInv, LeaveRoot
  PROVE  SccInv'
<1>1. PICK m, t, members, ms, p :
        m = Len(frames) /\ t = Top.v /\ members = Popped(t) /\ ms = Above(t) /\ p = frames[m - 1].v
  OBVIOUS
<1>2. /\ frames # <<>> /\ ~HasCallee /\ lowlink[t] = index[t] /\ frames' = Front(frames)
      /\ UNCHANGED <<callees, start, index, counter>>
      /\ sccs' = Append(sccs, [members |-> members, recursive |-> Recursive(t, members)])
      /\ visitStack' = SubSeq(visitStack, 1, Len(visitStack) - Len(members))
      /\ onStack' = [u \in Nodes |-> onStack[u] /\ u \notin ToSet(members)]
      /\ lowlink' = IF m = 1 THEN lowlink ELSE Lowered(p, lowlink[t])
  BY <1>1 DEF LeaveRoot, Leave
<1>3. /\ m \in Nat /\ m # 0 /\ m \in 1..m /\ DOMAIN frames = 1..m
      /\ Top = frames[m] /\ t \in Nodes /\ t \in OnStack /\ t \in Gray
      /\ \A k \in 1..m : /\ frames[k].v \in Nodes /\ frames[k].child \in Nat
                         /\ frames[k].v \in OnStack /\ frames[k].v \in Gray
                         /\ k # m => frames[k].v # t /\ index[frames[k].v] < index[t]
  BY <1>1, <1>2, TopFacts
<1>4. /\ m - 1 \in Nat /\ frames' \in Seq(Frame) /\ DOMAIN frames' = 1..(m - 1) /\ Len(frames') = m - 1
      /\ \A k \in 1..(m - 1) : frames'[k] = frames[k] /\ k \in 1..m /\ k # m /\ k + 1 \in 1..m
      /\ Gray' = Gray \ {t}
      /\ \A k \in 1..m : k = m \/ k \in 1..(m - 1)
  BY <1>1, <1>2, LeftFacts DEF Left
<1>5. callees \in Seq(Seq(Nodes))
  BY GraphType DEF SccInv, Shape
<1>6. Nodes' = Nodes /\ (\A x, y : Leads(x, y)' <=> Leads(x, y)) /\ (\A x : Reaches(x)' = Reaches(x))
  BY <1>2, SameGraph
<1>7. /\ OnStack \subseteq Nodes
      /\ \A b \in OnStack : index[b] \in Int /\ index[b] \in Nat /\ lowlink[b] \in Nat
  BY StackFacts
<1>8. PICK at, L : /\ members \in Seq(Nodes) /\ ToSet(members) = ms /\ Len(members) = L - at + 1
                   /\ \A i, j \in DOMAIN members : members[i] = members[j] => i = j
                   /\ L = Len(visitStack) /\ at \in 1..L /\ visitStack[at] = t
                   /\ \A n \in 1..L : n < at <=> visitStack[n] \notin ms
  <2>1. t \in OnStack /\ members = Popped(t) /\ ms = Above(t)
    BY <1>1, <1>3
  <2>2. PICK at : Cut(t, members, at)
    BY <2>1, PoppedFacts
  <2> QED
    BY <2>1, <2>2 DEF Cut
<1>9. Complete(ms, t)
  BY <1>1, <1>2, RootComplete
<1>10. Out' /\ Emitted' = Emitted \cup ms /\ sccs' \in Seq(Component)
  BY <1>2, <1>3, <1>8, <1>9, EmitStep
<1>11. L \in Nat /\ DOMAIN visitStack = 1..L /\ visitStack \in Seq(Nodes) /\ \A n \in 1..L : visitStack[n] \in OnStack
  <2>1. visitStack \in Seq(Nodes)
    BY DEF SccInv, Shape
  <2> QED
    BY <1>8, <2>1, StackFacts
<1>12. /\ visitStack' \in Seq(Nodes) /\ DOMAIN visitStack' = 1..(at - 1) /\ Len(visitStack') = at - 1
       /\ \A n \in 1..(at - 1) : visitStack'[n] = visitStack[n] /\ n \in 1..L /\ n < at
  <2>1. at - 1 \in 0..L /\ L - Len(members) = at - 1
    BY <1>8, <1>11
  <2>2. visitStack' = SubSeq(visitStack, 1, at - 1)
    BY <1>2, <1>8, <2>1
  <2>3. \A n \in 1..(at - 1) : n \in 1..L /\ n < at /\ visitStack[n] \in Nodes
    <3>1. \A n \in 1..(at - 1) : n \in 1..L /\ n < at
      BY <1>8, <1>11, <2>1
    <3> QED
      BY <1>11, <3>1
  <2>4. visitStack' = [n \in 1..(at - 1) |-> visitStack[n]]
    BY <1>11, <2>1, <2>2
  <2>5. at - 1 \in Nat
    BY <2>1
  <2>6. visitStack' \in Seq(Nodes) /\ DOMAIN visitStack' = 1..(at - 1)
    BY <2>3, <2>4, <2>5
  <2> QED
    BY <2>3, <2>4, <2>5, <2>6
<1>13. OnStack' = OnStack \ ms
  <2>1. OnStack = {visitStack[n] : n \in 1..L} /\ OnStack' = {visitStack'[n] : n \in 1..(at - 1)}
    BY <1>11, <1>12 DEF OnStack, ToSet
  <2>2. ASSUME NEW b \in OnStack', TRUE PROVE b \in OnStack \ ms
    <3>1. PICK n \in 1..(at - 1) : b = visitStack'[n]
      BY <2>1
    <3> QED
      BY <1>8, <1>11, <1>12, <3>1
  <2>3. ASSUME NEW b \in OnStack \ ms PROVE b \in OnStack'
    <3>1. PICK n \in 1..L : b = visitStack[n]
      BY <2>1
    <3>2. n \in 1..(at - 1)
      BY <1>8, <1>11, <3>1
    <3> QED
      BY <1>12, <2>1, <3>1, <3>2
  <2> QED
    BY <2>2, <2>3
<1>14. /\ ms = {b \in OnStack : index[t] <= index[b]} /\ OnStack' \subseteq OnStack
       /\ \A b \in OnStack' : b \in OnStack /\ b # t /\ index[b] < index[t]
       /\ \A b \in OnStack : index[b] < index[t] => b \in OnStack'
  <2>1. ms = {b \in OnStack : index[t] <= index[b]}
    BY <1>1 DEF Above
  <2> QED
    BY <1>3, <1>7, <1>13, <2>1
\* The node below keeps its link, which is no more than its own index.
<1>15. lowlink' = lowlink
  <2>1. CASE m = 1
    BY <1>2, <2>1
  <2>2. CASE m # 1
    <3>1. m - 1 \in 1..m /\ m - 1 # m
      BY <1>3, <2>2
    <3>2. p \in OnStack /\ index[p] < index[t]
      BY <1>1, <1>3, <3>1
    <3>3. lowlink[p] <= index[p]
      BY <3>2 DEF SccInv, Links
    <3>4. ~(lowlink[t] < lowlink[p])
      BY <1>2, <1>3, <1>7, <3>2, <3>3
    <3>5. lowlink' = [lowlink EXCEPT ![p] = lowlink[p]]
      BY <1>2, <2>2, <3>4 DEF Lowered
    <3>6. lowlink \in [Nodes -> Nat]
      BY DEF SccInv, Shape
    <3> QED
      BY <3>5, <3>6
  <2> QED
    BY <2>1, <2>2
<1>16. Shape'
  <2>1. /\ callees \in CallGraphs /\ start \in 1..Len(callees) + 1 /\ counter \in Nat
        /\ index \in [Nodes -> Int] /\ lowlink \in [Nodes -> Nat]
        /\ onStack = [v \in Nodes |-> v \in OnStack]
    BY DEF SccInv, Shape
  <2>2. frames' \in Seq([v : Nodes, child : Nat]) /\ sccs' \in Seq([members : Seq(Nodes), recursive : BOOLEAN])
    BY <1>4, <1>10 DEF Frame, Component
  <2>3. onStack' = [v \in Nodes |-> v \in OnStack']
    <3>1. \A v \in Nodes : onStack[v] = (v \in OnStack)
      BY <2>1, Zenon
    <3>2. \A v \in Nodes : (onStack[v] /\ v \notin ToSet(members)) = (v \in OnStack')
      <4> TAKE v \in Nodes
      <4>1. onStack[v] <=> v \in OnStack
        BY <3>1, Zenon
      <4>2. (onStack[v] /\ v \notin ToSet(members)) <=> v \in OnStack'
        BY <1>8, <1>13, <4>1
      <4>3. CASE v \in OnStack'
        BY <4>2, <4>3, Zenon
      <4>4. CASE v \notin OnStack'
        <5>1. (v \in OnStack') = FALSE
          BY <4>4
        <5>2. (onStack[v] /\ v \notin ToSet(members)) = FALSE
          BY <4>2, <4>4
        <5> QED
          BY <5>1, <5>2, Zenon
      <4> QED
        BY <4>3, <4>4
    <3> QED
      BY <1>2, <3>2, Zenon
  <2> QED
    BY <1>2, <1>6, <1>12, <1>15, <2>1, <2>2, <2>3 DEF Shape
<1>17. Numbered'
  <2>1. OnStack' \cup Emitted' = OnStack \cup Emitted /\ OnStack' \cap Emitted' = {}
    BY <1>10, <1>13, <1>14 DEF SccInv, Numbered
  <2>2. \A v \in Nodes : index[v] = -1 <=> v \notin OnStack' \cup Emitted'
    BY <2>1 DEF SccInv, Numbered
  <2>3. \A i, j \in DOMAIN visitStack' : i < j => index[visitStack'[i]] < index[visitStack'[j]]
    BY <1>11, <1>12 DEF SccInv, Numbered
  <2> QED
    BY <1>2, <1>6, <2>1, <2>2, <2>3 DEF SccInv, Numbered
<1>18. Path'
  <2>1. \A k \in DOMAIN frames' : frames'[k].child <= Len(callees[frames'[k].v])
    BY <1>3, <1>4 DEF SccInv, Path
  <2>2. \A k, l \in DOMAIN frames' : k < l =>
          /\ index[frames'[k].v] < index[frames'[l].v]
          /\ l = k + 1 => frames'[k].child # 0 /\ callees[frames'[k].v][frames'[k].child] = frames'[l].v
    <3> SUFFICES ASSUME NEW k \in 1..(m - 1), NEW l \in 1..(m - 1), k < l
                 PROVE  /\ index[frames'[k].v] < index[frames'[l].v]
                        /\ l = k + 1 => frames'[k].child # 0 /\ callees[frames'[k].v][frames'[k].child] = frames'[l].v
      BY <1>4
    <3>1. k \in DOMAIN frames /\ l \in DOMAIN frames
      BY <1>3, <1>4
    <3>2. /\ index[frames[k].v] < index[frames[l].v]
          /\ l = k + 1 => frames[k].child # 0 /\ callees[frames[k].v][frames[k].child] = frames[l].v
      BY <3>1 DEF SccInv, Path
    <3> QED
      BY <1>4, <3>2
  <2>3. visitStack # <<>> /\ visitStack[1] = frames[1].v
    BY <1>2 DEF SccInv, Path
  <2>4. IF frames' = <<>> THEN visitStack' = <<>> ELSE visitStack' # <<>> /\ visitStack'[1] = frames'[1].v
    <3>1. CASE m = 1
      <4>1. visitStack[1] = t /\ 1 \in 1..L
        BY <1>1, <1>3, <1>8, <1>11, <2>3, <3>1
      <4>2. ~(1 < at)
        BY <1>8, <1>9, <4>1 DEF Complete
      <4>3. at - 1 = 0 /\ m - 1 = 0
        BY <1>8, <3>1, <4>2
      <4>4. frames' = <<>> /\ visitStack' = <<>>
        BY <1>4, <1>12, <4>3
      <4> QED
        BY <4>4
    <3>2. CASE m # 1
      <4>1. 1 \in 1..(m - 1) /\ 1 \in 1..m /\ 1 # m
        BY <1>4, <1>3, <3>2
      <4>2. visitStack[1] \in OnStack /\ index[visitStack[1]] < index[t]
        BY <1>3, <2>3, <4>1
      <4>3. visitStack[1] \notin ms
        BY <1>3, <1>7, <1>14, <4>2
      <4>4. 1 < at /\ 1 \in 1..(at - 1)
        <5>1. 1 \in 1..L
          BY <1>8, <1>11
        <5> QED
          BY <1>8, <4>3, <5>1
      <4>5. visitStack'[1] = visitStack[1] /\ frames'[1] = frames[1]
        BY <1>4, <1>12, <4>1, <4>4
      <4>6. Len(visitStack') # 0 /\ Len(frames') # 0
        BY <1>4, <1>12, <4>1, <4>4
      <4>7. visitStack' # <<>> /\ frames' # <<>>
        BY <4>6
      <4> QED
        BY <2>3, <4>5, <4>7
    <3> QED
      BY <3>1, <3>2
  <2>5. Gray' \subseteq OnStack'
    <3> SUFFICES ASSUME NEW g \in Gray, g # t PROVE g \in OnStack'
      BY <1>4
    <3>1. PICK k \in 1..m : g = frames[k].v
      BY FrameFacts, <1>1
    <3>2. k # m
      BY <1>1, <1>3, <3>1
    <3> QED
      BY <1>3, <1>14, <3>1, <3>2
  <2> QED
    BY <1>2, <2>1, <2>2, <2>4, <2>5 DEF Path
<1>19. OnStack' \ Gray' \subseteq OnStack \ Gray
  BY <1>4, <1>14
<1>20. Looked'
  <2>1. \A k \in DOMAIN frames' : \A n \in 1..frames'[k].child : index[callees[frames'[k].v][n]] # -1
    BY <1>3, <1>4 DEF SccInv, Looked
  <2> QED
    BY <1>2, <1>19, <2>1 DEF SccInv, Looked
<1>21. Connected'
  <2>1. \A g \in Gray' : \A u \in OnStack' : index[g] <= index[u] => Leads(g, u)
    BY <1>4, <1>14 DEF SccInv, Connected
  <2>2. ASSUME NEW b \in OnStack' PROVE \E g \in Gray' : index[g] <= index[b] /\ Leads(b, g)
    <3>1. PICK g \in Gray : index[g] <= index[b] /\ Leads(b, g)
      BY <1>14 DEF SccInv, Connected
    <3>2. g # t
      BY <1>3, <1>7, <1>14, <3>1
    <3> QED
      BY <1>4, <3>1, <3>2
  <2> QED
    BY <1>2, <1>6, <2>1, <2>2 DEF Connected
<1>22. Links'
  <2>1. ASSUME NEW b \in OnStack'
        PROVE  lowlink[b] <= index[b] /\ \E u \in OnStack' : index[u] = lowlink[b] /\ Leads(b, u)
    <3>1. PICK u \in OnStack : lowlink[b] <= index[b] /\ index[u] = lowlink[b] /\ Leads(b, u)
      BY <1>14 DEF SccInv, Links
    <3>2. index[u] < index[t]
      BY <1>3, <1>7, <1>14, <3>1
    <3> QED
      BY <1>14, <3>1, <3>2
  <2>2. ASSUME NEW k \in 1..(m - 1), NEW n \in 1..frames'[k].child, callees[frames'[k].v][n] \in OnStack'
        PROVE  lowlink[frames'[k].v] <= index[callees[frames'[k].v][n]]
    <3>1. frames'[k] = frames[k] /\ k \in DOMAIN frames
      BY <1>3, <1>4
    <3>2. callees[frames[k].v][n] \in OnStack
      BY <1>14, <2>2, <3>1
    <3> QED
      BY <2>2, <3>1, <3>2 DEF SccInv, Links
  <2>3. ASSUME NEW k \in 1..(m - 1), NEW b \in OnStack' \ Gray',
               index[frames'[k].v] < index[b],
               k + 1 \in 1..(m - 1) => index[b] < index[frames'[k + 1].v],
               NEW u \in ToSet(callees[b]) \cap OnStack'
        PROVE  lowlink[frames'[k].v] <= index[u]
    <3>1. frames'[k] = frames[k] /\ k \in DOMAIN frames /\ b \in OnStack \ Gray /\ u \in ToSet(callees[b]) \cap OnStack
      BY <1>3, <1>4, <1>14, <1>19
    <3>2. k + 1 \in 1..m => index[b] < index[frames[k + 1].v]
      <4>1. CASE k + 1 \in 1..(m - 1)
        BY <1>4, <2>3, <4>1
      <4>2. CASE k + 1 \notin 1..(m - 1)
        <5>1. k + 1 = m
          BY <1>4, <4>2
        <5>2. frames[k + 1].v = t
          BY <1>1, <1>3, <5>1
        <5> QED
          BY <1>14, <5>2
      <4> QED
        BY <4>1, <4>2
    <3>3. index[frames[k].v] < index[b]
      BY <2>3, <3>1
    <3>4. lowlink[frames[k].v] <= index[u]
      BY <1>3, <3>1, <3>2, <3>3 DEF SccInv, Links
    <3> QED
      BY <3>1, <3>4
  <2>4. index' = index /\ lowlink' = lowlink /\ callees' = callees /\ DOMAIN frames' = 1..(m - 1)
    BY <1>2, <1>4, <1>15
  <2>5. \A b \in OnStack' : lowlink'[b] <= index'[b] /\ \E u \in OnStack' : index'[u] = lowlink'[b] /\ Leads(b, u)'
    BY <1>6, <2>1, <2>4
  <2>6. \A k \in DOMAIN frames' : \A n \in 1..frames'[k].child :
          callees'[frames'[k].v][n] \in OnStack' => lowlink'[frames'[k].v] <= index'[callees'[frames'[k].v][n]]
    BY <2>2, <2>4
  <2>7. \A k \in DOMAIN frames' : \A b \in OnStack' \ Gray' :
          /\ index'[frames'[k].v] < index'[b]
          /\ k + 1 \in DOMAIN frames' => index'[b] < index'[frames'[k + 1].v]
          => \A u \in ToSet(callees'[b]) \cap OnStack' : lowlink'[frames'[k].v] <= index'[u]
    BY <2>3, <2>4
  <2> QED
    BY <2>5, <2>6, <2>7 DEF Links
<1> QED
  BY <1>10, <1>16, <1>17, <1>18, <1>20, <1>21, <1>22 DEF SccInv

-----------------------------------------------------------------------------
(* The search.                                                              *)

LEMMA SkipStep == SccInv /\ SkipNode => SccInv'
<1> SUFFICES ASSUME SccInv, SkipNode PROVE SccInv'
  OBVIOUS
<1>1. /\ start \in Nodes /\ index[start] # -1 /\ start' = start + 1
      /\ UNCHANGED <<callees, index, lowlink, onStack, visitStack, counter, frames, sccs>>
  BY DEF SkipNode
<1>2. callees \in Seq(Seq(Nodes)) /\ Len(callees) \in Nat /\ Nodes = 1..Len(callees)
  BY GraphType DEF SccInv, Shape, Nodes
<1>3. Nodes' = Nodes /\ (\A x, y : Leads(x, y)' <=> Leads(x, y)) /\ (\A x : Reaches(x)' = Reaches(x))
  BY <1>1, SameGraph
<1>4. OnStack' = OnStack /\ Emitted' = Emitted /\ Gray' = Gray
  BY <1>1 DEF OnStack, Emitted, Gray
<1>5. Shape'
  <2>1. start' \in 1..Len(callees) + 1
    BY <1>1, <1>2
  <2> QED
    BY <1>1, <1>3, <1>4, <2>1 DEF SccInv, Shape
<1>6. Numbered'
  <2>1. \A v \in Nodes : v < start' => index[v] # -1
    <3> SUFFICES ASSUME NEW v \in Nodes, v < start' PROVE index[v] # -1
      OBVIOUS
    <3>1. v = start \/ v < start
      BY <1>1, <1>2
    <3> QED
      BY <1>1, <3>1 DEF SccInv, Numbered
  <2> QED
    BY <1>1, <1>3, <1>4, <2>1 DEF SccInv, Numbered
<1>7. Path' /\ Looked'
  BY <1>1, <1>4 DEF SccInv, Path, Looked
<1>8. Connected' /\ Links'
  BY <1>1, <1>3, <1>4 DEF SccInv, Connected, Links
<1>9. Out'
  BY <1>1, OutStays
<1> QED
  BY <1>5, <1>6, <1>7, <1>8, <1>9 DEF SccInv

LEMMA BeginStep == SccInv /\ StartNode => SccInv'
<1> SUFFICES ASSUME SccInv, StartNode PROVE SccInv'
  OBVIOUS
<1>1. PICK w, below, m : w = start /\ below = <<>> /\ m = 0
  OBVIOUS
<1>2. frames = <<>> /\ w \in Nodes /\ index[w] = -1 /\ Enter(w, below) /\ UNCHANGED <<callees, start, sccs>>
  BY <1>1 DEF StartNode
<1>3. below \in Seq(Frame) /\ Len(below) = m /\ m = Len(frames)
  BY <1>1, <1>2
<1>4. /\ \A k \in 1..m : below[k].v = frames[k].v
      /\ \A k \in 1..m : k # m => below[k].child = frames[k].child
      /\ m # 0 => /\ below[m].child = frames[m].child + 1
                  /\ below[m].child <= Len(callees[frames[m].v])
                  /\ callees[frames[m].v][below[m].child] = w
  BY <1>1
<1> QED
  BY <1>2, <1>3, <1>4, EnterStep

LEMMA DescendStep == SccInv /\ Descend => SccInv'
<1> SUFFICES ASSUME SccInv, Descend PROVE SccInv'
  OBVIOUS
<1>1. PICK w, below, m, t : w = Callee /\ below = Advanced /\ m = Len(frames) /\ t = Top.v
  OBVIOUS
<1>2. /\ frames # <<>> /\ Top.child < Len(callees[t]) /\ w = callees[t][Top.child + 1]
      /\ index[w] = -1 /\ Enter(w, below) /\ UNCHANGED <<callees, start, sccs>>
  BY <1>1 DEF Descend, HasCallee, Callee
<1>3. /\ m \in Nat /\ m # 0 /\ m \in 1..m /\ DOMAIN frames = 1..m
      /\ Top = frames[m] /\ t \in Nodes /\ frames[m].child \in Nat /\ callees[t] \in Seq(Nodes)
  BY <1>1, <1>2, TopFacts
<1>4. frames \in Seq(Frame) /\ frames[m] \in Frame
  <2>1. frames \in Seq(Frame)
    BY DEF SccInv, Shape, Frame
  <2> QED
    BY <1>3, <2>1
<1>5. PICK r : r = [frames[m] EXCEPT !.child = frames[m].child + 1]
  OBVIOUS
<1>6. r \in Frame /\ r.v = frames[m].v /\ r.child = frames[m].child + 1
  BY <1>3, <1>4, <1>5 DEF Frame
<1>7. below = [frames EXCEPT ![m] = r]
  BY <1>1, <1>5 DEF Advanced
<1>8. below \in Seq(Frame) /\ Len(below) = m
  BY <1>1, <1>3, <1>4, <1>6, <1>7
<1>9. below[m] = r /\ \A k \in 1..m : k # m => below[k] = frames[k]
  BY <1>3, <1>7
<1>10. w \in Nodes
  <2>1. Top.child + 1 \in 1..Len(callees[t])
    BY <1>2, <1>3
  <2> QED
    BY <1>2, <1>3, <2>1
<1>11. /\ \A k \in 1..m : below[k].v = frames[k].v
       /\ \A k \in 1..m : k # m => below[k].child = frames[k].child
  BY <1>3, <1>6, <1>9
<1>12. /\ below[m].child = frames[m].child + 1
       /\ below[m].child <= Len(callees[frames[m].v])
       /\ callees[frames[m].v][below[m].child] = w
  <2>1. Len(callees[t]) \in Nat /\ frames[m].v = t
    BY <1>1, <1>3
  <2> QED
    BY <1>2, <1>3, <1>6, <1>9, <2>1
<1>13. UNCHANGED <<callees, start, sccs>> /\ Enter(w, below) /\ index[w] = -1 /\ m = Len(frames)
  BY <1>1, <1>2
<1> QED
  BY <1>8, <1>10, <1>11, <1>12, <1>13, EnterStep

LEMMA EdgeStep == SccInv /\ (BackEdge \/ CrossEdge) => SccInv'
<1> SUFFICES ASSUME SccInv, BackEdge \/ CrossEdge PROVE SccInv'
  OBVIOUS
<1>1. HasCallee /\ index[Callee] # -1 /\ frames' = Advanced
      /\ UNCHANGED <<callees, start, index, onStack, visitStack, counter, sccs>>
  BY DEF BackEdge, CrossEdge
<1>2. Callee \in Nodes
  <2>1. frames # <<>> /\ Top.child < Len(callees[Top.v])
    BY <1>1 DEF HasCallee
  <2>2. Top.child \in Nat /\ callees[Top.v] \in Seq(Nodes)
    BY <2>1, TopFacts
  <2>3. Top.child + 1 \in 1..Len(callees[Top.v])
    BY <2>1, <2>2
  <2> QED
    BY <2>2, <2>3 DEF Callee
<1>3. onStack[Callee] <=> Callee \in OnStack
  <2>1. onStack = [v \in Nodes |-> v \in OnStack]
    BY DEF SccInv, Shape
  <2> QED
    BY <1>2, <2>1, Zenon
<1>4. \/ Callee \in OnStack /\ lowlink' = Lowered(Top.v, index[Callee])
      \/ Callee \notin OnStack /\ lowlink' = lowlink
  BY <1>3 DEF BackEdge, CrossEdge
<1> QED
  BY <1>1, <1>4, LookStep

LEMMA SccStep == SccInv /\ [SccNext]_sccVars => SccInv'
<1> SUFFICES ASSUME SccInv, [SccNext]_sccVars PROVE SccInv'
  OBVIOUS
<1>1. CASE UNCHANGED sccVars
  <2>1. UNCHANGED <<callees, start, index, lowlink, onStack, visitStack, counter, frames, sccs>>
    BY <1>1 DEF sccVars
  <2>2. Nodes' = Nodes /\ (\A x, y : Leads(x, y)' <=> Leads(x, y))
    BY <2>1, SameGraph
  <2>3. OnStack' = OnStack /\ Emitted' = Emitted /\ Gray' = Gray
    BY <2>1 DEF OnStack, Emitted, Gray
  <2>4. Shape' /\ Numbered' /\ Path' /\ Looked'
    BY <2>1, <2>2, <2>3 DEF SccInv, Shape, Numbered, Path, Looked
  <2>5. Connected' /\ Links'
    BY <2>1, <2>2, <2>3 DEF SccInv, Connected, Links
  <2>6. Out'
    BY <2>1, OutStays
  <2> QED
    BY <2>4, <2>5, <2>6 DEF SccInv
<1>2. CASE StartNode
  BY <1>2, BeginStep
<1>3. CASE SkipNode
  BY <1>3, SkipStep
<1>4. CASE Descend
  BY <1>4, DescendStep
<1>5. CASE BackEdge \/ CrossEdge
  BY <1>5, EdgeStep
<1>6. CASE LeaveRoot
  BY <1>6, RootStep
<1>7. CASE LeaveInner
  BY <1>7, InnerStep
<1> QED
  BY <1>1, <1>2, <1>3, <1>4, <1>5, <1>6, <1>7 DEF SccNext, SccDone

\* There are no more numbers than nodes.
LEMMA CounterBound == SccInv => counter \in 0..Len(callees)
<1> SUFFICES ASSUME SccInv PROVE counter \in 0..Len(callees)
  OBVIOUS
<1>1. callees \in Seq(Seq(Nodes)) /\ Len(callees) \in Nat /\ Nodes = 1..Len(callees)
  BY GraphType DEF SccInv, Shape, Nodes
<1>2. IsFiniteSet(Nodes) /\ Cardinality(Nodes) = Len(callees)
  <2>1. /\ IsFiniteSet(1..Len(callees))
        /\ Cardinality(1..Len(callees)) = IF 1 > Len(callees) THEN 0 ELSE Len(callees) - 1 + 1
    <3>1. 1 \in Int /\ Len(callees) \in Int
      BY <1>1
    <3> QED
      BY <3>1, FS_Interval
  <2>2. Cardinality(1..Len(callees)) = Len(callees)
    BY <1>1, <2>1
  <2> QED
    BY <1>1, <2>1, <2>2
<1>3. PICK S : S = {v \in Nodes : index[v] # -1}
  OBVIOUS
<1>4. S \subseteq Nodes /\ Cardinality(S) = counter
  BY <1>3 DEF SccInv, Numbered
<1>5. Cardinality(S) <= Cardinality(Nodes)
  BY <1>2, <1>4, FS_Subset
<1> QED
  BY <1>1, <1>2, <1>4, <1>5 DEF SccInv, Shape

\* A link only falls after it was made of a number.
LinksBounded == \A v \in Nodes : lowlink[v] <= Len(callees)

LEMMA LinksBoundedStep == SccInv /\ LinksBounded /\ [SccNext]_sccVars => LinksBounded'
<1> SUFFICES ASSUME SccInv, LinksBounded, [SccNext]_sccVars PROVE LinksBounded'
  OBVIOUS
<1>1. callees' = callees /\ Nodes' = Nodes
  BY DEF SccNext, sccVars, StartNode, SkipNode, Descend, BackEdge, CrossEdge, LeaveRoot, LeaveInner, SccDone, Nodes
<1>2. lowlink \in [Nodes -> Nat] /\ counter <= Len(callees) /\ Len(callees) \in Nat
  BY CounterBound, GraphType DEF SccInv, Shape
<1>3. lowlink' \in [Nodes -> Nat]
  BY <1>1, SccStep DEF SccInv, Shape
<1>4. ASSUME NEW w, NEW below, Enter(w, below) PROVE LinksBounded'
  BY <1>1, <1>2, <1>4 DEF Enter, LinksBounded
<1>5. ASSUME NEW w, NEW n, lowlink' = Lowered(w, n) PROVE LinksBounded'
  <2>1. ASSUME NEW v \in Nodes PROVE lowlink'[v] <= Len(callees)
    <3>1. lowlink'[v] = lowlink[v] \/ (lowlink'[v] = n /\ n < lowlink[v])
      BY <1>2, <1>5 DEF Lowered
    <3> QED
      BY <1>2, <1>3, <3>1 DEF LinksBounded
  <2> QED
    BY <1>1, <2>1 DEF LinksBounded
<1>6. CASE lowlink' = lowlink
  BY <1>1, <1>6 DEF LinksBounded
<1>7. CASE StartNode \/ Descend
  BY <1>4, <1>7 DEF StartNode, Descend
<1>8. CASE BackEdge \/ LeaveRoot \/ LeaveInner
  BY <1>5, <1>6, <1>8 DEF BackEdge, LeaveRoot, LeaveInner, Leave
<1> QED
  BY <1>6, <1>7, <1>8 DEF SccNext, SkipNode, CrossEdge, SccDone, sccVars

LEMMA SccInvariant == SccSpec => [](SccInv /\ LinksBounded)
<1>1. SccInit => LinksBounded
  BY GraphType DEF SccInit, LinksBounded
<1> QED
  BY <1>1, SccStart, SccStep, LinksBoundedStep, PTL DEF SccSpec

LEMMA SccTypes == SccInv /\ LinksBounded => SccTypeOK
<1> SUFFICES ASSUME SccInv, LinksBounded PROVE SccTypeOK
  OBVIOUS
<1>1. callees \in Seq(Seq(Nodes)) /\ Len(callees) \in Nat
  BY GraphType DEF SccInv, Shape
<1>2. counter \in 0..Len(callees)
  BY CounterBound
<1>3. index \in [Nodes -> -1..Len(callees)]
  <2>1. index \in [Nodes -> Int] /\ \A v \in Nodes : index[v] \in -1..(counter - 1)
    BY DEF SccInv, Shape, Numbered
  <2>2. \A v \in Nodes : index[v] \in -1..Len(callees)
    BY <1>1, <1>2, <2>1
  <2> QED
    BY <2>1, <2>2
<1>4. lowlink \in [Nodes -> 0..Len(callees)]
  <2>1. lowlink \in [Nodes -> Nat]
    BY DEF SccInv, Shape
  <2>2. \A v \in Nodes : lowlink[v] \in 0..Len(callees)
    BY <1>1, <2>1 DEF LinksBounded
  <2> QED
    BY <2>1, <2>2
<1>5. \A k \in DOMAIN frames : frames[k].v \in Nodes /\ frames[k].child \in 0..Len(callees[frames[k].v])
  <2> TAKE k \in DOMAIN frames
  <2>1. frames[k].v \in Nodes /\ frames[k].child \in Nat
    BY FrameFacts
  <2>2. callees[frames[k].v] \in Seq(Nodes)
    BY <1>1, <2>1, CalledSeq
  <2>3. frames[k].child <= Len(callees[frames[k].v]) /\ Len(callees[frames[k].v]) \in Nat
    BY <2>2 DEF SccInv, Path
  <2> QED
    BY <2>1, <2>3
<1>6. \A k \in DOMAIN sccs : ToSet(sccs[k].members) \subseteq Nodes
  BY StackFacts DEF Emitted
<1>7. callees \in CallGraphs /\ start \in 1..Len(callees) + 1 /\ onStack = [v \in Nodes |-> v \in ToSet(visitStack)]
  BY DEF SccInv, Shape, OnStack
<1> QED
  BY <1>2, <1>3, <1>4, <1>5, <1>6, <1>7 DEF SccTypeOK

\* For any call graph, components come out complete and once, marked recursive
\* exactly if their functions can call themselves, and each after those it calls
\* (CallGraph::compute_sccs, src/Analysis/CallGraph.cpp): at every step of the
\* search and, at its end, with every function in the order.
THEOREM SearchOrdersExactly == SccSpec => []OrderExact
<1>1. SccInv => ComponentsExact
  <2> SUFFICES ASSUME SccInv PROVE ComponentsExact
    OBVIOUS
  <2>1. \A k \in DOMAIN sccs : Exactly(ToSet(sccs[k].members), sccs[k].recursive)
    BY DEF SccInv, Out
  <2>2. ASSUME SccFinished PROVE ToSet(ProcessingOrder) = Nodes
    <3>1. callees \in Seq(Seq(Nodes)) /\ Len(callees) \in Nat /\ Nodes = 1..Len(callees)
      BY GraphType DEF SccInv, Shape, Nodes
    <3>2. frames = <<>> /\ start = Len(callees) + 1
      BY <2>2, <3>1 DEF SccFinished, SccInv, Shape
    <3>3. OnStack = {}
      BY <3>2 DEF SccInv, Path, OnStack, ToSet
    <3>4. \A v \in Nodes : v < start
      BY <3>1, <3>2
    <3>5. \A v \in Nodes : v \in Emitted
      BY <3>3, <3>4 DEF SccInv, Numbered
    <3>6. Emitted \subseteq Nodes
      BY StackFacts
    <3> QED
      BY <3>5, <3>6 DEF SccInv, Out
  <2> QED
    BY <2>1, <2>2 DEF ComponentsExact, Exactly
<1>2. SccInv /\ LinksBounded => OrderExact
  BY <1>1, SccTypes DEF OrderExact, SccInv, Out
<1> QED
  BY <1>2, SccInvariant, PTL

=============================================================================
