------------------------------ MODULE SccOrder ------------------------------
(***************************************************************************)
(* CallGraph::compute_sccs (src/Analysis/CallGraph.cpp:162-269): Tarjan's  *)
(* algorithm with an explicit stack of frames, and the order in which      *)
(* Pipeline::run takes the functions from it (src/Pipeline.cpp:326-357).   *)
(* Nodes are numbers, as in the code; names and metadata are left out.     *)
(***************************************************************************)
EXTENDS Integers, FiniteSets, Sequences, SequencesExt

CONSTANT CallGraphs   \* sequences: the list of distinct callees of each node

VARIABLES
  callees,    \* node -> its callees, a sequence without repetition
  start,      \* the outer loop's index
  index, lowlink, onStack, visitStack, counter,
  frames,     \* call_stack: [v, child], child counts the callees looked at
  sccs        \* sequence of [members, recursive]

sccVars == <<callees, start, index, lowlink, onStack, visitStack, counter, frames, sccs>>

SccAssumption == \A g \in CallGraphs : g \in Seq(Seq(1..Len(g)))
ASSUME SccAssumption

Nodes == 1..Len(callees)

SccInit ==
  /\ callees \in CallGraphs
  /\ start = 1 /\ counter = 0
  /\ index = [v \in Nodes |-> -1] /\ lowlink = [v \in Nodes |-> 0]
  /\ onStack = [v \in Nodes |-> FALSE]
  /\ visitStack = <<>> /\ frames = <<>> /\ sccs = <<>>

Top == frames[Len(frames)]

\* Pushes a frame for v; its first turn of the loop numbers v.
Enter(v, below) ==
  /\ frames' = Append(below, [v |-> v, child |-> 0])
  /\ index' = [index EXCEPT ![v] = counter]
  /\ lowlink' = [lowlink EXCEPT ![v] = counter]
  /\ counter' = counter + 1
  /\ visitStack' = Append(visitStack, v)
  /\ onStack' = [onStack EXCEPT ![v] = TRUE]

StartNode ==
  /\ frames = <<>> /\ start \in Nodes /\ index[start] = -1
  /\ Enter(start, <<>>)
  /\ UNCHANGED <<callees, start, sccs>>

SkipNode ==
  /\ frames = <<>> /\ start \in Nodes /\ index[start] # -1
  /\ start' = start + 1
  /\ UNCHANGED <<callees, index, lowlink, onStack, visitStack, counter, frames, sccs>>

\* The next callee of the node on top; child_idx advances before it is judged.
HasCallee == frames # <<>> /\ Top.child < Len(callees[Top.v])
Callee    == callees[Top.v][Top.child + 1]
Advanced  == [frames EXCEPT ![Len(frames)].child = @ + 1]

Descend ==
  /\ HasCallee /\ index[Callee] = -1
  /\ Enter(Callee, Advanced)
  /\ UNCHANGED <<callees, start, sccs>>

Lowered(v, n) == [lowlink EXCEPT ![v] = IF n < @ THEN n ELSE @]

BackEdge ==
  /\ HasCallee /\ index[Callee] # -1 /\ onStack[Callee]
  /\ lowlink' = Lowered(Top.v, index[Callee])
  /\ frames' = Advanced
  /\ UNCHANGED <<callees, start, index, onStack, visitStack, counter, sccs>>

\* Mutant: an edge into a finished component lowers the link too.
CrossEdge_Lowers ==
  /\ HasCallee /\ index[Callee] # -1 /\ ~onStack[Callee]
  /\ lowlink' = Lowered(Top.v, index[Callee])
  /\ frames' = Advanced
  /\ UNCHANGED <<callees, start, index, onStack, visitStack, counter, sccs>>

CrossEdge ==
  /\ HasCallee /\ index[Callee] # -1 /\ ~onStack[Callee]
  /\ frames' = Advanced
  /\ UNCHANGED <<callees, start, index, lowlink, onStack, visitStack, counter, sccs>>

\* The members popped for root v, in the order in which they are popped.
Popped(v) ==
  LET at == CHOOSE k \in DOMAIN visitStack : visitStack[k] = v
  IN  Reverse(SubSeq(visitStack, at, Len(visitStack)))

Recursive(v, members) == Len(members) > 1 \/ v \in ToSet(callees[v])

\* The frame is popped and its parent takes the lower link.
Leave ==
  /\ frames' = Front(frames)
  /\ lowlink' = IF Len(frames) = 1 THEN lowlink
                 ELSE Lowered(frames[Len(frames) - 1].v, lowlink[Top.v])

LeaveRoot ==
  LET members == Popped(Top.v) IN
  /\ frames # <<>> /\ ~HasCallee /\ lowlink[Top.v] = index[Top.v]
  /\ sccs' = Append(sccs, [members |-> members, recursive |-> Recursive(Top.v, members)])
  /\ visitStack' = SubSeq(visitStack, 1, Len(visitStack) - Len(members))
  /\ onStack' = [u \in Nodes |-> onStack[u] /\ u \notin ToSet(members)]
  /\ Leave
  /\ UNCHANGED <<callees, start, index, counter>>

LeaveInner ==
  /\ frames # <<>> /\ ~HasCallee /\ lowlink[Top.v] # index[Top.v]
  /\ Leave
  /\ UNCHANGED <<callees, start, index, onStack, visitStack, counter, sccs>>

SccFinished == frames = <<>> /\ start \notin Nodes
SccDone     == SccFinished /\ UNCHANGED sccVars

SccNext ==
  \/ StartNode \/ SkipNode \/ Descend \/ BackEdge \/ CrossEdge
  \/ LeaveRoot \/ LeaveInner \/ SccDone

SccSpec == SccInit /\ [][SccNext]_sccVars

\* fns: the order of processing, one component after the other.
ProcessingOrder == FlattenSeq([k \in DOMAIN sccs |-> sccs[k].members])

-----------------------------------------------------------------------------
SccTypeOK ==
  /\ callees \in CallGraphs
  /\ start \in 1..Len(callees) + 1
  /\ index \in [Nodes -> -1..Len(callees)] /\ lowlink \in [Nodes -> 0..Len(callees)]
  /\ onStack = [v \in Nodes |-> v \in ToSet(visitStack)]
  /\ counter \in 0..Len(callees)
  /\ \A k \in DOMAIN frames : frames[k].v \in Nodes /\ frames[k].child \in 0..Len(callees[frames[k].v])
  /\ \A k \in DOMAIN sccs : ToSet(sccs[k].members) \subseteq Nodes

\* Nodes that a chain of one call or more leads to from v: those in every set that
\* holds v's callees and those of its members.
Reaches(v) ==
  {u \in Nodes : \A s \in SUBSET Nodes :
     ToSet(callees[v]) \subseteq s /\ (\A x \in s : ToSet(callees[x]) \subseteq s) => u \in s}

\* A component is emitted once and complete, at any time: its members are the
\* functions that call each other, directly or not, and it is marked recursive
\* exactly when its members can call themselves (the inliners do not enter a
\* recursive function: a missing mark would let them unroll it without end).
ComponentsExact ==
  /\ \A k \in DOMAIN sccs :
       LET ms == ToSet(sccs[k].members) IN
       /\ \A v \in ms : ms = {v} \cup {u \in Nodes : u \in Reaches(v) /\ v \in Reaches(u)}
       /\ sccs[k].recursive = (\E v \in ms : v \in Reaches(v))
  /\ SccFinished => ToSet(ProcessingOrder) = Nodes

\* "We sort by call-graph topological order (callees before callers)"
\* (src/Pipeline.cpp:311-312): whatever a function calls stands before it, or
\* in its component, and no function stands twice.
CalleesStandFirst ==
  LET fns == ProcessingOrder IN
  /\ \A i, j \in DOMAIN fns : fns[i] = fns[j] => i = j
  /\ \A i \in DOMAIN fns : \A u \in ToSet(callees[fns[i]]) :
       \/ \E j \in 1..i : fns[j] = u
       \/ fns[i] \in Reaches(u)

\* The order of processing, which the inliners and their recursion guard rely
\* on: complete components, each after those it calls.
OrderExact == SccTypeOK /\ ComponentsExact /\ CalleesStandFirst

=============================================================================
