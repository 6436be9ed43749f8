----------------------------- MODULE BlockMerge -----------------------------
(***************************************************************************)
(* The clean-up of one function's control-flow graph after the module has  *)
(* been assembled (Pipeline::run, src/Pipeline.cpp:573-772): blocks that   *)
(* only branch on are merged into their destination, then prune_dataflow   *)
(* folds branches and removes what they made unreachable.  The rounds      *)
(* repeat while anything in the module changes, three times at most.       *)
(*                                                                         *)
(* The graph is the one the inliner left.  Instructions other than phis    *)
(* and terminators matter only by whether a block has any and whether they *)
(* have effects (body); which conditions, phis and instructions without    *)
(* effects the analyses remove is any choice.                              *)
(***************************************************************************)
EXTENDS Naturals, FiniteSets, Sequences, SequencesExt

CONSTANTS Blocks,    \* names of blocks
          Graphs,    \* the functions: records [order, to, body, phi]
          NoBlock    \* walk of the resolution when none is under way

MaxRounds == 3       \* cleanup_round < 3
MaxMerges == 10      \* merge_iter < 10

VARIABLES
  order,    \* the function's blocks in order; the first is its entry
  to,       \* block -> label -> destination; without labels, a return
  body,     \* what a block holds besides phis and a terminator: one of Bodies
  phi,      \* block -> incoming blocks of its phis: predecessor -> name in use
  meant,    \* to, as it was given, with the branches folded since
  merge,    \* merge_map
  todo,     \* names in merge_map that the resolution has not come to
  walk,     \* [from, cur] of the resolution
  stage,    \* "scan", "resolve", "prune", "next" or "done"
  merges,   \* merge_iter
  round,    \* cleanup_round
  changed   \* any_change

graph   == <<order, to, body, phi>>
merging == <<merge, todo, walk, merges>>
mergeVars == <<graph, meant, merging, stage, round, changed>>

Bodies     == {"none", "pure", "effect"}
Live       == ToSet(order)
Idle       == [from |-> NoBlock, cur |-> NoBlock]
Succ(b)    == {to[b][l] : l \in DOMAIN to[b]}
HasPhi(b)  == DOMAIN phi[b] # {}

\* A block whose only instruction is an unconditional branch.
OnlyJumps(b) == body[b] = "none" /\ ~HasPhi(b) /\ DOMAIN to[b] = {"dest_bb"}

\* Mutant: a block that branches to itself is a candidate too.
Forwarder_SelfLoop(b) == OnlyJumps(b)

\* Blocks that the scan enters into merge_map.
Forwarder(b) == OnlyJumps(b) /\ to[b]["dest_bb"] # b

\* Branches that are given lead to blocks of the function.
Labels   == {"dest_bb", "true_bb", "false_bb"}
Branches == UNION {[ls -> Blocks] : ls \in SUBSET Labels}
BlockMergeAssumption ==
  /\ IsFiniteSet(Blocks) /\ NoBlock \notin Blocks
  /\ \A g \in Graphs :
       /\ g.order \in Seq(Blocks) /\ g.order # <<>>
       /\ g.to \in [Blocks -> Branches] /\ g.body \in [Blocks -> Bodies] /\ DOMAIN g.phi = Blocks
       /\ \A b \in ToSet(g.order) : \A l \in DOMAIN g.to[b] : g.to[b][l] \in ToSet(g.order)
ASSUME BlockMergeAssumption

\* What the merging takes for granted: blocks without effects stand on no cycle
\* of branches but their own.  The walk along a chain of them would not come
\* back, or all of them would be merged into each other.
NoIdleCycles ==
  \A g \in Graphs : \E rank \in [Blocks -> 0..Cardinality(Blocks)] :
    \A b \in ToSet(g.order) : \A l \in DOMAIN g.to[b] :
      LET s == g.to[b][l] IN
      g.body[b] # "effect" /\ s # b /\ g.body[s] # "effect" => rank[s] < rank[b]

MergeInit == \E g \in Graphs :
  /\ order = g.order /\ to = g.to /\ body = g.body /\ phi = g.phi
  /\ meant = g.to
  /\ merge = <<>> /\ todo = {} /\ walk = Idle /\ merges = 0
  /\ stage = "scan" /\ round = 1 /\ changed = FALSE

-----------------------------------------------------------------------------
(* Merging. *)

\* Nothing to merge, or the limit of iterations is reached.
ScanFindsNothing ==
  /\ stage = "scan"
  /\ {b \in Live : Forwarder(b)} = {} \/ merges = MaxMerges
  /\ stage' = "prune"
  /\ UNCHANGED <<graph, meant, merging, round, changed>>

Scan ==
  LET found == {b \in Live : Forwarder(b)} IN
  /\ stage = "scan" /\ found # {} /\ merges < MaxMerges
  /\ merge' = [b \in found |-> to[b]["dest_bb"]]
  /\ todo' = found
  /\ merges' = merges + 1
  /\ stage' = "resolve"
  /\ UNCHANGED <<graph, meant, walk, round, changed>>

\* merge_map is unordered: any entry may be the next one to be resolved.
PickChain ==
  /\ stage = "resolve" /\ walk = Idle
  /\ \E b \in todo : walk' = [from |-> b, cur |-> merge[b]]
  /\ UNCHANGED <<graph, meant, merge, todo, merges, stage, round, changed>>

\* Mutant: chains of forwarding blocks are not followed.
MayGoOn_Never(from, cur) == FALSE

\* The walk goes on unless the next step leads back to either of its ends.
MayGoOn(from, cur) ==
  /\ cur \in DOMAIN merge
  /\ merge[cur] \notin {from, merge[from]}

WalkOn ==
  /\ walk # Idle /\ MayGoOn(walk.from, walk.cur)
  /\ walk' = [walk EXCEPT !.cur = merge[@]]
  /\ UNCHANGED <<graph, meant, merge, todo, merges, stage, round, changed>>

ChainResolved ==
  /\ walk # Idle /\ ~MayGoOn(walk.from, walk.cur)
  /\ merge' = [merge EXCEPT ![walk.from] = walk.cur]
  /\ todo' = todo \ {walk.from}
  /\ walk' = Idle
  /\ UNCHANGED <<graph, meant, merges, stage, round, changed>>

\* The name that replaces b.
Renamed(b) == IF b \in DOMAIN merge THEN merge[b] ELSE b

\* The blocks of s that are kept.
Only(s, keep) ==
  LET kept[n \in 0..Len(s)] ==
        IF n = 0 THEN <<>> ELSE IF s[n] \in keep THEN Append(kept[n - 1], s[n]) ELSE kept[n - 1]
  IN  kept[Len(s)]

\* Rewrites the labels of every branch and of every phi, then removes the
\* merged blocks.
Rewrite ==
  /\ stage = "resolve" /\ walk = Idle /\ todo = {}
  /\ to' = [b \in Blocks |-> IF b \in Live
              THEN [l \in DOMAIN to[b] |-> Renamed(to[b][l])] ELSE to[b]]
  /\ phi' = [b \in Blocks |-> IF b \in Live
              THEN [p \in DOMAIN phi[b] |-> Renamed(phi[b][p])] ELSE phi[b]]
  /\ order' = Only(order, Live \ DOMAIN merge)
  /\ changed' = TRUE
  /\ stage' = IF \E b \in Live : Succ(b) \cap DOMAIN merge # {}
              THEN "scan" ELSE "prune"
  /\ merge' = <<>>
  /\ UNCHANGED <<body, meant, todo, walk, merges, round>>

-----------------------------------------------------------------------------
(* prune_dataflow. *)

\* Blocks that can be reached from b along branches t, among the blocks bs: those
\* in every set that holds b and all that is branched to from it.
Reached(t, bs, b) ==
  {d \in bs \cup {b} : \A s \in SUBSET (bs \cup {b}) :
     b \in s /\ (\A x \in s : \A l \in DOMAIN t[x] : t[x][l] \in bs => t[x][l] \in s) => d \in s}

\* A branch t[b] of which only the arm l can be taken.
Folded(t, b, l) == [t EXCEPT ![b] = [dest_bb |-> t[b][l]]]

\* simplify_known_bits finds a condition constant.
FoldBranch ==
  /\ stage = "prune"
  /\ \E b \in Live : \E l \in DOMAIN to[b] \cap {"true_bb", "false_bb"} :
       /\ to'    = Folded(to, b, l)
       /\ meant' = Folded(meant, b, l)
  /\ changed' = TRUE
  /\ UNCHANGED <<order, body, phi, merging, stage, round>>

\* What is left in a block without effects turns out to be constant, which is
\* a change of the module, or dead, which does not count as one.
EmptyBlock ==
  /\ stage = "prune"
  /\ \E b \in Live :
       \/ body[b] = "pure" /\ body' = [body EXCEPT ![b] = "none"] /\ UNCHANGED phi
       \/ HasPhi(b) /\ phi' = [phi EXCEPT ![b] = <<>>] /\ UNCHANGED body
  /\ changed' \in {changed, TRUE}
  /\ UNCHANGED <<order, to, meant, merging, stage, round>>

\* remove_unreachable_blocks: also drops the phi operands of the removed.
PruneBlocks ==
  LET reached == Reached(to, Live, order[1]) IN
  /\ stage = "prune"
  /\ order' = Only(order, reached)
  /\ phi' = [b \in Blocks |->
               [p \in {q \in DOMAIN phi[b] : phi[b][q] \notin Live \ reached} |->
                  phi[b][p]]]
  /\ changed' = (changed \/ Live # reached)
  /\ stage' = "next"
  /\ UNCHANGED <<to, body, meant, merging, round>>

-----------------------------------------------------------------------------
(* Rounds. *)

\* Another function's change is enough for another round.
NextRound ==
  /\ stage = "next" /\ round < MaxRounds
  /\ round' = round + 1
  /\ changed' = FALSE /\ merges' = 0
  /\ stage' = "scan"
  /\ UNCHANGED <<graph, meant, merge, todo, walk>>

Finish ==
  /\ stage = "next" /\ (round = MaxRounds \/ ~changed)
  /\ stage' = "done"
  /\ UNCHANGED <<graph, meant, merging, round, changed>>

MergeDone == stage = "done" /\ UNCHANGED mergeVars

MergeNext ==
  \/ ScanFindsNothing \/ Scan \/ PickChain \/ WalkOn \/ ChainResolved \/ Rewrite
  \/ FoldBranch \/ EmptyBlock \/ PruneBlocks
  \/ NextRound \/ Finish \/ MergeDone

MergeSpec == MergeInit /\ [][MergeNext]_mergeVars /\ WF_mergeVars(MergeNext)

-----------------------------------------------------------------------------
MergeTypeOK ==
  /\ Live \subseteq Blocks /\ Len(order) = Cardinality(Live)
  /\ \A b \in Blocks : DOMAIN to[b] \subseteq Labels /\ Succ(b) \subseteq Blocks
  /\ body \in [Blocks -> Bodies]
  /\ \A b \in Blocks : \A p \in DOMAIN phi[b] : phi[b][p] \in Blocks
  /\ \A b \in Blocks : DOMAIN meant[b] = DOMAIN to[b]
  /\ DOMAIN merge \subseteq Blocks /\ todo \subseteq DOMAIN merge
  /\ walk \in [from : Blocks \cup {NoBlock}, cur : Blocks \cup {NoBlock}]
  /\ stage \in {"scan", "resolve", "prune", "next", "done"}
  /\ merges \in 0..MaxMerges /\ round \in 1..MaxRounds /\ changed \in BOOLEAN

Jumps == {b \in Blocks : OnlyJumps(b)}

\* The blocks that are passed on the way from b along branches t as long as the
\* blocks in js only jump: those in every set that holds b and is closed.
Trail(js, t, b) ==
  {x \in Blocks : \A s \in SUBSET Blocks :
     b \in s /\ (\A y \in s \cap js : t[y]["dest_bb"] \in s) => x \in s}

\* The first block at or after b that does more than branch on; none on an
\* endless cycle of branches.
Landing(js, t, b) ==
  LET ends == Trail(js, t, b) \ js
  IN  IF ends = {} THEN NoBlock ELSE CHOOSE x \in ends : TRUE

\* The clean-up is "sound by construction" (src/Pipeline.cpp:569-570) as far as
\* branches go: a branch of the function leads to a block that is still there,
\* and from it to the block with work to do to which it led before.
BranchesKept ==
  \A b \in Live : \A l \in DOMAIN to[b] :
    /\ to[b][l] \in Live
    /\ Landing(Jumps, to, to[b][l]) = Landing(Jumps, meant, meant[b][l])

\* The clean-up of a function ends: run() has no other way out of it, and its
\* loop over merge_map looks at no clock (src/Pipeline.cpp:647-653).
MergeEnds == <>(stage = "done")

=============================================================================
