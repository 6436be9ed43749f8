----------------------------- MODULE MCPipeline -----------------------------
(***************************************************************************)
(* Instances of what Pipeline::run is made of: the refinement of one       *)
(* function (FunctionRefiner), the workers over the functions of a module  *)
(* (ModuleRun), and the verifier with the cache the workers share          *)
(* (CachedVerifier).  Each is an abstraction of its own, without state     *)
(* that another reads: in each behaviour it is the turn of one of them.    *)
(*                                                                         *)
(* The module has a declaration, a leaf, a function too large to search,   *)
(* and a caller of all of them, in call-graph order.  The verifier has two *)
(* workers and three pairs: the keys of two pairs with different answers   *)
(* collide, the third has a key of its own; the LRU holds one entry.       *)
(***************************************************************************)
EXTENDS MCFunctionRefiner, ModuleRun, CachedVerifier

CONSTANTS decl, leaf, large, root,
          k1, k2, first, second, alone, w1, w2

FourInOrder == <<decl, leaf, large, root>>

PairTruth == [p \in {first, second, alone} |->
                IF p = second THEN "NotEquivalent" ELSE "Equivalent"]
PairKey   == [p \in {first, second, alone} |-> IF p = alone THEN k2 ELSE k1]

VARIABLE turn    \* the part that is looked at

pipelineVars == <<turn, vars, runVars, verifierVars>>

PipelineInit ==
  /\ turn \in {"refiner", "run", "verifier"}
  /\ Init /\ RunInit /\ VerifierInit
  /\ turn # "refiner" => mode = NoProver

PipelineNext ==
  \/ turn = "refiner" /\ Next /\ UNCHANGED <<turn, runVars, verifierVars>>
  \/ turn = "run" /\ RunNext /\ UNCHANGED <<turn, vars, verifierVars>>
  \/ turn = "verifier" /\ VerifierNext /\ UNCHANGED <<turn, vars, runVars>>

\* The fairness of FunctionRefiner, for its turn.
PipelineSpec ==
  /\ PipelineInit /\ [][PipelineNext]_pipelineVars
  /\ WF_vars(turn = "refiner" /\ Work)

\* The refinement of a function ends whenever it is begun.
RefinementEnds == turn = "refiner" => RefinementTerminates

=============================================================================
