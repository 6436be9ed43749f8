SPECIFICATION SolverSpec
CONSTANTS
  ax = ax
  ay = ay
  va = va
  vb = vb
  vc = vc
  vd = vd
  ve = ve
  vf = vf
  hole = hole
  hole2 = hole2
  entry = entry
  left = left
  right = right
  join = join
  t1 = t1
  t2 = t2
  t3 = t3
  n1 = n1
  n2 = n2
  n3 = n3
  n4 = n4
  n5 = n5
  n6 = n6
  NoName = NoName
  Fresh <- FreshNamesInOrder
  CalleeValue <- NoCalls
  MaxHops = 4
  HostBits = 3
  max_trip = 4
  max_unrolled_instructions = 12
  max_simulation_steps = 20
  max_blocks_for_smt = 8
  max_instructions_for_smt = 20
  Junk = {0, 1, 2, 3}
  CEGIS_MAX_ITERS = 3
  POOL <- PoolInOrder
  Problems <- DividingProblems
  Batches <- NoBatches
  max_length = 1
  max_constants = 4
  trust_unverified_slices = TRUE
  min_window_instructions = 2
  max_window_instructions = 4
  harvest_max_depth = 3
  max_windows_per_function = 4
  kOps = {"sub", "and"}
  kPreds = {"eq", "ult"}
  Temps <- CandidateNames
  MinerFunctions <- NoMinerFunctions
INVARIANT FoundIsDefined
CHECK_DEADLOCK FALSE
