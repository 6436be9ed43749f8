SPECIFICATION SearchesSpec
CONSTANTS
  ax = ax
  ay = ay
  va = va
  vb = vb
  vc = vc
  vd = vd
  ve = ve
  vm = vm
  entry = entry
  left = left
  right = right
  join = join
  s0 = s0
  s1 = s1
  s2 = s2
  g0 = g0
  g1 = g1
  g2 = g2
  g3 = g3
  g4 = g4
  g5 = g5
  px = px
  pc = pc
  pr = pr
  pt = pt
  pa = pa
  pb = pb
  pz = pz
  punused = punused
  intel = intel
  anyone = anyone
  other = other
  portable = portable
  NoName = NoName
  Fresh <- NoNames
  CalleeValue <- NoCalls
  MaxHops = 3
  HostBits = 3
  CostOf <- Cost
  ImmediateBits = 1
  constant_materialisation_cost = 2
  register_reuse_bonus = 1
  Distance <- SameVendor
  PatternBits = 2
  target_arch <- Host
  ExtraPatterns <- Loaded
  Drawn = {"add", "and"}
  StokeNames <- StokeInOrder
  max_instruction_count = 8
  NearCapFloor = 7
  Originals <- AllOriginals
  Configs <- AllConfigs
  Probes <- ProbesInOrder
  Cooling = 5
  CheckEvery = 2
  EgraphSources <- AllSources
  Libraries <- SomeLibraries
  EgNames <- EgInOrder
  kMaxRebuildMerges = 1000
  SaturationRounds = 30
INVARIANTS
  SoundMeansRefines
  BestIsKept
  EgraphSound
PROPERTIES
  RejectedLeavesNoTrace
  KeptNeverEdited
CHECK_DEADLOCK FALSE
