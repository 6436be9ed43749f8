SPECIFICATION PipelineSpec
CONSTANTS
  orig = orig
  pat = pat
  hoisted = hoisted
  slim = slim
  doubt = doubt
  clumsy = clumsy
  wrong = wrong
  wrongPruned = wrongPruned
  best = best
  None = None
  Functions <- AllFunctions
  Original = orig
  Refines <- SameMeaning
  Score <- TheScore
  StructHash <- TheStructHash
  CanonHash <- TheCanonHash
  Pattern <- ThePattern
  Offers <- AllOffers
  Verdicts <- TheVerdicts
  AliveRefutes = {doubt, hoisted, wrong, wrongPruned}
  ProbesAgree = {orig, pat, hoisted, slim, doubt, wrong, wrongPruned, best}
  GpuRewrites <- NoGpu
  Modes <- EveryMode
  OptLevel = 2
  Enabled = {"loop", "prune", "stochastic", "mining"}
  Oversized = FALSE
  MCA = TRUE
  MCARatio <- TheRatio
  Convergence = 2
  MaxRounds = 0
  MaxSmtAttempts = 2
  MaxMeasured = 2
  MaxPatternPasses = 8
  HasDeadline = TRUE
  HasFunctionCap = TRUE
  decl = decl
  leaf = leaf
  large = large
  root = root
  RunWorkers = {w1, w2}
  Order <- FourInOrder
  Declarations = {decl}
  TooLarge = {large}
  HasBudget = TRUE
  CleansUp = TRUE
  MayCycle = {leaf}
  k1 = k1
  k2 = k2
  first = first
  second = second
  alone = alone
  w1 = w1
  w2 = w2
  Workers = {w1, w2}
  Pairs = {first, second, alone}
  KeyOf <- PairKey
  Truth <- PairTruth
  Keys = {k1, k2}
  Mangled = Mangled
  Statuses = {"Equivalent", "NotEquivalent", "Unknown"}
  Absent = Absent
  Capacity = 1
  Cuts = {"message", "stamp", "body", "lhs"}
  MaxWrites = 3
  MaxTears = 1
INVARIANTS
  TypeOK
  BaselineRefinesOriginal
  RunTypeOK
  ProgressExact
  VerifierTypeOK
  HitIsLatest
  DamageContained
  VerdictsSound
PROPERTIES
  AdoptionJustified
  BaselineImproves
  RefinementEnds
  FinishedRowsStay
  NeverAskedAgain
