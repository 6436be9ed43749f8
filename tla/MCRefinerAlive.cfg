SPECIFICATION Spec
CONSTANTS
  orig = orig
  pat = pat
  hoisted = hoisted
  slim = slim
  doubt = doubt
  clumsy = clumsy
  wrong = wrong
  wrongPruned = wrongPruned
  best = best
  None = None
  Functions <- AllFunctions
  Original = orig
  Refines <- SameMeaning
  Score <- TheScore
  StructHash <- TheStructHash
  CanonHash <- TheCanonHash
  Pattern <- ThePattern
  Offers <- AllOffers
  Verdicts <- TheVerdicts
  AliveRefutes = {doubt, hoisted, wrong, wrongPruned}
  ProbesAgree = {orig, pat, hoisted, slim, doubt, wrong, wrongPruned, best}
  GpuRewrites <- NoGpu
  Modes <- AliveMode
  OptLevel = 2
  Enabled = {"loop", "prune", "stochastic", "mining"}
  Oversized = FALSE
  MCA = TRUE
  MCARatio <- TheRatio
  Convergence = 2
  MaxRounds = 0
  MaxSmtAttempts = 2
  MaxMeasured = 2
  MaxPatternPasses = 8
  HasDeadline = TRUE
  HasFunctionCap = TRUE
PROPERTIES
  AliveRefutedNeverAdopted
