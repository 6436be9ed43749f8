SPECIFICATION RewritesSpec
CONSTANTS
  ax = ax
  ay = ay
  vp = vp
  vq = vq
  vr = vr
  vs = vs
  vv = vv
  ga = ga
  gp = gp
  gq = gq
  gr = gr
  entry = entry
  left = left
  right = right
  join = join
  gentry = gentry
  gleft = gleft
  gright = gright
  once = once
  forked = forked
  wrapped = wrapped
  wrapper = wrapper
  cell = cell
  cell0 = cell0
  cell1 = cell1
  celln = celln
  given = given
  outside = outside
  byte0 = byte0
  byte1 = byte1
  one = one
  l1 = l1
  l2 = l2
  l3 = l3
  n1 = n1
  n2 = n2
  n3 = n3
  n4 = n4
  n5 = n5
  n6 = n6
  n7 = n7
  n8 = n8
  n9 = n9
  n10 = n10
  n11 = n11
  n12 = n12
  n13 = n13
  n14 = n14
  NoName = NoName
  NotConst = NotConst
  scaled = scaled
  shifted = shifted
  Fresh <- GivenNames
  CalleeValue <- CalleeTable
  Callees <- GivenCallees
  MaxHops = 14
  HostBits = 8
  max_trip = 4
  max_unrolled_instructions = 12
  max_simulation_steps = 20
  max_callee_instructions = 4
  max_inlines_per_function = 2
  max_multiblock_callee_instructions = 6
  max_multiblock_callee_blocks = 3
  max_caller_instructions_after = 16
  max_probes = 5
  max_function_instructions = 6
  MaxRounds = 2
  kProbes <- GivenProbes
  Functions <- GivenFunctions
  Programs <- GivenBlocks
  Layouts <- SomeLayouts
  Sources <- GivenSources
INVARIANTS
  MeaningKept
  FactsSound
  MemoryKept
  ClosedFormsProved
CHECK_DEADLOCK FALSE
