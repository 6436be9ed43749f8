SPECIFICATION PassesSpec
CONSTANTS
  main = main
  fa = fa
  fb = fb
  k1 = k1
  k2 = k2
  va = va
  vb = vb
  low = low
  other = other
  entry = entry
  a = a
  b = b
  c = c
  d = d
  Names <- NamesInOrder
  Main = main
  Values = {va, vb, low}
  Lowest = low
  Computed = other
  MaxArity = 2
  MaxClones = 2
  NoBlock = NoBlock
  Blocks = {entry, a, b, c}
  Modules <- CallbackModule
  CallGraphs <- OneCallGraph
  Graphs <- OneGraph
INVARIANTS
  AddressesKept
