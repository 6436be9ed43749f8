SPECIFICATION FairSpec
CONSTANTS
  c1 = c1
  c2 = c2
  outer1 = outer1
  outer2 = outer2
  inner1 = inner1
  inner2 = inner2
  plain = plain
  last = last
  Workers = {w1, w2}
  Clients = {c1, c2}
  Tasks = {outer1, outer2, inner1, inner2, plain, last}
  Program <- NestedProgram
  MayAbandon = {c2}
INVARIANTS
  TypeOK
  NoTaskLostOrRunTwice
  DestroyedMeansDrained
  ScopedTasksSettled
PROPERTIES
  ImplementsExecutor
  PoolEventuallyGone
