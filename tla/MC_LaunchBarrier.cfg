SPECIFICATION FairChildren
CONSTANTS
  Children = {k1, k2}
  t1 = t1
  t2 = t2
  t3 = t3
  i1 = i1
  i2 = i2
  i3 = i3
  ln = ln
  Tokens <- MCTokens
  CoordOf <- MCCoordOf
  Inodes = {i1, i2, i3, ln}
  InitialNames <- MCNames
  InitialInodes <- MCInodes
  Disturbed <- MCDisturbed
  MaxPieces = 2
  MaxChanges = 1
  MaxCrashes = 2
  MaxFlaws = 1
CONSTRAINT ReadsApart
INVARIANTS Counterbalanced RunsOnce ReceiptOutlivesRun NothingUnaccounted
PROPERTIES ReleasedChildrenEnd ImplementsBarrier
CHECK_DEADLOCK FALSE
