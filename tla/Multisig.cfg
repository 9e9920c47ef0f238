SPECIFICATION FairSpec
CONSTANTS
  a = a
  b = b
  i1 = i1
  p1 = p1
  p2 = p2
  Signers <- TwoSigners
  Enough <- BothSign
  Inputs <- OneInput
  Procs <- TwoProcs
  MaxRows = 2
  MaxUpsets = 1
INVARIANT RowIsTrue
PROPERTIES StatusSettles ProgressSettles
