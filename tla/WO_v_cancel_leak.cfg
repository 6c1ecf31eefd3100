SPECIFICATION Spec
CONSTANTS
  p1 = p1
  p2 = p2
  l1 = l1
  l2 = l2
  l3 = l3
  f1 = f1
  f2 = f2
  f3 = f3
  Procs <- MCProcs
  NoProc = NoProc
  NoLine = NoLine
  Lines = {l1, l2}
  Photos = {f1, f2}
  SkuOf <- MCSku
  NormOf <- MCNorm
  MaxQty = 1
  MaxPhotos = 1
  Scope = "request"
  Commands <- ClosingCommands
  Aborts = TRUE
  InitOrders <- WorkedOrders
  MaxVersion = 7
SYMMETRY MCSym
CHECK_DEADLOCK FALSE
INVARIANT CancelledMeansNothingConsumed
