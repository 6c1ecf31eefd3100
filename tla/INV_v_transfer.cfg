SPECIFICATION Spec
CONSTANTS
  h1 = h1
  h2 = h2
  c1 = c1
  c2 = c2
  r1 = r1
  t1 = t1
  a1 = a1
  a2 = a2
  k1 = k1
  s1 = s1
  s2 = s2
  b1 = b1
  b2 = b2
  n1 = n1
  NoDoc = NoDoc
  NoBranch = NoBranch
  Docs = {r1, t1, a1, a2, k1}
  KindOf <- MCKindOf
  Skus = {s1, s2}
  Branches = {b1, b2}
  LineNames = {n1, s1, s2}
  Clients = {c1, c2}
  Handlers = {h1}
  Forms <- MCForms
  Changes <- MCChanges
  Counts = {1, 3}
  InitStates <- MCStories
  Strategy = "FIFO"
CHECK_DEADLOCK FALSE
INVARIANTS TransferMovesOnce
