SPECIFICATION Spec
CONSTANTS
  v1 = v1
  v2 = v2
  c1 = c1
  m1 = m1
  m2 = m2
  Ids = {v1, v2}
  Cars = {c1}
  Models = {m1, m2}
  OwnsCollision = {m1, m2}
  Own = Own
  None = None
  NetworkThread = TRUE
  SameFrame = FALSE
  DeletedFar = FALSE
  MaxTasks = 1
INVARIANTS ShownIsNotFreed
SYMMETRY Symmetry
CHECK_DEADLOCK FALSE
