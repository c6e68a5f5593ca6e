\* Three searches over two lines and two sessions, with failures.
SPECIFICATION SrvSpec
CONSTANTS
  l1 = l1
  l2 = l2
  Searches = {s1, s2, s3}
  Fids = {l1, l2}
  Docs <- SomeDocs
  Sessions = {x1, x2}
  Faults = TRUE
  None = None
SYMMETRY Symm
INVARIANTS AloneAgrees EachRecordOnce LeftByErrors
CHECK_DEADLOCK FALSE
