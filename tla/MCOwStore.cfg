\* Two one-way posts and a round-trip post over two lines, with failures.
SPECIFICATION OwSpec
CONSTANTS
  OwReqs = {o1, o2}
  RtReqs = {t1}
  Lines = {l1, l2}
  Segs = {s1, s2}
  MaxId = 3
  None = None
  Gets = {}
  Dates = {d1}
  Faults = TRUE
SYMMETRY Symm
INVARIANTS UniqueIds SegOwned PricesOwned IndexedOrExplained OwIInv
PROPERTIES AllocationCloses RegistrySpec LossIsFinal
