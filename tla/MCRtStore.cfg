\* Two posts for one outbound line, with failures, or with a search and a lookup.
SPECIFICATION MCSpec
CONSTANTS
  OwReqs = {}
  RtReqs = {t1, t2}
  g = g
  b1 = b1
  b2 = b2
  Lines = {g, b1, b2}
  Combos <- TwoReturns
  Segs = {s1}
  MaxId = 3
  None = None
  Gets = {g1}
  Lookups = {q1}
  Faults = TRUE
SYMMETRY Symm
INVARIANTS CombosOwned ListedTwiceAtMost AnswerComplete LookupIsOwn
PROPERTIES ReturnsSettle
