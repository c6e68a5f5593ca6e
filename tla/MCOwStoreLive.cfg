\* Two posts and a search, without failures and round-trip posts.
SPECIFICATION OwFairSpec
CONSTANTS
  OwReqs = {o1, o2}
  RtReqs = {}
  Lines = {l1, l2}
  Segs = {s1}
  MaxId = 4
  None = None
  Gets = {g1}
  Dates = {d1}
  Faults = FALSE
INVARIANTS AnswerBracketed
PROPERTIES PostedBecomesVisible
