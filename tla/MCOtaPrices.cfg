\* Three posts of three lines at two prices, with failures.
SPECIFICATION OtaSpec
CONSTANTS
  Posts = {h1, h2, h3}
  Lines = {l1, l2, l3}
  Prices = {p1, p2}
  Faults = TRUE
  None = None
SYMMETRY Symm
INVARIANTS OneFarePerLine
PROPERTIES SettledStays
