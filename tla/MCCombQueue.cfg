\* Three requests for a search, the consumer and other searches, with failures and
\* an unknown level.
SPECIFICATION CombFairSpec
CONSTANTS
  Handlers = {h1, h2, h3}
  Args = {a}
  Levels = {0, 1, 2}
  Faults = TRUE
  MaxLeaks = 1
  RawArgs = {raw}
  MaxRaw = 1
  None = None
INVARIANTS DuplicatesBounded KeepsAccepted
PROPERTIES FiledIsServed
