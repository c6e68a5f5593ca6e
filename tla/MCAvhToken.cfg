\* Three requests, tokens that expire, failures at every call.
SPECIFICATION Spec
CONSTANTS
  Reqs = {r1, r2, r3}
  MaxTokens = 4
  Faults = TRUE
SYMMETRY Symm
INVARIANTS AloneRepairs LoggedOutBriefly WorkingTokenKept
