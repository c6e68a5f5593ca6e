\* A maincall.lua without failures.  Its only proxyqueues.lua may end, or not run, and
\* then nothing is left to do.
SPECIFICATION FairSpec
CONSTANTS
  Callers = {c1}
  Crawlers = {}
  MaxNum = 1
  Tasks = {t1}
  Missed = {}
  Fillers = {f1}
  Faults = FALSE
  None = None
INVARIANTS CallersOutliveIdleness
CHECK_DEADLOCK FALSE
