\* A maincall.lua, another crawler, two proxyqueues.lua and two tasks, or three
\* proxyqueues.lua without tasks; with failures.
SPECIFICATION MCSpec
CONSTANTS
  Callers = {c1}
  Crawlers = {x1}
  MaxNum = 2
  Tasks = {t1, t2}
  Missed = {t2}
  Fillers = {f1, f2, f3}
  spare = f3
  Faults = TRUE
  None = None
INVARIANTS EachTaskOnce PoolBounded EverySecondScript
PROPERTIES TasksGoThrough
