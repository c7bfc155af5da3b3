\* Two jobs, one with a callback that lets exceptions out, and one trigger
\* from outside, against a shutdown at any moment.  Nothing is left to do
\* once the runtime is closed.
CONSTANTS
  a = a
  b = b
  c1 = c1
  Jobs = {a, b}
  Callers = {c1}
  Swallows = {a}
SPECIFICATION FairSpec
CHECK_DEADLOCK FALSE
INVARIANTS NoOverlap QuietAfterShutdown
PROPERTIES NoStartWhileStopping KeepsFiring ShutdownReturns
