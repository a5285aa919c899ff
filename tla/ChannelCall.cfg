SPECIFICATION Spec
CHECK_DEADLOCK FALSE
CONSTANTS
  c1 = c1
  c2 = c2
  s1 = s1
  s2 = s2
  None = None
  End <- MCEnd
  Threads = {c1, s1}
  Cap = 1
  MaxSends = 1
  NonBlocking = {}
  Callers = {c1}
  Mistyped = {}
  Short = {}
  Signalled = {}
  Shutdown = {}
INVARIANTS
  DeferredWakeDelivered
