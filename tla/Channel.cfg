SPECIFICATION Spec
CHECK_DEADLOCK FALSE
CONSTANTS
  c1 = c1
  c2 = c2
  s1 = s1
  s2 = s2
  None = None
  End <- MCEnd
  Threads = {c1, c2, s1, s2}
  Cap = 1
  MaxSends = 3
  NonBlocking = {s1}
  Callers = {c1}
  Mistyped = {s1}
  Short = {c2}
  Signalled = {s2}
  Shutdown = {"a"}
INVARIANTS
  TypeOK
  NoUseAfterFree
  NoEndpointLeak
  HandleRefsTravel
  EntriesAreLive
  PlainWaitersServed
