SPECIFICATION Spec
CHECK_DEADLOCK FALSE
CONSTANTS
  a1 = a1
  a2 = a2
  b1 = b1
  c = c
  e = e
  k = k
  j = j
  m = m
  o = o
  l = l
  p1 = p1
  p2 = p2
  p3 = p3
  p4 = p4
  p5 = p5
  p6 = p6
  None = None
  Tasks = {a1, a2, b1}
  Words = {c, e, k, j, m, o, l}
  Pages = {p1, p2, p3, p4, p5, p6}
  Programs <- MCPiLock
  PageOf <- MCPageOf
  Bucket <- MCBucket
  CowWords = {k, j}
  PiWords = {l}
  Targets = {m, o}
  Timed = {}
  Mortal = {}
  Signalled = {}
  Batch = 1
  MaxVal <- MCMaxVal
  MaxWaits = 1
  MaxSignals = 1
INVARIANTS
  PiSleepersPublished
