SPECIFICATION FairSpec
CONSTANTS
  t1 = t1
  t2 = t2
  c1 = c1
  c2 = c2
  Tasks = {t1, t2}
  CPUs = {c1}
  Idle = Idle
  None = None
  Rank <- MCEqualRank
  Modes = {"INTERRUPTIBLE"}
  MaxSeq = 1
  TimerCap = 1
  Kinds = {"SIGNAL"}
  Stoppers = {}
  Mortal = {}
  Donors = {}
  Throttled = {}
  KernelPreempt = FALSE
  FastCurrent = FALSE

PROPERTIES
  WaitEnds
