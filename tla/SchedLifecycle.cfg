SPECIFICATION Spec
CHECK_DEADLOCK FALSE
CONSTANTS
  t1 = t1
  t2 = t2
  c1 = c1
  c2 = c2
  Tasks = {t1}
  CPUs = {c1, c2}
  Idle = Idle
  None = None
  Rank <- MCEqualRank
  Modes = {"UNINTERRUPTIBLE", "KILLABLE", "INTERRUPTIBLE"}
  MaxSeq = 2
  TimerCap = 1
  Kinds = {"SIGNAL", "FATAL", "CONT", "EXIT"}
  Stoppers = {t1}
  Mortal = {t1}
  Donors = {}
  Throttled = {t1}
  KernelPreempt = TRUE
  FastCurrent = FALSE
SYMMETRY MCCpuSymmetry
INVARIANTS
  InterruptNotLost
  StopNotLost
  ReapedIsQuiet
PROPERTIES
  ZombieStays
  WaitSpec
