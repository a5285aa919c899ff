SPECIFICATION Spec
CONSTANTS
  t1 = t1
  t2 = t2
  c1 = c1
  c2 = c2
  Tasks = {t1, t2}
  CPUs = {c1, c2}
  Idle = Idle
  None = None
  Rank <- MCRealtime
  Modes = {"INTERRUPTIBLE"}
  MaxSeq = 2
  TimerCap = 1
  Kinds = {}
  Stoppers = {}
  Mortal = {}
  Donors = {t1, t2}
  Throttled = {}
  KernelPreempt = TRUE
  FastCurrent = TRUE
SYMMETRY MCCpuSymmetry
INVARIANTS
  TypeOK
  SchedState
  CpuSlots
  ReadyIsOwned
  StackOwned
  TimerIsLive
  DeadlineCovered
  TokenDiscipline
PROPERTIES
  WaitSpec
