SPECIFICATION Spec
CONSTANTS
  t1 = t1
  t2 = t2
  t3 = t3
  c1 = c1
  c2 = c2
  Tasks = {t1, t2, t3}
  CPUs = {c1, c2}
  Idle = Idle
  None = None
  Rank <- MCRank
  Wakers = {t2, c1, c2}
INVARIANTS
  TypeOK
  IdleSeesWork
  PreemptionRequested
