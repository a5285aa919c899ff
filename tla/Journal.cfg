SPECIFICATION Spec
CONSTANTS
  u1 = u1
  Callers = {u1}
  Pages <- MCPages
  SB = 0
  Data = 1
  Zero = Zero
  Meta = {0, 2, 3}
  JSB = 10
  LogLen = 8
  Workloads <- MCWorkloads
  TxCapacity = 2
  MaxMishaps = 2
  NoTask = NoTask
INVARIANTS
  TypeOK
  HoldsMatchTx
  RefusedOnlyAfterFault
PROPERTIES
  AtomicMount
  DurableCommits
  OrderedData
