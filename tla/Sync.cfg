SPECIFICATION FairSpec
CONSTANTS
  t1 = t1
  t2 = t2
  t3 = t3
  None = None
  Threads = {t1, t2, t3}
  Uses <- MCUses
  MaxDepth = 2
  DoneAll = 3
  MaxCompletes = 2
  Batch = 1
  Strays = {t1}
INVARIANTS
  TypeOK
  MutualExclusion
  WritersCounted
  NobodyLeftBehind
  EntriesAreLive
PROPERTIES
  WriterGetsIn
