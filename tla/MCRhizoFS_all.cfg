\* Every operation after one that asks or one that may be executed late, and the
\* clock.
SPECIFICATION FsSpec
CONSTANTS
  root = root  f1 = f1  f2 = f2  a = a  b = b
  t1 = t1  t2 = t2
  None = None
  Names = {a, b}
  Depth = 1
  Files <- MCFiles
  RootInode = root
  MaxRequest = 2
  Workers = 2
  Ops <- MCAllOps
  Flags <- MCFlags
  Complete = {TRUE}
  Exports <- MCExports
  Threads = {t1}
  MaxAge = 0
  CallTime = 1
  MaxTime = 2
VIEW MCView
INVARIANTS
  FsTypeOK
  ServedFresh
  StaleOnlyOverlooked
CHECK_DEADLOCK FALSE
