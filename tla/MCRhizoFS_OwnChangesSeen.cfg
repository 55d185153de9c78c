\* Two threads.
SPECIFICATION FsSpec
CONSTANTS
  root = root  f1 = f1  f2 = f2  a = a  b = b
  t1 = t1  t2 = t2
  None = None
  Names = {a}
  Depth = 1
  Files <- MCFiles
  RootInode = root
  MaxRequest = 2
  Workers = 2
  Ops <- MCAskOps
  Flags = {{}}
  Complete = {TRUE}
  Exports <- MCExports
  Threads = {t1, t2}
  MaxAge = 1
  CallTime = 1
  MaxTime = 0
INVARIANTS
  OwnChangesSeen
CHECK_DEADLOCK FALSE
