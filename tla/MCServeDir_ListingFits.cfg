\* A listing while another worker creates a file.
SPECIFICATION Spec
CONSTANTS
  root = root  f1 = f1  f2 = f2  f3 = f3  a = a  b = b
  None = None
  Names = {a, b}
  Depth = 1
  Files <- MCFiles
  RootInode = root
  MaxRequest = 2
  Workers = 2
  Ops <- MCListOps
  Flags = {{}}
  Complete = {TRUE}
  Exports <- MCFile
INVARIANTS
  ListingFits
CHECK_DEADLOCK FALSE
