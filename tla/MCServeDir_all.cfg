\* Every handler while another worker changes the directory.
SPECIFICATION Spec
CONSTANTS
  root = root  f1 = f1  f2 = f2  f3 = f3  a = a  b = b
  None = None
  Names = {a, b}
  Depth = 2
  Files <- MCFiles
  RootInode = root
  MaxRequest = 2
  Workers = 2
  Ops <- MCAllOps
  Flags = {{}, {"creat", "excl", "write"}, {"trunc", "write"}}
  Complete = {TRUE, FALSE}
  Exports <- MCTrees
INVARIANTS
  TypeOK
  
  DescriptorOwned
  DescriptorClosed
  ListingComplete
CHECK_DEADLOCK FALSE
