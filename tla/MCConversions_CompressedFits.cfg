SPECIFICATION Spec
CONSTANTS
  SignBit = 8
  Stats <- MCStats
  Times <- MCNow
  Modes <- MCModes
  Flags <- MCFlags
  Errnos <- MCErrnos
  StatVfss <- MCStatVfss
  Payloads <- MCPayloads
  Buffers = {0, 1, 4096}
  Folders <- MCFolders
  Requests <- MCRequests
  Names <- MCNames
INVARIANT
  CompressedFits
CHECK_DEADLOCK FALSE
