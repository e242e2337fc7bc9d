SPECIFICATION Spec
CONSTANTS
  PageLen = 3
  TableLen = 3
  NameLen = 2
  PalLen = 1
  Row = 2
  Bytes = {0, 1}
  Pages <- MCPages
  ResetA <- MCResetA
  WatchedShown <- MCWatchedShown
  WatchedRead <- MCWatchedRead
INVARIANTS TypeOK
PROPERTIES ShownLikeNes ReadLikeNes
