CONSTANTS
  ObjectSize = 4
  PageSize = 8
  TlbSize = 1
  Kind <- Map
  SymbolicMmio = {5}
  PageTables <- Tables
  Addresses = {0, 1, 3, 4, 6, 7, 8, 9}
  Nothing = Nothing
  MaxStores = 1
SPECIFICATION MmuSpec
INVARIANT AccessesAtomic
PROPERTY CodeFollowsMemory
