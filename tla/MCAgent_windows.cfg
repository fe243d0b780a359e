SPECIFICATION Spec

CONSTANTS
  c1 = c1
  c2 = c2
  a1 = a1
  a2 = a2
  NoKey = NoKey
  NoClient = NoClient
  Clients = {}
  Addrs = {a1, a2}
  NewAddr = a1
  KeyTypes <- OneType
  MaxIdents = 2
  MaxDepth = 3
  ReplyCapacity = 2

INVARIANTS
  RowsMatch
  OneDialog
  LoadedNeedsHandle
PROPERTIES
  OnlySaveOutdates
  DefinedWhileUnmoved
