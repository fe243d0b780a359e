SPECIFICATION Spec

CONSTANTS
  c1 = c1
  c2 = c2
  a1 = a1
  a2 = a2
  NoKey = NoKey
  NoClient = NoClient
  Clients = {c1, c2}
  Addrs = {a1}
  NewAddr = a1
  KeyTypes <- OneType
  MaxIdents = 2
  MaxDepth = 2
  ReplyCapacity = 1

SYMMETRY ClientSymmetry

INVARIANTS
  TypeOK
  OneHandlerPerCall
PROPERTIES
  ServesKeys
