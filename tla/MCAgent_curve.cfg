SPECIFICATION Spec

CONSTANTS
  c1 = c1
  c2 = c2
  a1 = a1
  a2 = a2
  NoKey = NoKey
  NoClient = NoClient
  Clients = {c1}
  Addrs = {a1}
  NewAddr = a1
  KeyTypes <- TwoTypes
  MaxIdents = 1
  MaxDepth = 2
  ReplyCapacity = 2

INVARIANTS
  SignedOnKeyCurve
