SPECIFICATION Spec

CONSTANTS
  c1 = c1
  c2 = c2
  W = 2
  Points <- AllPoints
  Clients = {c1}
  Mortal = {}
  Idents <- OneIdent
  Edits = {}
  Challenges <- OneChallenge
  Signatures <- HighSignature
  MapLength = 64
  MaxDepth = 1
  MaxAsks = 1

INVARIANTS
  SignatureVerifies
