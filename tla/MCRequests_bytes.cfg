SPECIFICATION Spec

CONSTANTS
  c1 = c1
  c2 = c2
  W = 2
  Points <- AllPoints
  Clients = {c1, c2}
  Mortal = {c2}
  Idents <- TwoIdents
  Edits <- OneEdit
  Challenges <- TwoChallenges
  Signatures <- OneSignature
  MapLength = 58
  MaxDepth = 2
  MaxAsks = 2

INVARIANTS
  TypeOK
  SignsWhatWasAsked
  SignatureIsTheLedgers
  BlobIsPublicKey
PROPERTIES
  ListCountsKeys
  MappedWhileServed
  ServesKeys
