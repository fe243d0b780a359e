SPECIFICATION AttendedSpec

CONSTANTS
  PacketSize = 64
  Path <- BIP32Path
  KeyP2 = 1
  MaxChunk = 255
  KeyLen = 66
  Challenges <- AllChallenges
  Keys <- TwoKeys
  Signatures <- AllSignatures
  Garbage <- AllGarbage
  Errors <- AllErrors

INVARIANTS
  TypeOK
  RequestArrives
  ResponseIntact
  InSync
  NoReadPastEnd
  WholeDataSeen
PROPERTIES
  BreaksOnlyUnchecked
  ConversationEnds
  OneCall
