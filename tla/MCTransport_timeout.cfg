SPECIFICATION FairSpec

CONSTANTS
  PacketSize = 64
  Path <- BIP32Path
  KeyP2 = 1
  MaxChunk = 255
  KeyLen = 66
  Challenges <- TwoChallenges
  Keys <- TwoKeys
  Signatures <- OneSignature
  Garbage <- AllGarbage
  Errors <- AllErrors

PROPERTIES
  TimeoutFires
