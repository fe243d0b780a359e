SPECIFICATION Spec

CONSTANTS
  Absent = Absent
  Unsaved = Unsaved
  Names <- SomeNames
  NewName <- NewIdentity
  Texts = {""}
  Ports = {22}
  Protocols = {"ssh"}
  Behind <- SomethingBehind
  KeyTypes = {"nistp256"}
  MaxIdents = 2
  Refusable = {"host"}

INVARIANTS
  TypeOK
  OneIdentityPerKey
  LoadableHasAddress
PROPERTIES
  VanishesOnlyByRemove
  SavedComesBack
