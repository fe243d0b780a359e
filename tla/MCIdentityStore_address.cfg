SPECIFICATION Spec

CONSTANTS
  Absent = Absent
  Unsaved = Unsaved
  Names <- FlatNames
  NewName <- NewIdentity
  Texts = {"", "x"}
  Ports = {22}
  Protocols = {"ssh", "telnet"}
  Behind <- SomethingBehind
  KeyTypes = {"nistp256"}
  MaxIdents = 2
  Refusable = {"host"}

INVARIANTS
  SameStringAsAgent
