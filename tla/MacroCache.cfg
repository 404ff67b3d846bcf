SPECIFICATION Spec
CONSTANTS
  Servers = {s1, s2}
  NFiles = 2
  Contents = {"a", "b"}
  Lines <- MCLines
  Broken <- MCBroken
  NoLib = NoLib
  Torn = Torn
  MaxEdits = 2
SYMMETRY MCSymmetry
INVARIANTS
  KeyNotOlderThanCall
  QuietCallExact
PROPERTY
  CachedIsKept
