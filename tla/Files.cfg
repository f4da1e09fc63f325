SPECIFICATION Spec
CONSTANTS
  Files = {e1, e2}
  Callers = {c1, c2}
  Nowhere = Nowhere
  Lengths = {2, 3}
  MaxSize = 2
  Ttl = 2
  Second = 2
  Env = {"edit", "fail", "unlink", "write"}
  MaxTime = 3
  MaxChanges = 2
SYMMETRY FileSymmetry
INVARIANTS
  FileTypeOK
  SizesAccounted
  CacheBounded
  StaleHasCause
PROPERTIES
  LoadedIsReturned
