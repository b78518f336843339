SPECIFICATION Spec
CONSTANTS
  Names = {a}
  Inodes = {n1, n2}
  MaxFds = 2
  Quota = 1
SYMMETRY Alike
CONSTRAINT OpensItsOwn
INVARIANTS
  BytesAreCounted FilesAreSound
CHECK_DEADLOCK FALSE
