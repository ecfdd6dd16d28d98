SPECIFICATION Spec
CONSTANTS
  f1 = f1
  f2 = f2
  Flushers = {f1, f2}
  Nobody = nobody
  a1 = a1
  a2 = a2
  a3 = a3
  Arrays = {a1, a2, a3}
  Nil = nil
  ReleaseBuffers = TRUE
  MaxChunk = 2
  MaxBytes = 4
  MaxSlack = 2
  MaxFlushes = 2
  MaxFaults = 1
SYMMETRY FlushersAndArrays
INVARIANTS
  TypeOK
  SnapshotStable
  BufferIsTail
  FlushCovers
PROPERTY
  StreamSpec
