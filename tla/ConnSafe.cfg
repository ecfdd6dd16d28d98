SPECIFICATION Spec
CONSTANTS
  t1 = t1
  t2 = t2
  Threads = {t1, t2}
  Flusher = flusher
  NoThread = nothread
  Roles <- BothRoles
  Scripts <- PeerScripts
  Calls <- AllCalls
  DataWithEof = FALSE
  MaxCalls = 2
  MaxFlush = 1
  MaxFaults = 1
SYMMETRY ThreadSymmetry
INVARIANTS
  TypeOK
  FillDiscipline
  NoOrphanWaiter
  WireIsFaithful
  WriteOkOnWire
  NothingAfterCloseNotify
  CleanClose
  EofIsComplete
PROPERTY
  QuietAfterShutdown
