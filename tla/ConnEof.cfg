SPECIFICATION Spec
CONSTANTS
  t1 = t1
  t2 = t2
  Threads = {t1, t2}
  Flusher = flusher
  NoThread = nothread
  Roles <- ClientRole
  Scripts <- EofScripts
  Calls <- ReadCalls
  DataWithEof = TRUE
  MaxCalls = 2
  MaxFlush = 1
  MaxFaults = 0
INVARIANT
  EofAtEnd
