SPECIFICATION FairSpec
CONSTANTS
  t1 = t1
  t2 = t2
  Threads = {t1, t2}
  Flusher = flusher
  NoThread = nothread
  Roles <- ClientRole
  Scripts <- OrderlyScripts
  Calls <- AllCalls
  DataWithEof = FALSE
  MaxCalls = 1
  MaxFlush = 1
  MaxFaults = 0
PROPERTIES
  CloseUnblocks
  OutputIsFlushed
  CallsReturn
