SPECIFICATION Spec
CONSTANTS
  a = a
  b = b
  m1 = m1
  Ctxs = {a, b}
  Conns = {i, j}
  Managers = {m1}
  None = None
  Configs <- MCConfigs
  MaxKeys = 2
  MaxSets = 1
SYMMETRY Symmetry
INVARIANTS
  TypeOK
  
  OneCallerPerContext
  NoStaleResumption
  TicketsResume
  RenewalIsGiven
  VerifyHonoured
