SPECIFICATION Spec
CONSTANTS
  a = a
  b = b
  m1 = m1
  Ctxs = {a, b}
  Conns = {i}
  Managers = {m1}
  None = None
  Configs <- MCConfigs
  MaxKeys = 1
  MaxSets = 1
INVARIANT SettingsHonoured
