SPECIFICATION Spec
CONSTANTS
  r1 = r1
  r2 = r2
  r3 = r3
  node = node
  messager = messager
  miner = miner
  a = a
  b = b
  t = t
  u = u
  Run = {r1, r2, r3}
  Service = {node, messager, miner}
  Table <- Places
  Mandatory = {node, messager}
  TokenNeeded = {miner}
  Addr = {a, b}
  NoAddr = NoAddr
  Token = {t, u}
  NoToken = NoToken
  Given <- Commands
CHECK_DEADLOCK FALSE
SYMMETRY Perms
INVARIANT TypeOK
INVARIANT ServesComplete
INVARIANT ServesAsConfigured
INVARIANT UsableUnlessTorn
PROPERTY SavedOnce
