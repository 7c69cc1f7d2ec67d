SPECIFICATION Spec
CONSTANTS
  i1 = i1
  i2 = i2
  i3 = i3
  k2 = k2
  k9 = k9
  c1 = c1
  c2 = c2
  c3 = c3
  NoAddr = NoAddr
  Call = {c1, c2}
  Id <- MCId
  Key <- MCKey
  IdOf <- MCIdOf
  Worker0 = i1
  Ctls0 <- MCCtls0
  WorkerArgs <- TwoWorkers
  CtlArgs <- OneList
  Delay = 1
  MaxHead = 1
CHECK_DEADLOCK FALSE
INVARIANT NoPanic
