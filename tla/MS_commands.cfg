SPECIFICATION Spec
CONSTANTS
  c1 = c1
  c2 = c2
  a = a
  b = b
  o = o
  d = d
  e = e
  ka = ka
  kx = kx
  p = p
  NoAddr = NoAddr
  NoOp = NoOp
  Call = {c1, c2}
  Id = {a, b, o, d, e}
  Key = {ka, kx}
  IdOf <- Resolve
  Asks <- SomeAsks
  Start0 <- Three
  Outside = {o}
  Payee = {p}
  MaxSigners = 4
  MaxTxn = 1
  MaxOutside = 1
  MaxReorg = 1
CHECK_DEADLOCK FALSE
SYMMETRY Perms
INVARIANT TypeOK
INVARIANT CreateIsTaken
INVARIANT ApprovalsAsked
INVARIANT AnsweredForOwn
INVARIANT VotesForWhatWasSeen
PROPERTY KeepsPromise
PROPERTY ChangedAsAsked
