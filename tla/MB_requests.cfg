SPECIFICATION Spec
CONSTANTS
  c1 = c1
  c2 = c2
  e1 = e1
  e2 = e2
  w1 = w1
  w2 = w2
  NoId = NoId
  NoNonce = NoNonce
  NoNum = NoNum
  NoCall = NoCall
  Call = {c1, c2}
  Old = {e1, e2}
  Addr = {w1, w2}
  Asks <- SomeAsks
  Msgs0 <- SomeMsgs
  Book0 <- SomeBook
  Wallet0 = {w1}
  MaxNonce = 2
  MaxKeys = 2
CHECK_DEADLOCK FALSE
SYMMETRY Perms
INVARIANT TypeOK
INVARIANT ListedAsAsked
INVARIANT ReplacesNamed
INVARIANT DoneOrGone
INVARIANT ListsAddressesOnce
PROPERTY SendsKeepPromise
