SPECIFICATION Spec
CONSTANTS
  c1 = c1
  c2 = c2
  p = p
  q = q
  Call = {c1, c2}
  Num <- Numbers
  Loc = {p, q}
  NoLoc = NoLoc
  Exp = {1}
  Asked <- Extensions
  Alloc0 <- Allocated
  Sector0 <- Sectors0
  Restless = {2}
  DefaultSize = 1
  BoardSize = 2
CHECK_DEADLOCK FALSE
SYMMETRY Perms
INVARIANT TypeOK
PROPERTY ExtendsWhatWasAsked
INVARIANT ExtendedIsListed
INVARIANT PagesMissNothing
INVARIANT PagesRepeatNothing
