SPECIFICATION FairPagesSpec
CONSTANTS
  c1 = c1
  c2 = c2
  Places = {1, 2, 3, 4, 5}
  PageSize = 2
  Calls = {c1, c2}
INVARIANTS
  PagesIInv
  NoGap
  PagesContinue
PROPERTIES
  LoadingEnds
