SPECIFICATION Spec
CONSTANTS
  Limit = 6
  MaxUsize = 9
  Undeclared = Undeclared
INVARIANT TypeOK
INVARIANT WithinLimit
INVARIANT WholeOrRefused
