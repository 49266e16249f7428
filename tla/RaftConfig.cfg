SPECIFICATION Spec
CONSTANTS
  N = 2
  Entries = {e1, e2}
  MaxInc = 3
  MaxIndex = 2
  MaxTerm = 2
INVARIANTS EndsMatchConnected StorageAgrees AgreementReal PassedMeansAgreed VerdictsTrue
PROPERTIES StateFrozenWhileDown
SYMMETRY Symmetry
CHECK_DEADLOCK FALSE
