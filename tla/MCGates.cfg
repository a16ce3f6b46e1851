SPECIFICATION Spec
CONSTANTS
  c1 = c1
  c2 = c2
  Comments = {c1, c2}
  RoundsCap = 2
  Cards <- MCCards
  MaxRuns = 2
CHECK_DEADLOCK FALSE
SYMMETRY MCSymmetry
INVARIANTS
  GatesTypeOK
  PassedIsGreen
  RoundsCapped
PROPERTIES
  SatisfiedIsSettled
  ResolvedIsSettled
  JudgedOnce
