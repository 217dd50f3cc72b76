SPECIFICATION Spec
CONSTANTS
  Bank = {a, b, c, d}
  Amounts = {1, 3}
  MaxObligations = 3
INVARIANTS PositionsPreserved PaidOutInFewTransfers MatchesIntervals
CHECK_DEADLOCK FALSE
