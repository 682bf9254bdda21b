\* Three rows of distinct creation times, two writes.
CONSTANTS
  Rows = {1, 2, 3}
  CreatedAt <- Distinct
  PageInputs <- Pages
  LimitInputs <- Limits
  MaxLimit = 3
  MaxWrites = 2
  DefaultLimit = 2
  Width = 5
SPECIFICATION Spec
INVARIANTS
  PageIsItsSlice
  ShowsOnlyMatches
  WalkShowsEachOnce
