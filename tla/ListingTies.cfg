SPECIFICATION FairSpec
CONSTANTS
  Id = {1, 2}
  Values = {1}
  Long = {}
  Orderings = {"column"}
  PageSizes = {1}
  MaxChanges = 0
INVARIANTS ExactlyOnce
CHECK_DEADLOCK FALSE
