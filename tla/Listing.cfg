SPECIFICATION FairSpec
CONSTANTS
  Id = {1, 2, 3, 4}
  Values = {0, 1, 5}
  Long = {5}
  Orderings = {"id", "name", "property"}
  PageSizes = {1, 2}
  MaxChanges = 1
INVARIANTS TypeOK ExactlyOnce
PROPERTIES WalkEnds
CHECK_DEADLOCK FALSE
