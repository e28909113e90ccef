SPECIFICATION FairSpec
CONSTANTS
  m1 = m1 m2 = m2 c1 = c1 c2 = c2
  Nobody = Nobody
  Predictors = {m1, c1}
  Ports = {1, 2}
  Recipe <- MCRecipe
  MaxStarts = 3
  MaxAcceptErrors = 1
INVARIANTS BuiltInOwned BuiltInNotLeaked DropLeavesNothing
PROPERTY StartAndDropReturn
CHECK_DEADLOCK FALSE
