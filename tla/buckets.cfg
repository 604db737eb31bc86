\* Any three calls on three databases, then a commit or a rollback.
SPECIFICATION Spec
CONSTANTS
  Names = {1, 2}
  Values = {1, 3}
  MaxInline = 2
  MaxDepth = 3
  MaxOps = 3
  MaxCommits = 1
  Pgids = {1,2,3,4,5,6,7,8,9,10,11,12}
  Start <- Databases
  Careless = {}
INVARIANT
  PagesOwned
PROPERTY
  ImplementsNamespace
