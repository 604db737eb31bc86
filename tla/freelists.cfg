\* Every initial set of free ids, every order of allocations and merges.
SPECIFICATION FreelistsSpec
CONSTANT
  MaxId = 9
INVARIANTS
  SpansAgree
  SpansApart
PROPERTIES
  ImplementsPageSet
  ArrayImplementsPageSet
