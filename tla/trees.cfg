\* Deletions at the left of trees with two and three levels, puts at the right, and
\* from an empty bucket; a cursor is positioned and moved between the changes.
SPECIFICATION CursorSpec
CONSTANTS
  Keys = {1,2,3,4,5,6,7,8,9,10,11,12,13}
  Deletes = {1, 2, 3, 4}
  Puts <- Elements
  SeekKeys = {13}
  Values = {1, 4}
  PageSize = 12
  Pgids = {1,2,3,4,5,6,7,8,9,10,11,12,13,14,15,16,17,18,19,20}
  Start <- Trees
  MaxOps = 4
  MaxCommits = 1
INVARIANTS
  PagesSound
  LinksAgree
  CursorFinds
PROPERTY
  ImplementsMap
