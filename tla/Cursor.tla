------------------------------- MODULE Cursor -------------------------------
(***************************************************************************)
(* A cursor of the write transaction of Tree (cursor.go).  Its stack holds *)
(* the pages from the root to a leaf, each with an index; a change of the  *)
(* bucket invalidates it, and it has to be positioned again.  An index is  *)
(* one more than in the code: 0 is before the first element.               *)
(***************************************************************************)
EXTENDS Tree

CONSTANT SeekKeys       \* the keys a cursor is positioned at (bound)

VARIABLES
  stack,        \* Cursor.stack
  pos           \* the key the cursor stays on: 0 lost, PastEnd after the last

cursor == <<stack, pos>>
PastEnd == Max(Keys) + 1

Ref(id, i) == [id |-> id, index |-> i]
Count(ref) == Len(PageNode(ref.id).inodes)
IsLeaf(ref) == PageNode(ref.id).leaf

\* Cursor.keyValue
KeyAt(st) == LET ref == Last(st) IN
             IF ref.index \in 1 .. Count(ref) THEN PageNode(ref.id).inodes[ref.index].key ELSE 0

\* The stack below page id, by the element `at' of every page on the way.
Down(id, at(_)) ==
  LET down[p \in Pgids] ==
        LET s == PageNode(p).inodes IN
        IF PageNode(p).leaf THEN <<Ref(p, at(p))>>
        ELSE <<Ref(p, at(p))>> \o down[s[at(p)].val]
  IN down[id]
ToFirst(id) == Down(id, LAMBDA p : 1)
ToLast(id) == Down(id, LAMBDA p : Len(PageNode(p).inodes))
ToKey(id, k) ==
  Down(id, LAMBDA p : LET n == PageNode(p) IN
                      IF n.leaf THEN Index(n.inodes, k) ELSE ChildFor(n.inodes, k))

\* The child the top of the stack points to, nothing under a leaf.
Child(st) == PageNode(Last(st).id).inodes[Last(st).index].val

\* Variant: an empty leaf is not left again.
NextOnce(st) ==
  LET more == {i \in DOMAIN st : st[i].index < Count(st[i])} IN
  IF more = {} THEN [stack |-> st, key |-> 0]
  ELSE LET right == [SubSeq(st, 1, Max(more)) EXCEPT ![Max(more)].index = @ + 1]
           new == IF IsLeaf(Last(right)) THEN right ELSE right \o ToFirst(Child(right))
       IN [stack |-> new, key |-> KeyAt(new)]

\* Cursor.next: up to an element that has a right neighbour, right, and down;
\* again when the leaf is empty.
RECURSIVE NextOf(_)
NextOf(st) ==
  LET more == {i \in DOMAIN st : st[i].index < Count(st[i])} IN
  IF more = {} THEN [stack |-> st, key |-> 0]
  ELSE LET right == [SubSeq(st, 1, Max(more)) EXCEPT ![Max(more)].index = @ + 1]
           new == IF IsLeaf(Last(right)) THEN right ELSE right \o ToFirst(Child(right))
       IN IF Count(Last(new)) = 0 THEN NextOf(new) ELSE [stack |-> new, key |-> KeyAt(new)]

\* Cursor.prev: up to an element that has a left neighbour, left, and down.
\* When there is none the stack is empty.
PrevOf(st) ==
  LET less == {i \in DOMAIN st : st[i].index > 1} IN
  IF less = {} THEN [stack |-> <<>>, key |-> 0]
  ELSE LET left == [SubSeq(st, 1, Max(less)) EXCEPT ![Max(less)].index = @ - 1]
           new == IF IsLeaf(Last(left)) THEN left ELSE left \o ToLast(Child(left))
       IN [stack |-> new, key |-> KeyAt(new)]

FirstOf ==
  LET st == ToFirst(root) IN
  IF Count(Last(st)) = 0 THEN NextOf(st) ELSE [stack |-> st, key |-> KeyAt(st)]

\* Back over the leaves that deletions have emptied.
RECURSIVE NonEmpty(_)
NonEmpty(st) ==
  IF st = <<>> THEN [stack |-> st, key |-> 0]
  ELSE IF Count(Last(st)) = 0 THEN NonEmpty(PrevOf(st).stack)
  ELSE [stack |-> st, key |-> KeyAt(st)]
LastOf == NonEmpty(ToLast(root))

SeekOf(k) ==
  LET st == ToKey(root, k) IN
  IF Last(st).index > Count(Last(st)) THEN NextOf(st) ELSE [stack |-> st, key |-> KeyAt(st)]

-----------------------------------------------------------------------------
CursorInit == Init /\ stack = <<>> /\ pos = 0

\* A call returns a key, and the cursor stays where it found it.
Call(result, otherwise) ==
  /\ phase = "open"
  /\ stack' = result.stack
  /\ pos' = IF result.key # 0 THEN result.key ELSE otherwise
  /\ UNCHANGED vars

CursorFirst == Call(FirstOf, 0)
CursorLast == Call(LastOf, 0)
CursorSeek(k) == Call(SeekOf(k), PastEnd)
CursorNext == stack # <<>> /\ Call(NextOf(stack), pos)
CursorPrev == stack # <<>> /\ Call(PrevOf(stack), 0)

Invalidate == stack' = <<>> /\ pos' = 0

\* Cursor.Delete, by the leaf the stack leads to.
CursorDelete ==
  LET ids == [i \in DOMAIN stack |-> stack[i].id]
      leaf == Last(ids) IN
  /\ phase = "open" /\ stack # <<>> /\ ops < MaxOps /\ commits < MaxCommits
  /\ ops' = ops + 1
  /\ node' = [NodesOn(ids) EXCEPT ![leaf].inodes = DelElement(@, KeyAt(stack)),
                ![leaf].unbalanced = @ \/ Has(PageNode(leaf).inodes, KeyAt(stack))]
  /\ Invalidate
  /\ UNCHANGED <<page, root, freed, written, phase, cur, commits>>

CursorNextState ==
  \/ CursorFirst \/ CursorLast \/ CursorNext \/ CursorPrev \/ CursorDelete
  \/ \E k \in SeekKeys : CursorSeek(k)
  \/ Next /\ Invalidate

CursorSpec == CursorInit /\ [][CursorNextState]_<<vars, cursor>>

-----------------------------------------------------------------------------
Least0(ks) == IF ks = {} THEN 0 ELSE Min(ks)
Greatest0(ks) == IF ks = {} THEN 0 ELSE Max(ks)

EmptiedLeaf == \E n \in DOMAIN node : node[n].leaf /\ node[n].inodes = <<>> /\ n # root

Before(k) == Greatest0({x \in DOMAIN map : x < k})
After(k) == Least0({x \in DOMAIN map : x > k})

(* A cursor finds the right key from wherever it stands, over the pages,   *)
(* the changed nodes and the leaves that deletions have emptied: First,    *)
(* Last and Seek always, Next and Prev from a position; Prev only while no *)
(* leaf is emptied.                                                        *)
CursorFinds ==
  phase = "open" =>
    /\ FirstOf.key = After(0) /\ LastOf.key = Before(PastEnd)
    /\ \A k \in Keys : SeekOf(k).key = After(k - 1)
    /\ pos # 0 => NextOf(stack).key = After(pos)
    /\ pos # 0 /\ ~EmptiedLeaf => PrevOf(stack).key = Before(pos)

(* Prev goes to the item before the cursor's, and returns nil only at the  *)
(* beginning of the bucket.                                                *)
PrevFinds == phase = "open" /\ pos # 0 => PrevOf(stack).key = Before(pos)
=============================================================================
