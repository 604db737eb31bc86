------------------------------ MODULE MCBuckets ------------------------------
EXTENDS Buckets

InlineAt(leaf) == Inline(Fresh(0), leaf)
At(p) == Header(Fresh(p))

NewDB == [root |-> 1, page |-> <<(<<>>)>>]

\* A bucket of two buckets, one with a large value, and a bucket beside it.
Nested ==
  [root |-> 1,
   page |-> <<(1 :> At(2) @@ 2 :> InlineAt(1 :> Value(1))),
              (1 :> At(3) @@ 2 :> At(4)),
              (1 :> Value(3)),
              (1 :> Value(3))>>]

\* Buckets three deep, the last one inline.
Deep ==
  [root |-> 4,
   page |-> <<(1 :> At(2)),
              (1 :> InlineAt(2 :> Value(1)) @@ 2 :> Value(3)),
              (1 :> Value(1) @@ 2 :> Value(3)),
              (1 :> At(1) @@ 2 :> At(3))>>]

Databases == {NewDB, Nested, Deep}
=============================================================================
