------------------------------- MODULE MCTree -------------------------------
EXTENDS Cursor, TLC

Leaf(ks) == [leaf |-> TRUE, inodes |-> [i \in DOMAIN ks |-> Element(ks[i], 1)]]
Branch(es) == [leaf |-> FALSE, inodes |-> [i \in DOMAIN es |-> Element(es[i][1], es[i][2])]]

EmptyTree == [root |-> 1, page |-> 1 :> Leaf(<<>>), height |-> <<0>>]

\* What a transaction leaves that puts 1 .. 10, or 1 .. 12, into an empty bucket.
WideTree ==
  [root |-> 5, height |-> <<0, 0, 0, 0, 1>>,
   page |-> <<Leaf(<<1, 2>>), Leaf(<<3, 4>>), Leaf(<<5, 6>>), Leaf(<<7, 8, 9, 10>>),
              Branch(<< <<1, 1>>, <<3, 2>>, <<5, 3>>, <<7, 4>> >>)>>]
DeepTree ==
  [root |-> 8, height |-> <<0, 0, 0, 0, 0, 1, 1, 2>>,
   page |-> <<Leaf(<<1, 2>>), Leaf(<<3, 4>>), Leaf(<<5, 6>>), Leaf(<<7, 8>>),
              Leaf(<<9, 10, 11, 12>>),
              Branch(<< <<1, 1>>, <<3, 2>> >>),
              Branch(<< <<5, 3>>, <<7, 4>>, <<9, 5>> >>),
              Branch(<< <<1, 6>>, <<5, 7>> >>)>>]

Elements == {Element(3, 4), Element(13, 4)}

Trees == {EmptyTree, WideTree, DeepTree}
=============================================================================
