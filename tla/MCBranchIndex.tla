---------------------------- MODULE MCBranchIndex ----------------------------
(* An instance of BranchIndex for TLC: two branches of two files; one content does not parse, one
   summary is refused.  *)
EXTENDS BranchIndex

CONSTANTS c1, c2, main, topic, p, q

TwoClients == {c1, c2}
TwoBranches == {main, topic}
TwoPaths == {p, q}
FourContents == 1 .. 4
TheThird == {3}
TheFourth == {4}

List(x, y) == [f \in Paths |-> IF f = p THEN x ELSE y]
Checkout(b, files, names, known) == [branch |-> b, files |-> files, names |-> names, known |-> known]
SomeCheckouts == {Checkout(main, List(1, 4), TwoBranches, main),
                  Checkout(main, List(2, None), {main}, main),
                  Checkout(topic, List(2, 3), {topic}, None)}
=============================================================================
