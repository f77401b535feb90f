---------------------------- MODULE MCMemoryGraph ----------------------------
(* An instance of MemoryGraph for TLC. *)
EXTENDS MemoryGraph, TLC

CONSTANTS a, b, c, w1

ThreeNodes == {a, b, c}
OnlyA == {a}
AandB == {a, b}
Nothing == {}
AtoB == {<<a, b, "relates_to">>}

CIsAway == [n \in Nodes |-> IF n = c THEN "away" ELSE "home"]
InOrder == (a :> 1) @@ (b :> 2) @@ (c :> 3)
Ages == [n \in Nodes |-> InOrder[n]]

NotesOnly == {"similar_to", "relates_to", "supersedes", "references", "derived_from", "duplicate_of"}

EveryStage == {"link", "cite", "prune", "retype", "recheck", "reattach",
               "repoint", "unlink", "supersede"}

OneSweep == {w1}
=============================================================================
