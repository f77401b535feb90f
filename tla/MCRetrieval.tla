----------------------------- MODULE MCRetrieval -----------------------------
(* An instance of Retrieval for TLC. *)
EXTENDS Retrieval

CONSTANTS a, b, c, c1

ThreeNodes == {a, b, c}
OnlyA == {a}
AandB == {a, b}
BandC == {b, c}
AtoB == {<<a, b, "relates_to">>}
EveryPair == {{a, b}, {b, c}, {a, c}}
Nothing == {}

OneFamily == [n \in Nodes |-> "home"]
AllAtOnce == [n \in Nodes |-> 0]

NoCitations == {"similar_to", "relates_to", "supersedes", "derived_from", "duplicate_of"}
Linking == {"link"}
OneClient == {c1}
=============================================================================
