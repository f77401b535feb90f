-------------------------- MODULE MCEmbeddingQueue --------------------------
(* The embedding queue on small instances. *)
EXTENDS EmbeddingQueue

CONSTANTS w1, s1, s2

OneWorker == {w1}
TwoSpaces == {s1, s2}
TwoPieces == {1, 2}
LastIsPoison == {2}
=============================================================================
