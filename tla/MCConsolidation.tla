--------------------------- MODULE MCConsolidation ---------------------------
(* Instances of Consolidation for TLC. *)
EXTENDS Consolidation, TLC

CONSTANTS n1, n2, e1, e2, e3, w1, w2

TwoNotes == {n1, n2}
OnePair == {{n1, n2}}
NoPair == {}
ThreeEpisodes == {e1, e2, e3}
Overlapping == {{e1, e2}, {e2, e3}}
NoCluster == {}
TwoWorkers == {w1, w2}
OneWorker == {w1}
OneOfEach == (w1 :> {"auto"}) @@ (w2 :> {"suggest"})
EitherOne == [w \in Workers |-> {"auto", "suggest"}]
EndsAlike == Permutations({e1, e3})
=============================================================================
