------------------------------ MODULE MCAccess ------------------------------
(* An instance of Access for TLC. *)
EXTENDS Access

CONSTANTS t1, c1, c2, f1, f2

OneToken == {t1}
TwoConns == {c1, c2}
TwoFrames == {f1, f2}
Owner == [t \in Tokens |-> "a"]
NoAdmin == [p \in Principals |-> {"consolidate", "admin"}]
CallCeilings == [p \in Principals |-> 2]
WriteCeilings == [p \in Principals |-> 1]
=============================================================================
