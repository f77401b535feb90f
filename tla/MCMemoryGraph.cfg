CONSTANTS
    a = a
    b = b
    c = c
    w1 = w1
    None = None
    Nodes <- ThreeNodes
    Written <- AandB
    Related <- AtoB
    Episodes <- OnlyA
    Family <- CIsAway
    Age <- Ages
    EdgeTypes <- NotesOnly
    Stages <- EveryStage
    Clients <- Nothing
    Sweeps <- OneSweep
    Batch = 9
    MaxLinks = 0
    MaxWrites = 2
SPECIFICATION FairSpec
INVARIANTS
    SimilarityJoinsLive
    OneSystemRelation
PROPERTY RepairsCatchUp
CHECK_DEADLOCK FALSE
