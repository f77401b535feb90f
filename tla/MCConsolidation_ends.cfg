SPECIFICATION FairSpec
CONSTANTS
    n1 = n1  n2 = n2  e1 = e1  e2 = e2  e3 = e3  w1 = w1  w2 = w2
    None = None  Gone = Gone
    Notes <- TwoNotes
    Episodes = {}
    Clusters <- NoCluster
    Pairs <- OnePair
    Workers <- OneWorker
    Postures <- EitherOne
    Runs = {1, 2}
    MaxTrouble = 2
PROPERTIES RunsClose RetiredCandidatesLeave JudgedInTheEnd
CHECK_DEADLOCK FALSE
