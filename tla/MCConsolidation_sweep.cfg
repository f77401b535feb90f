SPECIFICATION Spec
CONSTANTS
    n1 = n1  n2 = n2  e1 = e1  e2 = e2  e3 = e3  w1 = w1  w2 = w2
    None = None  Gone = Gone
    Notes = {}
    Episodes <- ThreeEpisodes
    Clusters <- Overlapping
    Pairs <- NoPair
    Workers <- TwoWorkers
    Postures <- OneOfEach
    Runs = {1, 2}
    MaxTrouble = 2
INVARIANTS SourcesDistilledOnce ReleasedStaysReleased
PROPERTIES SettledKeepsItsVerdict
SYMMETRY EndsAlike
CHECK_DEADLOCK FALSE
