SPECIFICATION FairSpec
CONSTANTS
    k1 = k1
    k2 = k2
    Cluster <- MCCluster
    Ranking <- MCRanking
    Matching <- MCMatching
    Field = {"today", "typed"}
    TextField = {"typed"}
    QuickFilter = {"today"}
    Size = {1, 2}
    DefaultSize = 1
    MaxSearches = 3
    MaxFailures = 1
INVARIANTS
    PageConsistent
    SelectionInScope
PROPERTIES
    CrossPageKept
    SearchSettles
CHECK_DEADLOCK FALSE
