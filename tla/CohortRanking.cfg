CONSTANTS
    MaxVersion = 2
    MaxFaults = 1
SPECIFICATION FairSpec
INVARIANTS CohortFitsRankings
PROPERTY LatestIsInstalled
