CONSTANTS
    MaxVersion = 2
    MaxPublishes = 2
    MaxFaults = 3
SPECIFICATION FairSpec
INVARIANTS PlayableUnlessDeployFails StoredIsServed
PROPERTY ManifestCatchesUp
