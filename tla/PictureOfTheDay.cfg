CONSTANTS
    Requests = {r1, r2}
    MaxDay = 2
    MaxFaults = 2
SPECIFICATION FairSpec
INVARIANTS ImagesAreThere OnePictureADay
PROPERTY TodaysIsServed
