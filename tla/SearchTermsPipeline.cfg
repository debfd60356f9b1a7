CONSTANTS
    Terms = 3
    Email = {1}
    Person = {2}
    Exemptable = {2}
    BatchSize = 2
    FleeceCapacity = 2
SPECIFICATION FairSpec
INVARIANTS OnlyClearedIsLogged RejectedIsNotQueued NothingSilentlyDropped NothingClosedInUse
PROPERTIES AcceptedIsSettled FleeceShutsDown
CHECK_DEADLOCK FALSE
