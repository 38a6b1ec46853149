SPECIFICATION FairSpec
CONSTANTS
    Venue <- MCVenue
    StopChoice <- MCChoice
    Near <- MCNear
    MaxRuns = 2
    MaxVersion = 2
INVARIANTS TypeOK StopsMatchSelection QuietIsSettled
PROPERTIES EventsNeverRegress FilterTakesEffect
