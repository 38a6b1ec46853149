SPECIFICATION Spec
CONSTANTS
    Capacity = 3
    Slots = 2
    Step = 5
    Raw <- MCRaw
    StandCounts = {2, 3, 4}
    Usage <- MCUsage
    LastUsage = 13
    Zone = 60
    Delays <- MCDelays
    MaxNow = 7
INVARIANTS TypeOK StandsCoverBikes OccupancyAgrees ChartTracksTime
