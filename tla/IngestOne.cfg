SPECIFICATION FairSpec
CONSTANTS
    p1 = p1  p2 = p2  s1 = s1  s2 = s2  s3 = s3
    primary = primary  secondary = secondary
    Proc = {p1}
    Station = {s1, s2, s3}
    Tracked = {s1, s2}
    Documented = {s1}
    W = 2
    Source = {primary, secondary}
    MaxClock = 1
INVARIANTS TypeOK WindowInSourceOrder
PROPERTIES ImplementsBoard SavesExtendHistory BoardNeverRegresses CyclesEnd
