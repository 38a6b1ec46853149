SPECIFICATION SharedSpec
CONSTANTS
    p1 = p1  p2 = p2  s1 = s1  s2 = s2  s3 = s3
    primary = primary  secondary = secondary
    Proc = {p1, p2}
    Station = {s1, s2, s3}
    Tracked = {s1, s2}
    Documented = {s1, s2, s3}
    W = 1
    Source = {primary}
    MaxClock = 0
PROPERTY KeepsSharedPromise
