SPECIFICATION Spec
CONSTANTS
    p1 = p1  p2 = p2  s1 = s1  s2 = s2  s3 = s3
    primary = primary  secondary = secondary
    Proc = {p1, p2}
    Station = {s1}
    Tracked = {s1}
    Documented = {s1}
    W = 2
    Source = {primary}
    MaxClock = 2
PROPERTY SavesExtendHistory
