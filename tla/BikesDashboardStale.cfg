SPECIFICATION Spec
CONSTANTS
    s1 = s1  s2 = s2
    Order <- MCOrder
    Level = {25, 50, 75}
    Filters = {"All", "Over75", "Over50", "Under50", "Under25"}
    MaxCycle = 2
INVARIANT MapShowsSnapshot
