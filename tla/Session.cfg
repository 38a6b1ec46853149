SPECIFICATION Spec
CONSTANTS
    Item <- MCItem
    Release = TRUE
    Breaks = {3}
    MaxLogins = 3
    MaxTaps = 2
    MaxPages = 5
    MaxSeries = 12
INVARIANTS TypeOK OfflineLinkIsCurrent ChartsBelongTogether
PROPERTIES OnlyHasteMisleads
