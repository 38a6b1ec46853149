SPECIFICATION FairSpec
CONSTANTS
    LuasStops <- MCLuasStops
    BusStops <- MCBusStops
    Busiest <- MCBusiest
    MarkerCap = 2
INVARIANTS TypeOK LinesKeepTheirPoints NoLineIsLost LinesComeWithMarkers
PROPERTIES MapComesUp
