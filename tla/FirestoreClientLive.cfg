SPECIFICATION FairSpec
CONSTANTS
    Query = {"bikes"}
    Listener = {"map", "chart"}
    QueryOf <- MCQueryOf
    Initially <- MCNothing
    MaxTime = 2
    MaxWire = 3
    MaxFaults = 2
PROPERTIES ListenersCatchUp SyncComesBack
