SPECIFICATION Spec
CONSTANTS
    Query = {"bikes", "swaps"}
    Listener = {"map", "chart", "swaps"}
    QueryOf <- MCQueryOf
    Initially <- MCInitially
    MaxTime = 2
    MaxWire = 2
    MaxFaults = 1
INVARIANTS TypeOK OtherAssertionsHold AcksAreUnderWay ViewsAreConsistent ListenersAgree
PROPERTIES KeepsPromise OnlyListenEndsTiming
