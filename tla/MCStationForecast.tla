-------------------------- MODULE MCStationForecast --------------------------
(***************************************************************************)
(* Small instances of StationForecast.  The regression may return less     *)
(* than nothing, or more than the station can hold.                        *)
(***************************************************************************)
EXTENDS StationForecast

\* From the earliest stamp the chart bears to one that is a step old.
MCDelays == {-2, 5}

\* A list that ends within the time a chart is looked at in summer.
MCUsage == [i \in 0..LastUsage |-> 50 * i]

MCRaw == {-1, Capacity + 1}
=============================================================================
