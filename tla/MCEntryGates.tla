------------------------------ MODULE MCEntryGates ------------------------------
(* Instances of EntryGates for TLC.                                        *)
EXTENDS EntryGates

Event(s, a, b) == [symbol |-> s, from |-> a, to |-> b]

(* Every kind of event, a version without one, one that is malformed.      *)
MCVersions ==
    <<{Event("CAKE", 1, 1)}, {Event(GLOBAL, 1, 2)}, {}, {Event("TWT", 0, 1)}, {}>>
=============================================================================
