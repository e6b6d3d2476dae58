----------------------------- MODULE MCHubRooms -----------------------------
(* Model-checking instances of HubRooms.                                    *)
EXTENDS HubRooms, TLC

\* Connections of one role and handles are interchangeable.
Symmetry == Permutations(Hosts) \cup Permutations(Devices) \cup Permutations(Handles)
=============================================================================
