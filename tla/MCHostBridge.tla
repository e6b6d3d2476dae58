---------------------------- MODULE MCHostBridge ----------------------------
EXTENDS HostBridge, TLC

\* Devices, handles and tasks are interchangeable names.
Symmetry == Permutations(Devices) \cup Permutations(Handles) \cup Permutations(Tasks)
=============================================================================
