------------------------------ MODULE MCHubPush ------------------------------
EXTENDS HubPush, TLC

\* Handles are interchangeable names; tokens differ by their platform.
Symmetry == Permutations(Handles)
=============================================================================
