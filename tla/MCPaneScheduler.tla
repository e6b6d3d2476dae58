---------------------------- MODULE MCPaneScheduler ----------------------------
(* Model values for checking PaneScheduler with TLC.                            *)
EXTENDS PaneScheduler

TwoOffsets == {1, 3}
=============================================================================
