---------------------------- MODULE MCHostLink ----------------------------
(* A tick is five seconds.                                                  *)
EXTENDS HostLink
=============================================================================
