----------------------------- MODULE MCHostDisk -----------------------------
(* HostDisk on two Devices; their order does not matter.                   *)
EXTENDS HostDisk, TLC

DeviceSymmetry == Permutations(Devices)
=============================================================================
