----------------------------- MODULE PairedAccess -----------------------------
(***************************************************************************)
(* What the Host promises its owner about phones, without loops, locks,      *)
(* guards and close channels: a phone is served under a credential that is   *)
(* in the paired-device list, one phone at a time, and a credential that is  *)
(* revoked or replaced is served no longer, from that very step on           *)
(* (R-10-069, R-13-037, R-13-052, R-13-053).  HostBridge implements it.      *)
(***************************************************************************)
CONSTANTS Devices, Handles

VARIABLES enrolled,   \* credentials in the list: a device and the handle it was given
          serving     \* credentials whose session is served

accessVars == <<enrolled, serving>>

Credentials == Devices \X Handles

\* A Host starts with a list it has saved, a device with one handle and a
\* handle with one device, and with nobody connected.
AccessInit ==
    /\ enrolled \in SUBSET Credentials
    /\ \A c, e \in enrolled : c[1] = e[1] \/ c[2] = e[2] => c = e
    /\ serving = {}

\* A pairing gives a device a handle nobody else has, and takes away an older
\* one: a phrase, which is its handle's, enrols one device (R-13-029).
Enrolment(c) ==
    /\ \A e \in enrolled : e[1] # c[1] => e[2] # c[2]
    /\ enrolled' = {e \in enrolled : e[1] # c[1]} \cup {c}
    /\ serving'  = serving \cap enrolled'

Serve(c) ==
    /\ serving = {} /\ c \in enrolled
    /\ serving' = {c}
    /\ enrolled' = enrolled

Hangup ==
    /\ serving' = {}
    /\ enrolled' = enrolled

Revoke(S) ==
    /\ enrolled' = enrolled \ S
    /\ serving'  = serving \ S

AccessNext ==
    \/ \E c \in Credentials : Enrolment(c) \/ Serve(c)
    \/ \E S \in SUBSET enrolled : Revoke(S)
    \/ Hangup

AccessSpec == AccessInit /\ [][AccessNext]_accessVars

-----------------------------------------------------------------------------
\* Only a listed credential is served, and only one; a device has one handle
\* and a handle one device.
OnlyTheListed == serving \subseteq enrolled
OneAtATime    == \A c, e \in serving : c = e
OneEach       == \A c, e \in enrolled : c[1] = e[1] \/ c[2] = e[2] => c = e

AccessInvariant ==
    /\ enrolled \in SUBSET Credentials
    /\ OnlyTheListed /\ OneAtATime /\ OneEach
=============================================================================
