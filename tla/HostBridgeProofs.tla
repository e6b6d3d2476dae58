--------------------------- MODULE HostBridgeProofs ---------------------------
(***************************************************************************)
(* Proofs about HostBridge, for any sets of devices, handles and tasks: the *)
(* guard has an owner, the status line is true, every entry has a loop, and *)
(* the bridge implements PairedAccess.                                      *)
(*                                                                         *)
(* The argument.  A handle is in use while it is the open pairing's or an   *)
(* entry's.  A claim on a handle in use is the only one on it, and it is    *)
(* the guard's (GuardHeld): a stale task can only hold a claim on a handle  *)
(* that nobody will be served under again.  So two sessions that are served *)
(* are one, and an enrolment, which holds a claim on the pairing's handle,  *)
(* finds nobody served.  The rest says which tasks, loops and pairings can  *)
(* exist for that to stay true.                                             *)
(***************************************************************************)
EXTENDS HostBridge, TLAPS

-----------------------------------------------------------------------------
(* The inductive invariant.                                                 *)

\* Where a task owns an ActiveClaim; where it knows its Device; where only the
\* pairing loop goes; from a completed dial to the enrolment; after it.
Claiming    == {"hello", "greet", "enrol", "admit", "subscribe", "serving", "ending",
                "insert", "reinsert", "leave", "release"}
WithDevice  == {"enrol", "admit", "subscribe", "serving", "ending", "insert", "reinsert", "leave"}
PairingOnly == {"greet", "enrol", "ending", "insert", "reinsert", "leave"}
Late        == {"handshake", "claim", "hello", "greet", "enrol"}
After       == {"admit", "subscribe", "serving", "ending", "insert", "leave"}

\* What a task's place in its loop says of its locals, its claim and its abort.
TaskOK(t) ==
    /\ kind[t] = "none" <=> pc[t] = "free"
    /\ pc[t] \in {"free", "start"} => hnd[t] = None
    /\ pc[t] = "free" => t \notin aborted /\ dev[t] = None
    /\ kind[t] = "registration" => dev[t] # None /\ pc[t] \notin PairingOnly
    /\ pc[t] \in WithDevice => dev[t] # None
    /\ kind[t] = "pairing" /\ pc[t] \notin WithDevice => dev[t] = None
    /\ t \in claims <=> pc[t] \in Claiming
    /\ pc[t] \notin {"free", "start", "top"} => hnd[t] # None
    /\ kind[t] = "registration" /\ pc[t] # "start" => hnd[t] # None

TasksOK == \A t \in Tasks : TaskOK(t)

\* A JoinHandle, recorded or about to be, names a loop of its own Device or a
\* task that is gone.
LoopOf(n, d) == kind[n] # "pairing" /\ (kind[n] = "registration" => dev[n] = d)

LoopsKnown ==
    /\ \A d \in Devices : registrations[d] # None => LoopOf(registrations[d], d)
    /\ \A t \in Tasks : child[t] # None =>
          pc[t] \in {"insert", "reinsert"} /\ LoopOf(child[t], dev[t])

\* The open pairing has attempts left, its task is no registration loop and
\* has enrolled nobody, a task aborted after its dial waits for another
\* pairing, and the phrase's handle is no entry's.
PairingKnown ==
    /\ pairing.state = "live" => pairing.fails < MaxAttempts
    /\ pairing.handle # None => /\ pairing.task # None
                                /\ kind[pairing.task] # "registration"
                                /\ pc[pairing.task] \notin After
    /\ \A t \in aborted : kind[t] = "pairing" /\ pc[t] \in Late => hnd[t] # pairing.handle
    /\ \A d \in Devices : store[d] # None => store[d] # pairing.handle

\* A handle belongs to one Device: among the entries, and for whoever remembers
\* it, the guard and the registration loops.
OneDevice(h, d) == h # pairing.handle /\ \A e \in Devices : store[e] = h => e = d

HandlesOnce ==
    /\ \A d, e \in Devices : d # e /\ store[d] # None => store[d] # store[e]
    /\ active.dev # None => OneDevice(active.handle, active.dev)
    /\ active.handle = None => active.dev = None
    /\ \A t \in Tasks : kind[t] = "registration" /\ hnd[t] # None => OneDevice(hnd[t], dev[t])

\* A claim on a handle in use is the guard's, and the only one on that handle.
InUse(h) == h = pairing.handle \/ \E d \in Devices : store[d] = h

GuardHeld ==
    /\ \A t \in claims : InUse(hnd[t]) => active.handle = hnd[t]
    /\ \A t, u \in claims : InUse(hnd[t]) /\ hnd[t] = hnd[u] => t = u

\* A session that has not been told to close is registered and listed.
ServedOK ==
    \A t \in Tasks : pc[t] \in {"subscribe", "serving"} /\ closing[t] = "none" =>
        store[dev[t]] = hnd[t] /\ registry[hnd[t]] = t

Typed == TypeOK /\ TasksOK /\ PairingKnown /\ LoopsKnown

Guarded == HandlesOnce /\ GuardHeld

BridgeInv == Typed /\ Guarded /\ GuardHasOwner /\ LinkIsTrue /\ EveryEntryHasLoop

-----------------------------------------------------------------------------
(* Type correctness.                                                        *)

Pairings == [handle : Handles \cup {None}, state : {"live", "spent"}, fails : 0..MaxAttempts,
             registered : BOOLEAN, task : Tasks \cup {None}]

\* No pairing, and a pairing that has just been opened, are pairings.
LEMMA PairingsTyped ==
    /\ NoPairing \in Pairings
    /\ \A h \in Handles, t \in Tasks :
          [handle |-> h, state |-> "live", fails |-> 0, registered |-> FALSE, task |-> t] \in Pairings
BY BoundAssumption DEF NoPairing, Pairings

\* Every step keeps every variable in its type: a phrase is given up before its
\* failed attempts pass MAX_ATTEMPTS.
LEMMA TypeStep ==
    ASSUME TypeOK, TasksOK, PairingKnown, [Next]_vars
    PROVE  TypeOK'
<1>0. commands' \in Nat
  BY DEF Next, vars, TypeOK
<1>1. ASSUME NEW t \in Tasks, Start(t) PROVE TypeOK'
  BY <1>1, <1>0, NoneAssumption DEF Start, Forget, ForgetAborting, Alive, Go, host, TypeOK, Pcs,
     Kinds, TasksOK, TaskOK, WithDevice
<1>2. ASSUME NEW t \in Tasks, TopRegistration(t) PROVE TypeOK'
  BY <1>2, <1>0, NoneAssumption DEF TopRegistration, Forget, ForgetAborting, Alive, Go, host, ids,
     TypeOK, Pcs, Kinds, TasksOK, TaskOK, WithDevice
<1>3. ASSUME NEW t \in Tasks, TopPairing(t) PROVE TypeOK'
  <2>1. pairing' \in Pairings
    BY <1>3, PairingsTyped, BoundAssumption DEF TopPairing, TypeOK, Pairings
  <2>. QED
    BY <1>0, <1>3, <2>1 DEF TopPairing, ForgetAborting, Alive, Go, PairingTask, Live, TypeOK,
       Pairings, Pcs, Kinds, PairingKnown
<1>4. ASSUME NEW t \in Tasks, Wait(t) PROVE TypeOK'
  BY <1>4, <1>0, NoneAssumption DEF Wait, Go, host, sess, ids, times, TypeOK, Pcs, Kinds, TasksOK,
     TaskOK, WithDevice
<1>5. ASSUME NEW t \in Tasks, StopSeen(t) PROVE TypeOK'
  BY <1>5, <1>0, NoneAssumption DEF StopSeen, Go, host, sess, ids, times, TypeOK, Pcs, Kinds,
     TasksOK, TaskOK, WithDevice
<1>6. ASSUME NEW t \in Tasks, DialOk(t) PROVE TypeOK'
  <2>1. pairing' \in Pairings
    BY <1>6 DEF DialOk, TypeOK, Pairings
  <2>. QED
    BY <1>0, <1>6, <2>1 DEF DialOk, Go, SetLink, ids, sess, times, TypeOK, Pairings, Pcs
<1>7. ASSUME NEW t \in Tasks, DialFails(t) PROVE TypeOK'
  BY <1>7, <1>0, NoneAssumption DEF DialFails, Go, SetLink, NoActive, sess, ids, times, TypeOK,
     Pcs, Kinds, TasksOK, TaskOK, WithDevice
<1>8. ASSUME NEW t \in Tasks, BackoffEnds(t) PROVE TypeOK'
  BY <1>8, <1>0, NoneAssumption DEF BackoffEnds, Go, host, sess, ids, times, TypeOK, Pcs, Kinds,
     TasksOK, TaskOK, WithDevice
<1>9. ASSUME NEW t \in Tasks, HandshakeOk(t) PROVE TypeOK'
  BY <1>9, <1>0, NoneAssumption DEF HandshakeOk, Go, host, sess, ids, times, TypeOK, Pcs, Kinds,
     TasksOK, TaskOK, WithDevice
<1>10. ASSUME NEW t \in Tasks, HandshakeFails(t) PROVE TypeOK'
  <2>1. pairing' \in Pairings
    <3>1. CASE pairing' = pairing
      BY <3>1 DEF TypeOK, Pairings
    <3>2. CASE pairing' # pairing
      <4>1. /\ SameStored(t)
            /\ pairing' = [pairing EXCEPT !.fails = @ + 1,
                             !.state = IF pairing.fails + 1 >= MaxAttempts THEN "spent" ELSE "live"]
        BY <1>10, <3>2 DEF HandshakeFails
      <4>2. pairing.fails + 1 \in 0..MaxAttempts
        BY <4>1, BoundAssumption DEF SameStored, PairingKnown, TypeOK
      <4>. QED
        BY <4>1, <4>2 DEF TypeOK, Pairings
    <3>. QED
      BY <3>1, <3>2
  <2>. QED
    BY <1>0, <1>10, <2>1 DEF HandshakeFails, Go, SetLink, ids, sess, times, TypeOK, Pairings, Pcs
<1>11. ASSUME NEW t \in Tasks, HandshakeElapses(t) PROVE TypeOK'
  <2>1. pairing' \in Pairings
    BY <1>11, PairingsTyped, BoundAssumption DEF HandshakeElapses, TypeOK, Pairings
  <2>. QED
    BY <1>0, <1>11, <2>1 DEF HandshakeElapses, Forget, ForgetAborting, Alive, SameStored, TypeOK,
       Pairings, Pcs, Kinds, PairingKnown
<1>12. ASSUME NEW t \in Tasks, ClaimActive(t) PROVE TypeOK'
  BY <1>12, <1>0, NoneAssumption DEF ClaimActive, Go, NoActive, ids, times, TypeOK, Pcs, Kinds,
     TasksOK, TaskOK, WithDevice
<1>13. ASSUME NEW t \in Tasks, Hello(t) PROVE TypeOK'
  BY <1>13, <1>0, NoneAssumption DEF Hello, Go, host, sess, ids, times, TypeOK, Pcs, Kinds,
     TasksOK, TaskOK, WithDevice
<1>14. ASSUME NEW t \in Tasks, Greet(t) PROVE TypeOK'
  BY <1>14, <1>0, NoneAssumption DEF Greet, Go, host, sess, ids, times, TypeOK, Pcs, Kinds,
     TasksOK, TaskOK, WithDevice
<1>15. ASSUME NEW t \in Tasks, GreetFails(t) PROVE TypeOK'
  BY <1>15, <1>0, NoneAssumption DEF GreetFails, Go, host, ids, times, TypeOK, Pcs, Kinds,
     TasksOK, TaskOK, WithDevice
<1>16. ASSUME NEW t \in Tasks, GreetElapses(t) PROVE TypeOK'
  <2>1. pairing' \in Pairings
    BY <1>16, PairingsTyped, BoundAssumption DEF GreetElapses, TypeOK, Pairings
  <2>. QED
    BY <1>0, <1>16, <2>1 DEF GreetElapses, Go, ids, times, TypeOK, Pairings, Pcs, Kinds,
       PairingKnown
<1>17. ASSUME NEW t \in Tasks, NEW d \in Devices, DeviceInfo(t, d) PROVE TypeOK'
  BY <1>17, <1>0, NoneAssumption DEF DeviceInfo, Go, host, times, TypeOK, Pcs, Kinds, TasksOK,
     TaskOK, WithDevice
<1>18. ASSUME NEW t \in Tasks, Enrol(t) PROVE TypeOK'
  <2>1. pairing' \in Pairings
    BY <1>18, PairingsTyped, BoundAssumption DEF Enrol, TypeOK, Pairings
  <2>. QED
    BY <1>0, <1>18, <2>1 DEF Enrol, Go, Abort, Alive, sess, ids, MayEnrol, Live, TypeOK, Pairings,
       Pcs, Kinds, TasksOK, TaskOK, WithDevice
<1>19. ASSUME NEW t \in Tasks, EnrolRefused(t) PROVE TypeOK'
  BY <1>19, <1>0, NoneAssumption DEF EnrolRefused, Go, host, sess, times, MayEnrol, Live, TypeOK,
     Pcs, Kinds, TasksOK, TaskOK, WithDevice
<1>20. ASSUME NEW t \in Tasks, NEW n \in Tasks, EnrolFails(t, n) PROVE TypeOK'
  <2>0. aborted' \subseteq Tasks /\ dev[t] \in Devices
    BY <1>20 DEF EnrolFails, Abort, TypeOK, TasksOK, TaskOK, WithDevice
  <2>1. CASE store[dev[t]] # None
    BY <1>0, <1>20, <2>0, <2>1 DEF EnrolFails, Spawn, sess, times, TypeOK, Pcs, Kinds
  <2>2. CASE store[dev[t]] = None
    BY <1>0, <1>20, <2>0, <2>2 DEF EnrolFails, Go, sess, times, TypeOK, Pcs, Kinds
  <2>. QED
    BY <2>1, <2>2
<1>21. ASSUME NEW t \in Tasks, Admit(t) PROVE TypeOK'
  BY <1>21, <1>0, NoneAssumption DEF Admit, Go, Dropped, ids, times, TypeOK, Pcs, Kinds, TasksOK,
     TaskOK, WithDevice
<1>22. ASSUME NEW t \in Tasks, Subscribe(t) PROVE TypeOK'
  BY <1>22, <1>0, NoneAssumption DEF Subscribe, Go, host, sess, ids, times, TypeOK, Pcs, Kinds,
     TasksOK, TaskOK, WithDevice
<1>23. ASSUME NEW t \in Tasks, SessionEnds(t) PROVE TypeOK'
  BY <1>23, <1>0, NoneAssumption DEF SessionEnds, Go, host, ids, times, TypeOK, Pcs, Kinds,
     TasksOK, TaskOK, WithDevice
<1>24. ASSUME NEW t \in Tasks, NEW n \in Tasks, SpawnRegistration(t, n) PROVE TypeOK'
  BY <1>24, <1>0, NoneAssumption DEF SpawnRegistration, Go, Spawn, Unused, PairingTask, host,
     sess, times, TypeOK, Pcs, Kinds, TasksOK, TaskOK, WithDevice
<1>25. ASSUME NEW t \in Tasks, Insert(t) PROVE TypeOK'
  BY <1>25, <1>0, NoneAssumption DEF Insert, Go, sess, times, TypeOK, Pcs, Kinds, TasksOK, TaskOK,
     WithDevice
<1>26. ASSUME NEW t \in Tasks, Release(t) PROVE TypeOK'
  BY <1>26, <1>0, NoneAssumption DEF Release, Go, ReleaseActive, Dropped, LinkAfter, NoActive,
     ids, times, TypeOK, Pcs, Kinds, TasksOK, TaskOK, WithDevice
<1>27. ASSUME NEW t \in Tasks, Leave(t) PROVE TypeOK'
  BY <1>27, <1>0, NoneAssumption DEF Leave, Forget, ForgetAborting, Alive, ReleaseActive, Dropped,
     LinkAfter, NoActive, TypeOK, Pcs, Kinds, TasksOK, TaskOK, WithDevice
<1>28. ASSUME NEW t \in Tasks, Die(t) PROVE TypeOK'
  <2>1. CASE t \in claims
    <3>1. ReleaseActive(t) /\ hnd[t] \in Handles
      BY <1>28, <2>1 DEF Die, TypeOK, TasksOK, TaskOK, Claiming
    <3>2. /\ registry' \in [Handles -> Tasks \cup {None}]
          /\ closing' \in [Tasks -> {"none", "revoked", "dropped"}]
          /\ active' \in [dev : Devices \cup {None}, handle : Handles \cup {None}]
          /\ link' \in {"idle", "connected", "offline", "stopped"}
      BY <3>1 DEF ReleaseActive, Dropped, LinkAfter, NoActive, TypeOK
    <3>. QED
      BY <1>0, <1>28, <3>2 DEF Die, Forget, ForgetAborting, Alive, TypeOK, Pcs, Kinds
  <2>2. CASE t \notin claims
    BY <1>0, <1>28, <2>2 DEF Die, Forget, ForgetAborting, Alive, TypeOK, Pcs, Kinds
  <2>. QED
    BY <2>1, <2>2
<1>29. ASSUME ReapPairing PROVE TypeOK'
  <2>1. pairing' \in Pairings
    BY <1>29, PairingsTyped, BoundAssumption DEF ReapPairing, TypeOK, Pairings
  <2>. QED
    BY <1>0, <1>29, <2>1 DEF ReapPairing, Abort, Alive, PairingTask, sess, ids, times, Live, TypeOK,
       Pairings, Pcs, Kinds, PairingKnown
<1>30. ASSUME ClosePairing PROVE TypeOK'
  <2>1. pairing' \in Pairings
    BY <1>30, PairingsTyped, BoundAssumption DEF ClosePairing, TypeOK, Pairings
  <2>. QED
    BY <1>0, <1>30, <2>1 DEF ClosePairing, Abort, Alive, PairingTask, sess, ids, times, TypeOK,
       Pairings, Pcs, Kinds, PairingKnown
<1>31. ASSUME NEW t \in Tasks, NEW h \in Handles, OpenPairing(t, h) PROVE TypeOK'
  <2>1. pairing' \in Pairings
    BY <1>31, PairingsTyped, BoundAssumption DEF OpenPairing, TypeOK, Pairings
  <2>. QED
    BY ZenonT(30), <1>0, <1>31, <2>1 DEF OpenPairing, Go, Abort, Alive, PairingTask, Live, Fresh, Unused,
       Subscribed, InSession, TypeOK, Pairings, Pcs, Kinds, PairingKnown
<1>32. ASSUME Stop PROVE TypeOK'
  BY <1>32, <1>0, NoneAssumption DEF Stop, ids, Subscribed, InSession, TypeOK, Pcs, Kinds,
     TasksOK, TaskOK, WithDevice
<1>33. ASSUME NEW d \in Devices, RevokeOne(d) PROVE TypeOK'
  BY <1>33, <1>0, NoneAssumption DEF RevokeOne, Abort, Alive, LinkAfter, CloseFor, NoActive, ids,
     times, TypeOK, Pcs, Kinds, TasksOK, TaskOK, WithDevice
<1>34. ASSUME NEW ok \in BOOLEAN, RevokeAll(ok) PROVE TypeOK'
  <2>1. pairing' \in Pairings
    BY <1>34, PairingsTyped, BoundAssumption DEF RevokeAll, DropEverything, TypeOK, Pairings
  <2>. QED
    BY <1>0, <1>34, <2>1 DEF RevokeAll, LinkAfter, CloseFor, RotateKey, DropEverything, Abort,
       Alive, PairingTask, Parked, NoActive, ids, TypeOK, Pairings, Pcs, Kinds, PairingKnown
<1>35. ASSUME NEW t \in Tasks, NEW d \in Devices, WireRevokeOne(t, d) PROVE TypeOK'
  BY <1>35, <1>0, NoneAssumption DEF WireRevokeOne, Abort, Alive, CloseFor, ids, times, Threaded,
     TypeOK, Pcs, Kinds, TasksOK, TaskOK, WithDevice
<1>36. ASSUME NEW t \in Tasks, NEW ok \in BOOLEAN, WireRevokeAll(t, ok) PROVE TypeOK'
  <2>1. pairing' \in Pairings
    BY <1>36, PairingsTyped, BoundAssumption DEF WireRevokeAll, DropEverything, TypeOK, Pairings
  <2>. QED
    BY <1>0, <1>36, <2>1 DEF WireRevokeAll, CloseFor, RotateKey, DropEverything, Abort, Alive,
       PairingTask, Parked, ids, Threaded, TypeOK, Pairings, Pcs, Kinds, PairingKnown
<1>37. ASSUME OpenPairingAgain PROVE TypeOK'
  BY <1>37, <1>0 DEF OpenPairingAgain, host, sess, ids, TypeOK, Pcs, Kinds, TasksOK, TaskOK, WithDevice
<1>38. ASSUME NEW h \in Handles, Elapse(h) PROVE TypeOK'
  BY <1>38, <1>0 DEF Elapse, host, sess, ids, TypeOK, Pcs, Kinds, TasksOK, TaskOK, WithDevice
<1>39. CASE UNCHANGED vars
  BY <1>39 DEF vars, TypeOK, Pcs, Kinds, TasksOK, TaskOK, WithDevice
<1>. QED
  BY <1>1, <1>2, <1>3, <1>4, <1>5, <1>6, <1>7, <1>8, <1>9, <1>10, <1>11, <1>12, <1>13, <1>14,
     <1>15, <1>16, <1>17, <1>18, <1>19, <1>20, <1>21, <1>22, <1>23, <1>24, <1>25, <1>26, <1>27,
     <1>28, <1>29, <1>30, <1>31, <1>32, <1>33, <1>34, <1>35, <1>36, <1>37, <1>38, <1>39 DEF Next,
     Command, Wire, Step, SessionClosed, SessionStopped

\* A failed pairing attempt counts against the phrase and changes nothing else
\* of it that matters here; the last one spends it.
LEMMA FailedAttempt ==
    ASSUME TypeOK, PairingKnown, NEW t \in Tasks, HandshakeFails(t)
    PROVE  /\ pairing'.handle = pairing.handle /\ pairing'.task = pairing.task
           /\ pairing'.state = "live" => pairing'.fails < MaxAttempts
<1>1. CASE pairing' = pairing
  BY <1>1 DEF PairingKnown
<1>2. CASE pairing' # pairing
  <2>1. pairing' = [pairing EXCEPT !.fails = @ + 1,
                       !.state = IF pairing.fails + 1 >= MaxAttempts THEN "spent" ELSE "live"]
    BY <1>2 DEF HandshakeFails
  <2>2. /\ pairing'.fails = pairing.fails + 1
        /\ pairing'.state = IF pairing.fails + 1 >= MaxAttempts THEN "spent" ELSE "live"
        /\ pairing'.handle = pairing.handle /\ pairing'.task = pairing.task
    BY <2>1 DEF TypeOK
  <2>. QED
    BY <2>2, BoundAssumption DEF TypeOK
<1>. QED
  BY <1>1, <1>2

-----------------------------------------------------------------------------
(* Tasks, loops and the open pairing.                                       *)

\* Every step keeps each task's locals, claim and abort in line with its place.
LEMMA TasksStep ==
    ASSUME TypeOK, TypeOK', TasksOK, [Next]_vars
    PROVE  TasksOK'
<1>1. ASSUME NEW t \in Tasks,
             Wait(t) \/ StopSeen(t) \/ DialFails(t) \/ BackoffEnds(t) \/ HandshakeOk(t) \/
             Hello(t) \/ Greet(t) \/ GreetFails(t) \/ Subscribe(t) \/ SessionEnds(t)
      PROVE  TasksOK'
  BY <1>1, NoneAssumption DEF Wait, Go, host, sess, ids, times, StopSeen, DialFails, SetLink,
     NoActive, BackoffEnds, HandshakeOk, Hello, Greet, GreetFails, Subscribe, SessionEnds, TypeOK,
     TasksOK, TaskOK, Claiming, WithDevice, PairingOnly
<1>2. ASSUME NEW t \in Tasks, Start(t) PROVE TasksOK'
  BY <1>2, NoneAssumption DEF Start, Forget, ForgetAborting, Alive, Go, host, TypeOK, TasksOK,
     TaskOK, Claiming, WithDevice, PairingOnly
<1>3. ASSUME NEW t \in Tasks, TopRegistration(t) PROVE TasksOK'
  BY <1>3, NoneAssumption DEF TopRegistration, Forget, ForgetAborting, Alive, Go, host, ids,
     TypeOK, TasksOK, TaskOK, Claiming, WithDevice, PairingOnly
<1>4. ASSUME NEW t \in Tasks, TopPairing(t) PROVE TasksOK'
  BY <1>4, NoneAssumption DEF TopPairing, ForgetAborting, Alive, Go, PairingTask, NoPairing, Live,
     TypeOK, TasksOK, TaskOK, Claiming, WithDevice, PairingOnly
<1>5. ASSUME NEW t \in Tasks, DialOk(t) PROVE TasksOK'
  BY <1>5, NoneAssumption DEF DialOk, Go, SetLink, NoActive, sess, ids, times, SameStored, TypeOK,
     TasksOK, TaskOK, Claiming, WithDevice, PairingOnly
<1>6. ASSUME NEW t \in Tasks, HandshakeFails(t) PROVE TasksOK'
  BY <1>6, NoneAssumption DEF HandshakeFails, Go, SetLink, NoActive, sess, ids, times, SameStored,
     TypeOK, TasksOK, TaskOK, Claiming, WithDevice, PairingOnly
<1>7. ASSUME NEW t \in Tasks, HandshakeElapses(t) PROVE TasksOK'
  BY <1>7, NoneAssumption DEF HandshakeElapses, Forget, ForgetAborting, Alive, NoPairing,
     SameStored, TypeOK, TasksOK, TaskOK, Claiming, WithDevice, PairingOnly
<1>8. ASSUME NEW t \in Tasks, ClaimActive(t) PROVE TasksOK'
  BY <1>8, NoneAssumption DEF ClaimActive, Go, NoActive, ids, times, TypeOK, TasksOK, TaskOK,
     Claiming, WithDevice, PairingOnly
<1>9. ASSUME NEW t \in Tasks, GreetElapses(t) PROVE TasksOK'
  BY <1>9, NoneAssumption DEF GreetElapses, Go, NoPairing, ids, times, TypeOK, TasksOK, TaskOK,
     Claiming, WithDevice, PairingOnly
<1>10. ASSUME NEW t \in Tasks, NEW d \in Devices, DeviceInfo(t, d) PROVE TasksOK'
  BY <1>10, NoneAssumption DEF DeviceInfo, Go, host, times, TypeOK, TasksOK, TaskOK, Claiming,
     WithDevice, PairingOnly
<1>11. ASSUME NEW t \in Tasks, Enrol(t) PROVE TasksOK'
  BY <1>11, NoneAssumption DEF Enrol, Go, Abort, Alive, NoPairing, sess, ids, MayEnrol, Live,
     TypeOK, TasksOK, TaskOK, Claiming, WithDevice, PairingOnly
<1>12. ASSUME NEW t \in Tasks, EnrolRefused(t) PROVE TasksOK'
  BY <1>12, NoneAssumption DEF EnrolRefused, Go, host, sess, times, MayEnrol, Live, TypeOK,
     TasksOK, TaskOK, Claiming, WithDevice, PairingOnly
<1>13. ASSUME NEW t \in Tasks, NEW n \in Tasks, EnrolFails(t, n) PROVE TasksOK'
  BY <1>13, NoneAssumption DEF EnrolFails, Go, Abort, Alive, Spawn, Unused, PairingTask, sess,
     times, MayEnrol, Live, TypeOK, TasksOK, TaskOK, Claiming, WithDevice, PairingOnly
<1>14. ASSUME NEW t \in Tasks, Admit(t) PROVE TasksOK'
  BY <1>14, NoneAssumption DEF Admit, Go, Dropped, ids, times, TypeOK, TasksOK, TaskOK, Claiming,
     WithDevice, PairingOnly
<1>15. ASSUME NEW t \in Tasks, NEW n \in Tasks, SpawnRegistration(t, n) PROVE TasksOK'
  BY <1>15, NoneAssumption DEF SpawnRegistration, Go, Spawn, Unused, PairingTask, host, sess,
     times, TypeOK, TasksOK, TaskOK, Claiming, WithDevice, PairingOnly
<1>16. ASSUME NEW t \in Tasks, Insert(t) PROVE TasksOK'
  BY <1>16, NoneAssumption DEF Insert, Go, sess, times, TypeOK, TasksOK, TaskOK, Claiming,
     WithDevice, PairingOnly
<1>17. ASSUME NEW t \in Tasks, Release(t) PROVE TasksOK'
  BY <1>17, NoneAssumption DEF Release, Go, ReleaseActive, Dropped, LinkAfter, NoActive, ids,
     times, TypeOK, TasksOK, TaskOK, Claiming, WithDevice, PairingOnly
<1>18. ASSUME NEW t \in Tasks, Leave(t) PROVE TasksOK'
  BY <1>18, NoneAssumption DEF Leave, Forget, ForgetAborting, Alive, ReleaseActive, Dropped,
     LinkAfter, NoActive, TypeOK, TasksOK, TaskOK, Claiming, WithDevice, PairingOnly
<1>19. ASSUME NEW t \in Tasks, Die(t) PROVE TasksOK'
  BY <1>19, NoneAssumption DEF Die, Forget, ForgetAborting, Alive, ReleaseActive, Dropped,
     LinkAfter, NoActive, TypeOK, TasksOK, TaskOK, Claiming, WithDevice, PairingOnly
<1>20. ASSUME ReapPairing PROVE TasksOK'
  BY <1>20, NoneAssumption DEF ReapPairing, Abort, Alive, PairingTask, NoPairing, sess, ids,
     times, Live, TypeOK, TasksOK, TaskOK, Claiming, WithDevice, PairingOnly
<1>21. ASSUME ClosePairing PROVE TasksOK'
  BY <1>21, NoneAssumption DEF ClosePairing, Abort, Alive, PairingTask, NoPairing, sess, ids,
     times, TypeOK, TasksOK, TaskOK, Claiming, WithDevice, PairingOnly
<1>22. ASSUME NEW t \in Tasks, NEW h \in Handles, OpenPairing(t, h) PROVE TasksOK'
  <2> SUFFICES ASSUME NEW u \in Tasks PROVE TaskOK(u)'
    BY DEF TasksOK
  <2>1. TaskOK(u) /\ TaskOK(t) /\ pc[t] = "free"
    BY <1>22 DEF TasksOK, OpenPairing, Unused
  <2>2. CASE u = t
    BY <1>22, <2>1, <2>2 DEF OpenPairing, Go, TypeOK, TaskOK, Claiming, WithDevice, PairingOnly
  <2>3. CASE u # t
    BY <1>22, <2>1, <2>3 DEF OpenPairing, Go, Abort, Alive, TypeOK, TaskOK, Claiming, WithDevice,
       PairingOnly
  <2>. QED
    BY <2>2, <2>3
<1>23. ASSUME NEW d \in Devices, RevokeOne(d) PROVE TasksOK'
  BY <1>23, NoneAssumption DEF RevokeOne, Abort, Alive, LinkAfter, CloseFor, NoActive, ids, times,
     TypeOK, TasksOK, TaskOK, Claiming, WithDevice, PairingOnly
<1>24. ASSUME NEW ok \in BOOLEAN, RevokeAll(ok) PROVE TasksOK'
  BY <1>24, NoneAssumption DEF RevokeAll, LinkAfter, CloseFor, RotateKey, DropEverything, Abort,
     Alive, PairingTask, Parked, NoPairing, NoActive, ids, TypeOK, TasksOK, TaskOK, Claiming,
     WithDevice, PairingOnly
<1>25. ASSUME NEW t \in Tasks, NEW d \in Devices, WireRevokeOne(t, d) PROVE TasksOK'
  BY <1>25, NoneAssumption DEF WireRevokeOne, Abort, Alive, CloseFor, ids, times, Threaded,
     TypeOK, TasksOK, TaskOK, Claiming, WithDevice, PairingOnly
<1>26. ASSUME NEW t \in Tasks, NEW ok \in BOOLEAN, WireRevokeAll(t, ok) PROVE TasksOK'
  BY <1>26, NoneAssumption DEF WireRevokeAll, CloseFor, RotateKey, DropEverything, Abort, Alive,
     PairingTask, Parked, NoPairing, ids, Threaded, TypeOK, TasksOK, TaskOK, Claiming, WithDevice,
     PairingOnly
<1>27. ASSUME 
             OpenPairingAgain \/ Stop
      PROVE  TasksOK'
  BY <1>27 DEF OpenPairingAgain, host, sess, ids, Stop, TypeOK, TasksOK, TaskOK, Claiming,
     WithDevice, PairingOnly
<1>28. ASSUME NEW h \in Handles, Elapse(h) PROVE TasksOK'
  BY <1>28 DEF Elapse, host, sess, ids, TypeOK, TasksOK, TaskOK, Claiming, WithDevice, PairingOnly
<1>29. CASE UNCHANGED vars
  BY <1>29 DEF vars, TypeOK, TasksOK, TaskOK, Claiming, WithDevice, PairingOnly
<1>. QED
  BY <1>1, <1>2, <1>3, <1>4, <1>5, <1>6, <1>7, <1>8, <1>9, <1>10, <1>11, <1>12, <1>13, <1>14,
     <1>15, <1>16, <1>17, <1>18, <1>19, <1>20, <1>21, <1>22, <1>23, <1>24, <1>25, <1>26, <1>27,
     <1>28, <1>29 DEF Next, Command, Wire, Step, SessionClosed, SessionStopped

\* Every step keeps the recorded JoinHandles those of the Device's own loops.
LEMMA LoopsStep ==
    ASSUME TypeOK, TypeOK', TasksOK, LoopsKnown, [Next]_vars
    PROVE  LoopsKnown'
<1>1. ASSUME NEW t \in Tasks,
             Wait(t) \/ StopSeen(t) \/ DialFails(t) \/ BackoffEnds(t) \/ HandshakeOk(t) \/
             Hello(t) \/ Greet(t) \/ GreetFails(t) \/ Subscribe(t) \/ SessionEnds(t)
      PROVE  LoopsKnown'
  BY <1>1, NoneAssumption DEF Wait, Go, host, sess, ids, times, StopSeen, DialFails, SetLink,
     NoActive, BackoffEnds, HandshakeOk, Hello, Greet, GreetFails, Subscribe, SessionEnds,
     LoopsKnown, LoopOf, TypeOK, TasksOK, TaskOK, PairingOnly, WithDevice
<1>2. ASSUME NEW t \in Tasks, Start(t) PROVE LoopsKnown'
  BY <1>2, NoneAssumption DEF Start, Forget, ForgetAborting, Alive, Go, host, LoopsKnown, LoopOf,
     TypeOK, TasksOK, TaskOK, PairingOnly, WithDevice
<1>3. ASSUME NEW t \in Tasks, TopRegistration(t) PROVE LoopsKnown'
  BY <1>3, NoneAssumption DEF TopRegistration, Forget, ForgetAborting, Alive, Go, host, ids,
     LoopsKnown, LoopOf, TypeOK, TasksOK, TaskOK, PairingOnly, WithDevice
<1>4. ASSUME NEW t \in Tasks, TopPairing(t) PROVE LoopsKnown'
  BY <1>4, NoneAssumption DEF TopPairing, ForgetAborting, Alive, Go, PairingTask, NoPairing, Live,
     LoopsKnown, LoopOf, TypeOK, TasksOK, TaskOK, PairingOnly, WithDevice
<1>5. ASSUME NEW t \in Tasks, DialOk(t) PROVE LoopsKnown'
  BY <1>5, NoneAssumption DEF DialOk, Go, SetLink, NoActive, sess, ids, times, SameStored,
     LoopsKnown, LoopOf, TypeOK, TasksOK, TaskOK, PairingOnly, WithDevice
<1>6. ASSUME NEW t \in Tasks, HandshakeFails(t) PROVE LoopsKnown'
  BY <1>6, NoneAssumption DEF HandshakeFails, Go, SetLink, NoActive, sess, ids, times, SameStored,
     LoopsKnown, LoopOf, TypeOK, TasksOK, TaskOK, PairingOnly, WithDevice
<1>7. ASSUME NEW t \in Tasks, HandshakeElapses(t) PROVE LoopsKnown'
  BY <1>7, NoneAssumption DEF HandshakeElapses, Forget, ForgetAborting, Alive, NoPairing,
     SameStored, LoopsKnown, LoopOf, TypeOK, TasksOK, TaskOK, PairingOnly, WithDevice
<1>8. ASSUME NEW t \in Tasks, ClaimActive(t) PROVE LoopsKnown'
  BY <1>8, NoneAssumption DEF ClaimActive, Go, NoActive, ids, times, LoopsKnown, LoopOf, TypeOK,
     TasksOK, TaskOK, PairingOnly, WithDevice
<1>9. ASSUME NEW t \in Tasks, GreetElapses(t) PROVE LoopsKnown'
  BY <1>9, NoneAssumption DEF GreetElapses, Go, NoPairing, ids, times, LoopsKnown, LoopOf, TypeOK,
     TasksOK, TaskOK, PairingOnly, WithDevice
<1>10. ASSUME NEW t \in Tasks, NEW d \in Devices, DeviceInfo(t, d) PROVE LoopsKnown'
  BY <1>10, NoneAssumption DEF DeviceInfo, Go, host, times, LoopsKnown, LoopOf, TypeOK, TasksOK,
     TaskOK, PairingOnly, WithDevice
<1>11. ASSUME NEW t \in Tasks, Enrol(t) PROVE LoopsKnown'
  BY <1>11, NoneAssumption DEF Enrol, Go, Abort, Alive, NoPairing, sess, ids, MayEnrol, Live,
     LoopsKnown, LoopOf, TypeOK, TasksOK, TaskOK, PairingOnly, WithDevice
<1>12. ASSUME NEW t \in Tasks, EnrolRefused(t) PROVE LoopsKnown'
  BY <1>12, NoneAssumption DEF EnrolRefused, Go, host, sess, times, MayEnrol, Live, LoopsKnown,
     LoopOf, TypeOK, TasksOK, TaskOK, PairingOnly, WithDevice
<1>13. ASSUME NEW t \in Tasks, NEW n \in Tasks, EnrolFails(t, n) PROVE LoopsKnown'
  BY <1>13, NoneAssumption DEF EnrolFails, Go, Abort, Alive, Spawn, Unused, PairingTask, sess,
     times, MayEnrol, Live, LoopsKnown, LoopOf, TypeOK, TasksOK, TaskOK, PairingOnly, WithDevice
<1>14. ASSUME NEW t \in Tasks, Admit(t) PROVE LoopsKnown'
  BY <1>14, NoneAssumption DEF Admit, Go, Dropped, ids, times, LoopsKnown, LoopOf, TypeOK,
     TasksOK, TaskOK, PairingOnly, WithDevice
<1>15. ASSUME NEW t \in Tasks, NEW n \in Tasks, SpawnRegistration(t, n) PROVE LoopsKnown'
  BY <1>15, NoneAssumption DEF SpawnRegistration, Go, Spawn, Unused, PairingTask, host, sess,
     times, LoopsKnown, LoopOf, TypeOK, TasksOK, TaskOK, PairingOnly, WithDevice
<1>16. ASSUME NEW t \in Tasks, Insert(t) PROVE LoopsKnown'
  BY <1>16, NoneAssumption DEF Insert, Go, sess, times, LoopsKnown, LoopOf, TypeOK, TasksOK,
     TaskOK, PairingOnly, WithDevice
<1>17. ASSUME NEW t \in Tasks, Release(t) PROVE LoopsKnown'
  BY <1>17, NoneAssumption DEF Release, Go, ReleaseActive, Dropped, LinkAfter, NoActive, ids,
     times, LoopsKnown, LoopOf, TypeOK, TasksOK, TaskOK, PairingOnly, WithDevice
<1>18. ASSUME NEW t \in Tasks, Leave(t) PROVE LoopsKnown'
  BY <1>18, NoneAssumption DEF Leave, Forget, ForgetAborting, Alive, ReleaseActive, Dropped,
     LinkAfter, NoActive, LoopsKnown, LoopOf, TypeOK, TasksOK, TaskOK, PairingOnly, WithDevice
<1>19. ASSUME NEW t \in Tasks, Die(t) PROVE LoopsKnown'
  BY <1>19, NoneAssumption DEF Die, Forget, ForgetAborting, Alive, ReleaseActive, Dropped,
     LinkAfter, NoActive, LoopsKnown, LoopOf, TypeOK, TasksOK, TaskOK, PairingOnly, WithDevice
<1>20. ASSUME NEW t \in Tasks, NEW h \in Handles, OpenPairing(t, h) PROVE LoopsKnown'
  BY <1>20, NoneAssumption DEF OpenPairing, Go, Abort, Alive, PairingTask, Live, Fresh, Unused,
     Subscribed, InSession, LoopsKnown, LoopOf, TypeOK, TasksOK, TaskOK, PairingOnly, WithDevice
<1>21. ASSUME NEW d \in Devices, RevokeOne(d) PROVE LoopsKnown'
  BY <1>21, NoneAssumption DEF RevokeOne, Abort, Alive, LinkAfter, CloseFor, NoActive, ids, times,
     LoopsKnown, LoopOf, TypeOK, TasksOK, TaskOK, PairingOnly, WithDevice
<1>22. ASSUME NEW ok \in BOOLEAN, RevokeAll(ok) PROVE LoopsKnown'
  BY <1>22, NoneAssumption DEF RevokeAll, LinkAfter, CloseFor, RotateKey, DropEverything, Abort,
     Alive, PairingTask, Parked, NoPairing, NoActive, ids, LoopsKnown, LoopOf, TypeOK, TasksOK,
     TaskOK, PairingOnly, WithDevice
<1>23. ASSUME NEW t \in Tasks, NEW d \in Devices, WireRevokeOne(t, d) PROVE LoopsKnown'
  BY <1>23, NoneAssumption DEF WireRevokeOne, Abort, Alive, CloseFor, ids, times, Threaded,
     LoopsKnown, LoopOf, TypeOK, TasksOK, TaskOK, PairingOnly, WithDevice
<1>24. ASSUME NEW t \in Tasks, NEW ok \in BOOLEAN, WireRevokeAll(t, ok) PROVE LoopsKnown'
  BY <1>24, NoneAssumption DEF WireRevokeAll, CloseFor, RotateKey, DropEverything, Abort, Alive,
     PairingTask, Parked, NoPairing, ids, Threaded, LoopsKnown, LoopOf, TypeOK, TasksOK, TaskOK,
     PairingOnly, WithDevice
<1>25. ASSUME 
             ReapPairing \/ ClosePairing \/ OpenPairingAgain \/ Stop
      PROVE  LoopsKnown'
  BY <1>25 DEF ReapPairing, sess, ids, times, ClosePairing, OpenPairingAgain, host, Stop,
     LoopsKnown, LoopOf, TypeOK, TasksOK, TaskOK, PairingOnly, WithDevice
<1>26. ASSUME NEW h \in Handles, Elapse(h) PROVE LoopsKnown'
  BY <1>26 DEF Elapse, host, sess, ids, LoopsKnown, LoopOf, TypeOK, TasksOK, TaskOK, PairingOnly,
     WithDevice
<1>27. CASE UNCHANGED vars
  BY <1>27 DEF vars, LoopsKnown, LoopOf, TypeOK, TasksOK, TaskOK, PairingOnly, WithDevice
<1>. QED
  BY <1>1, <1>2, <1>3, <1>4, <1>5, <1>6, <1>7, <1>8, <1>9, <1>10, <1>11, <1>12, <1>13, <1>14,
     <1>15, <1>16, <1>17, <1>18, <1>19, <1>20, <1>21, <1>22, <1>23, <1>24, <1>25, <1>26, <1>27 DEF
     Next, Command, Wire, Step, SessionClosed, SessionStopped

\* Every step keeps what is known of the open pairing.
LEMMA PairingStep ==
    ASSUME TypeOK, TypeOK', TasksOK, LoopsKnown, PairingKnown, [Next]_vars
    PROVE  PairingKnown'
<1>1. ASSUME NEW t \in Tasks,
             Wait(t) \/ StopSeen(t) \/ DialFails(t) \/ BackoffEnds(t) \/ HandshakeOk(t) \/
             Hello(t) \/ Greet(t) \/ GreetFails(t) \/ Subscribe(t) \/ SessionEnds(t)
      PROVE  PairingKnown'
  BY <1>1, NoneAssumption, BoundAssumption DEF Wait, Go, host, sess, ids, times, StopSeen,
     DialFails, SetLink, NoActive, BackoffEnds, HandshakeOk, Hello, Greet, GreetFails, Subscribe,
     SessionEnds, PairingKnown, Late, After, TypeOK, TasksOK, TaskOK, LoopsKnown, LoopOf,
     PairingOnly, WithDevice
<1>2. ASSUME NEW t \in Tasks, Start(t) PROVE PairingKnown'
  BY <1>2, NoneAssumption, BoundAssumption DEF Start, Forget, ForgetAborting, Alive, Go, host,
     PairingKnown, Late, After, TypeOK, TasksOK, TaskOK, LoopsKnown, LoopOf, PairingOnly,
     WithDevice
<1>3. ASSUME NEW t \in Tasks, TopRegistration(t) PROVE PairingKnown'
  BY <1>3, NoneAssumption, BoundAssumption DEF TopRegistration, Forget, ForgetAborting, Alive, Go,
     host, ids, PairingKnown, Late, After, TypeOK, TasksOK, TaskOK, LoopsKnown, LoopOf,
     PairingOnly, WithDevice
<1>4. ASSUME NEW t \in Tasks, TopPairing(t) PROVE PairingKnown'
  BY <1>4, NoneAssumption, BoundAssumption DEF TopPairing, ForgetAborting, Alive, Go, PairingTask,
     NoPairing, Live, PairingKnown, Late, After, TypeOK, TasksOK, TaskOK, LoopsKnown, LoopOf,
     PairingOnly, WithDevice
<1>5. ASSUME NEW t \in Tasks, DialOk(t) PROVE PairingKnown'
  BY <1>5, NoneAssumption, BoundAssumption DEF DialOk, Go, SetLink, NoActive, sess, ids, times,
     SameStored, PairingKnown, Late, After, TypeOK, TasksOK, TaskOK, LoopsKnown, LoopOf,
     PairingOnly, WithDevice
<1>6. ASSUME NEW t \in Tasks, HandshakeFails(t) PROVE PairingKnown'
  <2>1. /\ pairing'.handle = pairing.handle /\ pairing'.task = pairing.task
        /\ pairing'.state = "live" => pairing'.fails < MaxAttempts
    BY <1>6, FailedAttempt
  <2>. QED
    BY <1>6, <2>1 DEF HandshakeFails, Go, ids, sess, PairingKnown, Late, After, TypeOK
<1>7. ASSUME NEW t \in Tasks, HandshakeElapses(t) PROVE PairingKnown'
  BY <1>7, NoneAssumption, BoundAssumption DEF HandshakeElapses, Forget, ForgetAborting, Alive,
     NoPairing, SameStored, PairingKnown, Late, After, TypeOK, TasksOK, TaskOK, LoopsKnown,
     LoopOf, PairingOnly, WithDevice
<1>8. ASSUME NEW t \in Tasks, ClaimActive(t) PROVE PairingKnown'
  BY <1>8, NoneAssumption, BoundAssumption DEF ClaimActive, Go, NoActive, ids, times,
     PairingKnown, Late, After, TypeOK, TasksOK, TaskOK, LoopsKnown, LoopOf, PairingOnly,
     WithDevice
<1>9. ASSUME NEW t \in Tasks, GreetElapses(t) PROVE PairingKnown'
  BY <1>9, NoneAssumption, BoundAssumption DEF GreetElapses, Go, NoPairing, ids, times,
     PairingKnown, Late, After, TypeOK, TasksOK, TaskOK, LoopsKnown, LoopOf, PairingOnly,
     WithDevice
<1>10. ASSUME NEW t \in Tasks, NEW d \in Devices, DeviceInfo(t, d) PROVE PairingKnown'
  BY <1>10, NoneAssumption, BoundAssumption DEF DeviceInfo, Go, host, times, PairingKnown, Late,
     After, TypeOK, TasksOK, TaskOK, LoopsKnown, LoopOf, PairingOnly, WithDevice
<1>11. ASSUME NEW t \in Tasks, Enrol(t) PROVE PairingKnown'
  BY <1>11, NoneAssumption, BoundAssumption DEF Enrol, Go, Abort, Alive, NoPairing, sess, ids,
     MayEnrol, Live, PairingKnown, Late, After, TypeOK, TasksOK, TaskOK, LoopsKnown, LoopOf,
     PairingOnly, WithDevice
<1>12. ASSUME NEW t \in Tasks, EnrolRefused(t) PROVE PairingKnown'
  BY <1>12, NoneAssumption, BoundAssumption DEF EnrolRefused, Go, host, sess, times, MayEnrol,
     Live, PairingKnown, Late, After, TypeOK, TasksOK, TaskOK, LoopsKnown, LoopOf, PairingOnly,
     WithDevice
<1>13. ASSUME NEW t \in Tasks, NEW n \in Tasks, EnrolFails(t, n) PROVE PairingKnown'
  BY <1>13, NoneAssumption, BoundAssumption DEF EnrolFails, Go, Abort, Alive, Spawn, Unused,
     PairingTask, sess, times, MayEnrol, Live, PairingKnown, Late, After, TypeOK, TasksOK, TaskOK,
     LoopsKnown, LoopOf, PairingOnly, WithDevice
<1>14. ASSUME NEW t \in Tasks, Admit(t) PROVE PairingKnown'
  BY <1>14, NoneAssumption, BoundAssumption DEF Admit, Go, Dropped, ids, times, PairingKnown,
     Late, After, TypeOK, TasksOK, TaskOK, LoopsKnown, LoopOf, PairingOnly, WithDevice
<1>15. ASSUME NEW t \in Tasks, NEW n \in Tasks, SpawnRegistration(t, n) PROVE PairingKnown'
  BY <1>15, NoneAssumption, BoundAssumption DEF SpawnRegistration, Go, Spawn, Unused, PairingTask,
     host, sess, times, PairingKnown, Late, After, TypeOK, TasksOK, TaskOK, LoopsKnown, LoopOf,
     PairingOnly, WithDevice
<1>16. ASSUME NEW t \in Tasks, Insert(t) PROVE PairingKnown'
  BY <1>16, NoneAssumption, BoundAssumption DEF Insert, Go, sess, times, PairingKnown, Late,
     After, TypeOK, TasksOK, TaskOK, LoopsKnown, LoopOf, PairingOnly, WithDevice
<1>17. ASSUME NEW t \in Tasks, Release(t) PROVE PairingKnown'
  BY <1>17, NoneAssumption, BoundAssumption DEF Release, Go, ReleaseActive, Dropped, LinkAfter,
     NoActive, ids, times, PairingKnown, Late, After, TypeOK, TasksOK, TaskOK, LoopsKnown, LoopOf,
     PairingOnly, WithDevice
<1>18. ASSUME NEW t \in Tasks, Leave(t) PROVE PairingKnown'
  BY <1>18, NoneAssumption, BoundAssumption DEF Leave, Forget, ForgetAborting, Alive,
     ReleaseActive, Dropped, LinkAfter, NoActive, PairingKnown, Late, After, TypeOK, TasksOK,
     TaskOK, LoopsKnown, LoopOf, PairingOnly, WithDevice
<1>19. ASSUME NEW t \in Tasks, Die(t) PROVE PairingKnown'
  BY <1>19, NoneAssumption, BoundAssumption DEF Die, Forget, ForgetAborting, Alive, ReleaseActive,
     Dropped, LinkAfter, NoActive, PairingKnown, Late, After, TypeOK, TasksOK, TaskOK, LoopsKnown,
     LoopOf, PairingOnly, WithDevice
<1>20. ASSUME ReapPairing PROVE PairingKnown'
  BY <1>20, NoneAssumption, BoundAssumption DEF ReapPairing, Abort, Alive, PairingTask, NoPairing,
     sess, ids, times, Live, PairingKnown, Late, After, TypeOK, TasksOK, TaskOK, LoopsKnown,
     LoopOf, PairingOnly, WithDevice
<1>21. ASSUME ClosePairing PROVE PairingKnown'
  BY <1>21, NoneAssumption, BoundAssumption DEF ClosePairing, Abort, Alive, PairingTask,
     NoPairing, sess, ids, times, PairingKnown, Late, After, TypeOK, TasksOK, TaskOK, LoopsKnown,
     LoopOf, PairingOnly, WithDevice
<1>22. ASSUME NEW t \in Tasks, NEW h \in Handles, OpenPairing(t, h) PROVE PairingKnown'
  BY <1>22, NoneAssumption, BoundAssumption DEF OpenPairing, Go, Abort, Alive, PairingTask, Live,
     Fresh, Unused, Subscribed, InSession, PairingKnown, Late, After, TypeOK, TasksOK, TaskOK,
     LoopsKnown, LoopOf, PairingOnly, WithDevice
<1>23. ASSUME NEW d \in Devices, RevokeOne(d) PROVE PairingKnown'
  BY <1>23, NoneAssumption, BoundAssumption DEF RevokeOne, Abort, Alive, LinkAfter, CloseFor,
     NoActive, ids, times, PairingKnown, Late, After, TypeOK, TasksOK, TaskOK, LoopsKnown, LoopOf,
     PairingOnly, WithDevice
<1>24. ASSUME NEW ok \in BOOLEAN, RevokeAll(ok) PROVE PairingKnown'
  BY <1>24, NoneAssumption, BoundAssumption DEF RevokeAll, LinkAfter, CloseFor, RotateKey,
     DropEverything, Abort, Alive, PairingTask, Parked, NoPairing, NoActive, ids, PairingKnown,
     Late, After, TypeOK, TasksOK, TaskOK, LoopsKnown, LoopOf, PairingOnly, WithDevice
<1>25. ASSUME NEW t \in Tasks, NEW d \in Devices, WireRevokeOne(t, d) PROVE PairingKnown'
  BY <1>25, NoneAssumption, BoundAssumption DEF WireRevokeOne, Abort, Alive, CloseFor, ids, times,
     Threaded, PairingKnown, Late, After, TypeOK, TasksOK, TaskOK, LoopsKnown, LoopOf,
     PairingOnly, WithDevice
<1>26. ASSUME NEW t \in Tasks, NEW ok \in BOOLEAN, WireRevokeAll(t, ok) PROVE PairingKnown'
  BY <1>26, NoneAssumption, BoundAssumption DEF WireRevokeAll, CloseFor, RotateKey,
     DropEverything, Abort, Alive, PairingTask, Parked, NoPairing, ids, Threaded, PairingKnown,
     Late, After, TypeOK, TasksOK, TaskOK, LoopsKnown, LoopOf, PairingOnly, WithDevice
<1>27. ASSUME 
             OpenPairingAgain \/ Stop
      PROVE  PairingKnown'
  BY <1>27 DEF OpenPairingAgain, host, sess, ids, Stop, PairingKnown, Late, After, TypeOK,
     TasksOK, TaskOK, LoopsKnown, LoopOf, PairingOnly, WithDevice
<1>28. ASSUME NEW h \in Handles, Elapse(h) PROVE PairingKnown'
  BY <1>28 DEF Elapse, host, sess, ids, PairingKnown, Late, After, TypeOK, TasksOK, TaskOK,
     LoopsKnown, LoopOf, PairingOnly, WithDevice
<1>29. CASE UNCHANGED vars
  BY <1>29 DEF vars, PairingKnown, Late, After, TypeOK, TasksOK, TaskOK, LoopsKnown, LoopOf,
     PairingOnly, WithDevice
<1>. QED
  BY <1>1, <1>2, <1>3, <1>4, <1>5, <1>6, <1>7, <1>8, <1>9, <1>10, <1>11, <1>12, <1>13, <1>14,
     <1>15, <1>16, <1>17, <1>18, <1>19, <1>20, <1>21, <1>22, <1>23, <1>24, <1>25, <1>26, <1>27,
     <1>28, <1>29 DEF Next, Command, Wire, Step, SessionClosed, SessionStopped

-----------------------------------------------------------------------------
(* The guard and the sessions.                                              *)

\* Every step keeps a handle with one Device.
LEMMA HandlesStep ==
    ASSUME TypeOK, TypeOK', TasksOK, PairingKnown, HandlesOnce, GuardHeld, [Next]_vars
    PROVE  HandlesOnce'
<1>1. ASSUME NEW t \in Tasks, Start(t) PROVE HandlesOnce'
  BY <1>1, NoneAssumption DEF Start, Forget, ForgetAborting, Alive, Go, host, HandlesOnce,
     OneDevice, TypeOK, TasksOK, TaskOK, PairingKnown, GuardHeld, InUse, WithDevice, Claiming,
     PairingOnly
<1>2. ASSUME NEW t \in Tasks, TopRegistration(t) PROVE HandlesOnce'
  BY <1>2, NoneAssumption DEF TopRegistration, Forget, ForgetAborting, Alive, Go, host, ids,
     HandlesOnce, OneDevice, TypeOK, TasksOK, TaskOK, PairingKnown, GuardHeld, InUse, WithDevice,
     Claiming, PairingOnly
<1>3. ASSUME NEW t \in Tasks, TopPairing(t) PROVE HandlesOnce'
  BY <1>3, NoneAssumption DEF TopPairing, ForgetAborting, Alive, Go, PairingTask, NoPairing, Live,
     HandlesOnce, OneDevice, TypeOK, TasksOK, TaskOK, PairingKnown, GuardHeld, InUse, WithDevice,
     Claiming, PairingOnly
<1>4. ASSUME NEW t \in Tasks, DialOk(t) PROVE HandlesOnce'
  BY <1>4, NoneAssumption DEF DialOk, Go, SetLink, NoActive, sess, ids, times, SameStored,
     HandlesOnce, OneDevice, TypeOK, TasksOK, TaskOK, PairingKnown, GuardHeld, InUse, WithDevice,
     Claiming, PairingOnly
<1>5. ASSUME NEW t \in Tasks, HandshakeFails(t) PROVE HandlesOnce'
  <2>1. pairing'.handle = pairing.handle
    BY <1>5, FailedAttempt
  <2>. QED
    BY <1>5, <2>1 DEF HandshakeFails, ids, sess, HandlesOnce, OneDevice
<1>6. ASSUME NEW t \in Tasks, HandshakeElapses(t) PROVE HandlesOnce'
  BY <1>6, NoneAssumption DEF HandshakeElapses, Forget, ForgetAborting, Alive, NoPairing,
     SameStored, HandlesOnce, OneDevice, TypeOK, TasksOK, TaskOK, PairingKnown, GuardHeld, InUse,
     WithDevice, Claiming, PairingOnly
<1>7. ASSUME NEW t \in Tasks, ClaimActive(t) PROVE HandlesOnce'
  <2>1. CASE active' = active
    BY <1>7, <2>1 DEF ClaimActive, ids, HandlesOnce, OneDevice
  <2>2. CASE active' = [dev |-> dev[t], handle |-> hnd[t]]
    <3>1. hnd[t] # None /\ (dev[t] # None => kind[t] = "registration")
      BY <1>7 DEF ClaimActive, TasksOK, TaskOK, WithDevice, TypeOK, Kinds
    <3>2. active'.dev = dev[t] /\ active'.handle = hnd[t]
      BY <2>2
    <3>. QED
      BY <1>7, <3>1, <3>2 DEF ClaimActive, ids, HandlesOnce, OneDevice
  <2>. QED
    BY <1>7, <2>1, <2>2 DEF ClaimActive
<1>8. ASSUME NEW t \in Tasks, GreetElapses(t) PROVE HandlesOnce'
  BY <1>8, NoneAssumption DEF GreetElapses, Go, NoPairing, ids, times, HandlesOnce, OneDevice,
     TypeOK, TasksOK, TaskOK, PairingKnown, GuardHeld, InUse, WithDevice, Claiming, PairingOnly
<1>9. ASSUME NEW t \in Tasks, NEW d \in Devices, DeviceInfo(t, d) PROVE HandlesOnce'
  BY <1>9, NoneAssumption DEF DeviceInfo, Go, host, times, HandlesOnce, OneDevice, TypeOK,
     TasksOK, TaskOK, PairingKnown, GuardHeld, InUse, WithDevice, Claiming, PairingOnly
<1>10. ASSUME NEW t \in Tasks, Enrol(t) PROVE HandlesOnce'
  BY <1>10, NoneAssumption DEF Enrol, Go, Abort, Alive, NoPairing, sess, ids, MayEnrol, Live,
     HandlesOnce, OneDevice, TypeOK, TasksOK, TaskOK, PairingKnown, GuardHeld, InUse, WithDevice,
     Claiming, PairingOnly
<1>11. ASSUME NEW t \in Tasks, EnrolRefused(t) PROVE HandlesOnce'
  BY <1>11, NoneAssumption DEF EnrolRefused, Go, host, sess, times, MayEnrol, Live, HandlesOnce,
     OneDevice, TypeOK, TasksOK, TaskOK, PairingKnown, GuardHeld, InUse, WithDevice, Claiming,
     PairingOnly
<1>12. ASSUME NEW t \in Tasks, NEW n \in Tasks, EnrolFails(t, n) PROVE HandlesOnce'
  BY <1>12, NoneAssumption DEF EnrolFails, Go, Abort, Alive, Spawn, Unused, PairingTask, sess,
     times, MayEnrol, Live, HandlesOnce, OneDevice, TypeOK, TasksOK, TaskOK, PairingKnown,
     GuardHeld, InUse, WithDevice, Claiming, PairingOnly
<1>13. ASSUME NEW t \in Tasks, NEW n \in Tasks, SpawnRegistration(t, n) PROVE HandlesOnce'
  BY <1>13, NoneAssumption DEF SpawnRegistration, Go, Spawn, Unused, PairingTask, host, sess,
     times, HandlesOnce, OneDevice, TypeOK, TasksOK, TaskOK, PairingKnown, GuardHeld, InUse,
     WithDevice, Claiming, PairingOnly
<1>14. ASSUME NEW t \in Tasks, Insert(t) PROVE HandlesOnce'
  BY <1>14, NoneAssumption DEF Insert, Go, sess, times, HandlesOnce, OneDevice, TypeOK, TasksOK,
     TaskOK, PairingKnown, GuardHeld, InUse, WithDevice, Claiming, PairingOnly
<1>15. ASSUME NEW t \in Tasks, Release(t) PROVE HandlesOnce'
  BY <1>15, NoneAssumption DEF Release, Go, ReleaseActive, Dropped, LinkAfter, NoActive, ids,
     times, HandlesOnce, OneDevice, TypeOK, TasksOK, TaskOK, PairingKnown, GuardHeld, InUse,
     WithDevice, Claiming, PairingOnly
<1>16. ASSUME NEW t \in Tasks, Leave(t) PROVE HandlesOnce'
  BY <1>16, NoneAssumption DEF Leave, Forget, ForgetAborting, Alive, ReleaseActive, Dropped,
     LinkAfter, NoActive, HandlesOnce, OneDevice, TypeOK, TasksOK, TaskOK, PairingKnown,
     GuardHeld, InUse, WithDevice, Claiming, PairingOnly
<1>17. ASSUME NEW t \in Tasks, Die(t) PROVE HandlesOnce'
  BY <1>17, NoneAssumption DEF Die, Forget, ForgetAborting, Alive, ReleaseActive, Dropped,
     LinkAfter, NoActive, HandlesOnce, OneDevice, TypeOK, TasksOK, TaskOK, PairingKnown,
     GuardHeld, InUse, WithDevice, Claiming, PairingOnly
<1>18. ASSUME ReapPairing PROVE HandlesOnce'
  BY <1>18, NoneAssumption DEF ReapPairing, Abort, Alive, PairingTask, NoPairing, sess, ids,
     times, Live, HandlesOnce, OneDevice, TypeOK, TasksOK, TaskOK, PairingKnown, GuardHeld, InUse,
     WithDevice, Claiming, PairingOnly
<1>19. ASSUME ClosePairing PROVE HandlesOnce'
  BY <1>19, NoneAssumption DEF ClosePairing, Abort, Alive, PairingTask, NoPairing, sess, ids,
     times, HandlesOnce, OneDevice, TypeOK, TasksOK, TaskOK, PairingKnown, GuardHeld, InUse,
     WithDevice, Claiming, PairingOnly
<1>20. ASSUME NEW t \in Tasks, NEW h \in Handles, OpenPairing(t, h) PROVE HandlesOnce'
  BY <1>20, NoneAssumption DEF OpenPairing, Go, Abort, Alive, PairingTask, Live, Fresh, Unused,
     Subscribed, InSession, HandlesOnce, OneDevice, TypeOK, TasksOK, TaskOK, PairingKnown,
     GuardHeld, InUse, WithDevice, Claiming, PairingOnly
<1>21. ASSUME NEW d \in Devices, RevokeOne(d) PROVE HandlesOnce'
  BY <1>21, NoneAssumption DEF RevokeOne, Abort, Alive, LinkAfter, CloseFor, NoActive, ids, times,
     HandlesOnce, OneDevice, TypeOK, TasksOK, TaskOK, PairingKnown, GuardHeld, InUse, WithDevice,
     Claiming, PairingOnly
<1>22. ASSUME NEW ok \in BOOLEAN, RevokeAll(ok) PROVE HandlesOnce'
  BY <1>22, NoneAssumption DEF RevokeAll, LinkAfter, CloseFor, RotateKey, DropEverything, Abort,
     Alive, PairingTask, Parked, NoPairing, NoActive, ids, HandlesOnce, OneDevice, TypeOK,
     TasksOK, TaskOK, PairingKnown, GuardHeld, InUse, WithDevice, Claiming, PairingOnly
<1>23. ASSUME NEW t \in Tasks, NEW d \in Devices, WireRevokeOne(t, d) PROVE HandlesOnce'
  BY <1>23, NoneAssumption DEF WireRevokeOne, Abort, Alive, CloseFor, ids, times, Threaded,
     HandlesOnce, OneDevice, TypeOK, TasksOK, TaskOK, PairingKnown, GuardHeld, InUse, WithDevice,
     Claiming, PairingOnly
<1>24. ASSUME NEW t \in Tasks, NEW ok \in BOOLEAN, WireRevokeAll(t, ok) PROVE HandlesOnce'
  BY <1>24, NoneAssumption DEF WireRevokeAll, CloseFor, RotateKey, DropEverything, Abort, Alive,
     PairingTask, Parked, NoPairing, ids, Threaded, HandlesOnce, OneDevice, TypeOK, TasksOK,
     TaskOK, PairingKnown, GuardHeld, InUse, WithDevice, Claiming, PairingOnly
<1>25. ASSUME NEW t \in Tasks,
             Wait(t) \/ StopSeen(t) \/ DialFails(t) \/ BackoffEnds(t) \/ HandshakeOk(t) \/
             Hello(t) \/ Greet(t) \/ GreetFails(t) \/ Admit(t) \/ Subscribe(t) \/ SessionEnds(t)
      PROVE  HandlesOnce'
  BY <1>25 DEF Wait, host, sess, ids, times, StopSeen, DialFails, SetLink, BackoffEnds,
     HandshakeOk, Hello, Greet, GreetFails, Admit, Subscribe, SessionEnds, HandlesOnce, OneDevice,
     TypeOK, TasksOK, TaskOK, PairingKnown, GuardHeld, InUse, WithDevice, Claiming, PairingOnly
<1>26. ASSUME 
             OpenPairingAgain \/ Stop
      PROVE  HandlesOnce'
  BY <1>26 DEF OpenPairingAgain, host, sess, ids, Stop, HandlesOnce, OneDevice, TypeOK, TasksOK,
     TaskOK, PairingKnown, GuardHeld, InUse, WithDevice, Claiming, PairingOnly
<1>27. ASSUME NEW h \in Handles, Elapse(h) PROVE HandlesOnce'
  BY <1>27 DEF Elapse, host, sess, ids, HandlesOnce, OneDevice, TypeOK, TasksOK, TaskOK,
     PairingKnown, GuardHeld, InUse, WithDevice, Claiming, PairingOnly
<1>28. CASE UNCHANGED vars
  BY <1>28 DEF vars, HandlesOnce, OneDevice, TypeOK, TasksOK, TaskOK, PairingKnown, GuardHeld,
     InUse, WithDevice, Claiming, PairingOnly
<1>. QED
  BY <1>1, <1>2, <1>3, <1>4, <1>5, <1>6, <1>7, <1>8, <1>9, <1>10, <1>11, <1>12, <1>13, <1>14,
     <1>15, <1>16, <1>17, <1>18, <1>19, <1>20, <1>21, <1>22, <1>23, <1>24, <1>25, <1>26, <1>27,
     <1>28 DEF Next, Command, Wire, Step, SessionClosed, SessionStopped

\* Every step keeps a claim on a handle in use the guard's, and the only one.
LEMMA GuardStep ==
    ASSUME TypeOK, TypeOK', TasksOK, PairingKnown, HandlesOnce, GuardHeld, [Next]_vars
    PROVE  GuardHeld'
<1>1. ASSUME NEW t \in Tasks, Start(t) PROVE GuardHeld'
  BY <1>1, NoneAssumption DEF Start, Forget, ForgetAborting, Alive, Go, host, HandlesOnce,
     OneDevice, TypeOK, TasksOK, TaskOK, PairingKnown, GuardHeld, InUse, Claiming
<1>2. ASSUME NEW t \in Tasks, TopRegistration(t) PROVE GuardHeld'
  BY <1>2, NoneAssumption DEF TopRegistration, Forget, ForgetAborting, Alive, Go, host, ids,
     HandlesOnce, OneDevice, TypeOK, TasksOK, TaskOK, PairingKnown, GuardHeld, InUse, Claiming
<1>3. ASSUME NEW t \in Tasks, TopPairing(t) PROVE GuardHeld'
  <2>1. t \notin claims
    BY <1>3 DEF TopPairing, TasksOK, TaskOK, Claiming
  <2>2. \A u \in claims : hnd[u] # None
    BY DEF TasksOK, TaskOK, Claiming, TypeOK
  <2>3. claims' = claims /\ \A u \in claims : hnd'[u] = hnd[u]
    <3>1. CASE Live
      BY <1>3, <2>1, <3>1 DEF TopPairing, TypeOK
    <3>2. CASE ~Live
      <4>1. claims' = claims \ {t} /\ hnd' = [hnd EXCEPT ![t] = None]
        BY <1>3, <3>2 DEF TopPairing, ForgetAborting
      <4>2. claims' = claims
        BY <2>1, <4>1
      <4>. QED
        BY <2>1, <4>1, <4>2 DEF TypeOK
    <3>. QED
      BY <3>1, <3>2
  <2>4. \A u \in claims : InUse(hnd[u])' => InUse(hnd[u])
    BY <1>3, <2>2, <2>3 DEF TopPairing, NoPairing, InUse
  <2>. QED
    BY <1>3, <2>3, <2>4 DEF TopPairing, GuardHeld
<1>4. ASSUME NEW t \in Tasks, DialOk(t) PROVE GuardHeld'
  BY <1>4, NoneAssumption DEF DialOk, Go, SetLink, NoActive, sess, ids, times, SameStored,
     HandlesOnce, OneDevice, TypeOK, TasksOK, TaskOK, PairingKnown, GuardHeld, InUse, Claiming
<1>5. ASSUME NEW t \in Tasks, HandshakeFails(t) PROVE GuardHeld'
  <2>1. pairing'.handle = pairing.handle
    BY <1>5, FailedAttempt
  <2>. QED
    BY <1>5, <2>1 DEF HandshakeFails, ids, sess, GuardHeld, InUse
<1>6. ASSUME NEW t \in Tasks, HandshakeElapses(t) PROVE GuardHeld'
  BY <1>6, NoneAssumption DEF HandshakeElapses, Forget, ForgetAborting, Alive, NoPairing,
     SameStored, HandlesOnce, OneDevice, TypeOK, TasksOK, TaskOK, PairingKnown, GuardHeld, InUse,
     Claiming
<1>7. ASSUME NEW t \in Tasks, ClaimActive(t) PROVE GuardHeld'
  BY <1>7, NoneAssumption DEF ClaimActive, Go, NoActive, ids, times, HandlesOnce, OneDevice,
     TypeOK, TasksOK, TaskOK, PairingKnown, GuardHeld, InUse, Claiming
<1>8. ASSUME NEW t \in Tasks, GreetElapses(t) PROVE GuardHeld'
  BY <1>8, NoneAssumption DEF GreetElapses, Go, NoPairing, ids, times, HandlesOnce, OneDevice,
     TypeOK, TasksOK, TaskOK, PairingKnown, GuardHeld, InUse, Claiming
<1>9. ASSUME NEW t \in Tasks, Enrol(t) PROVE GuardHeld'
  <2>1. /\ t \in claims /\ dev[t] \in Devices /\ hnd[t] # None
        /\ hnd[t] = pairing.handle /\ active.handle = hnd[t]
    BY <1>9 DEF Enrol, MayEnrol, TypeOK, TasksOK, TaskOK, Claiming, WithDevice, GuardHeld, InUse
  <2>2. pairing'.handle = None /\ active'.handle = active.handle
    BY <1>9 DEF Enrol, NoPairing, TypeOK
  <2>3. \A u \in claims : hnd[u] # None
    BY DEF TasksOK, TaskOK, Claiming, TypeOK
  <2>4. \A u \in claims : InUse(hnd[u])' => InUse(hnd[u])
    BY <1>9, <2>1, <2>2, <2>3 DEF Enrol, InUse, ids, TypeOK
  <2>. QED
    BY <1>9, <2>2, <2>4 DEF Enrol, GuardHeld, ids, sess
<1>10. ASSUME NEW t \in Tasks, Release(t) PROVE GuardHeld'
  BY <1>10, NoneAssumption DEF Release, Go, ReleaseActive, Dropped, LinkAfter, NoActive, ids,
     times, HandlesOnce, OneDevice, TypeOK, TasksOK, TaskOK, PairingKnown, GuardHeld, InUse,
     Claiming
<1>11. ASSUME NEW t \in Tasks, Leave(t) PROVE GuardHeld'
  BY <1>11, NoneAssumption DEF Leave, Forget, ForgetAborting, Alive, ReleaseActive, Dropped,
     LinkAfter, NoActive, HandlesOnce, OneDevice, TypeOK, TasksOK, TaskOK, PairingKnown,
     GuardHeld, InUse, Claiming
<1>12. ASSUME NEW t \in Tasks, Die(t) PROVE GuardHeld'
  BY <1>12, NoneAssumption DEF Die, Forget, ForgetAborting, Alive, ReleaseActive, Dropped,
     LinkAfter, NoActive, HandlesOnce, OneDevice, TypeOK, TasksOK, TaskOK, PairingKnown,
     GuardHeld, InUse, Claiming
<1>13. ASSUME ReapPairing PROVE GuardHeld'
  BY <1>13, NoneAssumption DEF ReapPairing, Abort, Alive, PairingTask, NoPairing, sess, ids,
     times, Live, HandlesOnce, OneDevice, TypeOK, TasksOK, TaskOK, PairingKnown, GuardHeld, InUse,
     Claiming
<1>14. ASSUME ClosePairing PROVE GuardHeld'
  BY <1>14, NoneAssumption DEF ClosePairing, Abort, Alive, PairingTask, NoPairing, sess, ids,
     times, HandlesOnce, OneDevice, TypeOK, TasksOK, TaskOK, PairingKnown, GuardHeld, InUse,
     Claiming
<1>15. ASSUME NEW t \in Tasks, NEW h \in Handles, OpenPairing(t, h) PROVE GuardHeld'
  BY <1>15, NoneAssumption DEF OpenPairing, Go, Abort, Alive, PairingTask, Live, Fresh, Unused,
     Subscribed, InSession, HandlesOnce, OneDevice, TypeOK, TasksOK, TaskOK, PairingKnown,
     GuardHeld, InUse, Claiming
<1>16. ASSUME NEW d \in Devices, RevokeOne(d) PROVE GuardHeld'
  BY <1>16, NoneAssumption DEF RevokeOne, Abort, Alive, LinkAfter, CloseFor, NoActive, ids, times,
     HandlesOnce, OneDevice, TypeOK, TasksOK, TaskOK, PairingKnown, GuardHeld, InUse, Claiming
<1>17. ASSUME NEW ok \in BOOLEAN, RevokeAll(ok) PROVE GuardHeld'
  BY <1>17, NoneAssumption DEF RevokeAll, LinkAfter, CloseFor, RotateKey, DropEverything, Abort,
     Alive, PairingTask, Parked, NoPairing, NoActive, ids, HandlesOnce, OneDevice, TypeOK,
     TasksOK, TaskOK, PairingKnown, GuardHeld, InUse, Claiming
<1>18. ASSUME NEW t \in Tasks, NEW d \in Devices, WireRevokeOne(t, d) PROVE GuardHeld'
  BY <1>18, NoneAssumption DEF WireRevokeOne, Abort, Alive, CloseFor, ids, times, Threaded,
     HandlesOnce, OneDevice, TypeOK, TasksOK, TaskOK, PairingKnown, GuardHeld, InUse, Claiming
<1>19. ASSUME NEW t \in Tasks, NEW ok \in BOOLEAN, WireRevokeAll(t, ok) PROVE GuardHeld'
  <2>1. \A u \in claims : hnd[u] # None
    BY DEF TasksOK, TaskOK, Claiming, TypeOK
  <2>2. \A h \in Handles : InUse(h)' => InUse(h)
    BY <1>19, NoneAssumption DEF WireRevokeAll, DropEverything, NoPairing, InUse
  <2>. QED
    BY <1>19, <2>1, <2>2 DEF WireRevokeAll, GuardHeld, ids, TypeOK
<1>20. ASSUME NEW t \in Tasks,
             Wait(t) \/ StopSeen(t) \/ DialFails(t) \/ BackoffEnds(t) \/ HandshakeOk(t) \/
             Hello(t) \/ Greet(t) \/ GreetFails(t) \/ EnrolRefused(t) \/ Admit(t) \/ Subscribe(t)
             \/ SessionEnds(t) \/ Insert(t)
      PROVE  GuardHeld'
  BY <1>20 DEF Wait, host, sess, ids, times, StopSeen, DialFails, SetLink, BackoffEnds,
     HandshakeOk, Hello, Greet, GreetFails, EnrolRefused, Admit, Subscribe, SessionEnds, Insert,
     HandlesOnce, OneDevice, TypeOK, TasksOK, TaskOK, PairingKnown, GuardHeld, InUse, Claiming
<1>21. ASSUME NEW t \in Tasks, NEW d \in Devices, DeviceInfo(t, d) PROVE GuardHeld'
  BY <1>21 DEF DeviceInfo, host, times, HandlesOnce, OneDevice, TypeOK, TasksOK, TaskOK,
     PairingKnown, GuardHeld, InUse, Claiming
<1>22. ASSUME NEW t \in Tasks, NEW n \in Tasks,
             EnrolFails(t, n) \/ SpawnRegistration(t, n)
      PROVE  GuardHeld'
  BY <1>22 DEF EnrolFails, sess, times, SpawnRegistration, host, HandlesOnce, OneDevice, TypeOK,
     TasksOK, TaskOK, PairingKnown, GuardHeld, InUse, Claiming
<1>23. ASSUME 
             OpenPairingAgain \/ Stop
      PROVE  GuardHeld'
  BY <1>23 DEF OpenPairingAgain, host, sess, ids, Stop, HandlesOnce, OneDevice, TypeOK, TasksOK,
     TaskOK, PairingKnown, GuardHeld, InUse, Claiming
<1>24. ASSUME NEW h \in Handles, Elapse(h) PROVE GuardHeld'
  BY <1>24 DEF Elapse, host, sess, ids, HandlesOnce, OneDevice, TypeOK, TasksOK, TaskOK,
     PairingKnown, GuardHeld, InUse, Claiming
<1>25. CASE UNCHANGED vars
  BY <1>25 DEF vars, HandlesOnce, OneDevice, TypeOK, TasksOK, TaskOK, PairingKnown, GuardHeld,
     InUse, Claiming
<1>. QED
  BY <1>1, <1>2, <1>3, <1>4, <1>5, <1>6, <1>7, <1>8, <1>9, <1>10, <1>11, <1>12, <1>13, <1>14,
     <1>15, <1>16, <1>17, <1>18, <1>19, <1>20, <1>21, <1>22, <1>23, <1>24, <1>25 DEF Next,
     Command, Wire, Step, SessionClosed, SessionStopped

\* Unless a wire revocation finds the new keypair unwritable, every step keeps
\* the sessions that were not told to close registered and listed.
LEMMA ServedStep ==
    ASSUME "wire" \notin RotateFails, TypeOK, TypeOK', 
           TasksOK, PairingKnown, GuardHeld, ServedOK, [Next]_vars
    PROVE  ServedOK'
<1>1. ASSUME NEW t \in Tasks,
             Wait(t) \/ StopSeen(t) \/ DialFails(t) \/ BackoffEnds(t) \/ HandshakeOk(t) \/
             Hello(t) \/ Greet(t) \/ GreetFails(t) \/ Subscribe(t) \/ SessionEnds(t)
      PROVE  ServedOK'
  BY <1>1, NoneAssumption DEF Wait, Go, host, sess, ids, times, StopSeen, DialFails, SetLink,
     NoActive, BackoffEnds, HandshakeOk, Hello, Greet, GreetFails, Subscribe, SessionEnds, TypeOK,
     TasksOK, TaskOK, PairingKnown, GuardHeld, InUse, Claiming, ServedOK, WithDevice
<1>2. ASSUME NEW t \in Tasks, Start(t) PROVE ServedOK'
  BY <1>2, NoneAssumption DEF Start, Forget, ForgetAborting, Alive, Go, host, TypeOK, TasksOK,
     TaskOK, PairingKnown, GuardHeld, InUse, Claiming, ServedOK, WithDevice
<1>3. ASSUME NEW t \in Tasks, TopRegistration(t) PROVE ServedOK'
  BY <1>3, NoneAssumption DEF TopRegistration, Forget, ForgetAborting, Alive, Go, host, ids,
     TypeOK, TasksOK, TaskOK, PairingKnown, GuardHeld, InUse, Claiming, ServedOK, WithDevice
<1>4. ASSUME NEW t \in Tasks, TopPairing(t) PROVE ServedOK'
  BY <1>4, NoneAssumption DEF TopPairing, ForgetAborting, Alive, Go, PairingTask, NoPairing, Live,
     TypeOK, TasksOK, TaskOK, PairingKnown, GuardHeld, InUse, Claiming, ServedOK, WithDevice
<1>5. ASSUME NEW t \in Tasks, DialOk(t) PROVE ServedOK'
  BY <1>5, NoneAssumption DEF DialOk, Go, SetLink, NoActive, sess, ids, times, SameStored, TypeOK,
     TasksOK, TaskOK, PairingKnown, GuardHeld, InUse, Claiming, ServedOK, WithDevice
<1>6. ASSUME NEW t \in Tasks, HandshakeFails(t) PROVE ServedOK'
  BY <1>6, NoneAssumption DEF HandshakeFails, Go, SetLink, NoActive, sess, ids, times, SameStored,
     TypeOK, TasksOK, TaskOK, PairingKnown, GuardHeld, InUse, Claiming, ServedOK, WithDevice
<1>7. ASSUME NEW t \in Tasks, HandshakeElapses(t) PROVE ServedOK'
  BY <1>7, NoneAssumption DEF HandshakeElapses, Forget, ForgetAborting, Alive, NoPairing,
     SameStored, TypeOK, TasksOK, TaskOK, PairingKnown, GuardHeld, InUse, Claiming, ServedOK,
     WithDevice
<1>8. ASSUME NEW t \in Tasks, ClaimActive(t) PROVE ServedOK'
  BY <1>8, NoneAssumption DEF ClaimActive, Go, NoActive, ids, times, TypeOK, TasksOK, TaskOK,
     PairingKnown, GuardHeld, InUse, Claiming, ServedOK, WithDevice
<1>9. ASSUME NEW t \in Tasks, GreetElapses(t) PROVE ServedOK'
  BY <1>9, NoneAssumption DEF GreetElapses, Go, NoPairing, ids, times, TypeOK, TasksOK, TaskOK,
     PairingKnown, GuardHeld, InUse, Claiming, ServedOK, WithDevice
<1>10. ASSUME NEW t \in Tasks, NEW d \in Devices, DeviceInfo(t, d) PROVE ServedOK'
  BY <1>10, NoneAssumption DEF DeviceInfo, Go, host, times, TypeOK, TasksOK, TaskOK, PairingKnown,
     GuardHeld, InUse, Claiming, ServedOK, WithDevice
<1>11. ASSUME NEW t \in Tasks, Enrol(t) PROVE ServedOK'
  BY <1>11, NoneAssumption DEF Enrol, Go, Abort, Alive, NoPairing, sess, ids, MayEnrol, Live,
     TypeOK, TasksOK, TaskOK, PairingKnown, GuardHeld, InUse, Claiming, ServedOK, WithDevice
<1>12. ASSUME NEW t \in Tasks, EnrolRefused(t) PROVE ServedOK'
  BY <1>12, NoneAssumption DEF EnrolRefused, Go, host, sess, times, MayEnrol, Live, TypeOK,
     TasksOK, TaskOK, PairingKnown, GuardHeld, InUse, Claiming, ServedOK, WithDevice
<1>13. ASSUME NEW t \in Tasks, NEW n \in Tasks, EnrolFails(t, n) PROVE ServedOK'
  BY <1>13, NoneAssumption DEF EnrolFails, Go, Abort, Alive, Spawn, Unused, PairingTask, sess,
     times, MayEnrol, Live, TypeOK, TasksOK, TaskOK, PairingKnown, GuardHeld, InUse, Claiming,
     ServedOK, WithDevice
<1>14. ASSUME NEW t \in Tasks, Admit(t) PROVE ServedOK'
  BY <1>14, NoneAssumption DEF Admit, Go, Dropped, ids, times, TypeOK, TasksOK, TaskOK,
     PairingKnown, GuardHeld, InUse, Claiming, ServedOK, WithDevice
<1>15. ASSUME NEW t \in Tasks, NEW n \in Tasks, SpawnRegistration(t, n) PROVE ServedOK'
  BY <1>15, NoneAssumption DEF SpawnRegistration, Go, Spawn, Unused, PairingTask, host, sess,
     times, TypeOK, TasksOK, TaskOK, PairingKnown, GuardHeld, InUse, Claiming, ServedOK,
     WithDevice
<1>16. ASSUME NEW t \in Tasks, Insert(t) PROVE ServedOK'
  BY <1>16, NoneAssumption DEF Insert, Go, sess, times, TypeOK, TasksOK, TaskOK, PairingKnown,
     GuardHeld, InUse, Claiming, ServedOK, WithDevice
<1>17. ASSUME NEW t \in Tasks, Release(t) PROVE ServedOK'
  BY <1>17, NoneAssumption DEF Release, Go, ReleaseActive, Dropped, LinkAfter, NoActive, ids,
     times, TypeOK, TasksOK, TaskOK, PairingKnown, GuardHeld, InUse, Claiming, ServedOK,
     WithDevice
<1>18. ASSUME NEW t \in Tasks, Leave(t) PROVE ServedOK'
  BY <1>18, NoneAssumption DEF Leave, Forget, ForgetAborting, Alive, ReleaseActive, Dropped,
     LinkAfter, NoActive, TypeOK, TasksOK, TaskOK, PairingKnown, GuardHeld, InUse, Claiming,
     ServedOK, WithDevice
<1>19. ASSUME NEW t \in Tasks, Die(t) PROVE ServedOK'
  <2> SUFFICES ASSUME NEW u \in Tasks, u # t, pc[u] \in {"subscribe", "serving"},
                      closing'[u] = "none"
               PROVE  store[dev[u]] = hnd[u] /\ registry'[hnd[u]] = u
    BY <1>19 DEF Die, Forget, ForgetAborting, ServedOK, TypeOK
  <2>1. CASE t \notin claims
    BY <1>19, <2>1 DEF Die, ServedOK
  <2>2. CASE t \in claims
    <3>1. closing[u] = "none" /\ u # registry[hnd[t]]
      BY <1>19, <2>2 DEF Die, ReleaseActive, Dropped, TypeOK
    <3>2. store[dev[u]] = hnd[u] /\ registry[hnd[u]] = u
      BY <3>1 DEF ServedOK
    <3>. QED
      BY <1>19, <2>2, <3>1, <3>2 DEF Die, ReleaseActive, TypeOK, TasksOK, TaskOK
  <2>. QED
    BY <2>1, <2>2
<1>20. ASSUME NEW t \in Tasks, NEW h \in Handles, OpenPairing(t, h) PROVE ServedOK'
  BY <1>20, NoneAssumption DEF OpenPairing, Go, Abort, Alive, PairingTask, Live, Fresh, Unused,
     Subscribed, InSession, TypeOK, TasksOK, TaskOK, PairingKnown, GuardHeld, InUse, Claiming,
     ServedOK, WithDevice
<1>21. ASSUME NEW d \in Devices, RevokeOne(d) PROVE ServedOK'
  BY <1>21, NoneAssumption DEF RevokeOne, Abort, Alive, LinkAfter, CloseFor, NoActive, ids, times,
     TypeOK, TasksOK, TaskOK, PairingKnown, GuardHeld, InUse, Claiming, ServedOK, WithDevice
<1>22. ASSUME NEW ok \in BOOLEAN, RevokeAll(ok) PROVE ServedOK'
  BY <1>22, NoneAssumption DEF RevokeAll, LinkAfter, CloseFor, RotateKey, DropEverything, Abort,
     Alive, PairingTask, Parked, NoPairing, NoActive, ids, TypeOK, TasksOK, TaskOK, PairingKnown,
     GuardHeld, InUse, Claiming, ServedOK, WithDevice
<1>23. ASSUME NEW t \in Tasks, NEW d \in Devices, WireRevokeOne(t, d) PROVE ServedOK'
  BY <1>23, NoneAssumption DEF WireRevokeOne, Abort, Alive, CloseFor, ids, times, Threaded,
     TypeOK, TasksOK, TaskOK, PairingKnown, GuardHeld, InUse, Claiming, ServedOK, WithDevice
<1>24. ASSUME NEW t \in Tasks, NEW ok \in BOOLEAN, WireRevokeAll(t, ok) PROVE ServedOK'
  <2> SUFFICES ASSUME NEW u \in Tasks, pc[u] \in {"subscribe", "serving"}, closing'[u] = "none",
                      closing[u] = "none" => store[dev[u]] = hnd[u] /\ registry[hnd[u]] = u
               PROVE  store'[dev[u]] = hnd[u] /\ registry'[hnd[u]] = u
    BY <1>24 DEF WireRevokeAll, ids, ServedOK
  <2>1. dev[u] \in Devices /\ hnd[u] \in Handles
    BY DEF TasksOK, TaskOK, WithDevice, TypeOK
  <2>2. CloseFor(Devices)
    BY <1>24 DEF WireRevokeAll
  <2>3. closing[u] = "none"
    BY <2>2 DEF CloseFor, TypeOK
  <2>4. closing'[u] = "revoked"
    BY <2>1, <2>2, <2>3, NoneAssumption DEF CloseFor, TypeOK
  <2>. QED
    BY <2>4
<1>25. ASSUME 
             ReapPairing \/ ClosePairing \/ OpenPairingAgain \/ Stop
      PROVE  ServedOK'
  BY <1>25 DEF ReapPairing, sess, ids, times, ClosePairing, OpenPairingAgain, host, Stop, TypeOK,
     TasksOK, TaskOK, PairingKnown, GuardHeld, InUse, Claiming, ServedOK, WithDevice
<1>26. ASSUME NEW h \in Handles, Elapse(h) PROVE ServedOK'
  BY <1>26 DEF Elapse, host, sess, ids, TypeOK, TasksOK, TaskOK, PairingKnown, GuardHeld, InUse,
     Claiming, ServedOK, WithDevice
<1>27. CASE UNCHANGED vars
  BY <1>27 DEF vars, TypeOK, TasksOK, TaskOK, PairingKnown, GuardHeld, InUse, Claiming, ServedOK,
     WithDevice
<1>. QED
  BY <1>1, <1>2, <1>3, <1>4, <1>5, <1>6, <1>7, <1>8, <1>9, <1>10, <1>11, <1>12, <1>13, <1>14,
     <1>15, <1>16, <1>17, <1>18, <1>19, <1>20, <1>21, <1>22, <1>23, <1>24, <1>25, <1>26, <1>27 DEF
     Next, Command, Wire, Step, SessionClosed, SessionStopped

\* Every step leaves the guard with an owner.
LEMMA OwnerStep ==
    ASSUME TypeOK, TypeOK', TasksOK, HandlesOnce, GuardHasOwner, [Next]_vars
    PROVE  GuardHasOwner'
<1>1. ASSUME NEW t \in Tasks, Start(t) PROVE GuardHasOwner'
  BY <1>1, NoneAssumption DEF Start, Forget, ForgetAborting, Alive, Go, host, TypeOK, TasksOK,
     TaskOK, GuardHasOwner, Holders, HandlesOnce, Claiming
<1>2. ASSUME NEW t \in Tasks, TopRegistration(t) PROVE GuardHasOwner'
  BY <1>2, NoneAssumption DEF TopRegistration, Forget, ForgetAborting, Alive, Go, host, ids,
     TypeOK, TasksOK, TaskOK, GuardHasOwner, Holders, HandlesOnce, Claiming
<1>3. ASSUME NEW t \in Tasks, TopPairing(t) PROVE GuardHasOwner'
  BY <1>3, NoneAssumption DEF TopPairing, ForgetAborting, Alive, Go, PairingTask, NoPairing, Live,
     TypeOK, TasksOK, TaskOK, GuardHasOwner, Holders, HandlesOnce, Claiming
<1>4. ASSUME NEW t \in Tasks, HandshakeElapses(t) PROVE GuardHasOwner'
  BY <1>4, NoneAssumption DEF HandshakeElapses, Forget, ForgetAborting, Alive, NoPairing,
     SameStored, TypeOK, TasksOK, TaskOK, GuardHasOwner, Holders, HandlesOnce, Claiming
<1>5. ASSUME NEW t \in Tasks, ClaimActive(t) PROVE GuardHasOwner'
  BY <1>5, NoneAssumption DEF ClaimActive, Go, NoActive, ids, times, TypeOK, TasksOK, TaskOK,
     GuardHasOwner, Holders, HandlesOnce, Claiming
<1>6. ASSUME NEW t \in Tasks, Enrol(t) PROVE GuardHasOwner'
  BY <1>6, NoneAssumption DEF Enrol, Go, Abort, Alive, NoPairing, sess, ids, MayEnrol, Live,
     TypeOK, TasksOK, TaskOK, GuardHasOwner, Holders, HandlesOnce, Claiming
<1>7. ASSUME NEW t \in Tasks, Release(t) PROVE GuardHasOwner'
  BY <1>7, NoneAssumption DEF Release, Go, ReleaseActive, Dropped, LinkAfter, NoActive, ids,
     times, TypeOK, TasksOK, TaskOK, GuardHasOwner, Holders, HandlesOnce, Claiming
<1>8. ASSUME NEW t \in Tasks, Leave(t) PROVE GuardHasOwner'
  BY <1>8, NoneAssumption DEF Leave, Forget, ForgetAborting, Alive, ReleaseActive, Dropped,
     LinkAfter, NoActive, TypeOK, TasksOK, TaskOK, GuardHasOwner, Holders, HandlesOnce, Claiming
<1>9. ASSUME NEW t \in Tasks, Die(t) PROVE GuardHasOwner'
  BY <1>9, NoneAssumption DEF Die, Forget, ForgetAborting, Alive, ReleaseActive, Dropped,
     LinkAfter, NoActive, TypeOK, TasksOK, TaskOK, GuardHasOwner, Holders, HandlesOnce, Claiming
<1>10. ASSUME NEW d \in Devices, RevokeOne(d) PROVE GuardHasOwner'
  BY <1>10, NoneAssumption DEF RevokeOne, Abort, Alive, LinkAfter, CloseFor, NoActive, ids, times,
     TypeOK, TasksOK, TaskOK, GuardHasOwner, Holders, HandlesOnce, Claiming
<1>11. ASSUME NEW ok \in BOOLEAN, RevokeAll(ok) PROVE GuardHasOwner'
  BY <1>11, NoneAssumption DEF RevokeAll, LinkAfter, CloseFor, RotateKey, DropEverything, Abort,
     Alive, PairingTask, Parked, NoPairing, NoActive, ids, TypeOK, TasksOK, TaskOK, GuardHasOwner,
     Holders, HandlesOnce, Claiming
<1>12. ASSUME NEW t \in Tasks,
             Wait(t) \/ StopSeen(t) \/ DialOk(t) \/ DialFails(t) \/ BackoffEnds(t) \/
             HandshakeOk(t) \/ HandshakeFails(t) \/ Hello(t) \/ Greet(t) \/ GreetFails(t) \/
             GreetElapses(t) \/ EnrolRefused(t) \/ Admit(t) \/ Subscribe(t) \/ SessionEnds(t) \/
             Insert(t)
      PROVE  GuardHasOwner'
  BY <1>12 DEF Wait, host, sess, ids, times, StopSeen, DialOk, SetLink, DialFails, BackoffEnds,
     HandshakeOk, HandshakeFails, Hello, Greet, GreetFails, GreetElapses, EnrolRefused, Admit,
     Subscribe, SessionEnds, Insert, TypeOK, TasksOK, TaskOK, GuardHasOwner, Holders, HandlesOnce,
     Claiming
<1>13. ASSUME NEW t \in Tasks, NEW d \in Devices,
             DeviceInfo(t, d) \/ WireRevokeOne(t, d)
      PROVE  GuardHasOwner'
  BY <1>13 DEF DeviceInfo, host, times, WireRevokeOne, ids, TypeOK, TasksOK, TaskOK,
     GuardHasOwner, Holders, HandlesOnce, Claiming
<1>14. ASSUME NEW t \in Tasks, NEW n \in Tasks,
             EnrolFails(t, n) \/ SpawnRegistration(t, n)
      PROVE  GuardHasOwner'
  BY <1>14 DEF EnrolFails, sess, times, SpawnRegistration, host, TypeOK, TasksOK, TaskOK,
     GuardHasOwner, Holders, HandlesOnce, Claiming
<1>15. ASSUME 
             ReapPairing \/ ClosePairing \/ OpenPairingAgain \/ Stop
      PROVE  GuardHasOwner'
  BY <1>15 DEF ReapPairing, sess, ids, times, ClosePairing, OpenPairingAgain, host, Stop, TypeOK,
     TasksOK, TaskOK, GuardHasOwner, Holders, HandlesOnce, Claiming
<1>16. ASSUME NEW t \in Tasks, NEW h \in Handles, OpenPairing(t, h) PROVE GuardHasOwner'
  BY <1>16 DEF OpenPairing, TypeOK, TasksOK, TaskOK, GuardHasOwner, Holders, HandlesOnce, Claiming
<1>17. ASSUME NEW t \in Tasks, NEW ok \in BOOLEAN, WireRevokeAll(t, ok) PROVE GuardHasOwner'
  BY <1>17 DEF WireRevokeAll, RotateKey, ids, TypeOK, TasksOK, TaskOK, GuardHasOwner, Holders,
     HandlesOnce, Claiming
<1>18. ASSUME NEW h \in Handles, Elapse(h) PROVE GuardHasOwner'
  BY <1>18 DEF Elapse, host, sess, ids, TypeOK, TasksOK, TaskOK, GuardHasOwner, Holders,
     HandlesOnce, Claiming
<1>19. CASE UNCHANGED vars
  BY <1>19 DEF vars, TypeOK, TasksOK, TaskOK, GuardHasOwner, Holders, HandlesOnce, Claiming
<1>. QED
  BY <1>1, <1>2, <1>3, <1>4, <1>5, <1>6, <1>7, <1>8, <1>9, <1>10, <1>11, <1>12, <1>13, <1>14,
     <1>15, <1>16, <1>17, <1>18, <1>19 DEF Next, Command, Wire, Step, SessionClosed,
     SessionStopped

\* Every step keeps the status line true.
LEMMA LinkStep ==
    ASSUME TypeOK, TypeOK', TasksOK, LinkIsTrue, [Next]_vars
    PROVE  LinkIsTrue'
<1>1. ASSUME NEW t \in Tasks, DialFails(t) PROVE LinkIsTrue'
  BY <1>1, NoneAssumption DEF DialFails, Go, SetLink, NoActive, sess, ids, times, TypeOK, TasksOK,
     TaskOK, LinkIsTrue
<1>2. ASSUME NEW t \in Tasks, DialOk(t) PROVE LinkIsTrue'
  BY <1>2, NoneAssumption DEF DialOk, Go, SetLink, NoActive, sess, ids, times, SameStored, TypeOK,
     TasksOK, TaskOK, LinkIsTrue
<1>3. ASSUME NEW t \in Tasks, HandshakeFails(t) PROVE LinkIsTrue'
  BY <1>3, NoneAssumption DEF HandshakeFails, Go, SetLink, NoActive, sess, ids, times, SameStored,
     TypeOK, TasksOK, TaskOK, LinkIsTrue
<1>4. ASSUME NEW t \in Tasks, ClaimActive(t) PROVE LinkIsTrue'
  BY <1>4, NoneAssumption DEF ClaimActive, Go, NoActive, ids, times, TypeOK, TasksOK, TaskOK,
     LinkIsTrue
<1>5. ASSUME NEW t \in Tasks, Enrol(t) PROVE LinkIsTrue'
  <2>1. hnd[t] # None
    BY <1>5 DEF Enrol, TasksOK, TaskOK
  <2>2. active' # active => active # NoActive /\ active' # NoActive
    BY <1>5, <2>1 DEF Enrol, NoActive, TypeOK
  <2>. QED
    BY <1>5, <2>2 DEF Enrol, LinkIsTrue
<1>6. ASSUME NEW t \in Tasks, Release(t) PROVE LinkIsTrue'
  BY <1>6, NoneAssumption DEF Release, Go, ReleaseActive, Dropped, LinkAfter, NoActive, ids,
     times, TypeOK, TasksOK, TaskOK, LinkIsTrue
<1>7. ASSUME NEW t \in Tasks, Leave(t) PROVE LinkIsTrue'
  BY <1>7, NoneAssumption DEF Leave, Forget, ForgetAborting, Alive, ReleaseActive, Dropped,
     LinkAfter, NoActive, TypeOK, TasksOK, TaskOK, LinkIsTrue
<1>8. ASSUME NEW t \in Tasks, Die(t) PROVE LinkIsTrue'
  BY <1>8, NoneAssumption DEF Die, Forget, ForgetAborting, Alive, ReleaseActive, Dropped,
     LinkAfter, NoActive, TypeOK, TasksOK, TaskOK, LinkIsTrue
<1>9. ASSUME NEW t \in Tasks, NEW h \in Handles, OpenPairing(t, h) PROVE LinkIsTrue'
  BY <1>9, NoneAssumption DEF OpenPairing, Go, Abort, Alive, PairingTask, Live, Fresh, Unused,
     Subscribed, InSession, TypeOK, TasksOK, TaskOK, LinkIsTrue
<1>10. ASSUME Stop PROVE LinkIsTrue'
  BY <1>10, NoneAssumption DEF Stop, ids, Subscribed, InSession, TypeOK, TasksOK, TaskOK,
     LinkIsTrue
<1>11. ASSUME NEW d \in Devices, RevokeOne(d) PROVE LinkIsTrue'
  BY <1>11, NoneAssumption DEF RevokeOne, Abort, Alive, LinkAfter, CloseFor, NoActive, ids, times,
     TypeOK, TasksOK, TaskOK, LinkIsTrue
<1>12. ASSUME NEW ok \in BOOLEAN, RevokeAll(ok) PROVE LinkIsTrue'
  BY <1>12, NoneAssumption DEF RevokeAll, LinkAfter, CloseFor, RotateKey, DropEverything, Abort,
     Alive, PairingTask, Parked, NoPairing, NoActive, ids, TypeOK, TasksOK, TaskOK, LinkIsTrue
<1>13. ASSUME NEW t \in Tasks,
             Start(t) \/ TopRegistration(t) \/ TopPairing(t) \/ Wait(t) \/ StopSeen(t) \/
             BackoffEnds(t) \/ HandshakeOk(t) \/ HandshakeElapses(t) \/ Hello(t) \/ Greet(t) \/
             GreetFails(t) \/ GreetElapses(t) \/ EnrolRefused(t) \/ Admit(t) \/ Subscribe(t) \/
             SessionEnds(t) \/ Insert(t)
      PROVE  LinkIsTrue'
  BY <1>13 DEF Start, host, TopRegistration, ids, TopPairing, Wait, sess, times, StopSeen,
     BackoffEnds, HandshakeOk, HandshakeElapses, Hello, Greet, GreetFails, GreetElapses,
     EnrolRefused, Admit, Subscribe, SessionEnds, Insert, TypeOK, TasksOK, TaskOK, LinkIsTrue
<1>14. ASSUME NEW t \in Tasks, NEW d \in Devices,
             DeviceInfo(t, d) \/ WireRevokeOne(t, d)
      PROVE  LinkIsTrue'
  BY <1>14 DEF DeviceInfo, host, times, WireRevokeOne, ids, TypeOK, TasksOK, TaskOK, LinkIsTrue
<1>15. ASSUME NEW t \in Tasks, NEW n \in Tasks,
             EnrolFails(t, n) \/ SpawnRegistration(t, n)
      PROVE  LinkIsTrue'
  BY <1>15 DEF EnrolFails, sess, times, SpawnRegistration, host, TypeOK, TasksOK, TaskOK,
     LinkIsTrue
<1>16. ASSUME 
             ReapPairing \/ ClosePairing \/ OpenPairingAgain
      PROVE  LinkIsTrue'
  BY <1>16 DEF ReapPairing, sess, ids, times, ClosePairing, OpenPairingAgain, host, TypeOK,
     TasksOK, TaskOK, LinkIsTrue
<1>17. ASSUME NEW t \in Tasks, NEW ok \in BOOLEAN, WireRevokeAll(t, ok) PROVE LinkIsTrue'
  BY <1>17 DEF WireRevokeAll, RotateKey, ids, TypeOK, TasksOK, TaskOK, LinkIsTrue
<1>18. ASSUME NEW h \in Handles, Elapse(h) PROVE LinkIsTrue'
  BY <1>18 DEF Elapse, host, sess, ids, TypeOK, TasksOK, TaskOK, LinkIsTrue
<1>19. CASE UNCHANGED vars
  BY <1>19 DEF vars, TypeOK, TasksOK, TaskOK, LinkIsTrue
<1>. QED
  BY <1>1, <1>2, <1>3, <1>4, <1>5, <1>6, <1>7, <1>8, <1>9, <1>10, <1>11, <1>12, <1>13, <1>14,
     <1>15, <1>16, <1>17, <1>18, <1>19 DEF Next, Command, Wire, Step, SessionClosed,
     SessionStopped

\* Every step leaves each entry a loop that will serve it.
LEMMA EntryStep ==
    ASSUME TypeOK, TypeOK', TasksOK, LoopsKnown, PairingKnown, EveryEntryHasLoop, [Next]_vars
    PROVE  EveryEntryHasLoop'
<1>1. ASSUME NEW t \in Tasks,
             Wait(t) \/ StopSeen(t) \/ DialFails(t) \/ BackoffEnds(t) \/ HandshakeOk(t) \/
             Hello(t) \/ Greet(t) \/ GreetFails(t) \/ Subscribe(t) \/ SessionEnds(t)
      PROVE  EveryEntryHasLoop'
  BY <1>1, NoneAssumption DEF Wait, Go, host, sess, ids, times, StopSeen, DialFails, SetLink,
     NoActive, BackoffEnds, HandshakeOk, Hello, Greet, GreetFails, Subscribe, SessionEnds, TypeOK,
     TasksOK, TaskOK, LoopsKnown, LoopOf, PairingKnown, EveryEntryHasLoop, Serves, Late, After,
     PairingOnly
<1>2. ASSUME NEW t \in Tasks, Start(t) PROVE EveryEntryHasLoop'
  BY <1>2, NoneAssumption DEF Start, Forget, ForgetAborting, Alive, Go, host, TypeOK, TasksOK,
     TaskOK, LoopsKnown, LoopOf, PairingKnown, EveryEntryHasLoop, Serves, Late, After, PairingOnly
<1>3. ASSUME NEW t \in Tasks, TopRegistration(t) PROVE EveryEntryHasLoop'
  BY <1>3, NoneAssumption DEF TopRegistration, Forget, ForgetAborting, Alive, Go, host, ids,
     TypeOK, TasksOK, TaskOK, LoopsKnown, LoopOf, PairingKnown, EveryEntryHasLoop, Serves, Late,
     After, PairingOnly
<1>4. ASSUME NEW t \in Tasks, TopPairing(t) PROVE EveryEntryHasLoop'
  BY <1>4, NoneAssumption DEF TopPairing, ForgetAborting, Alive, Go, PairingTask, NoPairing, Live,
     TypeOK, TasksOK, TaskOK, LoopsKnown, LoopOf, PairingKnown, EveryEntryHasLoop, Serves, Late,
     After, PairingOnly
<1>5. ASSUME NEW t \in Tasks, DialOk(t) PROVE EveryEntryHasLoop'
  BY <1>5, NoneAssumption DEF DialOk, Go, SetLink, NoActive, sess, ids, times, SameStored, TypeOK,
     TasksOK, TaskOK, LoopsKnown, LoopOf, PairingKnown, EveryEntryHasLoop, Serves, Late, After,
     PairingOnly
<1>6. ASSUME NEW t \in Tasks, HandshakeFails(t) PROVE EveryEntryHasLoop'
  BY <1>6, NoneAssumption DEF HandshakeFails, Go, SetLink, NoActive, sess, ids, times, SameStored,
     TypeOK, TasksOK, TaskOK, LoopsKnown, LoopOf, PairingKnown, EveryEntryHasLoop, Serves, Late,
     After, PairingOnly
<1>7. ASSUME NEW t \in Tasks, HandshakeElapses(t) PROVE EveryEntryHasLoop'
  BY <1>7, NoneAssumption DEF HandshakeElapses, Forget, ForgetAborting, Alive, NoPairing,
     SameStored, TypeOK, TasksOK, TaskOK, LoopsKnown, LoopOf, PairingKnown, EveryEntryHasLoop,
     Serves, Late, After, PairingOnly
<1>8. ASSUME NEW t \in Tasks, ClaimActive(t) PROVE EveryEntryHasLoop'
  BY <1>8, NoneAssumption DEF ClaimActive, Go, NoActive, ids, times, TypeOK, TasksOK, TaskOK,
     LoopsKnown, LoopOf, PairingKnown, EveryEntryHasLoop, Serves, Late, After, PairingOnly
<1>9. ASSUME NEW t \in Tasks, GreetElapses(t) PROVE EveryEntryHasLoop'
  BY <1>9, NoneAssumption DEF GreetElapses, Go, NoPairing, ids, times, TypeOK, TasksOK, TaskOK,
     LoopsKnown, LoopOf, PairingKnown, EveryEntryHasLoop, Serves, Late, After, PairingOnly
<1>10. ASSUME NEW t \in Tasks, NEW d \in Devices, DeviceInfo(t, d) PROVE EveryEntryHasLoop'
  BY <1>10, NoneAssumption DEF DeviceInfo, Go, host, times, TypeOK, TasksOK, TaskOK, LoopsKnown,
     LoopOf, PairingKnown, EveryEntryHasLoop, Serves, Late, After, PairingOnly
<1>11. ASSUME NEW t \in Tasks, Enrol(t) PROVE EveryEntryHasLoop'
  <2>1. kind[t] = "pairing" /\ dev[t] \in Devices
    BY <1>11 DEF Enrol, TasksOK, TaskOK, PairingOnly, WithDevice, TypeOK, Kinds
  <2>2. t \notin aborted
    BY <1>11, <2>1 DEF Enrol, MayEnrol, PairingKnown, Late
  <2>3. \A u \in Tasks : u \in aborted' /\ u \notin aborted =>
           u = registrations[dev[t]] /\ kind[u] # "pairing"
                /\ (kind[u] = "registration" => dev[u] = dev[t])
    BY <1>11, <2>1 DEF Enrol, Abort, LoopsKnown, LoopOf, TypeOK
  <2>4. ASSUME NEW d \in Devices, d = dev[t] PROVE Serves(t, d)'
    BY <1>11, <2>1, <2>2, <2>3, <2>4 DEF Enrol, Go, Serves, ids, TypeOK
  <2>5. ASSUME NEW d \in Devices, d # dev[t], store[d] # None
        PROVE  \E u \in Tasks : Serves(u, d)'
    <3>1. PICK u \in Tasks : Serves(u, d)
      BY <2>5 DEF EveryEntryHasLoop
    <3>2. u \notin aborted'
      BY <2>3, <2>5, <3>1 DEF Serves
    <3>3. u # t
      BY <2>5, <3>1 DEF Serves
    <3>. QED
      BY <1>11, <2>5, <3>1, <3>2, <3>3 DEF Enrol, Go, Serves, ids, TypeOK
  <2>6. ASSUME NEW d \in Devices, store'[d] # None PROVE \E u \in Tasks : Serves(u, d)'
    BY <1>11, <2>4, <2>5, <2>6 DEF Enrol, TypeOK
  <2>. QED
    BY <2>6 DEF EveryEntryHasLoop
<1>12. ASSUME NEW t \in Tasks, EnrolRefused(t) PROVE EveryEntryHasLoop'
  BY <1>12, NoneAssumption DEF EnrolRefused, Go, host, sess, times, MayEnrol, Live, TypeOK,
     TasksOK, TaskOK, LoopsKnown, LoopOf, PairingKnown, EveryEntryHasLoop, Serves, Late, After,
     PairingOnly
<1>13. ASSUME NEW t \in Tasks, NEW n \in Tasks, EnrolFails(t, n) PROVE EveryEntryHasLoop'
  BY <1>13, NoneAssumption DEF EnrolFails, Go, Abort, Alive, Spawn, Unused, PairingTask, sess,
     times, MayEnrol, Live, TypeOK, TasksOK, TaskOK, LoopsKnown, LoopOf, PairingKnown,
     EveryEntryHasLoop, Serves, Late, After, PairingOnly
<1>14. ASSUME NEW t \in Tasks, Admit(t) PROVE EveryEntryHasLoop'
  BY <1>14, NoneAssumption DEF Admit, Go, Dropped, ids, times, TypeOK, TasksOK, TaskOK,
     LoopsKnown, LoopOf, PairingKnown, EveryEntryHasLoop, Serves, Late, After, PairingOnly
<1>15. ASSUME NEW t \in Tasks, NEW n \in Tasks, SpawnRegistration(t, n) PROVE EveryEntryHasLoop'
  BY <1>15, NoneAssumption DEF SpawnRegistration, Go, Spawn, Unused, PairingTask, host, sess,
     times, TypeOK, TasksOK, TaskOK, LoopsKnown, LoopOf, PairingKnown, EveryEntryHasLoop, Serves,
     Late, After, PairingOnly
<1>16. ASSUME NEW t \in Tasks, Insert(t) PROVE EveryEntryHasLoop'
  BY <1>16, NoneAssumption DEF Insert, Go, sess, times, TypeOK, TasksOK, TaskOK, LoopsKnown,
     LoopOf, PairingKnown, EveryEntryHasLoop, Serves, Late, After, PairingOnly
<1>17. ASSUME NEW t \in Tasks, Release(t) PROVE EveryEntryHasLoop'
  BY <1>17, NoneAssumption DEF Release, Go, ReleaseActive, Dropped, LinkAfter, NoActive, ids,
     times, TypeOK, TasksOK, TaskOK, LoopsKnown, LoopOf, PairingKnown, EveryEntryHasLoop, Serves,
     Late, After, PairingOnly
<1>18. ASSUME NEW t \in Tasks, Leave(t) PROVE EveryEntryHasLoop'
  BY <1>18, NoneAssumption DEF Leave, Forget, ForgetAborting, Alive, ReleaseActive, Dropped,
     LinkAfter, NoActive, TypeOK, TasksOK, TaskOK, LoopsKnown, LoopOf, PairingKnown,
     EveryEntryHasLoop, Serves, Late, After, PairingOnly
<1>19. ASSUME NEW t \in Tasks, Die(t) PROVE EveryEntryHasLoop'
  BY <1>19, NoneAssumption DEF Die, Forget, ForgetAborting, Alive, ReleaseActive, Dropped,
     LinkAfter, NoActive, TypeOK, TasksOK, TaskOK, LoopsKnown, LoopOf, PairingKnown,
     EveryEntryHasLoop, Serves, Late, After, PairingOnly
<1>20. ASSUME ReapPairing PROVE EveryEntryHasLoop'
  BY <1>20, NoneAssumption DEF ReapPairing, Abort, Alive, PairingTask, NoPairing, sess, ids,
     times, Live, TypeOK, TasksOK, TaskOK, LoopsKnown, LoopOf, PairingKnown, EveryEntryHasLoop,
     Serves, Late, After, PairingOnly
<1>21. ASSUME ClosePairing PROVE EveryEntryHasLoop'
  BY <1>21, NoneAssumption DEF ClosePairing, Abort, Alive, PairingTask, NoPairing, sess, ids,
     times, TypeOK, TasksOK, TaskOK, LoopsKnown, LoopOf, PairingKnown, EveryEntryHasLoop, Serves,
     Late, After, PairingOnly
<1>22. ASSUME NEW t \in Tasks, NEW h \in Handles, OpenPairing(t, h) PROVE EveryEntryHasLoop'
  BY <1>22, NoneAssumption DEF OpenPairing, Go, Abort, Alive, PairingTask, Live, Fresh, Unused,
     Subscribed, InSession, TypeOK, TasksOK, TaskOK, LoopsKnown, LoopOf, PairingKnown,
     EveryEntryHasLoop, Serves, Late, After, PairingOnly
<1>23. ASSUME NEW d \in Devices, RevokeOne(d) PROVE EveryEntryHasLoop'
  BY <1>23, NoneAssumption DEF RevokeOne, Abort, Alive, LinkAfter, CloseFor, NoActive, ids, times,
     TypeOK, TasksOK, TaskOK, LoopsKnown, LoopOf, PairingKnown, EveryEntryHasLoop, Serves, Late,
     After, PairingOnly
<1>24. ASSUME NEW ok \in BOOLEAN, RevokeAll(ok) PROVE EveryEntryHasLoop'
  BY <1>24, NoneAssumption DEF RevokeAll, LinkAfter, CloseFor, RotateKey, DropEverything, Abort,
     Alive, PairingTask, Parked, NoPairing, NoActive, ids, TypeOK, TasksOK, TaskOK, LoopsKnown,
     LoopOf, PairingKnown, EveryEntryHasLoop, Serves, Late, After, PairingOnly
<1>25. ASSUME NEW t \in Tasks, NEW d \in Devices, WireRevokeOne(t, d) PROVE EveryEntryHasLoop'
  BY <1>25, NoneAssumption DEF WireRevokeOne, Abort, Alive, CloseFor, ids, times, Threaded,
     TypeOK, TasksOK, TaskOK, LoopsKnown, LoopOf, PairingKnown, EveryEntryHasLoop, Serves, Late,
     After, PairingOnly
<1>26. ASSUME NEW t \in Tasks, NEW ok \in BOOLEAN, WireRevokeAll(t, ok) PROVE EveryEntryHasLoop'
  BY <1>26, NoneAssumption DEF WireRevokeAll, CloseFor, RotateKey, DropEverything, Abort, Alive,
     PairingTask, Parked, NoPairing, ids, Threaded, TypeOK, TasksOK, TaskOK, LoopsKnown, LoopOf,
     PairingKnown, EveryEntryHasLoop, Serves, Late, After, PairingOnly
<1>27. ASSUME 
             OpenPairingAgain \/ Stop
      PROVE  EveryEntryHasLoop'
  BY <1>27 DEF OpenPairingAgain, host, sess, ids, Stop, TypeOK, TasksOK, TaskOK, LoopsKnown,
     LoopOf, PairingKnown, EveryEntryHasLoop, Serves, Late, After, PairingOnly
<1>28. ASSUME NEW h \in Handles, Elapse(h) PROVE EveryEntryHasLoop'
  BY <1>28 DEF Elapse, host, sess, ids, TypeOK, TasksOK, TaskOK, LoopsKnown, LoopOf, PairingKnown,
     EveryEntryHasLoop, Serves, Late, After, PairingOnly
<1>29. CASE UNCHANGED vars
  BY <1>29 DEF vars, TypeOK, TasksOK, TaskOK, LoopsKnown, LoopOf, PairingKnown, EveryEntryHasLoop,
     Serves, Late, After, PairingOnly
<1>. QED
  BY <1>1, <1>2, <1>3, <1>4, <1>5, <1>6, <1>7, <1>8, <1>9, <1>10, <1>11, <1>12, <1>13, <1>14,
     <1>15, <1>16, <1>17, <1>18, <1>19, <1>20, <1>21, <1>22, <1>23, <1>24, <1>25, <1>26, <1>27,
     <1>28, <1>29 DEF Next, Command, Wire, Step, SessionClosed, SessionStopped

-----------------------------------------------------------------------------
(* The invariant.                                                           *)

\* The process starts with one recorded loop per entry, nobody connected.
LEMMA BridgeInvInit == Init => BridgeInv /\ ServedOK
<1> SUFFICES ASSUME Init PROVE BridgeInv /\ ServedOK
  OBVIOUS
<1>1. TypeOK
  <2>1. pairing \in Pairings
    BY PairingsTyped DEF Init
  <2>2. active \in [dev : Devices \cup {None}, handle : Handles \cup {None}]
    BY DEF Init, NoActive
  <2>3. kind \in [Tasks -> Kinds] /\ pc \in [Tasks -> Pcs]
    BY DEF Init, Kinds, Pcs
  <2>. QED
    BY <2>1, <2>2, <2>3 DEF Init, TypeOK, Pairings
<1>2. TasksOK
  BY NoneAssumption DEF Init, TasksOK, TaskOK, Claiming, WithDevice, PairingOnly
<1>3. ASSUME NEW d \in Devices, registrations[d] # None
      PROVE  /\ registrations[d] \in Tasks /\ kind[registrations[d]] = "registration"
             /\ dev[registrations[d]] = d /\ pc[registrations[d]] = "start"
  <2>1. registrations[d] \in Tasks /\ store[d] # None
    BY <1>3 DEF Init
  <2>2. kind[registrations[d]] = "registration" /\ pc[registrations[d]] = "start"
    BY <2>1 DEF Init
  <2>3. dev[registrations[d]] \in Devices /\ registrations[dev[registrations[d]]] = registrations[d]
    BY <2>1, <2>2 DEF Init
  <2>. QED
    BY <2>1, <2>2, <2>3 DEF Init
<1>4. LoopsKnown
  BY <1>3 DEF Init, LoopsKnown, LoopOf
<1>5. PairingKnown
  BY BoundAssumption DEF Init, PairingKnown, NoPairing
<1>6. HandlesOnce
  BY DEF Init, HandlesOnce, NoActive
<1>7. GuardHeld /\ ServedOK /\ GuardHasOwner /\ LinkIsTrue
  BY DEF Init, GuardHeld, ServedOK, GuardHasOwner, LinkIsTrue
<1>8. EveryEntryHasLoop
  <2>1. ASSUME NEW d \in Devices, store[d] # None PROVE \E t \in Tasks : Serves(t, d)
    <3>1. registrations[d] # None
      BY <2>1 DEF Init
    <3>. QED
      BY <1>3, <3>1 DEF Init, Serves
  <2>. QED
    BY <2>1 DEF EveryEntryHasLoop
<1>. QED
  BY <1>1, <1>2, <1>4, <1>5, <1>6, <1>7, <1>8 DEF BridgeInv, Typed, Guarded

\* Every step keeps the invariant.
LEMMA BridgeInvStep == BridgeInv /\ [Next]_vars => BridgeInv'
<1> SUFFICES ASSUME BridgeInv, [Next]_vars PROVE BridgeInv'
  OBVIOUS
<1> USE DEF BridgeInv, Typed, Guarded
<1>1. TypeOK'              BY TypeStep
<1>2. TasksOK'             BY <1>1, TasksStep
<1>3. LoopsKnown'          BY <1>1, LoopsStep
<1>4. PairingKnown'        BY <1>1, PairingStep
<1>5. HandlesOnce'         BY <1>1, HandlesStep
<1>6. GuardHeld'           BY <1>1, GuardStep
<1>7. GuardHasOwner'       BY <1>1, OwnerStep
<1>8. LinkIsTrue'          BY <1>1, LinkStep
<1>9. EveryEntryHasLoop'   BY <1>1, EntryStep
<1>. QED
  BY <1>1, <1>2, <1>3, <1>4, <1>5, <1>6, <1>7, <1>8, <1>9

\* The state of the bridge keeps its type; a phrase never counts more than
\* MAX_ATTEMPTS failed handshakes, whoever reports them.
THEOREM TypeCorrect == Spec => []TypeOK
<1>1. BridgeInv => TypeOK
  BY DEF BridgeInv, Typed
<1>. QED
  BY <1>1, BridgeInvInit, BridgeInvStep, PTL DEF Spec

\* ActiveClaim: whatever is revoked, aborted or replaced, the guard of the
\* active session never outlives the claim of a task on its handle.
THEOREM GuardIsOwned == Spec => []GuardHasOwner
<1>1. BridgeInv => GuardHasOwner
  BY DEF BridgeInv
<1>. QED
  BY <1>1, BridgeInvInit, BridgeInvStep, PTL DEF Spec

\* R-10-064: the status line says stopped exactly when the bridge is, connected
\* only with a session behind the guard and offline only without.
THEOREM StatusIsTrue == Spec => []LinkIsTrue
<1>1. BridgeInv => LinkIsTrue
  BY DEF BridgeInv
<1>. QED
  BY <1>1, BridgeInvInit, BridgeInvStep, PTL DEF Spec

\* R-10-068: every entry of the list has a registration loop that has not been
\* aborted, or the pairing loop that enrolled it and will start one.
THEOREM EntriesAreServed == Spec => []EveryEntryHasLoop
<1>1. BridgeInv => EveryEntryHasLoop
  BY DEF BridgeInv
<1>. QED
  BY <1>1, BridgeInvInit, BridgeInvStep, PTL DEF Spec

-----------------------------------------------------------------------------
(* The refinement.                                                          *)

Enrolled == {<<d, store[d]>> : d \in {e \in Devices : store[e] # None}}
Serving  == {<<dev[t], hnd[t]>> : t \in {u \in Tasks : Served(u)}}

\* A served session is under a listed handle, which makes its claim the only
\* claim on any handle in use.
LEMMA OneServed ==
    ASSUME BridgeInv, ServedOK, NEW t \in Tasks, Served(t)
    PROVE  /\ dev[t] \in Devices /\ hnd[t] \in Handles /\ hnd[t] = store[dev[t]]
           /\ registry[hnd[t]] = t
           /\ \A u \in claims : InUse(hnd[u]) => u = t
           /\ \A u \in Tasks : Served(u) => u = t
<1>1. /\ dev[t] \in Devices /\ hnd[t] \in Handles /\ hnd[t] = store[dev[t]]
      /\ registry[hnd[t]] = t /\ t \in claims
  BY DEF BridgeInv, Typed, TypeOK, TasksOK, TaskOK, WithDevice, Claiming, Served, ServedOK
<1>2. InUse(hnd[t])
  BY <1>1 DEF InUse
<1>3. \A u \in claims : InUse(hnd[u]) => u = t
  BY <1>1, <1>2 DEF BridgeInv, Guarded, GuardHeld
<1>4. ASSUME NEW u \in Tasks, Served(u) PROVE u = t
  <2>1. u \in claims /\ dev[u] \in Devices /\ hnd[u] = store[dev[u]]
    BY <1>4 DEF BridgeInv, Typed, TypeOK, TasksOK, TaskOK, WithDevice, Claiming, Served, ServedOK
  <2>. QED
    BY <1>3, <2>1 DEF InUse
<1>. QED
  BY <1>1, <1>3, <1>4

\* What most steps do to the list and to the sessions: nothing, except that a
\* session may end.
Quiet ==
    /\ UNCHANGED store
    /\ \A u \in Tasks : Served(u)' => Served(u) /\ dev'[u] = dev[u] /\ hnd'[u] = hnd[u]

\* Such a step is a hangup or nothing.
LEMMA QuietRefines ==
    ASSUME BridgeInv, ServedOK, Quiet
    PROVE  [Access!AccessNext]_(Access!accessVars)
<1>1. Enrolled' = Enrolled
  BY DEF Quiet, Enrolled
<1>2. CASE \E t \in Tasks : Served(t)'
  <2>1. PICK t \in Tasks : Served(t)'
    BY <1>2
  <2>2. Served(t) /\ dev'[t] = dev[t] /\ hnd'[t] = hnd[t]
    BY <2>1 DEF Quiet
  <2>3. \A u \in Tasks : Served(u) <=> u = t
    BY <2>2, OneServed
  <2>4. \A u \in Tasks : Served(u)' <=> u = t
    BY <2>1, <2>3 DEF Quiet
  <2>5. Serving' = {<<dev'[t], hnd'[t]>>} /\ Serving = {<<dev[t], hnd[t]>>}
    BY <2>3, <2>4 DEF Serving
  <2>. QED
    BY <1>1, <2>2, <2>5 DEF Access!accessVars, Enrolled, Serving
<1>3. CASE ~ \E t \in Tasks : Served(t)'
  <2>1. Serving' = {}
    BY <1>3 DEF Serving
  <2>. QED
    BY <1>1, <2>1 DEF Access!AccessNext, Access!Hangup, Enrolled, Serving
<1>. QED
  BY <1>2, <1>3

\* Under one lock the entries of D go and their sessions are told to close.
LEMMA RevocationRefines ==
    ASSUME BridgeInv, ServedOK, NEW D \in SUBSET Devices, CloseFor(D), UNCHANGED <<ids, pc>>,
           store' = [d \in Devices |-> IF d \in D THEN None ELSE store[d]]
    PROVE  Access!AccessNext
<1> DEFINE S == {<<d, store[d]>> : d \in {e \in D : store[e] # None}}
<1>1. S \in SUBSET Enrolled
  BY DEF Enrolled
<1>2. Enrolled' = Enrolled \ S
  BY DEF Enrolled
<1>3. \A t \in Tasks : Served(t)' <=> Served(t) /\ dev[t] \notin D
  <2> SUFFICES ASSUME NEW t \in Tasks PROVE Served(t)' <=> Served(t) /\ dev[t] \notin D
    OBVIOUS
  <2>1. Served(t) => registry[hnd[t]] = t /\ hnd[t] \in Handles
    BY OneServed
  <2>2. closing'[t] = IF \E h \in Handles : /\ registry[h] # None /\ dev[registry[h]] \in D
                                            /\ registry[h] = t
                      THEN "revoked" ELSE closing[t]
    BY DEF CloseFor
  <2>3. pc'[t] = pc[t] /\ t # None
    BY NoneAssumption
  <2>. QED
    BY <2>1, <2>2, <2>3 DEF Served
<1>4. Serving' = Serving \ S
  <2>1. ASSUME NEW t \in Tasks, Served(t) PROVE dev[t] \in D <=> <<dev[t], hnd[t]>> \in S
    <3>1. dev[t] \in Devices /\ hnd[t] = store[dev[t]] /\ hnd[t] # None
      BY <2>1, OneServed, NoneAssumption
    <3>. QED
      BY <3>1
  <2>2. UNCHANGED <<dev, hnd>>
    BY DEF ids
  <2>. QED
    BY <1>3, <2>1, <2>2 DEF Serving
<1>. QED
  BY <1>1, <1>2, <1>4 DEF Access!AccessNext, Access!Revoke, Enrolled, Serving

\* A session starts at its subscription, and under a credential that is listed.
LEMMA SubscribeRefines ==
    ASSUME BridgeInv, ServedOK, NEW t \in Tasks, Subscribe(t)
    PROVE  [Access!AccessNext]_(Access!accessVars)
<1>1. UNCHANGED <<store, dev, hnd, closing>> /\ pc' = [pc EXCEPT ![t] = "serving"]
  BY DEF Subscribe, Go, host, ids, sess
<1>2. CASE closing[t] # "none"
  <2>1. Quiet
    BY <1>1, <1>2 DEF Quiet, Served, BridgeInv, Typed, TypeOK
  <2>. QED
    BY <2>1, QuietRefines
<1>3. CASE closing[t] = "none"
  <2>1. /\ dev[t] \in Devices /\ hnd[t] \in Handles /\ hnd[t] = store[dev[t]] /\ t \in claims
        /\ hnd[t] # None
    BY <1>3 DEF Subscribe, BridgeInv, Typed, TypeOK, TasksOK, TaskOK, WithDevice, Claiming, ServedOK
  <2>2. \A u \in Tasks : ~Served(u)
    <3>1. ASSUME NEW u \in Tasks, Served(u) PROVE FALSE
      <4>1. t = u
        BY <2>1, <3>1, OneServed DEF InUse
      <4>. QED
        BY <3>1, <4>1 DEF Subscribe, Served
    <3>. QED
      BY <3>1
  <2>3. \A u \in Tasks : Served(u)' <=> u = t
    BY <1>1, <1>3, <2>2 DEF Served, BridgeInv, Typed, TypeOK
  <2>4. Serving = {} /\ Serving' = {<<dev[t], hnd[t]>>}
    BY <1>1, <2>2, <2>3 DEF Serving
  <2>5. <<dev[t], hnd[t]>> \in Enrolled /\ Enrolled' = Enrolled
    BY <1>1, <2>1 DEF Enrolled
  <2>6. PICK c \in Access!Credentials : c = <<dev[t], hnd[t]>>
    BY <2>1 DEF Access!Credentials
  <2>7. Access!Serve(c)
    BY <2>4, <2>5, <2>6 DEF Access!Serve, Enrolled, Serving
  <2>. QED
    BY <2>7 DEF Access!AccessNext
<1>. QED
  BY <1>2, <1>3

\* An enrolment holds a claim on the pairing's handle, so nobody is served.
LEMMA EnrolRefines ==
    ASSUME BridgeInv, ServedOK, NEW t \in Tasks, Enrol(t)
    PROVE  Access!AccessNext
<1>1. /\ t \in claims /\ dev[t] \in Devices /\ hnd[t] \in Handles
      /\ hnd[t] = pairing.handle
  BY DEF Enrol, MayEnrol, BridgeInv, Typed, TypeOK, TasksOK, TaskOK, WithDevice, Claiming
<1>2. ASSUME NEW u \in Tasks, Served(u) PROVE FALSE
  <2>1. u = t
    BY <1>1, <1>2, OneServed DEF InUse
  <2>. QED
    BY <1>2, <2>1 DEF Served, Enrol
<1>3. UNCHANGED closing /\ pc' = [pc EXCEPT ![t] = "admit"]
  BY DEF Enrol, Go, sess
<1>4. ASSUME NEW u \in Tasks, Served(u)' PROVE FALSE
  BY <1>2, <1>3, <1>4 DEF Served, BridgeInv, Typed, TypeOK
<1>5. Serving = {} /\ Serving' = {}
  BY <1>2, <1>4 DEF Serving
<1>6. PICK c \in Access!Credentials : c = <<dev[t], hnd[t]>>
  BY <1>1 DEF Access!Credentials
<1>7. \A e \in Enrolled : e[1] # c[1] => e[2] # c[2]
  BY <1>1, <1>6 DEF Enrolled, BridgeInv, Typed, PairingKnown
<1>8. Enrolled' = {e \in Enrolled : e[1] # c[1]} \cup {c}
  <2>1. store' = [store EXCEPT ![dev[t]] = hnd[t]] /\ hnd[t] # None
    BY <1>1, NoneAssumption DEF Enrol
  <2>2. \A d \in Devices : store'[d] = IF d = dev[t] THEN hnd[t] ELSE store[d]
    BY <2>1 DEF BridgeInv, Typed, TypeOK
  <2>. QED
    BY <1>1, <1>6, <2>1, <2>2 DEF Enrolled
<1>9. Access!Enrolment(c)
  BY <1>5, <1>7, <1>8 DEF Access!Enrolment, Enrolled, Serving
<1>. QED
  BY <1>9 DEF Access!AccessNext

\* Every step is one of PairedAccess, or none.
LEMMA AccessStep ==
    ASSUME "wire" \notin RotateFails, BridgeInv, BridgeInv', ServedOK, [Next]_vars
    PROVE  [Access!AccessNext]_(Access!accessVars)
<1>1. ASSUME NEW t \in Tasks, Start(t) PROVE Quiet
  BY <1>1 DEF Start, Forget, ForgetAborting, Go, host, Quiet, Served, BridgeInv, Typed, TypeOK,
     TasksOK, TaskOK
<1>2. ASSUME NEW t \in Tasks, TopRegistration(t) PROVE Quiet
  BY <1>2 DEF TopRegistration, Forget, ForgetAborting, Go, host, ids, Quiet, Served, BridgeInv,
     Typed, TypeOK, TasksOK, TaskOK
<1>3. ASSUME NEW t \in Tasks, TopPairing(t) PROVE Quiet
  BY <1>3 DEF TopPairing, ForgetAborting, Go, Quiet, Served, BridgeInv, Typed, TypeOK, TasksOK,
     TaskOK
<1>4. ASSUME NEW t \in Tasks, Wait(t) PROVE Quiet
  BY <1>4 DEF Wait, Go, host, sess, ids, times, Quiet, Served, BridgeInv, Typed, TypeOK, TasksOK,
     TaskOK
<1>5. ASSUME NEW t \in Tasks, StopSeen(t) PROVE Quiet
  BY <1>5 DEF StopSeen, Go, host, sess, ids, times, Quiet, Served, BridgeInv, Typed, TypeOK,
     TasksOK, TaskOK
<1>6. ASSUME NEW t \in Tasks, DialOk(t) PROVE Quiet
  BY <1>6 DEF DialOk, Go, sess, ids, times, Quiet, Served, BridgeInv, Typed, TypeOK, TasksOK,
     TaskOK
<1>7. ASSUME NEW t \in Tasks, DialFails(t) PROVE Quiet
  BY <1>7 DEF DialFails, Go, sess, ids, times, Quiet, Served, BridgeInv, Typed, TypeOK, TasksOK,
     TaskOK
<1>8. ASSUME NEW t \in Tasks, BackoffEnds(t) PROVE Quiet
  BY <1>8 DEF BackoffEnds, Go, host, sess, ids, times, Quiet, Served, BridgeInv, Typed, TypeOK,
     TasksOK, TaskOK
<1>9. ASSUME NEW t \in Tasks, HandshakeOk(t) PROVE Quiet
  BY <1>9 DEF HandshakeOk, Go, host, sess, ids, times, Quiet, Served, BridgeInv, Typed, TypeOK,
     TasksOK, TaskOK
<1>10. ASSUME NEW t \in Tasks, HandshakeFails(t) PROVE Quiet
  BY <1>10 DEF HandshakeFails, Go, sess, ids, times, Quiet, Served, BridgeInv, Typed, TypeOK,
     TasksOK, TaskOK
<1>11. ASSUME NEW t \in Tasks, HandshakeElapses(t) PROVE Quiet
  BY <1>11 DEF HandshakeElapses, Forget, ForgetAborting, Quiet, Served, BridgeInv, Typed, TypeOK,
     TasksOK, TaskOK
<1>12. ASSUME NEW t \in Tasks, ClaimActive(t) PROVE Quiet
  BY <1>12 DEF ClaimActive, Go, ids, times, Quiet, Served, BridgeInv, Typed, TypeOK, TasksOK,
     TaskOK
<1>13. ASSUME NEW t \in Tasks, Hello(t) PROVE Quiet
  BY <1>13 DEF Hello, Go, host, sess, ids, times, Quiet, Served, BridgeInv, Typed, TypeOK,
     TasksOK, TaskOK
<1>14. ASSUME NEW t \in Tasks, Greet(t) PROVE Quiet
  BY <1>14 DEF Greet, Go, host, sess, ids, times, Quiet, Served, BridgeInv, Typed, TypeOK,
     TasksOK, TaskOK
<1>15. ASSUME NEW t \in Tasks, GreetFails(t) PROVE Quiet
  BY <1>15 DEF GreetFails, Go, host, ids, times, Quiet, Served, BridgeInv, Typed, TypeOK, TasksOK,
     TaskOK
<1>16. ASSUME NEW t \in Tasks, GreetElapses(t) PROVE Quiet
  BY <1>16 DEF GreetElapses, Go, ids, times, Quiet, Served, BridgeInv, Typed, TypeOK, TasksOK,
     TaskOK
<1>17. ASSUME NEW t \in Tasks, NEW d \in Devices, DeviceInfo(t, d) PROVE Quiet
  BY <1>17 DEF DeviceInfo, Go, host, times, Quiet, Served, BridgeInv, Typed, TypeOK, TasksOK,
     TaskOK
<1>18. ASSUME NEW t \in Tasks, EnrolRefused(t) PROVE Quiet
  BY <1>18 DEF EnrolRefused, Go, host, sess, times, Quiet, Served, BridgeInv, Typed, TypeOK,
     TasksOK, TaskOK
<1>19. ASSUME NEW t \in Tasks, NEW n \in Tasks, EnrolFails(t, n) PROVE Quiet
  BY <1>19 DEF EnrolFails, Go, Spawn, sess, times, Quiet, Served, BridgeInv, Typed, TypeOK,
     TasksOK, TaskOK
<1>20. ASSUME NEW t \in Tasks, Admit(t) PROVE Quiet
  BY <1>20 DEF Admit, Go, Dropped, ids, times, Quiet, Served, BridgeInv, Typed, TypeOK, TasksOK,
     TaskOK
<1>21. ASSUME NEW t \in Tasks, SessionEnds(t) PROVE Quiet
  BY <1>21 DEF SessionEnds, Go, host, ids, times, Quiet, Served, BridgeInv, Typed, TypeOK,
     TasksOK, TaskOK
<1>22. ASSUME NEW t \in Tasks, NEW n \in Tasks, SpawnRegistration(t, n) PROVE Quiet
  BY <1>22 DEF SpawnRegistration, Go, Spawn, host, sess, times, Quiet, Served, BridgeInv, Typed,
     TypeOK, TasksOK, TaskOK
<1>23. ASSUME NEW t \in Tasks, Insert(t) PROVE Quiet
  BY <1>23 DEF Insert, Go, sess, times, Quiet, Served, BridgeInv, Typed, TypeOK, TasksOK, TaskOK
<1>24. ASSUME NEW t \in Tasks, Release(t) PROVE Quiet
  BY <1>24 DEF Release, Go, ReleaseActive, Dropped, ids, times, Quiet, Served, BridgeInv, Typed,
     TypeOK, TasksOK, TaskOK
<1>25. ASSUME NEW t \in Tasks, Leave(t) PROVE Quiet
  BY <1>25 DEF Leave, Forget, ForgetAborting, ReleaseActive, Dropped, Quiet, Served, BridgeInv,
     Typed, TypeOK, TasksOK, TaskOK
<1>26. ASSUME NEW t \in Tasks, Die(t) PROVE Quiet
  <2>1. UNCHANGED store /\ Forget(t)
    BY <1>26 DEF Die
  <2>2. \A u \in Tasks : closing'[u] = "none" => closing[u] = "none" \/ u = t
    BY <1>26 DEF Die, ReleaseActive, Dropped, BridgeInv, Typed, TypeOK
  <2>3. \A u \in Tasks : u # t => pc'[u] = pc[u] /\ dev'[u] = dev[u] /\ hnd'[u] = hnd[u]
    BY <2>1 DEF Forget, ForgetAborting, BridgeInv, Typed, TypeOK
  <2>4. pc'[t] = "free"
    BY <2>1 DEF Forget, ForgetAborting, BridgeInv, Typed, TypeOK
  <2>. QED
    BY <2>1, <2>2, <2>3, <2>4 DEF Quiet, Served
<1>27. ASSUME ReapPairing PROVE Quiet
  BY <1>27 DEF ReapPairing, sess, ids, times, Quiet, Served, BridgeInv, Typed, TypeOK, TasksOK,
     TaskOK
<1>28. ASSUME ClosePairing PROVE Quiet
  BY <1>28 DEF ClosePairing, sess, ids, times, Quiet, Served, BridgeInv, Typed, TypeOK, TasksOK,
     TaskOK
<1>29. ASSUME OpenPairingAgain PROVE Quiet
  BY <1>29 DEF OpenPairingAgain, host, sess, ids, Quiet, Served, BridgeInv, Typed, TypeOK,
     TasksOK, TaskOK
<1>30. ASSUME NEW t \in Tasks, NEW h \in Handles, OpenPairing(t, h) PROVE Quiet
  BY <1>30 DEF OpenPairing, Go, Quiet, Served, BridgeInv, Typed, TypeOK, TasksOK, TaskOK
<1>31. ASSUME Stop PROVE Quiet
  BY <1>31 DEF Stop, ids, Quiet, Served, BridgeInv, Typed, TypeOK, TasksOK, TaskOK
<1>32. ASSUME NEW h \in Handles, Elapse(h) PROVE Quiet
  BY <1>32 DEF Elapse, host, sess, ids, Quiet, Served, BridgeInv, Typed, TypeOK, TasksOK, TaskOK
<1>33. ASSUME NEW d \in Devices, RevokeOne(d) PROVE Access!AccessNext
  BY <1>33, RevocationRefines DEF RevokeOne, BridgeInv, Typed, TypeOK
<1>34. ASSUME NEW ok \in BOOLEAN, RevokeAll(ok) PROVE Access!AccessNext
  BY <1>34, RevocationRefines DEF RevokeAll, BridgeInv, Typed, TypeOK
<1>35. ASSUME NEW t \in Tasks, NEW d \in Devices, WireRevokeOne(t, d) PROVE Access!AccessNext
  BY <1>35, RevocationRefines DEF WireRevokeOne, BridgeInv, Typed, TypeOK
<1>36. ASSUME NEW t \in Tasks, NEW ok \in BOOLEAN, WireRevokeAll(t, ok) PROVE Access!AccessNext
  BY <1>36, RevocationRefines DEF WireRevokeAll, BridgeInv, Typed, TypeOK
<1>37. ASSUME UNCHANGED vars PROVE Quiet
  BY <1>37 DEF vars, Quiet, Served
<1>. QED
  BY <1>1, <1>2, <1>3, <1>4, <1>5, <1>6, <1>7, <1>8, <1>9, <1>10, <1>11, <1>12, <1>13, <1>14,
     <1>15, <1>16, <1>17, <1>18, <1>19, <1>20, <1>21, <1>22, <1>23, <1>24, <1>25, <1>26, <1>27,
     <1>28, <1>29, <1>30, <1>31, <1>32, <1>33, <1>34, <1>35, <1>36, <1>37, QuietRefines,
     SubscribeRefines, EnrolRefines DEF Next, Command, Wire, Step, SessionClosed, SessionStopped

\* R-10-069, R-13-029, R-13-037, R-13-052, R-13-053: unless the Host cannot write
\* the keypair a Device's revoke-all asks for, the bridge implements
\* PairedAccess: one session at a time, under a listed credential, ended in the
\* very step that revokes or replaces it, and one Device enrolled per phrase.
THEOREM Refinement ==
    ASSUME "wire" \notin RotateFails
    PROVE  Spec => RefinesPairedAccess
<1>1. Init => Access!AccessInit
  <2> SUFFICES ASSUME Init PROVE Access!AccessInit
    OBVIOUS
  <2>1. Enrolled \in SUBSET Access!Credentials
    BY DEF Init, Enrolled, Access!Credentials
  <2>2. \A c, e \in Enrolled : c[1] = e[1] \/ c[2] = e[2] => c = e
    BY DEF Init, Enrolled
  <2>3. Serving = {}
    BY DEF Init, Serving, Served
  <2>. QED
    BY <2>1, <2>2, <2>3 DEF Access!AccessInit, Enrolled, Serving
<1>2. BridgeInv /\ ServedOK /\ [Next]_vars => ServedOK'
  BY BridgeInvStep, ServedStep DEF BridgeInv, Typed, Guarded
<1>3. BridgeInv /\ ServedOK /\ [Next]_vars => [Access!AccessNext]_(Access!accessVars)
  BY BridgeInvStep, AccessStep
<1>. QED
  BY <1>1, <1>2, <1>3, BridgeInvInit, BridgeInvStep, PTL DEF Spec, RefinesPairedAccess, Access!AccessSpec

\* AccessInvariant, of a list and of the sessions that are served.
Safe(list, served) ==
    /\ list \in SUBSET Access!Credentials
    /\ served \subseteq list
    /\ \A c, e \in served : c = e
    /\ \A c, e \in list : c[1] = e[1] \/ c[2] = e[2] => c = e

\* Each step of PairedAccess keeps it.
LEMMA AccessKeeps ==
    ASSUME NEW E, NEW F, NEW S, NEW T, Safe(E, S),
           \/ \E c \in Access!Credentials :
                 /\ \A e \in E : e[1] # c[1] => e[2] # c[2]
                 /\ F = {e \in E : e[1] # c[1]} \cup {c} /\ T = S \cap F
           \/ \E c \in Access!Credentials : c \in E /\ T = {c} /\ F = E
           \/ \E R \in SUBSET E : F = E \ R /\ T = S \ R
           \/ T = {} /\ F = E
           \/ T = S /\ F = E
    PROVE  Safe(F, T)
<1> USE DEF Safe
<1>1. ASSUME NEW c \in Access!Credentials, \A e \in E : e[1] # c[1] => e[2] # c[2],
             F = {e \in E : e[1] # c[1]} \cup {c}, T = S \cap F
      PROVE  Safe(F, T)
  BY <1>1
<1>2. ASSUME NEW c \in Access!Credentials, c \in E, T = {c}, F = E PROVE Safe(F, T)
  BY <1>2
<1>3. ASSUME NEW R \in SUBSET E, F = E \ R, T = S \ R PROVE Safe(F, T)
  <2>1. F \subseteq E /\ T \subseteq S
    BY <1>3
  <2>2. T \subseteq F
    BY <1>3
  <2>. QED
    BY <2>1, <2>2
<1>. QED
  BY <1>1, <1>2, <1>3

\* Every Host that implements PairedAccess serves one phone at a time, and
\* only one whose credential is in the list, whatever the sets of devices and
\* handles are.
LEMMA AccessIsSafe == Access!AccessSpec => []Access!AccessInvariant
<1>1. Access!AccessInit => Access!AccessInvariant
  BY DEF Access!AccessInit, Access!AccessInvariant, Access!OnlyTheListed, Access!OneAtATime,
         Access!OneEach
<1>2. /\ Access!AccessInvariant <=> Safe(Enrolled, Serving)
      /\ Access!AccessInvariant' <=> Safe(Enrolled', Serving')
  BY DEF Access!AccessInvariant, Access!OnlyTheListed, Access!OneAtATime, Access!OneEach, Safe,
         Enrolled, Serving
<1>3. ASSUME [Access!AccessNext]_(Access!accessVars)
      PROVE  \/ \E c \in Access!Credentials :
                   /\ \A e \in Enrolled : e[1] # c[1] => e[2] # c[2]
                   /\ Enrolled' = {e \in Enrolled : e[1] # c[1]} \cup {c}
                   /\ Serving' = Serving \cap Enrolled'
             \/ \E c \in Access!Credentials : c \in Enrolled /\ Serving' = {c} /\ Enrolled' = Enrolled
             \/ \E R \in SUBSET Enrolled : Enrolled' = Enrolled \ R /\ Serving' = Serving \ R
             \/ Serving' = {} /\ Enrolled' = Enrolled
             \/ Serving' = Serving /\ Enrolled' = Enrolled
  BY Zenon, <1>3 DEF Access!AccessNext, Access!Enrolment, Access!Serve, Access!Revoke, Access!Hangup,
         Access!accessVars, Enrolled, Serving
<1>4. Access!AccessInvariant /\ [Access!AccessNext]_(Access!accessVars) => Access!AccessInvariant'
  BY <1>2, <1>3, AccessKeeps
<1>. QED
  BY <1>1, <1>4, PTL DEF Access!AccessSpec

\* What the owner is promised, of the bridge itself: whoever is served is in
\* the list, and it is one phone.
THEOREM OnlyListedIsServed ==
    ASSUME "wire" \notin RotateFails
    PROVE  Spec => []Access!AccessInvariant
BY Refinement, AccessIsSafe, PTL DEF RefinesPairedAccess

-----------------------------------------------------------------------------
(* Who comes into the list.                                                 *)

\* Only an enrolment puts a credential into the list.
LEMMA OnlyEnrolAdds ==
    ASSUME TypeOK, [Next]_vars
    PROVE  (\E t \in Tasks : Enrol(t)) \/ \A d \in Devices : store'[d] \in {None, store[d]}
<1>1. CASE Command
  <2>1. ASSUME ClosePairing \/ OpenPairingAgain \/ Stop PROVE UNCHANGED store
    BY <2>1 DEF ClosePairing, OpenPairingAgain, Stop, host
  <2>2. ASSUME NEW t \in Tasks, NEW h \in Handles, OpenPairing(t, h) PROVE UNCHANGED store
    BY <2>2 DEF OpenPairing
  <2>3. ASSUME NEW d \in Devices, RevokeOne(d) PROVE \A e \in Devices : store'[e] \in {None, store[e]}
    BY <2>3 DEF RevokeOne, TypeOK
  <2>4. ASSUME NEW ok \in BOOLEAN, RevokeAll(ok) PROVE \A e \in Devices : store'[e] = None
    BY <2>4 DEF RevokeAll
  <2>. QED
    BY <1>1, <2>1, <2>2, <2>3, <2>4 DEF Command
<1>2. CASE ReapPairing \/ (\E h \in Handles : Elapse(h)) \/ UNCHANGED vars
  BY <1>2 DEF ReapPairing, Elapse, host, vars
<1>3. ASSUME NEW t \in Tasks, Wire(t) PROVE \A e \in Devices : store'[e] \in {None, store[e]}
  <2>1. ASSUME NEW d \in Devices, WireRevokeOne(t, d) PROVE \A e \in Devices : store'[e] \in {None, store[e]}
    BY <2>1 DEF WireRevokeOne, TypeOK
  <2>2. ASSUME NEW ok \in BOOLEAN, WireRevokeAll(t, ok) PROVE \A e \in Devices : store'[e] = None
    BY <2>2 DEF WireRevokeAll
  <2>3. ASSUME NEW d \in Devices, DeviceInfo(t, d) PROVE UNCHANGED store
    BY <2>3 DEF DeviceInfo, host
  <2>4. ASSUME DialOk(t) \/ DialFails(t) \/ BackoffEnds(t) \/ HandshakeOk(t) \/ HandshakeFails(t)
        PROVE  UNCHANGED store
    BY <2>4 DEF DialOk, DialFails, BackoffEnds, HandshakeOk, HandshakeFails, host
  <2>5. ASSUME HandshakeElapses(t) \/ Hello(t) \/ GreetFails(t) \/ GreetElapses(t) \/ SessionEnds(t)
        PROVE  UNCHANGED store
    BY <2>5 DEF HandshakeElapses, Hello, GreetFails, GreetElapses, SessionEnds, host
  <2>. QED
    BY <1>3, <2>1, <2>2, <2>3, <2>4, <2>5 DEF Wire
<1>4. ASSUME NEW t \in Tasks, Step(t), ~Enrol(t) PROVE UNCHANGED store
  <2>1. ASSUME Start(t) \/ TopRegistration(t) \/ TopPairing(t) \/ Wait(t) \/ StopSeen(t)
        PROVE  UNCHANGED store
    BY <2>1 DEF Start, TopRegistration, TopPairing, Wait, StopSeen, host
  <2>2. ASSUME ClaimActive(t) \/ Greet(t) \/ EnrolRefused(t) \/ Admit(t) \/ Subscribe(t)
        PROVE  UNCHANGED store
    BY <2>2 DEF ClaimActive, Greet, EnrolRefused, Admit, Subscribe, host
  <2>3. ASSUME NEW n \in Tasks, EnrolFails(t, n) \/ SpawnRegistration(t, n) PROVE UNCHANGED store
    BY <2>3 DEF EnrolFails, SpawnRegistration, host
  <2>4. ASSUME SessionEnds(t) \/ Insert(t) \/ Release(t) \/ Leave(t) \/ Die(t) PROVE UNCHANGED store
    BY <2>4 DEF SessionEnds, Insert, Release, Leave, Die, host
  <2>. QED
    BY <1>4, <2>1, <2>2, <2>3, <2>4 DEF Step, SessionClosed, SessionStopped
<1>. QED
  BY <1>1, <1>2, <1>3, <1>4 DEF Next

\* R-13-022, R-13-023, R-13-029, R-13-035: however long the handshake took and
\* whatever became of its phrase meanwhile, a Device comes into the list only
\* with the phrase that is open, through the session that holds the guard.
THEOREM EnrolmentFaithful == Spec => EnrolsOnlyWithTheLivePhrase
<1> DEFINE A == \A d \in Devices : store'[d] \notin {None, store[d]} =>
          /\ Live /\ pairing.handle = store'[d] /\ ~stopped
          /\ active.handle = store'[d]
          /\ \E t \in claims : kind[t] = "pairing" /\ hnd[t] = store'[d]
<1>1. ASSUME BridgeInv, [Next]_vars PROVE A
  <2> SUFFICES ASSUME NEW d \in Devices, store'[d] \notin {None, store[d]}
               PROVE  /\ Live /\ pairing.handle = store'[d] /\ ~stopped
                      /\ active.handle = store'[d]
                      /\ \E t \in claims : kind[t] = "pairing" /\ hnd[t] = store'[d]
    OBVIOUS
  <2>1. PICK t \in Tasks : Enrol(t)
    BY <1>1, OnlyEnrolAdds DEF BridgeInv, Typed
  <2>2. store'[d] = hnd[t]
    BY <1>1, <2>1 DEF Enrol, BridgeInv, Typed, TypeOK
  <2>3. t \in claims /\ kind[t] = "pairing"
    BY <1>1, <2>1 DEF Enrol, BridgeInv, Typed, TypeOK, Kinds, TasksOK, TaskOK, Claiming, PairingOnly
  <2>4. Live /\ pairing.handle = hnd[t] /\ ~stopped
    BY <2>1 DEF Enrol, MayEnrol
  <2>5. active.handle = hnd[t]
    BY <1>1, <2>3, <2>4 DEF BridgeInv, Guarded, GuardHeld, InUse
  <2>. QED
    BY <2>2, <2>3, <2>4, <2>5
<1>2. BridgeInv /\ [Next]_vars => [A]_vars
  BY <1>1
<1>. QED
  BY <1>2, BridgeInvInit, BridgeInvStep, PTL DEF Spec, EnrolsOnlyWithTheLivePhrase
=============================================================================
