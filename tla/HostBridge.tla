----------------------------- MODULE HostBridge -----------------------------
(***************************************************************************)
(* The Host bridge (crates/herdr-relay/src/bridge.rs): the HostState behind *)
(* one mutex, the control commands, the pairing loop, one registration loop *)
(* per paired Device, the guard of the one active session, and the session  *)
(* registry a revocation closes sessions through.                           *)
(*                                                                         *)
(* A task is one tokio task running pairing_loop or registration_loop.  One *)
(* step is what a task does under one lock, or up to an await another task   *)
(* can overtake.  JoinHandle::abort lands at an await: an aborted task that  *)
(* waits can only die, one that runs goes on until it waits.                *)
(*                                                                         *)
(* An entry of the paired-device list is its routing handle: handle,         *)
(* host_id and pinned key are minted together by one enrolment.  What the    *)
(* Hub, the phone and the clock do is open.                                 *)
(***************************************************************************)
EXTENDS Naturals, FiniteSets

CONSTANTS
    Devices,        \* device ids
    Handles,        \* routing handles
    Tasks,          \* bound: tasks alive, or still named by a JoinHandle
    None,
    MaxAttempts,    \* MAX_ATTEMPTS: failed handshakes that spend a phrase
    MaxCommands,    \* bound: commands of the operator
    RotateFails     \* who may find that the new Host keypair cannot be written

ASSUME NoneAssumption == None \notin Devices \cup Handles \cup Tasks
ASSUME BoundAssumption ==
    MaxAttempts \in Nat \ {0} /\ MaxCommands \in Nat /\ RotateFails \subseteq {"command", "wire"}

VARIABLES
    (* HostState *)
    store,          \* paired-device list: handle of the entry, or None
    pairing,        \* open_pairing
    active,         \* the guarded session
    link,
    stopped,        \* also the value of the stop channel
    registrations,  \* the JoinHandle kept for each device id
    registry,       \* the task whose session is registered under a handle
    (* one entry per task *)
    kind, pc, dev, hnd,
    child,          \* registration task spawned and not yet recorded
    claims,         \* tasks that own an ActiveClaim
    aborted,
    closing,        \* what a session's close_rx holds
    unseen,         \* tasks whose loop has not seen the last stop change
    unseenInner,    \* the same for the receiver of the session in progress
    (* clock, keys and history *)
    overdue,        \* handles whose phrase lifetime has elapsed
    keyed,          \* tasks that captured the current Host keypair
    entryKeyed,     \* entries enrolled under the current Host keypair
    asked,          \* history: open_pairing was answered after the last stop
    commands        \* commands given so far

host  == <<store, pairing, active, link, stopped, registrations, registry>>
sess  == <<claims, closing, unseenInner>>
ids   == <<kind, dev, hnd, child>>
times == <<overdue, keyed, entryKeyed, asked>>
vars  == <<store, pairing, active, link, stopped, registrations, registry, kind, pc, dev, hnd,
           child, claims, aborted, closing, unseen, unseenInner, overdue, keyed, entryKeyed, asked, commands>>

Kinds == {"none", "pairing", "registration"}
Pcs   == {"free", "start", "top", "wait", "parked", "dial", "backoff", "handshake", "claim",
          "hello", "greet", "enrol", "admit", "subscribe", "serving", "ending",
          "insert", "reinsert", "leave", "release"}

\* Where a task is suspended at an await, so that an abort lands.
Awaiting == {"start", "parked", "dial", "backoff", "handshake", "hello", "greet", "serving"}

NoActive  == [dev |-> None, handle |-> None]
NoPairing == [handle |-> None, state |-> "live", fails |-> 0, registered |-> FALSE, task |-> None]

Alive(t) == pc[t] # "free"

\* The process starts with any list it may have saved, one registration loop
\* recorded for every entry.
Init ==
    /\ store \in [Devices -> Handles \cup {None}]
    /\ \A d, e \in Devices : d # e /\ store[d] # None => store[d] # store[e]
    /\ registrations \in [Devices -> Tasks \cup {None}]
    /\ \A d \in Devices : registrations[d] = None <=> store[d] = None
    /\ \A d, e \in Devices : d # e /\ store[d] # None => registrations[d] # registrations[e]
    /\ kind = [t \in Tasks |-> IF \E d \in Devices : registrations[d] = t
                               THEN "registration" ELSE "none"]
    /\ pc   = [t \in Tasks |-> IF kind[t] = "none" THEN "free" ELSE "start"]
    /\ dev \in [Tasks -> Devices \cup {None}]
    /\ \A t \in Tasks : IF kind[t] = "none" THEN dev[t] = None
                        ELSE dev[t] # None /\ registrations[dev[t]] = t
    /\ hnd     = [t \in Tasks |-> None]
    /\ child   = [t \in Tasks |-> None]
    /\ pairing = NoPairing
    /\ active  = NoActive
    /\ link    = "idle"
    /\ stopped = FALSE
    /\ registry = [h \in Handles |-> None]
    /\ claims = {} /\ aborted = {} /\ unseen = {} /\ unseenInner = {}
    /\ closing = [t \in Tasks |-> "none"]
    /\ overdue = {} /\ keyed = {} /\ asked = FALSE /\ commands = 0
    /\ entryKeyed = {d \in Devices : store[d] # None}

-----------------------------------------------------------------------------
(* Names for what the code reads.                                           *)

\* session.is_live(now), handle(now) and psk_for(now) at the present time;
\* with the `now` the loop captured earlier only the stored state counts.
Live            == pairing.handle # None /\ pairing.state = "live" /\ pairing.handle \notin overdue
SameStored(t)   == pairing.handle = hnd[t] /\ pairing.state = "live"
PairingTask     == IF pairing.handle = None THEN {} ELSE {pairing.task}

\* uuid and handle generators never repeat a value that is still in use
Fresh(h) ==
    /\ \A d \in Devices : store[d] # h
    /\ \A t \in Tasks : hnd[t] # h
    /\ h # pairing.handle /\ h # active.handle /\ registry[h] = None

Unused(t) ==
    /\ pc[t] = "free"
    /\ \A d \in Devices : registrations[d] # t
    /\ \A u \in Tasks : child[u] # t
    /\ t \notin PairingTask

Go(t, next) == pc' = [pc EXCEPT ![t] = next]

\* receivers of the stop channel: of the loops, and of the sessions in progress
Subscribed == {t \in Tasks : pc[t] \notin {"free", "start"}}
InSession  == {t \in Tasks : pc[t] \in {"greet", "serving"}}

\* link_idle(), unless the bridge is stopped
LinkAfter == IF stopped THEN "stopped" ELSE "idle"

\* Mutant: a failing registration overwrites the state of a live session.
SetLinkAlways(state) == link' = IF stopped THEN link ELSE state

\* set_idle and set_offline: a live session or `stop` outranks them.
SetLink(state) ==
    link' = IF active = NoActive /\ ~stopped THEN state ELSE link

\* SessionRegistry::close_for_revocation
CloseFor(D) ==
    LET hit == {h \in Handles : registry[h] # None /\ dev[registry[h]] \in D}
    IN  /\ registry' = [h \in Handles |-> IF h \in hit THEN None ELSE registry[h]]
        /\ closing'  = [t \in Tasks |-> IF \E h \in hit : registry[h] = t
                                        THEN "revoked" ELSE closing[t]]

\* A session whose sender leaves the registry without a reason sees a closed
\* channel.
Dropped(h, self) ==
    [t \in Tasks |-> IF t = registry[h] /\ t # self /\ closing[t] = "none"
                     THEN "dropped" ELSE closing[t]]

\* Mutant: a claim frees the guard whoever holds it.
ReleaseAnyGuard(t) ==
    /\ registry' = [registry EXCEPT ![hnd[t]] = None]
    /\ closing'  = [Dropped(hnd[t], t) EXCEPT ![t] = "none"]
    /\ active'   = NoActive
    /\ link'     = LinkAfter

\* release_active, the Drop of an ActiveClaim
ReleaseActive(t) ==
    /\ registry' = [registry EXCEPT ![hnd[t]] = None]
    /\ closing'  = [Dropped(hnd[t], t) EXCEPT ![t] = "none"]
    /\ active'   = IF active.handle = hnd[t] THEN NoActive ELSE active
    /\ link'     = IF active.handle = hnd[t] THEN LinkAfter ELSE link

\* The task's future is dropped; the tasks of S are aborted in the same step.
ForgetAborting(t, S) ==
    /\ kind'        = [kind EXCEPT ![t] = "none"]
    /\ pc'          = [pc EXCEPT ![t] = "free"]
    /\ dev'         = [dev EXCEPT ![t] = None]
    /\ hnd'         = [hnd EXCEPT ![t] = None]
    /\ child'       = [child EXCEPT ![t] = None]
    /\ claims'      = claims \ {t}
    /\ aborted'     = (aborted \cup {u \in S : Alive(u)}) \ {t}
    /\ unseen'      = unseen \ {t}
    /\ unseenInner' = unseenInner \ {t}
    /\ keyed'       = keyed \ {t}
Forget(t) == ForgetAborting(t, {})

-----------------------------------------------------------------------------
(* The control commands, each under one lock.  A save that fails answers     *)
(* bad_request and changes nothing.                                         *)

Abort(S) == aborted' = aborted \cup {t \in S : Alive(t)}

\* build_status reaps a pairing that is no longer live, and so does an
\* open_pairing whose minting then fails.
ReapPairing ==
    /\ pairing.handle # None /\ ~Live
    /\ pairing' = NoPairing
    /\ Abort(PairingTask)
    /\ UNCHANGED <<store, active, link, stopped, registrations, registry, ids, pc, sess, unseen, times>>

ClosePairing ==
    /\ pairing.handle # None
    /\ pairing' = NoPairing
    /\ Abort(PairingTask)
    /\ UNCHANGED <<store, active, link, stopped, registrations, registry, ids, pc, sess, unseen, times>>

\* open_pairing while a pairing is live returns before anything else.
OpenPairingAgain ==
    /\ Live
    /\ asked' = TRUE
    /\ UNCHANGED <<host, ids, pc, sess, aborted, unseen, overdue, keyed, entryKeyed>>

\* Otherwise an expired or spent pairing is replaced, the bridge leaves the
\* stopped state, and a pairing loop is spawned.
OpenPairing(t, h) ==
    /\ ~Live
    /\ Fresh(h) /\ Unused(t)
    /\ pairing' = [handle |-> h, state |-> "live", fails |-> 0, registered |-> FALSE, task |-> t]
    /\ Abort(PairingTask)
    /\ stopped' = FALSE
    /\ link'    = IF stopped THEN "idle" ELSE link
    /\ IF stopped
       THEN /\ unseen'      = unseen \cup Subscribed
            /\ unseenInner' = unseenInner \cup InSession
       ELSE UNCHANGED <<unseen, unseenInner>>
    /\ kind'    = [kind EXCEPT ![t] = "pairing"]
    /\ Go(t, "start")
    /\ overdue' = overdue \ {h}
    /\ asked'   = TRUE
    /\ UNCHANGED <<store, active, registrations, registry, dev, hnd, child, claims, closing, keyed, entryKeyed>>

Stop ==
    /\ stopped' = TRUE
    /\ link'    = "stopped"
    /\ unseen'      = unseen \cup Subscribed
    /\ unseenInner' = unseenInner \cup InSession
    /\ asked'   = FALSE
    /\ UNCHANGED <<store, pairing, active, registrations, registry, ids, pc, claims, closing,
                   aborted, overdue, keyed, entryKeyed>>

\* revoke_one: a live session is closed through the registry and its loop is
\* left to end itself; any other loop of the Device is aborted.
RevokeOne(d) ==
    LET live == active.dev = d
    IN  /\ store[d] # None
        /\ store' = [store EXCEPT ![d] = None]
        /\ CloseFor({d})
        /\ IF live
           THEN /\ active' = NoActive
                /\ link'   = LinkAfter
                /\ UNCHANGED <<registrations, aborted>>
           ELSE /\ registrations' = [registrations EXCEPT ![d] = None]
                /\ Abort({registrations[d]} \ {None})
                /\ UNCHANGED <<active, link>>
        /\ UNCHANGED <<pairing, stopped, ids, pc, claims, unseen, unseenInner, times>>

\* The loops of every Device but the active one, and the open pairing's.
Parked == {registrations[d] : d \in Devices \ {active.dev}} \ {None}

\* The list, the registrations and the open pairing go together.
DropEverything ==
    /\ registrations' = [d \in Devices |-> None]
    /\ Abort(Parked \cup PairingTask)
    /\ pairing' = NoPairing

RotateKey(ok) ==
    /\ keyed'      = IF ok THEN {} ELSE keyed
    /\ entryKeyed' = IF ok THEN {} ELSE entryKeyed

RevokeAll(rotated) ==
    /\ rotated \/ "command" \in RotateFails
    /\ store' = [d \in Devices |-> None]
    /\ CloseFor(Devices)
    /\ DropEverything
    /\ active' = NoActive
    /\ link'   = LinkAfter
    /\ RotateKey(rotated)
    /\ UNCHANGED <<stopped, ids, pc, claims, unseen, unseenInner, overdue, asked>>

-----------------------------------------------------------------------------
(* A Device's own revoke_device, run by the bridge thread of session t:      *)
(* finish_wire_revoke leaves the guard to the session it closes.            *)

Threaded(t) == pc[t] \in {"serving", "ending"}

WireRevokeOne(t, d) ==
    /\ Threaded(t)
    /\ store[d] # None
    /\ store' = [store EXCEPT ![d] = None]
    /\ CloseFor({d})
    /\ IF active.dev = d
       THEN UNCHANGED <<registrations, aborted>>
       ELSE /\ registrations' = [registrations EXCEPT ![d] = None]
            /\ Abort({registrations[d]} \ {None})
    /\ UNCHANGED <<pairing, active, link, stopped, ids, pc, claims, unseen, unseenInner, times>>

\* clear_all, then rotate: when the rotation fails the request is answered
\* with an error and neither the registry nor finish_wire_revoke is reached.
WireRevokeAll(t, rotated) ==
    /\ Threaded(t)
    /\ rotated \/ "wire" \in RotateFails
    /\ store' = [d \in Devices |-> None]
    /\ IF rotated
       THEN CloseFor(Devices) /\ DropEverything
       ELSE UNCHANGED <<registry, closing, registrations, aborted, pairing>>
    /\ RotateKey(rotated)
    /\ UNCHANGED <<active, link, stopped, ids, pc, claims, unseen, unseenInner, overdue, asked>>

\* 600 seconds pass after a phrase was minted.
Elapse(h) ==
    /\ h = pairing.handle \/ \E t \in Tasks : kind[t] = "pairing" /\ hnd[t] = h
    /\ h \notin overdue
    /\ overdue' = overdue \cup {h}
    /\ UNCHANGED <<host, ids, pc, sess, aborted, unseen, keyed, entryKeyed, asked>>

-----------------------------------------------------------------------------
(* Both loops: from the spawn to a completed handshake.                     *)

\* The task captures its constants and subscribes to the stop channel.
Start(t) ==
    /\ pc[t] = "start"
    /\ IF kind[t] = "registration" /\ store[dev[t]] = None
       THEN Forget(t)
       ELSE /\ Go(t, "top")
            /\ hnd'    = [hnd EXCEPT ![t] = IF kind[t] = "registration" THEN store[dev[t]] ELSE None]
            /\ keyed'  = keyed \cup {t}
            /\ unseen' = unseen \ {t}
            /\ UNCHANGED <<kind, dev, child, claims, aborted, unseenInner>>
    /\ UNCHANGED <<host, closing, overdue, entryKeyed, asked>>

\* "A revoked entry's loop dies here even if the abort has not landed."
TopRegistration(t) ==
    /\ pc[t] = "top" /\ kind[t] = "registration"
    /\ IF store[dev[t]] = None
       THEN Forget(t)
       ELSE Go(t, "wait") /\ UNCHANGED <<ids, claims, aborted, unseen, unseenInner, keyed>>
    /\ UNCHANGED <<host, closing, overdue, entryKeyed, asked>>

\* The pairing loop reads whatever pairing is open, and destroys a dead one.
TopPairing(t) ==
    /\ pc[t] = "top" /\ kind[t] = "pairing"
    /\ IF Live
       THEN /\ hnd' = [hnd EXCEPT ![t] = pairing.handle]
            /\ Go(t, "wait")
            /\ UNCHANGED <<kind, dev, child, claims, aborted, unseen, unseenInner, keyed, pairing>>
       ELSE /\ ForgetAborting(t, PairingTask)
            /\ pairing' = NoPairing
    /\ UNCHANGED <<store, active, link, stopped, registrations, registry, closing, overdue, entryKeyed, asked>>

\* wait_until_running
Wait(t) ==
    /\ pc[t] = "wait"
    /\ Go(t, IF stopped THEN "parked" ELSE "dial")
    /\ UNCHANGED <<host, ids, sess, aborted, unseen, times>>

\* A select arm or wait_until_running sees the change of the stop channel.
StopSeen(t) ==
    /\ pc[t] \in {"parked", "dial", "backoff", "handshake"}
    /\ t \in unseen /\ t \notin aborted
    /\ unseen' = unseen \ {t}
    /\ Go(t, IF pc[t] = "parked" THEN "wait" ELSE "top")
    /\ UNCHANGED <<host, ids, sess, aborted, times>>

\* register_host is accepted: set_idle for a stored entry; the pairing loop
\* marks the pairing registered and leaves the link as it is.
DialOk(t) ==
    /\ pc[t] = "dial" /\ t \notin aborted
    /\ Go(t, "handshake")
    /\ IF kind[t] = "registration"
       THEN SetLink("idle") /\ UNCHANGED pairing
       ELSE /\ pairing' = IF SameStored(t) THEN [pairing EXCEPT !.registered = TRUE] ELSE pairing
            /\ UNCHANGED link
    /\ UNCHANGED <<store, active, stopped, registrations, registry, ids, sess, aborted, unseen, times>>

DialFails(t) ==
    /\ pc[t] = "dial" /\ t \notin aborted
    /\ Go(t, "backoff")
    /\ SetLink("offline")
    /\ UNCHANGED <<store, pairing, active, stopped, registrations, registry, ids, sess, aborted, unseen, times>>

BackoffEnds(t) ==
    /\ pc[t] = "backoff" /\ t \notin aborted
    /\ Go(t, "top")
    /\ UNCHANGED <<host, ids, sess, aborted, unseen, times>>

HandshakeOk(t) ==
    /\ pc[t] = "handshake" /\ t \notin aborted
    /\ Go(t, "claim")
    /\ UNCHANGED <<host, ids, sess, aborted, unseen, times>>

\* A stored entry backs off; the pairing loop counts a failed attempt, and the
\* last one spends the phrase.
HandshakeFails(t) ==
    /\ pc[t] = "handshake" /\ t \notin aborted
    /\ IF kind[t] = "registration"
       THEN Go(t, "backoff") /\ SetLink("offline") /\ UNCHANGED pairing
       ELSE /\ Go(t, "top")
            /\ pairing' = IF SameStored(t)
                          THEN [pairing EXCEPT !.fails = @ + 1,
                                               !.state = IF pairing.fails + 1 >= MaxAttempts
                                                         THEN "spent" ELSE "live"]
                          ELSE pairing
            /\ UNCHANGED link
    /\ UNCHANGED <<store, active, stopped, registrations, registry, ids, sess, aborted, unseen, times>>

\* timeout_at(deadline): the window elapsed with no completed handshake.
HandshakeElapses(t) ==
    /\ pc[t] = "handshake" /\ kind[t] = "pairing" /\ t \notin aborted
    /\ hnd[t] \in overdue
    /\ pairing' = IF SameStored(t) THEN NoPairing ELSE pairing
    /\ Forget(t)
    /\ UNCHANGED <<store, active, link, stopped, registrations, registry, closing, overdue, entryKeyed, asked>>

-----------------------------------------------------------------------------
(* The guard, and the session behind it.                                    *)

\* claim_active.  A refused registration backs off, a refused pairing
\* handshake goes straight back to the loop.
ClaimActive(t) ==
    /\ pc[t] = "claim"
    /\ IF active = NoActive /\ ~stopped
       THEN /\ active' = [dev |-> dev[t], handle |-> hnd[t]]
            /\ link'   = "connected"
            /\ claims' = claims \cup {t}
            /\ Go(t, "hello")
       ELSE /\ Go(t, IF kind[t] = "registration" THEN "backoff" ELSE "top")
            /\ UNCHANGED <<active, link, claims>>
    /\ UNCHANGED <<store, pairing, stopped, registrations, registry, ids, aborted, closing, unseen, unseenInner, times>>

\* host_info to a returning Device.
Hello(t) ==
    /\ pc[t] = "hello" /\ kind[t] = "registration"
    /\ \/ Go(t, "admit")
       \/ Go(t, "release")
    /\ UNCHANGED <<host, ids, sess, aborted, unseen, times>>

\* serve_new_pairing subscribes, and gives up when the bridge is stopped.
Greet(t) ==
    /\ pc[t] = "hello" /\ kind[t] = "pairing"
    /\ Go(t, IF stopped THEN "release" ELSE "greet")
    /\ UNCHANGED <<host, ids, sess, aborted, unseen, times>>

\* host_info cannot be sent, the stop fires, or the first frame is no
\* device_info.
GreetFails(t) ==
    /\ pc[t] = "greet" /\ t \notin aborted
    /\ Go(t, "release")
    /\ unseenInner' = unseenInner \ {t}
    /\ UNCHANGED <<host, ids, claims, closing, aborted, unseen, times>>

GreetElapses(t) ==
    /\ pc[t] = "greet" /\ t \notin aborted
    /\ hnd[t] \in overdue
    /\ pairing' = IF pairing.handle = hnd[t] THEN NoPairing ELSE pairing
    /\ Go(t, "release")
    /\ unseenInner' = unseenInner \ {t}
    /\ UNCHANGED <<store, active, link, stopped, registrations, registry, ids, claims, closing, aborted, unseen, times>>

DeviceInfo(t, d) ==
    /\ pc[t] = "greet" /\ t \notin aborted
    /\ dev' = [dev EXCEPT ![t] = d]
    /\ Go(t, "enrol")
    /\ unseenInner' = unseenInner \ {t}
    /\ UNCHANGED <<host, kind, hnd, child, claims, closing, aborted, unseen, times>>

\* Mutant: what was checked before the handshake's awaits is not checked again.
MayEnrolUnchecked(t) == ~stopped /\ hnd[t] \notin overdue

MayEnrol(t) == ~stopped /\ hnd[t] \notin overdue /\ Live /\ pairing.handle = hnd[t]

\* Enrolment under one lock: the obsolete registration is aborted, the entry
\* replaces any older one of this Device, and the phrase is consumed.
Enrol(t) ==
    /\ pc[t] = "enrol"
    /\ MayEnrol(t)
    /\ registrations' = [registrations EXCEPT ![dev[t]] = None]
    /\ Abort({registrations[dev[t]]} \ {None})
    /\ store'      = [store EXCEPT ![dev[t]] = hnd[t]]
    /\ entryKeyed' = IF t \in keyed THEN entryKeyed \cup {dev[t]} ELSE entryKeyed \ {dev[t]}
    /\ pairing'    = NoPairing
    /\ active'     = IF active.handle = hnd[t] THEN [active EXCEPT !.dev = dev[t]] ELSE active
    /\ Go(t, "admit")
    /\ UNCHANGED <<link, stopped, registry, ids, sess, unseen, overdue, keyed, asked>>

EnrolRefused(t) ==
    /\ pc[t] = "enrol"
    /\ ~MayEnrol(t)
    /\ dev' = [dev EXCEPT ![t] = None]
    /\ Go(t, "release")
    /\ UNCHANGED <<host, kind, hnd, child, sess, aborted, unseen, times>>

\* spawn_registration looks the entry up and spawns; the JoinHandle is
\* recorded later, under another lock.
Spawn(t, n, after) ==
    /\ Unused(n)
    /\ pc'    = [pc EXCEPT ![t] = after, ![n] = "start"]
    /\ kind'  = [kind EXCEPT ![n] = "registration"]
    /\ dev'   = [dev EXCEPT ![n] = dev[t]]
    /\ child' = [child EXCEPT ![t] = n]

\* Mutant: the old entry does not get its loop back.
EnrolFailsSilently(t, n) ==
    /\ pc[t] = "enrol"
    /\ MayEnrol(t)
    /\ registrations' = [registrations EXCEPT ![dev[t]] = None]
    /\ Abort({registrations[dev[t]]} \ {None})
    /\ Go(t, "release")
    /\ dev' = [dev EXCEPT ![t] = None]
    /\ UNCHANGED <<store, pairing, active, link, stopped, registry, kind, child, hnd, sess, unseen, times>>

\* The entry cannot be saved: the old one, if any, gets its loop back.
EnrolFails(t, n) ==
    /\ pc[t] = "enrol"
    /\ MayEnrol(t)
    /\ registrations' = [registrations EXCEPT ![dev[t]] = None]
    /\ Abort({registrations[dev[t]]} \ {None})
    /\ IF store[dev[t]] # None
       THEN Spawn(t, n, "reinsert")
       ELSE /\ Go(t, "release")
            /\ dev' = [dev EXCEPT ![t] = None]
            /\ UNCHANGED <<kind, child>>
    /\ UNCHANGED <<store, pairing, active, link, stopped, registry, hnd, sess, unseen, times>>

\* Mutant: the entry is not looked up again.
AdmitUnchecked(t) ==
    /\ pc[t] = "admit"
    /\ registry' = [registry EXCEPT ![hnd[t]] = t]
    /\ closing'  = Dropped(hnd[t], t)
    /\ Go(t, "subscribe")
    /\ UNCHANGED <<store, pairing, active, link, stopped, registrations, ids, claims, aborted, unseen, unseenInner, times>>

\* register_session: identity check and registration under one lock.
Admit(t) ==
    /\ pc[t] = "admit"
    /\ IF ~stopped /\ store[dev[t]] = hnd[t]
       THEN /\ registry' = [registry EXCEPT ![hnd[t]] = t]
            /\ closing'  = Dropped(hnd[t], t)
            /\ Go(t, "subscribe")
       ELSE /\ Go(t, IF kind[t] = "registration" THEN "release" ELSE "ending")
            /\ UNCHANGED <<registry, closing>>
    /\ UNCHANGED <<store, pairing, active, link, stopped, registrations, ids, claims, aborted, unseen, unseenInner, times>>

\* serve_session subscribes to the stop channel under its own lock.
Subscribe(t) ==
    /\ pc[t] = "subscribe"
    /\ Go(t, "serving")
    /\ UNCHANGED <<host, ids, sess, aborted, unseen, times>>

\* The socket fails, the Device disconnects or sends a malformed frame; the
\* close signal arrives and what is owed to the Device goes out; or the stop.
SessionEnds(t) ==
    /\ pc[t] = "serving" /\ t \notin aborted
    /\ Go(t, IF kind[t] = "registration" THEN "release" ELSE "ending")
    /\ unseenInner' = unseenInner \ {t}
    /\ UNCHANGED <<host, ids, claims, closing, aborted, unseen, times>>

SessionClosed(t)  == closing[t] # "none" /\ SessionEnds(t)
SessionStopped(t) == t \in unseenInner /\ SessionEnds(t)

\* The enrolled Device's own loop starts once its pairing session is over.
SpawnRegistration(t, n) ==
    /\ pc[t] = "ending"
    /\ IF store[dev[t]] # None
       THEN Spawn(t, n, "insert")
       ELSE Go(t, "leave") /\ UNCHANGED <<kind, dev, child>>
    /\ UNCHANGED <<host, hnd, sess, aborted, unseen, times>>

Insert(t) ==
    /\ pc[t] \in {"insert", "reinsert"}
    /\ registrations' = [registrations EXCEPT ![dev[t]] = child[t]]
    /\ child' = [child EXCEPT ![t] = None]
    /\ dev'   = [dev EXCEPT ![t] = IF pc[t] = "insert" THEN @ ELSE None]
    /\ Go(t, IF pc[t] = "insert" THEN "leave" ELSE "release")
    /\ UNCHANGED <<store, pairing, active, link, stopped, registry, kind, hnd, sess, aborted, unseen, times>>

\* The iteration ends and drops the claim.
Release(t) ==
    /\ pc[t] = "release"
    /\ ReleaseActive(t)
    /\ claims' = claims \ {t}
    /\ Go(t, "top")
    /\ UNCHANGED <<store, pairing, stopped, registrations, ids, aborted, unseen, unseenInner, times>>

\* The pairing loop returns after an enrolment.
Leave(t) ==
    /\ pc[t] = "leave"
    /\ ReleaseActive(t)
    /\ Forget(t)
    /\ UNCHANGED <<store, pairing, stopped, registrations, overdue, entryKeyed, asked>>

\* Mutant: the claim is not dropped with the future.
DieWithClaim(t) ==
    /\ t \in aborted
    /\ pc[t] \in Awaiting
    /\ Forget(t)
    /\ UNCHANGED <<host, closing, overdue, entryKeyed, asked>>

\* An abort lands: everything the future owns is dropped, its claim included.
Die(t) ==
    /\ t \in aborted
    /\ pc[t] \in Awaiting
    /\ IF t \in claims THEN ReleaseActive(t) ELSE UNCHANGED <<registry, closing, active, link>>
    /\ Forget(t)
    /\ UNCHANGED <<store, pairing, stopped, registrations, overdue, entryKeyed, asked>>

-----------------------------------------------------------------------------
Command ==
    \/ ClosePairing \/ OpenPairingAgain \/ Stop
    \/ \E t \in Tasks, h \in Handles : OpenPairing(t, h)
    \/ \E d \in Devices : RevokeOne(d)
    \/ \E ok \in BOOLEAN : RevokeAll(ok)

Wire(t) ==
    \/ \E d \in Devices : WireRevokeOne(t, d) \/ DeviceInfo(t, d)
    \/ \E ok \in BOOLEAN : WireRevokeAll(t, ok)
    \/ DialOk(t) \/ DialFails(t) \/ BackoffEnds(t)
    \/ HandshakeOk(t) \/ HandshakeFails(t) \/ HandshakeElapses(t)
    \/ Hello(t) \/ GreetFails(t) \/ GreetElapses(t) \/ SessionEnds(t)

Step(t) ==
    \/ Start(t) \/ TopRegistration(t) \/ TopPairing(t) \/ Wait(t) \/ StopSeen(t)
    \/ ClaimActive(t) \/ Greet(t) \/ Enrol(t) \/ EnrolRefused(t) \/ Admit(t) \/ Subscribe(t)
    \/ \E n \in Tasks : EnrolFails(t, n) \/ SpawnRegistration(t, n)
    \/ SessionClosed(t) \/ SessionStopped(t)
    \/ Insert(t) \/ Release(t) \/ Leave(t) \/ Die(t)

Next ==
    \/ Command /\ commands < MaxCommands /\ commands' = commands + 1
    \/ /\ \/ ReapPairing
          \/ \E h \in Handles : Elapse(h)
          \/ \E t \in Tasks : Wire(t) \/ Step(t)
       /\ UNCHANGED commands

Spec == Init /\ [][Next]_vars

-----------------------------------------------------------------------------
\* Every variable has its type; in particular the failed attempts of a phrase
\* never pass MAX_ATTEMPTS.
TypeOK ==
    /\ store         \in [Devices -> Handles \cup {None}]
    /\ pairing       \in [handle : Handles \cup {None}, state : {"live", "spent"}, fails : 0..MaxAttempts,
                          registered : BOOLEAN, task : Tasks \cup {None}]
    /\ active        \in [dev : Devices \cup {None}, handle : Handles \cup {None}]
    /\ link          \in {"idle", "connected", "offline", "stopped"}
    /\ stopped       \in BOOLEAN
    /\ registrations \in [Devices -> Tasks \cup {None}]
    /\ registry      \in [Handles -> Tasks \cup {None}]
    /\ kind          \in [Tasks -> Kinds]
    /\ pc            \in [Tasks -> Pcs]
    /\ dev           \in [Tasks -> Devices \cup {None}]
    /\ hnd           \in [Tasks -> Handles \cup {None}]
    /\ child         \in [Tasks -> Tasks \cup {None}]
    /\ closing       \in [Tasks -> {"none", "revoked", "dropped"}]
    /\ claims \subseteq Tasks /\ aborted \subseteq Tasks /\ keyed \subseteq Tasks
    /\ unseen \subseteq Tasks /\ unseenInner \subseteq Tasks
    /\ overdue \subseteq Handles /\ entryKeyed \subseteq Devices
    /\ asked \in BOOLEAN /\ commands \in Nat

-----------------------------------------------------------------------------
(* Safety.                                                                  *)

Holders(h) == {t \in claims : hnd[t] = h}

Served(t) == pc[t] = "serving" /\ closing[t] = "none"

\* ActiveClaim: the guard never outlives its claim.  A guard nobody owns would
\* refuse every Device with host_in_use until a revocation.
GuardHasOwner == active # NoActive => Holders(active.handle) # {}

(***************************************************************************)
(* The refinement: the list and the sessions that have not been told to      *)
(* close, of all the state above.                                            *)
(***************************************************************************)
Access == INSTANCE PairedAccess
            WITH enrolled <- {<<d, store[d]>> : d \in {e \in Devices : store[e] # None}},
                 serving  <- {<<dev[t], hnd[t]>> : t \in {u \in Tasks : Served(u)}}

\* R-10-069, R-13-029, R-13-037, R-13-052, R-13-053: whatever commands, loops, aborts
\* and stale claims do, the Host serves one session at a time, under a
\* credential that is in the list, and a revocation or a new enrolment ends
\* the session of the old credential in the same step; and a phrase enrols
\* one Device.
RefinesPairedAccess == Access!AccessSpec

\* R-10-064: the status line never claims a session that is not there, nor
\* hides a stop.
LinkIsTrue ==
    /\ link = "stopped" <=> stopped
    /\ link = "connected" => active # NoActive
    /\ link = "offline" => active = NoActive

\* R-10-068: every entry has a loop that will serve it: its own, or the pairing
\* loop that enrolled it and will spawn one.
Serves(t, d) ==
    /\ t \notin aborted
    /\ dev[t] = d
    /\ \/ kind[t] = "registration" /\ (pc[t] = "start" \/ hnd[t] = store[d])
       \/ kind[t] = "pairing" /\ pc[t] \in {"admit", "subscribe", "serving", "ending"}
EveryEntryHasLoop ==
    \A d \in Devices : store[d] # None => \E t \in Tasks : Serves(t, d)

\* R-13-022, R-13-023, R-13-029, R-13-035: a Device that comes into the list, or
\* comes again under a new handle, does so with the phrase that is open at that
\* moment.  The key was read, the handshake was awaited and device_info was
\* awaited before: meanwhile the phrase may have been closed, spent, replaced
\* or outlived, the abort of the loop that uses it may still be on its way, the
\* bridge may have stopped, and the guard may have been freed for another Device.
EnrolsOnlyWithTheLivePhrase ==
    [][\A d \in Devices : store'[d] \notin {None, store[d]} =>
          /\ Live /\ pairing.handle = store'[d] /\ ~stopped
          /\ active.handle = store'[d]
          /\ \E t \in claims : kind[t] = "pairing" /\ hnd[t] = store'[d]]_vars

-----------------------------------------------------------------------------
(* What comments and documents say and the code does not keep.              *)

\* "Serving loops select on this channel and close their sockets": a session
\* in progress when the bridge stops has the change before it.
StopReachesSession ==
    \A t \in Tasks : pc[t] = "serving" /\ stopped => t \in unseenInner

\* "no credential minted under the old identity survives" (revoke_all).
KeysAreCurrent ==
    /\ \A d \in Devices : store[d] # None => d \in entryKeyed
    /\ \A t \in Tasks : Served(t) => t \in keyed

\* "`open_pairing` also leaves the `stopped` state" (R-10-064).
OpenPairingLeavesStopped == asked => ~stopped

\* "A revoked entry's loop dies here even if the abort has not landed": a loop
\* that waits for its Device, and is not aborted, waits on the entry's handle.
RevokedLoopDies ==
    \A t \in Tasks : kind[t] = "registration" /\ pc[t] = "handshake" /\ t \notin aborted =>
        store[dev[t]] \in {None, hnd[t]}

\* "aborting it first would drop the socket before the `revoked` error and the
\* 4004 close could be sent".
RevocationIsDelivered ==
    \A t \in Tasks : pc[t] = "serving" /\ closing[t] = "revoked" => t \notin aborted

\* "`idle` (registered, no session)": a registered pairing is not offline.
RegisteredIsIdle == pairing.registered /\ active = NoActive => link # "offline"
=============================================================================
