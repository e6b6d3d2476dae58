------------------------------ MODULE HostLink ------------------------------
(***************************************************************************)
(* One entry's registration loop on the Host (bridge.rs registration_loop,   *)
(* relay/connection.rs, relay/backoff.rs) against the task the Hub runs for  *)
(* its socket (Heartbeat).  The room is held while that task has not ended,  *)
(* so a Host that dials again may find its own older socket in its way.      *)
(*                                                                         *)
(* The network may fail and recover, losing what is under way; the Host may  *)
(* learn of it or be left with a half-open socket, on which it has no timer. *)
(***************************************************************************)
EXTENDS Heartbeat

CONSTANTS
    Initial, MaxWait, Jitter, ResetAfter,   \* RelayConfig: reconnect_*, Jitter in per cent
    ConnectTimeout,                         \* CONNECT_TIMEOUT
    LastRung,                               \* bound: attempts are counted up to here
    MaxTroubles                             \* bound: failures of the network and the Hub

ASSUME LinkBounds ==
    /\ {Initial, MaxWait, Jitter, ResetAfter, ConnectTimeout, LastRung, MaxTroubles} \subseteq Nat
    /\ 0 < ConnectTimeout
    /\ \A n \in 0..LastRung : Initial * 2^n \in Nat
    /\ Initial * 2^LastRung >= MaxWait \* beyond LastRung every wait is the same

VARIABLES
    host,      \* where the loop is
    half,      \* its socket is dead and it has not been told
    attempt,   \* ReconnectBackoff.attempt
    connected, \* ticks since connected_at, up to ResetAfter, or Never
    clock,     \* ticks in the dial, or left of the sleep
    hung,      \* the dial met a network that was down
    net,       \* the network is up
    troubles,  \* failures so far
    out        \* history: ticks the loop has been unregistered with the network up,
               \* counted while the absences of the Hub's task fit

linkVars == <<host, half, attempt, connected, clock, hung, net, troubles, out>>
allVars  == <<vars, linkVars>>

Holds == host \in {"idle", "serving"}

\* The entry's registration is in the Hub's map and its Host reads the socket.
Registered == Holds /\ ~half /\ alive /\ ~Ended

-----------------------------------------------------------------------------
(* ReconnectBackoff.                                                        *)

\* Mutant: the wait is doubled and never capped.
UncappedWait == Initial * 2^attempt

Base == IF Initial * 2^attempt < MaxWait THEN Initial * 2^attempt ELSE MaxWait

Waits == {w \in 0..(Base * (100 + Jitter) + 99) \div 100 : w >= (Base * (100 - Jitter)) \div 100}

RecordDisconnected ==
    /\ connected' = Never
    /\ attempt'   = IF connected = ResetAfter THEN 0 ELSE attempt

\* set_offline, next_wait and the sleep.
NextWait ==
    /\ host' = "wait" /\ half' = FALSE /\ hung' = FALSE
    /\ clock' \in Waits
    /\ attempt' = IF attempt < LastRung THEN attempt + 1 ELSE attempt
    /\ UNCHANGED connected

\* The top of the loop: register_host begins, on a network that is up or not.
Redial(up) ==
    /\ host' = "dial" /\ half' = FALSE
    /\ clock' = 0 /\ hung' = ~up

\* An established connection ends: on the ladder before the handshake, at
\* once after a session.
Lost(up) ==
    \/ host = "idle" /\ NextWait
    \/ host = "serving" /\ RecordDisconnected /\ Redial(up)

-----------------------------------------------------------------------------
(* The Hub's side: drive_connection, and run_peer from the start.           *)

Joins(lives) ==
    /\ phase' = "select" /\ spent' = 0 /\ busy' = 0
    /\ next' = PingInterval /\ since' = Never
    /\ alive' = lives /\ held' = Never /\ pongs' = 0 /\ took' = 0 /\ silent' = 0
    /\ UNCHANGED worst

\* The Host is gone from its socket; the Hub's task has not read that.
PeerGone ==
    /\ alive' = FALSE
    /\ UNCHANGED <<phase, spent, busy, next, since, held, pongs, took, worst, silent>>

\* The Hub discards the room; the task has no further say in it.
TaskEnds ==
    /\ phase' = "closed"
    /\ UNCHANGED <<spent, busy, next, since, alive, held, pongs, took, worst, silent>>

Trouble == troubles < MaxTroubles /\ troubles' = troubles + 1 /\ out' = 0

-----------------------------------------------------------------------------
(* The registration loop.                                                   *)

LinkInit ==
    /\ phase = "closed" /\ spent = 0 /\ busy = 0 /\ next = PingInterval /\ since = Never
    /\ alive = FALSE /\ held = Never /\ pongs = 0 /\ took = 0 /\ worst = 0 /\ silent = 0
    /\ host = "dial" /\ half = FALSE /\ attempt = 0 /\ connected = Never
    /\ clock = 0 /\ hung = FALSE /\ net = TRUE /\ troubles = 0 /\ out = 0

\* session_joined: set_idle.
DialAccepted ==
    /\ host = "dial" /\ net /\ Ended
    /\ Joins(TRUE)
    /\ host' = "idle" /\ half' = FALSE /\ hung' = FALSE /\ clock' = 0 /\ out' = 0
    /\ UNCHANGED <<attempt, connected, net, troubles>>

\* handle_taken: the Host's own older socket still holds the room.
DialTaken ==
    /\ host = "dial" /\ net /\ ~Ended
    /\ NextWait
    /\ UNCHANGED <<vars, net, troubles, out>>

\* rate_limited, for connections or for handles: another trouble.
DialLimited ==
    /\ host = "dial" /\ net
    /\ Trouble /\ NextWait
    /\ UNCHANGED <<vars, net>>

\* The connect fails, or the whole of register_host runs into its timeout.
DialFails ==
    /\ host = "dial"
    /\ ~net \/ clock = ConnectTimeout
    /\ NextWait
    /\ UNCHANGED <<vars, net, troubles, out>>

\* The timeout drops the socket as the Hub registers it.
JoinTooLate ==
    /\ host = "dial" /\ net /\ Ended /\ clock = ConnectTimeout
    /\ Joins(FALSE) /\ NextWait
    /\ UNCHANGED <<net, troubles, out>>

\* The Hub registers the socket and the network fails under its answer.
JoinUnheard ==
    /\ host = "dial" /\ net /\ Ended
    /\ Joins(FALSE)
    /\ Trouble /\ net' = FALSE /\ hung' = TRUE
    /\ UNCHANGED <<host, half, attempt, connected, clock>>

Slept ==
    /\ host = "wait" /\ clock = 0
    /\ Redial(net)
    /\ UNCHANGED <<vars, attempt, connected, net, troubles, out>>

\* idle_handshake and claim_active succeed: record_connected.
PhoneArrives ==
    /\ host = "idle" /\ Registered /\ net
    /\ host' = "serving" /\ connected' = 0
    /\ UNCHANGED <<vars, half, attempt, clock, hung, net, troubles, out>>

\* A phone fails its handshake, or another session holds the guard (4006).
HandshakeFails ==
    /\ host = "idle" /\ Registered /\ net
    /\ NextWait /\ PeerGone
    /\ UNCHANGED <<net, troubles, out>>

\* The Host ends the session, or its hello does not go out.
HostEndsSession ==
    /\ host = "serving" /\ Registered
    /\ RecordDisconnected /\ Redial(net) /\ PeerGone
    /\ UNCHANGED <<net, troubles, out>>

\* The Device is gone: the Hub discards the room and closes the Host's socket.
DeviceLeaves ==
    /\ host = "serving" /\ Registered
    /\ TaskEnds
    /\ UNCHANGED linkVars

\* The Host reads the end of a socket the Hub has left.
RelayClosed ==
    /\ Holds /\ ~half /\ Ended /\ net
    /\ Lost(net)
    /\ UNCHANGED <<vars, net, troubles, out>>

\* The Host writes to a half-open socket, a push wake say, and TCP gives up.
WriteFails ==
    /\ Holds /\ half
    /\ Lost(net)
    /\ out' = 0
    /\ UNCHANGED <<vars, net, troubles>>

\* stop and start: the wait, the dial and the socket are dropped.
Stop ==
    /\ host # "stopped"
    /\ host' = "stopped" /\ half' = FALSE /\ clock' = 0 /\ hung' = FALSE /\ out' = 0
    /\ IF host = "serving" THEN RecordDisconnected ELSE UNCHANGED <<attempt, connected>>
    /\ PeerGone
    /\ UNCHANGED <<net, troubles>>

Start ==
    /\ host = "stopped"
    /\ Redial(net)
    /\ UNCHANGED <<vars, attempt, connected, net, troubles, out>>

-----------------------------------------------------------------------------
(* Failures and the clock.                                                  *)

NetFails ==
    /\ net /\ Trouble
    /\ net' = FALSE
    /\ PeerGone
    /\ \/ Holds /\ ~half /\ Lost(FALSE)
       \/ Holds /\ half' = TRUE /\ UNCHANGED <<host, attempt, connected, clock, hung>>
       \/ ~Holds /\ hung' = (host = "dial") /\ UNCHANGED <<host, half, attempt, connected, clock>>

NetRecovers ==
    /\ ~net
    /\ net' = TRUE /\ out' = 0
    /\ UNCHANGED <<vars, host, half, attempt, connected, clock, hung, troubles>>

HubRestarts ==
    /\ ~Ended /\ Trouble
    /\ TaskEnds
    /\ UNCHANGED <<host, half, attempt, connected, clock, hung, net>>

\* A dial the network was up for, a sleep that is over and a socket that was
\* closed are dealt with before time passes.
LinkUrgent ==
    \/ host = "dial" /\ (clock = ConnectTimeout \/ (net /\ ~hung))
    \/ host = "wait" /\ clock = 0
    \/ Holds /\ ~half /\ Ended /\ net

LinkTick ==
    /\ ~LinkUrgent
    /\ IF Ended THEN UNCHANGED vars ELSE Tick
    /\ clock'     = IF host = "dial" THEN clock + 1 ELSE IF host = "wait" THEN clock - 1 ELSE clock
    /\ connected' = IF connected = Never \/ connected = ResetAfter THEN connected ELSE connected + 1
    /\ out'       = IF net /\ host \in {"dial", "wait"} /\ AbsencesFit' THEN out + 1 ELSE 0
    /\ UNCHANGED <<host, half, attempt, hung, net, troubles>>

LoopStep ==
    \/ DialAccepted \/ DialTaken \/ DialLimited \/ DialFails \/ JoinTooLate \/ JoinUnheard
    \/ Slept \/ RelayClosed

LinkNext ==
    \/ TaskStep /\ UNCHANGED linkVars
    \/ LoopStep
    \/ PhoneArrives \/ HandshakeFails \/ HostEndsSession \/ DeviceLeaves \/ WriteFails
    \/ Stop \/ Start
    \/ NetFails \/ NetRecovers \/ HubRestarts
    \/ LinkTick

\* Time passes, the network comes back and a bridge that was stopped is
\* started; nothing says that a Host with no traffic ever writes.
LinkSpec ==
    /\ LinkInit /\ [][LinkNext]_allVars
    /\ WF_allVars(LinkTick) /\ WF_allVars(LoopStep) /\ WF_allVars(TaskStep /\ UNCHANGED linkVars)
    /\ WF_allVars(NetRecovers) /\ WF_allVars(Start)

-----------------------------------------------------------------------------
\* The loop's own state, with the Hub's task in the range Heartbeat gives it: a
\* socket a Host believes in belongs to a task that was started for it.
LinkTypeOK ==
    /\ TypeOK
    /\ host \in {"dial", "wait", "idle", "serving", "stopped"}
    /\ attempt \in 0..LastRung
    /\ connected \in 0..ResetAfter \cup {Never} /\ (connected # Never <=> host = "serving")
    /\ clock \in Nat
    /\ half \in BOOLEAN /\ hung \in BOOLEAN /\ net \in BOOLEAN
    /\ (half => Holds) /\ (hung => host = "dial")
    /\ troubles \in 0..MaxTroubles /\ out \in Nat

\* R-10-068, "reconnecting each on the R-10-014 ladder": a Host that knows its
\* registration is lost has it back, once the network is up, within one dial's
\* timeout, the Hub's wait for the older socket and one capped wait.
ReregistersInTime ==
    AbsencesFit => out <= ConnectTimeout + DropBound + (MaxWait * (100 + Jitter) + 99) \div 100

\* R-10-068, "MUST hold one relay registration": a bridge that is up and left
\* alone is registered in the end.
RegistrationReturns ==
    []<>(Registered \/ host = "stopped" \/ ~net)
=============================================================================
