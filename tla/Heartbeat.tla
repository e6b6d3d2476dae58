----------------------------- MODULE Heartbeat -----------------------------
(***************************************************************************)
(* The Hub's keepalive of one connection (heartbeat.rs) inside the select    *)
(* loop of relay.rs::run_peer, with the peer it watches.                    *)
(*                                                                         *)
(* Time is counted in ticks.  The task polls its socket and its timers only  *)
(* in the select; while it waits in forward or in a send it polls nothing.   *)
(* A step that is ready happens before the next tick, and the select takes   *)
(* the ready arms in any order, so that a pong and its deadline may be ready *)
(* together.  The peer answers in at most MaxAnswer ticks while it lives,    *)
(* with one pong for the pings it has not answered yet.                     *)
(***************************************************************************)
EXTENDS Naturals

CONSTANTS
    PingInterval,   \* PING_INTERVAL
    PongTimeout,    \* PONG_TIMEOUT
    SendTimeout,    \* SEND_TIMEOUT
    MaxAnswer,      \* slowest answer of a peer that lives
    MaxBusy,        \* bound: ticks the task is away from the select between two pings
    Never           \* no ping outstanding

ASSUME HeartbeatBounds ==
    /\ {PingInterval, PongTimeout, SendTimeout, MaxAnswer, MaxBusy} \subseteq Nat
    /\ MaxAnswer < PingInterval /\ 0 < PongTimeout /\ Never \notin Nat

VARIABLES
    phase,    \* where the task is
    spent,    \* ticks in a send
    busy,     \* ticks away from the select since the last ping
    next,     \* ticks until the ticker is due
    since,    \* ticks since awaiting_pong_since, or Never
    alive,    \* the peer lives
    held,     \* ticks the peer has held a ping, or Never
    pongs,    \* pongs that wait in the socket
    took,     \* history: ticks from the last ping to its answer
    worst,    \* history: the most ticks away between two pings so far
    silent    \* history: ticks since the peer died, counted while absences fit

vars == <<phase, spent, busy, next, since, alive, held, pongs, took, worst, silent>>

\* Heartbeat::new: the first ping is due after a full interval.
Init ==
    /\ phase = "select" /\ spent = 0 /\ busy = 0
    /\ next = PingInterval /\ since = Never
    /\ alive = TRUE /\ held = Never /\ pongs = 0 /\ took = 0 /\ worst = 0 /\ silent = 0

Ended == phase \in {"overdue", "failed", "closed"}

\* Mutant: a pong is read and not noted.
PongUnnoted ==
    /\ phase = "select" /\ pongs > 0
    /\ pongs' = pongs - 1
    /\ UNCHANGED <<phase, spent, busy, next, since, alive, held, took, worst, silent>>

\* Message::Pong: note_pong.
ReadPong ==
    /\ phase = "select" /\ pongs > 0
    /\ pongs' = pongs - 1
    /\ since' = Never /\ took' = 0
    /\ UNCHANGED <<phase, spent, busy, next, alive, held, worst, silent>>

\* A frame is forwarded, or a queued message is written: the task is away.
GoAway ==
    /\ phase = "select" /\ busy < MaxBusy
    /\ phase' = "busy"
    /\ UNCHANGED <<spent, busy, next, since, alive, held, pongs, took, worst, silent>>

ComeBack ==
    /\ phase = "busy"
    /\ phase' = "select"
    /\ UNCHANGED <<spent, busy, next, since, alive, held, pongs, took, worst, silent>>

\* PingDue: the ticker, which delays missed ticks, starts a new interval.
SendPing ==
    /\ phase = "select" /\ next = 0
    /\ phase' = "sending" /\ spent' = 0
    /\ next'  = PingInterval
    /\ UNCHANGED <<busy, since, alive, held, pongs, took, worst, silent>>

\* Mutant: the ping is sent and not noted.
PingUnnoted ==
    /\ phase = "sending"
    /\ phase' = "select"
    /\ busy'  = 0
    /\ held'  = IF held = Never THEN 0 ELSE held
    /\ UNCHANGED <<spent, next, since, alive, pongs, took, worst, silent>>

\* The send returns in time: note_ping_sent starts the deadline.
PingSent ==
    /\ phase = "sending"
    /\ phase' = "select"
    /\ busy'  = 0
    /\ since' = 0 /\ took' = 0
    /\ held'  = IF held = Never THEN 0 ELSE held
    /\ UNCHANGED <<spent, next, alive, pongs, worst, silent>>

\* The send fails, which only a lost connection does, or runs into its timeout.
PingFails ==
    /\ phase = "sending"
    /\ ~alive \/ spent = SendTimeout
    /\ phase' = "failed"
    /\ UNCHANGED <<spent, busy, next, since, alive, held, pongs, took, worst, silent>>

\* PongOverdue: the loop breaks.
PongOverdue ==
    /\ phase = "select" /\ since = PongTimeout
    /\ phase' = "overdue"
    /\ UNCHANGED <<spent, busy, next, since, alive, held, pongs, took, worst, silent>>

\* The stream yields a Close, its end or an error, if the lost peer sent one.
ReadEnd ==
    /\ phase = "select" /\ ~alive
    /\ phase' = "closed"
    /\ UNCHANGED <<spent, busy, next, since, alive, held, pongs, took, worst, silent>>

-----------------------------------------------------------------------------
(* The peer and the clock.                                                  *)

Answer ==
    /\ alive /\ held # Never
    /\ held'  = Never
    /\ pongs' = pongs + 1
    /\ took'  = IF since = Never THEN 0 ELSE since
    /\ UNCHANGED <<phase, spent, busy, next, since, alive, worst, silent>>

Die ==
    /\ alive /\ ~Ended
    /\ alive' = FALSE
    /\ UNCHANGED <<phase, spent, busy, next, since, held, pongs, took, worst, silent>>

\* The task has never been away so long that a deadline which passed meanwhile
\* is seen together with the next ping, which the select may then prefer.
AbsencesFit == SendTimeout + PongTimeout + worst < PingInterval

\* Something has to happen before time passes.
Urgent ==
    \/ phase = "select" /\ (pongs > 0 \/ next = 0 \/ since = PongTimeout)
    \/ phase = "busy" /\ busy = MaxBusy
    \/ phase = "sending" /\ spent = SendTimeout
    \/ alive /\ held = MaxAnswer

Tick ==
    /\ ~Urgent /\ ~Ended
    /\ next'   = IF next > 0 THEN next - 1 ELSE 0
    /\ since'  = IF since = Never \/ since = PongTimeout THEN since ELSE since + 1
    /\ held'   = IF held = Never \/ ~alive THEN held ELSE held + 1
    /\ busy'   = IF phase = "busy" THEN busy + 1 ELSE busy
    /\ spent'  = IF phase = "sending" THEN spent + 1 ELSE spent
    /\ worst'  = IF busy' > worst THEN busy' ELSE worst
    /\ silent' = IF alive \/ ~AbsencesFit' THEN 0 ELSE silent + 1
    /\ UNCHANGED <<phase, alive, pongs, took>>

\* What the task does on its own, and the answer of a peer that lives.
TaskStep ==
    \/ ReadPong \/ GoAway \/ ComeBack \/ SendPing \/ PingSent \/ PingFails \/ PongOverdue
    \/ ReadEnd \/ Answer

Next == TaskStep \/ Die \/ Tick \/ (Ended /\ UNCHANGED vars)

Spec == Init /\ [][Next]_vars

-----------------------------------------------------------------------------
\* Every counter stays in its range: the ticker never runs past its interval
\* and the pong's deadline is never passed over.
TypeOK ==
    /\ phase \in {"select", "busy", "sending", "overdue", "failed", "closed"}
    /\ spent \in 0..SendTimeout /\ busy \in 0..MaxBusy
    /\ next \in 0..PingInterval
    /\ since \in 0..PongTimeout \cup {Never}
    /\ held \in 0..MaxAnswer \cup {Never}
    /\ took \in 0..PongTimeout /\ worst \in 0..MaxBusy /\ busy <= worst
    /\ alive \in BOOLEAN /\ pongs \in Nat /\ silent \in Nat

\* R-11-023: a peer that has answered its ping is dropped as overdue only if its
\* task was away from the select, in forward or in sends, for all that the
\* answer had left of the deadline; a pong that was read is never forgotten.
PromptPeerKept == phase = "overdue" /\ held = Never => took + busy >= PongTimeout

\* HeartbeatEvent::PongOverdue, "No pong arrived within PONG_TIMEOUT of the
\* last ping": refuted once a single send may last as long as the deadline.
OverdueIsUnanswered == phase = "overdue" => held # Never

\* The longest a dead peer's task keeps its room.
DropBound == PingInterval + SendTimeout + PongTimeout + 2 * worst

\* R-11-022 and R-11-023 together: as long as the task's absences fit, a dead peer
\* is dropped within one ping interval, the send and its pong's deadline, and the
\* time the task was away.
DropsInTime == AbsencesFit /\ ~Ended => silent <= DropBound
=============================================================================
