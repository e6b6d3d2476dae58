------------------------ MODULE LinkAndPairingProofs ------------------------
(***************************************************************************)
(* Proofs about the Host's way to its phones: the Hub's keepalive of a     *)
(* connection and a Host that registers again, for every interval, timeout *)
(* and wait; the pairing pane with the bridge it calls; and the pairing    *)
(* session with the copy a Device makes of its phrase.                     *)
(*                                                                         *)
(* The Hub's task is followed from one ping to the next: the time since    *)
(* the last one (Elapsed) bounds how long a peer has been dead.  A pong    *)
(* that is unread at its deadline waited while the task was away           *)
(* (AnswerOK).  While the absences fit in an interval (AbsencesFit), no    *)
(* ping is sent while a pong or a deadline of the one before is open       *)
(* (PingOK), and a dead peer is noticed (SilentOK).  The Host's loop is    *)
(* measured against the task of its older socket: it has been unregistered *)
(* for no longer than one dial's timeout more than that task's peer has    *)
(* been dead (OutOK).                                                      *)
(*                                                                         *)
(* The pane is a client of a bridge that changes under it.  What it knows  *)
(* of a pairing is right or the pairing is over (Recorded), a call that    *)
(* cannot reach the bridge it was read for meets no pairing the pane drew  *)
(* (Missed), and the calls under way are those of the question that was    *)
(* answered (Work).                                                        *)
(*                                                                         *)
(* A typed phrase is followed from the Host's words to the Device's key.   *)
(* split and join are described by the places where a text is cut (Cut),   *)
(* so that the loop of segment_words can be compared, word by word, with   *)
(* any phrase the text spells (Following), and each character a person     *)
(* types stands for a place of the key (Reads), which no slip that keeps   *)
(* the copy faithful changes.                                              *)
(*                                                                         *)
(* A pairing URI is followed in the same way: a copy is faithful while its *)
(* fields list the pairing in some order (Lists), its length is that of    *)
(* its fields however they stand, and whatever is lost or doubled the      *)
(* query begins once (OneQuery), so that a name that is found among the    *)
(* fields stands at one place of the text (Place).                         *)
(***************************************************************************)
EXTENDS HostLink, Popup, PairingText, SequenceTheorems, FiniteSetTheorems,
        WellFoundedInduction, TLAPS
-----------------------------------------------------------------------------
(* The Hub's side.                                                          *)

Away    == phase \in {"select", "busy"}
Elapsed == PingInterval - next

\* A pong that was not read has waited in the socket since the answer, and the
\* task was away all that time.
AnswerOK ==
    /\ Away /\ held = Never /\ since # Never => pongs > 0 /\ since <= took + busy
    /\ phase = "overdue" => since = PongTimeout
    /\ PromptPeerKept

\* What is open of the last ping, and since when, while absences fit.
PingOK ==
    /\ phase = "sending" => Elapsed = spent /\ pongs = 0 /\ since = Never /\ held = Never
    /\ Away /\ since = Never => pongs = 0 /\ held = Never
    /\ Away /\ since # Never =>
          /\ Elapsed <= SendTimeout + since + busy
          /\ held # Never => pongs = 0
          /\ held = Never => pongs = 1

\* A peer that died before the last ping has not answered it.
SilentOK ==
    /\ phase = "sending" => silent <= PingInterval + worst + spent
    /\ Away /\ (since = Never \/ pongs > 0) => silent <= Elapsed + busy
    /\ Away /\ since # Never /\ pongs = 0 =>
          silent <= PingInterval + worst + SendTimeout + since + busy

\* The time since the peer's death is counted while absences fit.
Counted == alive \/ ~AbsencesFit => silent = 0

HubInv == TypeOK /\ AnswerOK /\ Counted /\ (AbsencesFit => PingOK /\ SilentOK)

\* All that happens to the Hub's task and to the peer at its socket.
HubStep ==
    \/ TaskStep \/ Tick \/ PeerGone \/ TaskEnds
    \/ \E lives \in BOOLEAN : Joins(lives)

\* A task that has not run yet has nothing open.
LEMMA HubInit ==
    ASSUME TypeOK, spent = 0, busy = 0, next = PingInterval, since = Never,
           held = Never, pongs = 0, silent = 0, phase \in {"select", "closed"}
    PROVE  HubInv
BY HeartbeatBounds DEF HubInv, TypeOK, AnswerOK, PromptPeerKept, Counted, PingOK, SilentOK, Away,
       Elapsed

\* Every step of the task keeps its counters in their ranges.
LEMMA HubTypeStep == ASSUME TypeOK, HubStep PROVE TypeOK'
<1>1. CASE TaskStep
  BY <1>1, HeartbeatBounds DEF TypeOK, TaskStep, ReadPong, GoAway, ComeBack, SendPing, PingSent,
         PingFails, PongOverdue, ReadEnd, Answer
<1>2. CASE Tick
  BY <1>2, HeartbeatBounds DEF TypeOK, Tick, Urgent, Ended
<1>3. CASE PeerGone \/ TaskEnds
  BY <1>3 DEF TypeOK, PeerGone, TaskEnds
<1>4. ASSUME NEW lives \in BOOLEAN, Joins(lives) PROVE TypeOK'
  BY <1>4, HeartbeatBounds DEF TypeOK, Joins
<1>. QED
  BY <1>1, <1>2, <1>3, <1>4 DEF HubStep

\* The longest absence only grows, and with it the bound; only time makes it grow.
LEMMA WorstGrows ==
    ASSUME TypeOK, HubStep
    PROVE  /\ worst' >= worst /\ (AbsencesFit' => AbsencesFit)
           /\ DropBound \in Nat /\ DropBound' \in Nat /\ DropBound' >= DropBound
           /\ ~Tick => worst' = worst
<1>1. worst \in Nat /\ worst' \in Nat
  BY HubTypeStep, HeartbeatBounds DEF TypeOK
<1>2. worst' >= worst /\ (~Tick => worst' = worst)
  BY <1>1, HubTypeStep DEF TypeOK, HubStep, TaskStep, ReadPong, GoAway, ComeBack, SendPing,
     PingSent, PingFails, PongOverdue, ReadEnd, Answer, Tick, PeerGone, TaskEnds, Joins
<1>. QED
  BY <1>1, <1>2, HeartbeatBounds DEF AbsencesFit, DropBound

\* Every step keeps AnswerOK: a pong that is ready in the select is read before
\* time passes, and a new ping starts a new deadline.
LEMMA AnswerStep == ASSUME TypeOK, AnswerOK, HubStep PROVE AnswerOK'
<1> USE HeartbeatBounds DEF TypeOK, AnswerOK, PromptPeerKept, Away
<1>1. CASE ReadPong \/ GoAway \/ ComeBack \/ SendPing
  BY <1>1 DEF ReadPong, GoAway, ComeBack, SendPing
<1>2. CASE PingSent
  BY <1>2 DEF PingSent
<1>3. CASE PingFails \/ ReadEnd \/ PeerGone \/ TaskEnds
  BY <1>3 DEF PingFails, ReadEnd, PeerGone, TaskEnds
<1>4. CASE PongOverdue
  BY <1>4 DEF PongOverdue
<1>5. CASE Answer
  BY <1>5 DEF Answer
<1>6. CASE Tick
  BY <1>6 DEF Tick, Urgent, Ended
<1>7. CASE \E lives \in BOOLEAN : Joins(lives)
  BY <1>7 DEF Joins
<1>. QED
  BY <1>1, <1>2, <1>3, <1>4, <1>5, <1>6, <1>7 DEF HubStep, TaskStep

\* Every step keeps Counted.
LEMMA CountedStep == ASSUME TypeOK, Counted, HubStep PROVE Counted'
<1>1. CASE Tick
  BY <1>1 DEF Tick, Counted
<1>2. CASE TaskStep
  BY <1>2 DEF Counted, AbsencesFit, TaskStep, ReadPong, GoAway, ComeBack, SendPing, PingSent, PingFails,
     PongOverdue, ReadEnd, Answer
<1>3. CASE PeerGone \/ TaskEnds
  BY <1>3 DEF Counted, AbsencesFit, PeerGone, TaskEnds
<1>4. CASE \E lives \in BOOLEAN : Joins(lives)
  BY <1>4 DEF Counted, Joins
<1>. QED
  BY <1>1, <1>2, <1>3, <1>4 DEF HubStep

\* Every step keeps PingOK: a ping is sent only when nothing of the last one is
\* open, because its deadline is over before the ticker is due.
LEMMA PingStep == ASSUME AbsencesFit, TypeOK, PingOK, HubStep PROVE PingOK'
<1> USE HeartbeatBounds DEF TypeOK, PingOK, Away, Elapsed
<1>1. CASE ReadPong \/ GoAway \/ ComeBack
  BY <1>1 DEF ReadPong, GoAway, ComeBack
<1>2. CASE SendPing
  <2>1. phase = "select" /\ Elapsed = PingInterval
    BY <1>2 DEF SendPing
  <2>2. pongs = 0 /\ since = Never /\ held = Never
    BY <2>1 DEF AbsencesFit
  <2>. QED
    BY <1>2, <2>2 DEF SendPing
<1>3. CASE PingSent
  BY <1>3 DEF PingSent
<1>4. CASE PingFails \/ PongOverdue \/ ReadEnd \/ PeerGone \/ TaskEnds
  BY <1>4 DEF PingFails, PongOverdue, ReadEnd, PeerGone, TaskEnds
<1>5. CASE Answer
  BY <1>5 DEF Answer
<1>6. CASE Tick
  <2>1. /\ next' = IF next > 0 THEN next - 1 ELSE 0
        /\ since' = IF since = Never \/ since = PongTimeout THEN since ELSE since + 1
        /\ held' = IF held = Never \/ ~alive THEN held ELSE held + 1
        /\ busy' = IF phase = "busy" THEN busy + 1 ELSE busy
        /\ spent' = IF phase = "sending" THEN spent + 1 ELSE spent
        /\ phase' = phase /\ pongs' = pongs
        /\ phase = "select" => since # PongTimeout
    BY <1>6 DEF Tick, Urgent
  <2>2. phase = "sending" => Elapsed' = spent' /\ pongs' = 0 /\ since' = Never /\ held' = Never
    BY <2>1 DEF AbsencesFit
  <2>3. Away /\ since = Never => pongs' = 0 /\ held' = Never /\ since' = Never
    BY <2>1
  <2>4. Away /\ since # Never => since' # Never /\ Elapsed' <= SendTimeout + since' + busy'
    BY <2>1
  <2>5. held' = Never <=> held = Never
    BY <2>1
  <2>. QED
    BY <2>1, <2>2, <2>3, <2>4, <2>5
<1>7. CASE \E lives \in BOOLEAN : Joins(lives)
  BY <1>7 DEF Joins
<1>. QED
  BY <1>1, <1>2, <1>3, <1>4, <1>5, <1>6, <1>7 DEF HubStep, TaskStep

\* Every step keeps SilentOK.
LEMMA SilentStep ==
    ASSUME AbsencesFit, TypeOK, PingOK, SilentOK, Counted, HubStep
    PROVE  SilentOK'
<1> USE HeartbeatBounds DEF TypeOK, SilentOK, Away, Elapsed
<1>1. CASE ReadPong \/ GoAway \/ ComeBack
  BY <1>1 DEF ReadPong, GoAway, ComeBack, PingOK
<1>2. CASE SendPing
  <2>1. phase = "select" /\ Elapsed = PingInterval
    BY <1>2 DEF SendPing
  <2>2. since = Never
    BY <2>1 DEF AbsencesFit, PingOK
  <2>. QED
    BY <1>2, <2>2 DEF SendPing
<1>3. CASE PingSent
  BY <1>3 DEF PingSent, PingOK
<1>4. CASE PingFails \/ PongOverdue \/ ReadEnd \/ PeerGone \/ TaskEnds
  BY <1>4 DEF PingFails, PongOverdue, ReadEnd, PeerGone, TaskEnds
<1>5. CASE Answer
  BY <1>5 DEF Answer, Counted
<1>6. CASE Tick
  BY <1>6, WorstGrows, HubTypeStep DEF Tick, Urgent, Ended
<1>7. CASE \E lives \in BOOLEAN : Joins(lives)
  BY <1>7 DEF Joins
<1>. QED
  BY <1>1, <1>2, <1>3, <1>4, <1>5, <1>6, <1>7 DEF HubStep, TaskStep

\* Every step keeps what is known of the task.
LEMMA HubInvStep == HubInv /\ (HubStep \/ UNCHANGED vars) => HubInv'
<1>1. ASSUME HubInv, HubStep PROVE HubInv'
  BY <1>1, HubTypeStep, WorstGrows, AnswerStep, CountedStep, PingStep, SilentStep DEF HubInv
<1>2. ASSUME HubInv, UNCHANGED vars PROVE HubInv'
  BY <1>2 DEF HubInv, TypeOK, AnswerOK, PromptPeerKept, Counted, AbsencesFit, PingOK, SilentOK, Away,
         Elapsed, vars
<1>. QED
  BY <1>1, <1>2

\* A dead peer's task is gone in time; a peer that answered is overdue only to a
\* task that was away.
LEMMA HubInvImplies == HubInv => PromptPeerKept /\ DropsInTime /\ (~Ended => silent <= DropBound)
<1> SUFFICES ASSUME HubInv PROVE PromptPeerKept /\ (~Ended => silent <= DropBound)
  BY DEF DropsInTime
<1>1. CASE AbsencesFit
  BY <1>1, HeartbeatBounds DEF HubInv, TypeOK, AnswerOK, SilentOK, Away, Elapsed, DropBound, Ended
<1>2. CASE ~AbsencesFit
  BY <1>2, HeartbeatBounds DEF HubInv, TypeOK, AnswerOK, Counted, DropBound
<1>. QED
  BY <1>1, <1>2

\* The heartbeat alone, with any peer and any task: a peer that has answered is
\* dropped as overdue only by a task that was away for the rest of the deadline
\* (heartbeat.rs, R-11-023), and one that is gone is dropped within DropBound as
\* long as the absences fit (R-11-022).
THEOREM HeartbeatIsRight == Spec => [](PromptPeerKept /\ DropsInTime)
<1>1. Init => HubInv
  <2> SUFFICES ASSUME Init PROVE HubInv
    OBVIOUS
  <2>1. TypeOK
    BY HeartbeatBounds DEF Init, TypeOK
  <2>. QED
    BY <2>1, HubInit DEF Init
<1>2. HubInv /\ [Next]_vars => HubInv'
  <2>1. Die => PeerGone
    BY DEF Die, PeerGone
  <2>2. [Next]_vars => HubStep \/ UNCHANGED vars
    BY <2>1 DEF Next, HubStep
  <2>. QED
    BY <2>2, HubInvStep
<1>. QED
  BY <1>1, <1>2, HubInvImplies, PTL DEF Spec
-----------------------------------------------------------------------------
(* The Host's side.                                                         *)

\* What a step of the Host's loop, of the network or of the Hub does to the task.
LEMMA LinkSeesHub == [LinkNext]_allVars => HubStep \/ UNCHANGED vars
<1> SUFFICES ASSUME [LinkNext]_allVars PROVE HubStep \/ UNCHANGED vars
  OBVIOUS
<1>1. CASE TaskStep \/ LinkTick
  BY <1>1 DEF LinkTick, HubStep
<1>2. CASE DialTaken \/ DialLimited \/ DialFails \/ Slept \/ RelayClosed
  BY <1>2 DEF DialTaken, DialLimited, DialFails, Slept, RelayClosed
<1>3. CASE DialAccepted \/ JoinTooLate \/ JoinUnheard
  BY <1>3 DEF DialAccepted, JoinTooLate, JoinUnheard, HubStep
<1>4. CASE PhoneArrives \/ WriteFails \/ Start \/ NetRecovers
  BY <1>4 DEF PhoneArrives, WriteFails, Start, NetRecovers
<1>5. CASE HandshakeFails \/ HostEndsSession \/ Stop \/ NetFails
  BY <1>5 DEF HandshakeFails, HostEndsSession, Stop, NetFails, HubStep
<1>6. CASE DeviceLeaves \/ HubRestarts
  BY <1>6 DEF DeviceLeaves, HubRestarts, HubStep
<1>7. CASE UNCHANGED allVars
  BY <1>7 DEF allVars
<1>. QED
  BY <1>1, <1>2, <1>3, <1>4, <1>5, <1>6, <1>7 DEF LinkNext, LoopStep

\* The longest sleep.
MaxSleep == (MaxWait * (100 + Jitter) + 99) \div 100

\* Every wait is at most the longest sleep.
LEMMA WaitsBounded ==
    ASSUME attempt \in 0..LastRung
    PROVE  /\ MaxSleep \in Nat
           /\ \A w \in Waits : w \in Nat /\ w <= MaxSleep
<1>1. Base \in Nat /\ Base <= MaxWait
  BY LinkBounds DEF Base
<1>2. \A a, b, c \in Nat : a <= b => a * c <= b * c
  OBVIOUS
<1>3. \A a, b \in Nat :
        a <= b => a \div 100 \in Nat /\ b \div 100 \in Nat /\ a \div 100 <= b \div 100
  OBVIOUS
<1>4. Base * (100 + Jitter) + 99 \in Nat /\ MaxWait * (100 + Jitter) + 99 \in Nat
      /\ Base * (100 + Jitter) + 99 <= MaxWait * (100 + Jitter) + 99
  BY <1>1, <1>2, LinkBounds
<1>5. (Base * (100 + Jitter) + 99) \div 100 \in Nat
      /\ (Base * (100 + Jitter) + 99) \div 100 <= MaxSleep /\ MaxSleep \in Nat
  BY <1>3, <1>4 DEF MaxSleep
<1>. QED
  BY <1>5 DEF Waits

\* The loop's state in each of its places, and how long it has been unregistered
\* with the network up.
OutOK ==
    /\ alive /\ ~Ended => Holds /\ ~half
    /\ host \notin {"dial", "wait"} \/ ~net => out = 0
    /\ host = "dial" => clock <= ConnectTimeout /\ (~net => hung) /\ (~hung => clock = 0)
    /\ hung => out <= clock
    /\ host = "wait" => out + clock <= ConnectTimeout + DropBound + MaxSleep
    /\ host = "dial" => out <= ConnectTimeout + DropBound + MaxSleep
    /\ net /\ host \in {"dial", "wait"} /\ ~Ended => out <= ConnectTimeout + silent
    /\ ~AbsencesFit => out = 0

\* LinkTypeOK of the loop, in two parts: the flags, and all else.
Flags == half \in BOOLEAN /\ hung \in BOOLEAN /\ net \in BOOLEAN

Ranges ==
    /\ host \in {"dial", "wait", "idle", "serving", "stopped"}
    /\ attempt \in 0..LastRung
    /\ connected \in 0..ResetAfter \cup {Never} /\ (connected # Never <=> host = "serving")
    /\ clock \in Nat
    /\ (half => Holds) /\ (hung => host = "dial")
    /\ troubles \in 0..MaxTroubles /\ out \in Nat

\* The parts are all of it.
LEMMA LinkTypeParts == LinkTypeOK <=> TypeOK /\ Flags /\ Ranges
BY DEF LinkTypeOK, Flags, Ranges

\* The loop starts with a dial and no socket at the Hub.
LEMMA LinkStarts == LinkInit => HubInv /\ Flags /\ Ranges /\ OutOK
<1> SUFFICES ASSUME LinkInit PROVE HubInv /\ Flags /\ Ranges /\ OutOK
  OBVIOUS
<1>1. alive \in BOOLEAN /\ Flags
  BY DEF LinkInit, Flags
<1>2. TypeOK
  BY <1>1, HeartbeatBounds DEF LinkInit, TypeOK
<1>3. HubInv
  BY <1>2, HubInit DEF LinkInit
<1>4. Ranges
  BY LinkBounds, HeartbeatBounds DEF LinkInit, Ranges
<1>5. 0 <= ConnectTimeout + DropBound + MaxSleep
  <2>1. MaxSleep \in Nat
    BY <1>4, WaitsBounded DEF Ranges
  <2>. QED
    BY <1>2, <2>1, LinkBounds, HeartbeatBounds DEF TypeOK, DropBound
<1>. QED
  BY <1>1, <1>3, <1>4, <1>5, LinkBounds DEF LinkInit, OutOK, Ended, Holds

\* What going to sleep does.
LEMMA NextWaitTypes ==
    ASSUME Ranges, NextWait
    PROVE  /\ host' = "wait" /\ ~half' /\ ~hung' /\ connected' = connected
           /\ clock' \in Nat /\ clock' <= MaxSleep /\ MaxSleep \in Nat
           /\ attempt' \in 0..LastRung
BY WaitsBounded, LinkBounds DEF Ranges, NextWait

\* What dialling again does.
LEMMA RedialTypes ==
    ASSUME NEW up \in BOOLEAN, Redial(up)
    PROVE  host' = "dial" /\ ~half' /\ clock' = 0 /\ (hung' <=> ~up)
BY Zenon DEF Redial

\* What losing an established connection does: the ladder, or a dial at once.
LEMMA LostTypes ==
    ASSUME Ranges, Holds, NEW up \in BOOLEAN, Lost(up)
    PROVE  /\ \/ host' = "wait" /\ clock' \in Nat /\ clock' <= MaxSleep /\ ~hung'
              \/ host' = "dial" /\ clock' = 0 /\ (hung' <=> ~up)
           /\ ~half' /\ connected' = Never /\ attempt' \in 0..LastRung /\ MaxSleep \in Nat
<1>1. CASE host = "idle" /\ NextWait
  BY <1>1, NextWaitTypes DEF Ranges
<1>2. CASE host = "serving" /\ RecordDisconnected /\ Redial(up)
  <2>1. host' = "dial" /\ ~half' /\ clock' = 0 /\ (hung' <=> ~up)
    BY <1>2, RedialTypes
  <2>2. connected' = Never /\ attempt' \in 0..LastRung /\ MaxSleep \in Nat
    BY <1>2, WaitsBounded, LinkBounds DEF Ranges, RecordDisconnected
  <2>. QED
    BY <2>1, <2>2
<1>. QED
  BY <1>1, <1>2 DEF Lost

\* Every step leaves the flags flags.
LEMMA FlagsStep == ASSUME Flags, [LinkNext]_allVars PROVE Flags'
<1> USE DEF Flags
<1>1. CASE TaskStep /\ UNCHANGED linkVars
  BY <1>1 DEF linkVars
<1>2. CASE DialAccepted \/ JoinUnheard \/ PhoneArrives \/ NetRecovers \/ HubRestarts \/ LinkTick
  BY <1>2, Zenon DEF DialAccepted, JoinUnheard, PhoneArrives, NetRecovers, HubRestarts, LinkTick
<1>3. CASE DialTaken \/ DialLimited \/ DialFails \/ JoinTooLate \/ HandshakeFails
  BY <1>3, Zenon DEF DialTaken, DialLimited, DialFails, JoinTooLate, HandshakeFails, NextWait
<1>4. CASE Slept \/ Start \/ HostEndsSession
  BY <1>4, Zenon DEF Slept, Start, HostEndsSession, Redial
<1>5. CASE RelayClosed \/ WriteFails
  BY <1>5, Zenon DEF RelayClosed, WriteFails, Lost, NextWait, Redial
<1>6. CASE DeviceLeaves
  BY <1>6 DEF DeviceLeaves, linkVars
<1>7. CASE Stop
  BY <1>7, Zenon DEF Stop
<1>8. CASE NetFails
  BY <1>8, Zenon DEF NetFails, Lost, NextWait, Redial
<1>9. CASE UNCHANGED allVars
  BY <1>9 DEF allVars, linkVars
<1>. QED
  BY <1>1, <1>2, <1>3, <1>4, <1>5, <1>6, <1>7, <1>8, <1>9 DEF LinkNext, LoopStep

\* Every step keeps the loop's other variables in their ranges.
LEMMA RangesStep == ASSUME Flags, Ranges, [LinkNext]_allVars PROVE Ranges'
<1> USE LinkBounds, HeartbeatBounds DEF Flags, Ranges, Holds
<1>1. CASE TaskStep /\ UNCHANGED linkVars
  BY <1>1 DEF linkVars
<1>2. CASE DialAccepted
  BY <1>2 DEF DialAccepted
<1>3. CASE DialTaken \/ DialLimited \/ DialFails \/ JoinTooLate
  <2>1. NextWait
    BY <1>3 DEF DialTaken, DialLimited, DialFails, JoinTooLate
  <2>2. host = "dial" /\ troubles' \in 0..MaxTroubles /\ out' \in Nat
    <3>1. CASE DialLimited
      BY <3>1 DEF DialLimited, Trouble
    <3>2. CASE DialTaken \/ DialFails \/ JoinTooLate
      BY <3>2 DEF DialTaken, DialFails, JoinTooLate
    <3>. QED
      BY <1>3, <3>1, <3>2
  <2>3. Ranges /\ connected' = Never
    BY <2>1, <2>2, NextWaitTypes
  <2>. QED
    BY <2>1, <2>2, <2>3, NextWaitTypes
<1>4. CASE JoinUnheard
  BY <1>4 DEF JoinUnheard, Trouble
<1>5. CASE Slept \/ Start
  BY <1>5 DEF Slept, Start, Redial
<1>6. CASE HandshakeFails
  BY <1>6, NextWaitTypes DEF HandshakeFails
<1>7. CASE RelayClosed \/ WriteFails
  <2>1. Ranges /\ Holds /\ Lost(net) /\ troubles' \in 0..MaxTroubles /\ out' \in Nat
    BY <1>7 DEF RelayClosed, WriteFails
  <2>. QED
    BY <2>1, LostTypes
<1>8. CASE HostEndsSession
  BY <1>8 DEF HostEndsSession, RecordDisconnected, Redial
<1>9. CASE DeviceLeaves
  BY <1>9 DEF DeviceLeaves, linkVars
<1>10. CASE Stop
  BY <1>10 DEF Stop, RecordDisconnected
<1>11. CASE NetFails
  <2>1. CASE Holds /\ ~half /\ Lost(FALSE)
    <3>1. Ranges /\ Holds /\ troubles' \in 0..MaxTroubles /\ out' \in Nat
      BY <1>11, <2>1 DEF NetFails, Trouble
    <3>2. PICK up \in BOOLEAN : Lost(up)
      BY <2>1
    <3>. QED
      BY <3>1, <3>2, LostTypes
  <2>2. CASE Holds /\ half' = TRUE /\ UNCHANGED <<host, attempt, connected, clock, hung>>
    BY <1>11, <2>2 DEF NetFails, Trouble
  <2>3. CASE ~Holds /\ hung' = (host = "dial") /\ UNCHANGED <<host, half, attempt, connected, clock>>
    BY <1>11, <2>3 DEF NetFails, Trouble
  <2>. QED
    BY <1>11, <2>1, <2>2, <2>3 DEF NetFails
<1>12. CASE NetRecovers
  BY <1>12 DEF NetRecovers
<1>13. CASE HubRestarts
  BY <1>13 DEF HubRestarts, Trouble
<1>14. CASE LinkTick
  <2>1. host' = host /\ attempt' = attempt /\ troubles' = troubles /\ (half' => half) /\ (hung' => hung)
    BY <1>14 DEF LinkTick
  <2>2. clock' \in Nat /\ out' \in Nat
    BY <1>14 DEF LinkTick, LinkUrgent
  <2>3. connected' = IF connected = Never \/ connected = ResetAfter THEN connected ELSE connected + 1
    BY <1>14 DEF LinkTick
  <2>. QED
    BY SMTT(60), <2>1, <2>2, <2>3
<1>15. CASE UNCHANGED allVars
  BY <1>15 DEF allVars, linkVars
<1>16. CASE PhoneArrives
  BY <1>16 DEF PhoneArrives
<1>. QED
  BY <1>1, <1>2, <1>3, <1>4, <1>5, <1>6, <1>7, <1>8, <1>9, <1>10, <1>11, <1>12, <1>13, <1>14, <1>15,
     <1>16 DEF LinkNext, LoopStep

\* Every step keeps OutOK.  The loop sleeps again only when its dial was refused,
\* while its older socket's task has a dead peer, or when the dial ran out of time.
LEMMA OutStep ==
    ASSUME HubInv, Flags, Ranges, OutOK, [LinkNext]_allVars
    PROVE  OutOK'
<1> DEFINE Bound == ConnectTimeout + DropBound
<1>1. /\ DropBound \in Nat /\ Bound \in Nat /\ MaxSleep \in Nat /\ silent \in Nat
      /\ DropBound' \in Nat /\ DropBound' >= DropBound /\ (AbsencesFit' => AbsencesFit)
  <2>1. DropBound \in Nat /\ Bound \in Nat /\ MaxSleep \in Nat /\ silent \in Nat
    BY HeartbeatBounds, LinkBounds, WaitsBounded DEF DropBound, Ranges, HubInv, TypeOK
  <2>2. DropBound' \in Nat /\ DropBound' >= DropBound /\ (AbsencesFit' => AbsencesFit)
    <3>1. CASE HubStep
      BY <3>1, WorstGrows DEF HubInv
    <3>2. CASE UNCHANGED vars
      BY <2>1, <3>2 DEF vars, DropBound, AbsencesFit
    <3>. QED
      BY <3>1, <3>2, LinkSeesHub
  <2>. QED
    BY <2>1, <2>2
<1>2. ~Ended => silent <= DropBound
  BY HubInvImplies
<1>3. alive => silent = 0
  BY DEF HubInv, Counted
<1>0. silent' \in Nat
  BY LinkSeesHub, HubInvStep DEF HubInv, TypeOK
\* Absences stop to fit only where out is reset.
<1>28. worst' = worst => (AbsencesFit' <=> AbsencesFit)
  BY DEF AbsencesFit
<1> HIDE DEF Bound
<1> USE LinkBounds DEF Flags, Ranges, Holds
\* A dial that ends in a sleep no later than Bound.
<1>4. ASSUME host = "dial", NextWait, out' \in Nat, out' <= Bound,
             net' /\ ~Ended' => out' <= ConnectTimeout + silent',
             ~net' \/ ~AbsencesFit' => out' = 0, alive' => Ended'
      PROVE  OutOK'
  BY <1>1, <1>4, NextWaitTypes DEF OutOK, Bound
<1>5. CASE TaskStep /\ UNCHANGED linkVars
  <2>1. alive' = alive /\ (~Ended' => ~Ended) /\ silent' = silent /\ worst' = worst
    BY <1>5 DEF TaskStep, ReadPong, GoAway, ComeBack, SendPing, PingSent, PingFails, PongOverdue,
           ReadEnd, Answer, Ended
  <2>. QED
    BY <1>1, <1>5, <1>28, <2>1 DEF OutOK, linkVars
<1>6. CASE DialAccepted
  BY <1>6 DEF DialAccepted, OutOK
<1>7. CASE DialTaken
  <2>1. out <= Bound
    BY <1>1, <1>2, <1>7 DEF DialTaken, OutOK, Bound
  <2>. QED
    BY <1>4, <1>7, <1>28, <2>1 DEF DialTaken, OutOK, vars, Ended
<1>8. CASE DialLimited
  BY <1>1, <1>4, <1>8 DEF DialLimited, Trouble, OutOK, vars, Ended
<1>9. CASE DialFails
  <2>1. out <= ConnectTimeout
    BY <1>9 DEF DialFails, OutOK
  <2>. QED
    BY <1>1, <1>4, <1>9, <1>28, <2>1 DEF DialFails, OutOK, vars, Ended, Bound
<1>10. CASE JoinTooLate
  <2>1. out <= ConnectTimeout
    BY <1>10 DEF JoinTooLate, OutOK
  <2>2. ~alive' /\ silent' = 0 /\ worst' = worst /\ net' /\ out' = out /\ host = "dial" /\ NextWait
    BY <1>10 DEF JoinTooLate, Joins
  <2>. QED
    BY <1>1, <1>4, <1>28, <2>1, <2>2 DEF Bound, OutOK
<1>11. CASE JoinUnheard
  BY <1>1, <1>11 DEF JoinUnheard, Joins, Trouble, OutOK, Bound
<1>12. CASE Slept
  <2>1. host = "wait" /\ clock = 0 /\ Redial(net) /\ out' = out /\ net' = net /\ UNCHANGED vars
    BY <1>12 DEF Slept
  <2>. QED
    BY <1>1, <1>28, <2>1, RedialTypes DEF OutOK, vars, Ended
<1>13. CASE PhoneArrives
  BY <1>13 DEF PhoneArrives, OutOK, vars, Ended
<1>14. CASE HandshakeFails
  BY <1>1, <1>14, NextWaitTypes DEF HandshakeFails, PeerGone, OutOK, Ended, Bound
<1>15. CASE HostEndsSession
  <2>1. host = "serving" /\ Redial(net) /\ out' = out /\ net' = net /\ PeerGone
    BY <1>15 DEF HostEndsSession
  <2>2. ~alive' /\ silent' = silent
    BY <2>1 DEF PeerGone
  <2>3. host' = "dial" /\ clock' = 0 /\ (~net' => hung') /\ (hung' => ~net')
    BY <2>1, RedialTypes
  <2>4. out' = 0
    BY <2>1 DEF OutOK
  <2>. QED
    BY <1>1, <2>2, <2>3, <2>4 DEF OutOK, Bound
<1>16. CASE DeviceLeaves
  BY <1>16 DEF DeviceLeaves, TaskEnds, linkVars, OutOK, Ended
<1>17. CASE HubRestarts
  BY <1>1, <1>17 DEF HubRestarts, TaskEnds, Trouble, OutOK, Ended, Bound
<1>18. ASSUME NEW up \in BOOLEAN, Holds, Lost(up), out' = 0, net' = up, alive' => Ended'
       PROVE  OutOK'
  <2>1. \/ host' = "wait" /\ clock' \in Nat /\ clock' <= MaxSleep /\ ~hung'
        \/ host' = "dial" /\ clock' = 0 /\ (~net' => hung')
    BY <1>18, LostTypes
  <2>2. 0 <= ConnectTimeout + silent'
    BY <1>0
  <2>. QED
    BY <1>1, <1>18, <2>1, <2>2 DEF OutOK, Bound
<1>19. CASE RelayClosed
  <2>1. Holds /\ Ended /\ Lost(net) /\ out' = out /\ net' = net /\ UNCHANGED vars
    BY <1>19 DEF RelayClosed
  <2>. QED
    BY <1>18, <2>1 DEF OutOK, vars, Ended
<1>20. CASE WriteFails
  <2>1. Holds /\ half /\ Lost(net) /\ out' = 0 /\ net' = net /\ UNCHANGED vars
    BY <1>20 DEF WriteFails
  <2>. QED
    BY <1>18, <2>1 DEF OutOK, vars, Ended
<1>21. CASE Stop
  BY <1>21 DEF Stop, PeerGone, OutOK, Ended
<1>22. CASE Start
  <2>1. host = "stopped" /\ Redial(net) /\ out' = out /\ net' = net /\ UNCHANGED vars
    BY <1>22 DEF Start
  <2>. QED
    BY <1>1, <2>1, RedialTypes DEF OutOK, vars, Ended, Bound
<1>23. CASE NetFails
  <2>1. ~net' /\ out' = 0 /\ ~alive'
    BY <1>23 DEF NetFails, Trouble, PeerGone
  <2>2. CASE Holds /\ ~half /\ Lost(FALSE)
    <3>1. PICK up \in BOOLEAN : Lost(up) /\ ~up
      BY <2>2
    <3>. QED
      BY <1>1, <2>1, <2>2, <3>1, LostTypes DEF OutOK, Bound
  <2>3. CASE Holds /\ half' = TRUE /\ UNCHANGED <<host, attempt, connected, clock, hung>>
    BY <2>1, <2>3 DEF OutOK
  <2>4. CASE ~Holds /\ hung' = (host = "dial") /\ UNCHANGED <<host, half, attempt, connected, clock>>
    <3>1. hung' <=> host = "dial"
      BY <2>4
    <3>2. UNCHANGED <<host, half, clock>> /\ ~Holds
      BY <2>4
    <3>. QED
      BY <1>1, <2>1, <3>1, <3>2 DEF OutOK, Bound
  <2>. QED
    BY <1>23, <2>2, <2>3, <2>4 DEF NetFails
<1>24. CASE NetRecovers
  BY <1>1, <1>24 DEF NetRecovers, OutOK, vars, Ended, Bound
<1>25. CASE LinkTick
  <2>1. /\ clock' = IF host = "dial" THEN clock + 1 ELSE IF host = "wait" THEN clock - 1 ELSE clock
        /\ out' = IF net /\ host \in {"dial", "wait"} /\ AbsencesFit' THEN out + 1 ELSE 0
        /\ UNCHANGED <<host, half, attempt, hung, net, troubles>>
        /\ host = "dial" => clock # ConnectTimeout /\ (~net \/ hung)
        /\ host = "wait" => clock # 0
    BY <1>25 DEF LinkTick, LinkUrgent
  <2>2. alive' = alive /\ (Ended' <=> Ended)
    BY <1>25 DEF LinkTick, Tick, Ended, vars
  <2>3. net /\ host \in {"dial", "wait"} /\ ~Ended => ~alive
    BY DEF OutOK
  <2>4. (net /\ host \in {"dial", "wait"} /\ ~Ended => out <= ConnectTimeout + silent)'
    <3>1. CASE AbsencesFit' /\ net /\ host \in {"dial", "wait"} /\ ~Ended
      <4>1. silent' = silent + 1
        BY <1>25, <2>3, <3>1 DEF LinkTick, Tick
      <4>. QED
        BY <1>1, <2>1, <3>1, <4>1 DEF OutOK
    <3>. QED
      BY <1>0, <1>1, <2>1, <2>2, <3>1
  <2>5. (hung => out <= clock)'
    BY <2>1 DEF OutOK
  <2>6. (host = "dial" => out <= ConnectTimeout + DropBound + MaxSleep)'
    <3>1. host = "dial" => out' <= ConnectTimeout
      BY <2>1 DEF OutOK
    <3>. QED
      BY <1>1, <2>1, <3>1
  <2>7. (host = "wait" => out + clock <= ConnectTimeout + DropBound + MaxSleep)'
    BY <1>1, <2>1 DEF OutOK
  <2>8. (alive /\ ~Ended => Holds /\ ~half)'
    BY <2>1, <2>2 DEF OutOK
  <2>9. /\ (host \notin {"dial", "wait"} \/ ~net => out = 0)'
        /\ (~AbsencesFit => out = 0)'
    BY <2>1
  <2>10. (host = "dial" => clock <= ConnectTimeout /\ (~net => hung) /\ (~hung => clock = 0))'
    <3>1. host = "dial" => clock <= ConnectTimeout /\ (~net => hung)
      BY Zenon DEF OutOK
    <3>2. host = "dial" => clock' = clock + 1 /\ clock # ConnectTimeout
      BY <2>1
    <3>3. host = "dial" => clock' <= ConnectTimeout
      <4>1. clock \in Nat /\ ConnectTimeout \in Nat
        OBVIOUS
      <4>. HIDE LinkBounds DEF Flags, Ranges, Holds
      <4>. QED
        BY <3>1, <3>2, <4>1
    <3>4. host = "dial" => hung
      BY Zenon, <2>1, <3>1
    <3>. QED
      BY <2>1, <3>3, <3>4
  <2>. QED
    BY <2>4, <2>5, <2>6, <2>7, <2>8, <2>9, <2>10 DEF OutOK
<1>26. CASE UNCHANGED allVars
  BY <1>1, <1>26, <1>28 DEF allVars, vars, linkVars, OutOK, Ended
<1>. QED
  BY <1>5, <1>6, <1>7, <1>8, <1>9, <1>10, <1>11, <1>12, <1>13, <1>14, <1>15, <1>16, <1>17, <1>19,
     <1>20, <1>21, <1>22, <1>23, <1>24, <1>25, <1>26 DEF LinkNext, LoopStep

-----------------------------------------------------------------------------
(* The theorems.                                                            *)

LinkInv == HubInv /\ Flags /\ Ranges /\ OutOK

\* Every step of the Host, the network and the Hub keeps the invariant.
LEMMA LinkInvStep == LinkInv /\ [LinkNext]_allVars => LinkInv'
<1> SUFFICES ASSUME LinkInv, [LinkNext]_allVars PROVE LinkInv'
  OBVIOUS
<1>1. HubInv /\ Flags /\ Ranges /\ OutOK
  BY DEF LinkInv
<1>2. HubInv'
  BY <1>1, LinkSeesHub, HubInvStep
<1>3. Flags' /\ Ranges' /\ OutOK'
  BY <1>1, FlagsStep, RangesStep, OutStep
<1>. QED
  BY <1>2, <1>3 DEF LinkInv

\* Both sides' variables hold values of their kind, and the counters and the clock
\* stay in their ranges, however long the task is away.
THEOREM TypeCorrect == LinkSpec => []LinkTypeOK
<1>1. LinkInit => TypeOK /\ Flags /\ Ranges
  BY LinkStarts DEF HubInv
<1>2. TypeOK /\ Flags /\ Ranges /\ [LinkNext]_allVars => TypeOK' /\ Flags' /\ Ranges'
  <2> SUFFICES ASSUME TypeOK, Flags, Ranges, [LinkNext]_allVars
               PROVE  TypeOK' /\ Flags' /\ Ranges'
    OBVIOUS
  <2>1. TypeOK'
    <3>1. CASE HubStep
      BY <3>1, HubTypeStep
    <3>2. CASE UNCHANGED vars
      BY <3>2 DEF TypeOK, vars
    <3>. QED
      BY <3>1, <3>2, LinkSeesHub
  <2>. QED
    BY <2>1, FlagsStep, RangesStep
<1>. QED
  BY <1>1, <1>2, LinkTypeParts, PTL DEF LinkSpec

\* Through dials, refusals, losses and restarts, the Hub drops a connection whose
\* peer has answered its ping only if its task was away for the rest of the
\* deadline (heartbeat.rs, R-11-023).
THEOREM PromptPeersAreKept == LinkSpec => []PromptPeerKept
<1>1. LinkInit => LinkInv
  BY LinkStarts DEF LinkInv
<1>2. LinkInv => PromptPeerKept
  BY HubInvImplies DEF LinkInv
<1>. QED
  BY <1>1, <1>2, LinkInvStep, PTL DEF LinkSpec

\* A room whose Host is gone is free again within DropBound, as long as the
\* absences of the Hub's task fit (R-11-022).
THEOREM DeadPeersAreDropped == LinkSpec => []DropsInTime
<1>1. LinkInit => LinkInv
  BY LinkStarts DEF LinkInv
<1>2. LinkInv => DropsInTime
  BY HubInvImplies DEF LinkInv
<1>. QED
  BY <1>1, <1>2, LinkInvStep, PTL DEF LinkSpec

\* A Host that knows its registration is lost has it back in time, or the network
\* or the Hub fails again (bridge.rs registration_loop, R-10-068).
THEOREM HostIsBackInTime == LinkSpec => []ReregistersInTime
<1>1. LinkInit => LinkInv
  BY LinkStarts DEF LinkInv
<1>2. LinkInv => ReregistersInTime
  <2> SUFFICES ASSUME LinkInv PROVE ReregistersInTime
    OBVIOUS
  <2>1. Ranges /\ OutOK
    BY DEF LinkInv
  <2>2. MaxSleep \in Nat /\ ConnectTimeout + DropBound \in Nat
    BY <2>1, WaitsBounded, LinkBounds, HeartbeatBounds DEF Ranges, DropBound, LinkInv, HubInv, TypeOK
  <2>3. out <= ConnectTimeout + DropBound + MaxSleep
    BY <2>1, <2>2 DEF Ranges, OutOK
  <2>. QED
    BY <2>3 DEF ReregistersInTime, MaxSleep
<1>. QED
  BY <1>1, <1>2, LinkInvStep, PTL DEF LinkSpec

-----------------------------------------------------------------------------
(* The pairing pane and the bridge it calls (Popup, Control).                *)

\* The pairing i is not one a phone could still use.
Dead(i) == pair.id # i \/ ~Live(pair)

\* An open pairing belongs to a running bridge, whose endpoint is published.
Alone ==
    /\ bridge # 0 => endpoint = bridge
    /\ bridge = 0 => pair = NoPair

\* Pairings are numbered by their opening, and the pane knows none to come.
Numbered ==
    /\ opens \in Nat
    /\ pair \in [id : 0..opens, registered : BOOLEAN, age : Nat, spent : BOOLEAN]
    /\ screen \in 0..opens
    /\ snap = NoSnap \/ ("id" \in DOMAIN snap /\ snap.id \in 0..opens)

\* A call that cannot reach the bridge it was read for meets no pairing the
\* pane has drawn.
Missed ==
    /\ token # Unread => pc = "call"
    /\ token \notin {Unread, bridge} => Dead(screen)

\* The pane's snapshot names the pairing it drew, as long as it lives.
Recorded == closeLost \/ Dead(screen) \/ (snap # NoSnap /\ snap.id = screen)

\* After q nothing brings the drawn pairing back.
Left == pc = "quit" => closeLost \/ Dead(screen)

Asked == confirm = [ask |-> confirm.ask, dev |-> confirm.dev]

\* The call a key begins with.
KeyCall(call) ==
    \/ call \in {Call(Open), Call(StopIt), Must(All)}
    \/ call = Must(One(answered.dev)) /\ answered = [ask |-> "one", dev |-> answered.dev]

Work ==
    /\ back \in {"draw", "key", "quit"}
    /\ pc = "call" =>
        IF back = "quit" THEN todo = <<Call(Close)>>
        ELSE \/ todo \in {<<Reload>>, <<ReloadNoted>>}
             \/ /\ Len(todo) = 2 /\ KeyCall(todo[1]) /\ todo[2] \in {Reload, ReloadNoted}
                /\ todo = <<todo[1], todo[2]>>

PaneInv == Alone /\ Numbered /\ Missed /\ Recorded /\ Left /\ Asked /\ Work

-----------------------------------------------------------------------------
\* The smaller of two numbers (FiniteSetsExt).
LEMMA MinOfTwo ==
    ASSUME NEW a \in Int, NEW b \in Int
    PROVE  Min({a, b}) = IF a <= b THEN a ELSE b
BY DEF Min

\* No step of the bridge's own revives a pairing, and none renames one: the
\* pairing is kept, is taken, is further on in its life, or is a new one.
Onward ==
    \/ pair' \in {pair, NoPair}
    \/ pair'.id = pair.id /\ (Live(pair') => Live(pair))
    \/ pair'.id = opens + 1

\* What was over stays over.
LEMMA DeadStays ==
    ASSUME Numbered, Onward, NEW i \in 0..opens, Dead(i)
    PROVE  Dead(i)'
<1>1. CASE pair' \in {pair, NoPair}
  BY <1>1 DEF Dead, NoPair, Live
<1>2. CASE pair'.id = pair.id /\ (Live(pair') => Live(pair))
  BY <1>2 DEF Dead
<1>3. CASE pair'.id = opens + 1
  BY <1>3 DEF Dead, Numbered
<1> QED
  BY <1>1, <1>2, <1>3 DEF Onward

\* A pairing just opened is a live one.
LEMMA NewPairing ==
    ASSUME NEW k \in Nat \ {0}
    PROVE  /\ [NoPair EXCEPT !.id = k] \in [id : 0..k, registered : BOOLEAN, age : Nat, spent : BOOLEAN]
           /\ [NoPair EXCEPT !.id = k].id = k
           /\ Live([NoPair EXCEPT !.id = k])
<1> DEFINE new == [NoPair EXCEPT !.id = k]
<1>1. new.id = k
  BY DEF NoPair
<1>2. new.age = 0 /\ new.spent = FALSE /\ new.registered = FALSE
  BY DEF NoPair
<1>4. NoPair \in [id : 0..k, registered : BOOLEAN, age : Nat, spent : BOOLEAN]
  BY DEF NoPair
<1>5. new \in [id : 0..k, registered : BOOLEAN, age : Nat, spent : BOOLEAN]
  BY <1>4
<1>6. 0 <= Lifetime
  BY ControlAssumption
<1> HIDE DEF new
<1>7. Live(new)
  BY <1>1, <1>2, <1>6 DEF Live
<1> QED
  BY <1>1, <1>5, <1>7 DEF new

\* HostCore::handle on the bridge's state: the pairing, and its number.
LEMMA HandleKeeps ==
    ASSUME Numbered, NEW c, SetCore(Handle(Core, c))
    PROVE  /\ Onward
           /\ opens' \in {opens, opens + 1}
           /\ pair' \in [id : 0..opens', registered : BOOLEAN, age : Nat, spent : BOOLEAN]
           /\ c = Close => pair' = NoPair
           /\ c = Status => pair' = IF Live(pair) THEN pair ELSE NoPair
<1>1. Core = [devs |-> devs, pair |-> pair, link |-> link, opens |-> opens]
  BY DEF Core
<1>2. CASE c.cmd = "status"
  BY <1>1, <1>2 DEF SetCore, Handle, Reaped, Onward, Numbered, NoPair, Status, Close
<1>3. CASE c.cmd = "open_pairing"
  <2>1. CASE Live(pair)
    BY <1>1, <1>3, <2>1 DEF SetCore, Handle, Reaped, OpenPairing, Onward, Numbered, NoPair, Status, Close
  <2>2. CASE ~Live(pair)
    <3> DEFINE new == [NoPair EXCEPT !.id = opens + 1]
    <3>1. opens + 1 \in Nat \ {0}
      BY DEF Numbered
    <3>2. new \in [id : 0..(opens + 1), registered : BOOLEAN, age : Nat, spent : BOOLEAN]
      BY <3>1, NewPairing
    <3>3. new.id = opens + 1 /\ Live(new)
      BY <3>1, NewPairing
    <3> HIDE DEF new
    <3>4. OpenPairing(Core).pair = new /\ OpenPairing(Core).opens = opens + 1
      BY <1>1, <2>2 DEF OpenPairing, new
    <3>5. DOMAIN OpenPairing(Core) = {"devs", "pair", "link", "opens"}
      BY <1>1, <2>2 DEF OpenPairing
    <3>6. Reaped(OpenPairing(Core)).pair = new /\ Reaped(OpenPairing(Core)).opens = opens + 1
      BY <3>3, <3>4, <3>5 DEF Reaped
    <3>7. pair' = new /\ opens' = opens + 1
      BY <1>3, <3>6 DEF SetCore, Handle
    <3>8. c # Status /\ c # Close
      BY <1>3 DEF Status, Close
    <3> QED
      BY <3>1, <3>2, <3>3, <3>7, <3>8 DEF Onward
  <2> QED
    BY <2>1, <2>2
<1>4. CASE c.cmd = "close_pairing"
  BY <1>1, <1>4 DEF SetCore, Handle, Onward, Numbered, NoPair, Status, Close
<1>5. CASE c.cmd = "revoke"
  BY <1>1, <1>5 DEF SetCore, Handle, RevokeOne, Onward, Numbered, NoPair, Status, Close
<1>6. CASE c.cmd = "revoke_all"
  BY <1>1, <1>6 DEF SetCore, Handle, RevokeAll, Onward, Numbered, NoPair, Status, Close
<1>7. CASE c.cmd \notin {"status", "open_pairing", "close_pairing", "revoke", "revoke_all"}
  BY <1>1, <1>7 DEF SetCore, Handle, Onward, Numbered, NoPair, Status, Close
<1> QED
  BY <1>2, <1>3, <1>4, <1>5, <1>6, <1>7

PairType(n) == [id : 0..n, registered : BOOLEAN, age : Nat, spent : BOOLEAN]

\* What a step may do to the bridge's pairing and to their number.
Moves ==
    /\ Onward
    /\ opens' \in {opens, opens + 1}
    /\ pair' \in PairType(opens')

\* A bridge without a pairing leaves none to be drawn.
LEMMA NoneIsDead == ASSUME NEW i, pair = NoPair PROVE Dead(i)
BY DEF Dead, NoPair, Live

\* Zero is no pairing.
LEMMA ZeroIsDead == Dead(0)
BY DEF Dead, Live

\* A step of the bridge the pane does not see.
LEMMA BridgeMoves ==
    ASSUME PaneInv, Moves, Alone', UNCHANGED paneVars,
           bridge' = bridge \/ pair' = NoPair
    PROVE  PaneInv'
<1> USE DEF PaneInv, paneVars
<1>1. Numbered'
  BY DEF Moves, Numbered, PairType
<1>2. Dead(screen) => Dead(screen)'
  BY DeadStays DEF Moves, Numbered
<1>3. pair' = NoPair => Dead(screen)'
  BY DEF Dead, NoPair, Live
<1>4. Missed'
  <2>1. CASE pair' = NoPair
    BY <1>3, <2>1 DEF Missed, Dead
  <2>2. CASE bridge' = bridge
    BY <1>2, <2>2 DEF Missed, Unread, Dead
  <2> QED
    BY <2>1, <2>2
<1>5. Recorded' /\ Left'
  BY <1>2 DEF Recorded, Left, Dead
<1>6. Asked' /\ Work'
  BY DEF Asked, Work, KeyCall
<1> QED
  BY <1>1, <1>4, <1>5, <1>6

\* The handler, the pairing loop and a start or an end of the bridge.
LEMMA BridgeKeeps ==
    ASSUME PaneInv, BridgeStep, UNCHANGED paneVars
    PROVE  PaneInv'
<1>1. CASE Register
  <2>1. Moves
    BY <1>1 DEF Register, Moves, Onward, PairType, PaneInv, Numbered, coreVars, lifeVars, Live
  <2>2. Alone' /\ bridge' = bridge
    BY <1>1 DEF Register, Alone, PaneInv, lifeVars
  <2> QED
    BY <2>1, <2>2, BridgeMoves
<1>2. CASE Spend
  <2>1. Moves
    BY <1>2 DEF Spend, Moves, Onward, PairType, PaneInv, Numbered, lifeVars, Live
  <2>2. Alone' /\ bridge' = bridge
    BY <1>2 DEF Spend, Alone, PaneInv, lifeVars
  <2> QED
    BY <2>1, <2>2, BridgeMoves
<1>3. CASE EndPairing
  <2>1. Moves
    BY <1>3 DEF EndPairing, Moves, Onward, PairType, PaneInv, Numbered, NoPair
  <2>2. Alone' /\ bridge' = bridge
    BY <1>3 DEF EndPairing, Alone, PaneInv, lifeVars
  <2> QED
    BY <2>1, <2>2, BridgeMoves
<1>4. CASE Crash
  <2>1. Moves
    BY <1>4 DEF Crash, Fresh, Moves, Onward, PairType, PaneInv, Numbered, NoPair
  <2>2. Alone' /\ pair' = NoPair
    BY <1>4 DEF Crash, Fresh, Alone
  <2> QED
    BY <2>1, <2>2, BridgeMoves
<1>5. CASE Shutdown
  <2>1. Moves
    BY <1>5 DEF Shutdown, Fresh, Moves, Onward, PairType, PaneInv, Numbered, NoPair
  <2>2. Alone' /\ pair' = NoPair
    BY <1>5 DEF Shutdown, Fresh, Alone
  <2> QED
    BY <2>1, <2>2, BridgeMoves
<1>6. CASE StartBridge
  <2>1. Moves
    BY <1>6 DEF StartBridge, coreVars, Moves, Onward, PairType, PaneInv, Numbered
  <2>2. Alone' /\ pair' = NoPair
    BY <1>6 DEF StartBridge, coreVars, Alone, PaneInv
  <2> QED
    BY <2>1, <2>2, BridgeMoves
<1>7. ASSUME NEW d \in Devices, Enrol(d) PROVE PaneInv'
  <2>1. Moves
    BY <1>7 DEF Enrol, Moves, Onward, PairType, PaneInv, Numbered, NoPair, lifeVars
  <2>2. Alone' /\ bridge' = bridge
    BY <1>7 DEF Enrol, Alone, PaneInv, lifeVars
  <2> QED
    BY <2>1, <2>2, BridgeMoves
<1>8. ASSUME NEW l, Relink(l) PROVE PaneInv'
  <2>1. Moves
    BY <1>8 DEF Relink, Moves, Onward, PairType, PaneInv, Numbered
  <2>2. Alone' /\ bridge' = bridge
    BY <1>8 DEF Relink, Alone, PaneInv, lifeVars
  <2> QED
    BY <2>1, <2>2, BridgeMoves
<1>9. ASSUME NEW c \in Commands, OtherClient(c) PROVE PaneInv'
  <2>1. Moves
    BY <1>9, HandleKeeps DEF OtherClient, Moves, PairType, PaneInv
  <2>2. Alone' /\ bridge' = bridge
    BY <1>9 DEF OtherClient, Alone, PaneInv, lifeVars
  <2> QED
    BY <2>1, <2>2, BridgeMoves
<1> QED
  BY <1>1, <1>2, <1>3, <1>4, <1>5, <1>6, <1>7, <1>8, <1>9 DEF BridgeStep

-----------------------------------------------------------------------------
Outcomes == {"ok", "down", "error", "rejected"}

\* A snapshot is a record with the pairing's number in it.
LEMMA SnapshotOf ==
    ASSUME NEW s
    PROVE  SnapOf(s) # NoSnap /\ "id" \in DOMAIN SnapOf(s) /\ SnapOf(s).id = s.pair.id
<1>1. DOMAIN SnapOf(s) = {"devs", "id", "registered", "left", "link"}
  BY DEF SnapOf
<1>2. DOMAIN NoSnap = {"none"}
  BY DEF NoSnap
<1>3. SnapOf(s).id = s.pair.id
  BY DEF SnapOf
<1> QED
  BY <1>1, <1>2, <1>3

\* What is left of a list of one call, or of two.
LEMMA OneAndTwo ==
    ASSUME NEW x, NEW y
    PROVE  /\ Head(<<x>>) = x /\ Tail(<<x>>) = <<>> /\ Len(<<x>>) = 1
           /\ Head(<<x, y>>) = x /\ Tail(<<x, y>>) = <<y>> /\ Len(<<x, y>>) = 2
           /\ <<x>> # <<>> /\ <<x, y>> # <<>>
<1> DEFINE S == {x, y}
           two == <<x, y>>
           one == <<x>>
           rest == <<y>>
<1>1. x \in S /\ y \in S
  OBVIOUS
<1> HIDE DEF S
<1>2. two \in Seq(S) /\ Len(two) = 2 /\ two[1] = x /\ two[2] = y
  BY <1>1
<1>3. one \in Seq(S) /\ Len(one) = 1 /\ one[1] = x
  BY <1>1
<1>4. rest \in Seq(S) /\ Len(rest) = 1 /\ rest[1] = y
  BY <1>1
<1> HIDE DEF two, one, rest
<1>5. Tail(two) \in Seq(S) /\ Len(Tail(two)) = 1 /\ Tail(two)[1] = y /\ Head(two) = x
  BY <1>2
<1>6. Tail(two) = rest
  <2> DEFINE t == Tail(two)
  <2>1. t \in Seq(S) /\ Len(t) = 1 /\ t[1] = y
    BY <1>5
  <2> HIDE DEF t
  <2>2. Len(t) = Len(rest) /\ \A i \in 1..Len(t) : t[i] = rest[i]
    BY <1>4, <2>1
  <2>. QED
    BY <1>4, <2>1, <2>2, SeqEqual DEF t
<1>7. Tail(one) \in Seq(S) /\ Len(Tail(one)) = 0 /\ Head(one) = x
  BY <1>3
<1>8. Tail(one) = <<>>
  BY <1>7, EmptySeq
<1>9. one # <<>> /\ two # <<>>
  <2>1. Len(<<>>) = 0 /\ Len(one) # 0 /\ Len(two) # 0
    BY <1>2, <1>3
  <2>. QED
    BY <2>1, Zenon
<1>. QED
  BY <1>2, <1>3, <1>5, <1>6, <1>7, <1>8, <1>9 DEF one, two, rest

\* Whatever becomes of a call, the pane's picture of the pairing it drew is
\* right, or the pane knows that it is not.
LEMMA DigestKeeps ==
    ASSUME PaneInv, pc = "call", NEW s, NEW outcome \in Outcomes,
           Digest(Head(todo), outcome, s), Moves, Alone', UNCHANGED bridge,
           outcome = "ok" /\ Head(todo).c = Status => s.pair = pair' /\ pair' \in {pair, NoPair},
           outcome = "ok" /\ Head(todo).c = Close => pair' = NoPair,
           outcome = "down" => Dead(screen)
    PROVE  PaneInv'
<1> DEFINE call == Head(todo)
<1>1. /\ todo' = IF outcome # "ok" /\ call.must THEN <<>> ELSE Tail(todo)
      /\ pc' = IF todo' = <<>> THEN back ELSE "call"
      /\ token' = Unread
      /\ closeLost' = (closeLost \/ (call.c = Close /\ outcome # "ok"))
      /\ answered' = IF todo' = <<>> THEN NoQuestion ELSE answered
      /\ UNCHANGED <<back, noticed, confirm, table, screen>>
  BY DEF Digest
<1>2. IF outcome = "ok" /\ call.c = Status
      THEN snap' = SnapOf(s)
      ELSE IF outcome = "down" THEN snap' = NoSnap
      ELSE IF call.c = Close /\ snap # NoSnap THEN snap' = [snap EXCEPT !.id = 0]
      ELSE snap' = snap
  BY DEF Digest
<1>3. /\ Dead(screen) => Dead(screen)'
      /\ pair' = NoPair => Dead(screen)'
  <2>1. pair' = NoPair => Dead(screen)'
    BY DEF Dead, NoPair, Live
  <2> QED
    BY <1>1, <2>1, DeadStays DEF PaneInv, Numbered, Moves, Dead
<1> HIDE DEF call
<1>4. Numbered'
  <2>1. screen' \in 0..opens' /\ opens' \in Nat /\ pair' \in PairType(opens')
    BY <1>1 DEF PaneInv, Numbered, Moves
  <2>2. snap' = NoSnap \/ ("id" \in DOMAIN snap' /\ snap'.id \in 0..opens')
    <3>1. CASE outcome = "ok" /\ call.c = Status
      <4>1. snap' = SnapOf(s) /\ s.pair = pair'
        BY <1>2, <3>1 DEF call
      <4>2. pair'.id \in 0..opens'
        BY <2>1 DEF PairType
      <4> QED
        BY <4>1, <4>2, SnapshotOf
    <3>2. CASE snap' \in {NoSnap, snap}
      BY <3>2 DEF PaneInv, Numbered, Moves
    <3>3. CASE snap # NoSnap /\ snap' = [snap EXCEPT !.id = 0]
      <4>1. DOMAIN snap' = DOMAIN snap /\ "id" \in DOMAIN snap
        BY <3>3 DEF PaneInv, Numbered
      <4>2. snap'.id = 0
        BY <3>3, <4>1
      <4> QED
        BY <2>1, <4>1, <4>2
    <3> QED
      BY <1>2, <3>1, <3>2, <3>3
  <2> QED
    BY <2>1, <2>2 DEF Numbered, PairType
<1>5. Missed'
  BY <1>1 DEF Missed
<1>6. Recorded'
  <2>1. CASE closeLost \/ Dead(screen)
    BY <1>1, <1>3, <2>1 DEF Recorded, Dead
  <2>2. CASE snap # NoSnap /\ snap.id = screen
    <3>1. CASE outcome = "ok" /\ call.c = Status
      <4>1. snap' = SnapOf(s) /\ s.pair = pair'
        BY <1>2, <3>1 DEF call
      <4>2. snap' # NoSnap /\ snap'.id = pair'.id
        BY <4>1, SnapshotOf
      <4> QED
        BY <1>1, <4>2 DEF Recorded, Dead
    <3>2. CASE outcome = "down"
      BY <1>3, <3>2 DEF Recorded
    <3>3. CASE call.c = Close
      BY <1>1, <1>3, <3>3 DEF Recorded, call
    <3>4. CASE ~(outcome = "ok" /\ call.c = Status) /\ outcome # "down" /\ call.c # Close
      BY <1>1, <1>2, <2>2, <3>4 DEF Recorded
    <3> QED
      BY <3>1, <3>2, <3>3, <3>4
  <2> QED
    BY <2>1, <2>2 DEF PaneInv, Recorded
<1>7. Work' /\ Left'
  <2>1. CASE back = "quit"
    <3>1. todo = <<Call(Close)>>
      BY <2>1 DEF PaneInv, Work
    <3>2. todo' = <<>> /\ call = Call(Close)
      BY <1>1, <3>1 DEF call
    <3>3. call.c = Close
      BY <3>2 DEF Call
    <3>4. pc' = "quit" /\ back' = "quit"
      BY <1>1, <2>1, <3>2
    <3> QED
      BY <1>1, <1>3, <3>3, <3>4 DEF Work, Left, call
  <2>2. CASE back # "quit" /\ Len(todo) = 1
    <3>1. todo \in {<<Reload>>, <<ReloadNoted>>}
      BY <2>2 DEF PaneInv, Work
    <3>2. todo' = <<>>
      BY <1>1, <3>1, OneAndTwo, Zenon
    <3> QED
      BY <1>1, <2>2, <3>2 DEF PaneInv, Work, Left
  <2>3. CASE back # "quit" /\ Len(todo) # 1
    <3>1. todo = <<todo[1], todo[2]>> /\ todo[2] \in {Reload, ReloadNoted}
      BY <2>3 DEF PaneInv, Work
    <3>2. todo' = <<>> \/ todo' = <<todo[2]>>
      <4>1. PICK x, y : todo = <<x, y>> /\ y = todo[2]
        BY <3>1
      <4>2. Tail(<<x, y>>) = <<y>>
        BY OneAndTwo
      <4>3. Tail(todo) = <<todo[2]>>
        BY <4>1, <4>2, Zenon
      <4> QED
        BY <1>1, <4>3
    <3>3. back' = back
      BY <1>1
    <3>4. pc' # "quit"
      BY <1>1, <2>3 DEF PaneInv, Work
    <3>5. todo' = <<>> => pc' # "call"
      BY <1>1 DEF PaneInv, Work
    <3> QED
      BY <2>3, <3>1, <3>2, <3>3, <3>4, <3>5 DEF PaneInv, Work, Left
  <2> QED
    BY <2>1, <2>2, <2>3
<1>8. Asked'
  BY <1>1 DEF PaneInv, Asked
<1> QED
  BY <1>4, <1>5, <1>6, <1>7, <1>8 DEF PaneInv

-----------------------------------------------------------------------------
(* The pane's steps.                                                        *)

\* A step of the pane that calls nobody leaves the bridge as it is.
LEMMA Untouched ==
    ASSUME PaneInv, UNCHANGED bridgeVars
    PROVE  Alone' /\ \A i : Dead(i) => Dead(i)'
BY DEF PaneInv, Alone, Dead, bridgeVars

\* A request answered by whoever listens at the port that was read.
LEMMA ExchangeKeeps == ASSUME PaneInv, Exchange PROVE PaneInv'
<1> DEFINE call == Head(todo)
           s == Served(token, call.c)
           outcome == IF token # bridge THEN "down"
                      ELSE IF Accepts(Core, call.c) THEN "ok" ELSE "rejected"
<1>1. /\ pc = "call" /\ token > 0 /\ bridge # 0
      /\ SetCore(s) /\ Digest(call, outcome, s) /\ UNCHANGED <<lifeVars, events>>
  BY DEF Exchange
<1>2. UNCHANGED <<bridge, endpoint>>
  BY <1>1 DEF lifeVars
<1>3. Alone'
  BY <1>1, <1>2 DEF PaneInv, Alone
<1>4. outcome \in Outcomes
  BY DEF Outcomes
<1>5. CASE token = bridge
  <2>1. s = Handle(Core, call.c)
    BY <1>5 DEF Served, Authorized
  <2>2. SetCore(Handle(Core, call.c))
    BY <1>1, <2>1
  <2>3. /\ Moves
        /\ call.c = Close => pair' = NoPair
        /\ call.c = Status => pair' \in {pair, NoPair}
    BY <2>2, HandleKeeps DEF PaneInv, Moves, PairType
  <2>4. s.pair = pair'
    BY <1>1 DEF SetCore
  <2>5. outcome # "down"
    BY <1>5
  <2> HIDE DEF outcome, s
  <2> QED
    BY <1>1, <1>2, <1>3, <1>4, <2>3, <2>4, <2>5, DigestKeeps
<1>6. CASE token # bridge
  <2>1. s = Core
    BY <1>6 DEF Served, Authorized
  <2>2. UNCHANGED <<pair, opens>>
    BY <1>1, <2>1 DEF SetCore, Core
  <2>3. Moves
    BY <2>2 DEF Moves, Onward, PairType, PaneInv, Numbered
  <2>4. outcome = "down"
    BY <1>6
  <2>5. Dead(screen)
    BY <1>1, <1>6 DEF PaneInv, Missed, Unread
  <2> HIDE DEF outcome, s
  <2> QED
    BY <1>1, <1>2, <1>3, <1>4, <2>3, <2>4, <2>5, DigestKeeps
<1> QED
  BY <1>5, <1>6

\* Nobody listens at the port that was read.
LEMMA RefusedKeeps == ASSUME PaneInv, Refused PROVE PaneInv'
<1>1. /\ pc = "call" /\ token # Unread /\ (token = 0 \/ token # bridge)
      /\ Digest(Head(todo), "down", Core) /\ UNCHANGED bridgeVars
  BY DEF Refused
<1>2. Moves /\ Alone' /\ UNCHANGED bridge
  BY <1>1 DEF bridgeVars, Moves, Onward, PairType, PaneInv, Numbered, Alone
<1>3. Dead(screen)
  <2>1. CASE token = bridge
    BY <1>1, <2>1, NoneIsDead DEF PaneInv, Alone
  <2>2. CASE token # bridge
    BY <1>1, <2>2 DEF PaneInv, Missed
  <2> QED
    BY <2>1, <2>2
<1> QED
  BY <1>1, <1>2, <1>3, DigestKeeps DEF Outcomes

\* The connection fails, before or after the command was carried out.
LEMMA FaultKeeps == ASSUME PaneInv, Fault PROVE PaneInv'
<1>1. /\ pc = "call" /\ Digest(Head(todo), "error", Core) /\ UNCHANGED lifeVars
      /\ UNCHANGED coreVars \/ SetCore(Handle(Core, Head(todo).c))
  BY DEF Fault
<1>2. Moves
  <2>1. CASE UNCHANGED coreVars
    BY <2>1 DEF coreVars, Moves, Onward, PairType, PaneInv, Numbered
  <2>2. CASE SetCore(Handle(Core, Head(todo).c))
    BY <2>2, HandleKeeps DEF PaneInv, Moves, PairType
  <2> QED
    BY <1>1, <2>1, <2>2
<1>3. Alone' /\ UNCHANGED bridge
  <2>1. UNCHANGED <<bridge, endpoint>>
    BY <1>1 DEF lifeVars
  <2>2. bridge = 0 => pair' = NoPair
    <3>1. bridge # 0 \/ UNCHANGED coreVars
      BY DEF Fault
    <3> QED
      BY <3>1 DEF PaneInv, Alone, coreVars
  <2> QED
    BY <2>1, <2>2 DEF PaneInv, Alone
<1> QED
  BY <1>1, <1>2, <1>3, DigestKeeps DEF Outcomes

\* state.json is read on its own.
LEMMA ReadKeeps == ASSUME PaneInv, ReadEndpoint PROVE PaneInv'
<1>1. /\ pc = "call" /\ token' = endpoint /\ UNCHANGED bridgeVars
      /\ UNCHANGED <<pc, back, todo, snap, confirm, screen, answered, closeLost>>
  BY DEF ReadEndpoint
<1>2. Alone' /\ \A i : Dead(i) => Dead(i)'
  BY <1>1, Untouched
<1>3. Numbered'
  BY <1>1 DEF PaneInv, Numbered, bridgeVars
<1>4. token' = bridge' \/ Dead(screen)
  <2>1. CASE bridge = 0
    BY <2>1, NoneIsDead DEF PaneInv, Alone
  <2>2. CASE bridge # 0
    BY <1>1, <2>2 DEF PaneInv, Alone, bridgeVars
  <2> QED
    BY <2>1, <2>2
<1>5. Missed'
  BY <1>1, <1>2, <1>4 DEF Missed, Dead
<1>6. Recorded' /\ Left'
  BY <1>1, <1>2 DEF PaneInv, Recorded, Left, Dead
<1>7. Asked' /\ Work'
  BY <1>1 DEF PaneInv, Asked, Work, KeyCall
<1> QED
  BY <1>2, <1>3, <1>5, <1>6, <1>7 DEF PaneInv

\* What is drawn is the pairing of the snapshot, or none.
LEMMA DrawKeeps == ASSUME PaneInv, NEW size, Draw(size) PROVE PaneInv'
<1>1. /\ pc = "draw" /\ pc' = "poll" /\ UNCHANGED bridgeVars
      /\ UNCHANGED <<back, todo, token, snap, confirm, answered, closeLost>>
  BY DEF Draw
<1>2. screen' = 0 \/ (snap # NoSnap /\ screen' = snap.id)
  <2>1. screen' \in {0} \cup {snap.id}
    BY DEF Draw
  <2>2. snap = NoSnap => screen' = 0
    BY DEF Draw
  <2> QED
    BY <2>1, <2>2
<1>3. Alone' /\ Numbered'
  BY <1>1, <1>2 DEF PaneInv, Numbered, Alone, bridgeVars
<1>4. Missed'
  BY <1>1 DEF PaneInv, Missed
<1>5. Recorded'
  BY <1>1, <1>2 DEF Recorded, Dead, Live, bridgeVars
<1>6. Left' /\ Asked' /\ Work'
  BY <1>1 DEF PaneInv, Left, Asked, Work
<1> QED
  BY <1>3, <1>4, <1>5, <1>6 DEF PaneInv

\* The steps that change neither what the pane knows of a pairing nor what it
\* has drawn: where the loop goes on, and with which calls.
LEMMA LoopKeeps ==
    ASSUME PaneInv, UNCHANGED <<bridgeVars, token, snap, screen, closeLost>>,
           pc # "call", Asked', Work',
           pc' = "quit" => ~PairingOpen
    PROVE  PaneInv'
<1>1. Alone' /\ \A i : Dead(i) => Dead(i)'
  BY Untouched
<1>2. Numbered'
  BY DEF PaneInv, Numbered, bridgeVars
<1>3. Missed'
  BY DEF PaneInv, Missed
<1>4. Recorded'
  BY <1>1 DEF PaneInv, Recorded, Dead
<1>5. ~PairingOpen => closeLost \/ Dead(screen)
  BY ZeroIsDead DEF PaneInv, Recorded, PairingOpen
<1>6. Left'
  BY <1>1, <1>5 DEF Left, Dead
<1> QED
  BY <1>1, <1>2, <1>3, <1>4, <1>6 DEF PaneInv

\* The reload of the cadence, or none, and a wait without a key.
LEMMA WaitKeeps == ASSUME PaneInv, PollDue \/ PollEarly \/ NoKey PROVE PaneInv'
<1>1. CASE PollDue
  BY <1>1, LoopKeeps DEF PollDue, Begin, PaneInv, Asked, Work
<1>2. CASE PollEarly
  BY <1>2, LoopKeeps DEF PollEarly, PaneInv, Asked, Work
<1>3. CASE NoKey
  BY <1>3, LoopKeeps DEF NoKey, PaneInv, Asked, Work
<1> QED
  BY <1>1, <1>2, <1>3

\* The answer to a question, and the calls it stands for.
LEMMA AnswerKeeps == ASSUME PaneInv, AnswerQuestion PROVE PaneInv'
<1>1. /\ pc = "key" /\ confirm' = NoQuestion
      /\ UNCHANGED <<bridgeVars, token, snap, screen, closeLost>>
  BY DEF AnswerQuestion
<1>2. Asked'
  BY <1>1 DEF Asked, NoQuestion
<1>3. Work' /\ pc' # "quit"
  <2>1. CASE Begin(ConfirmAction(confirm), "draw") /\ answered' = confirm
    <3>1. pc' = "call" /\ back' = "draw" /\ todo' = ConfirmAction(confirm)
      BY <2>1 DEF Begin
    <3>2. \E call, last : /\ todo' = <<call, last>> /\ KeyCall(call)' /\ last \in {Reload, ReloadNoted}
      <4>1. CASE confirm.ask = "one"
        <5>1. answered' = [ask |-> "one", dev |-> confirm.dev]
          BY <2>1, <4>1 DEF PaneInv, Asked
        <5>2. answered'.dev = confirm.dev
          BY <5>1
        <5>3. todo' = <<Must(One(answered'.dev)), ReloadNoted>>
          BY <3>1, <4>1, <5>2 DEF ConfirmAction
        <5>4. answered' = [ask |-> "one", dev |-> answered'.dev]
          BY <5>1, <5>2
        <5> QED
          BY <5>3, <5>4 DEF KeyCall
      <4>2. CASE confirm.ask = "all"
        BY <3>1, <4>2 DEF ConfirmAction, KeyCall
      <4>3. CASE confirm.ask \notin {"one", "all"}
        BY <3>1, <4>3 DEF ConfirmAction, KeyCall
      <4> QED
        BY <4>1, <4>2, <4>3
    <3>3. PICK call, last : todo' = <<call, last>> /\ KeyCall(call)' /\ last \in {Reload, ReloadNoted}
      BY <3>2
    <3>4. Len(todo') = 2 /\ todo'[1] = call /\ todo'[2] = last
      BY <3>3
    <3> QED
      BY <3>1, <3>3, <3>4 DEF Work
  <2>2. CASE pc' = "draw" /\ UNCHANGED <<todo, back, answered>>
    BY <2>2 DEF PaneInv, Work
  <2> QED
    BY <2>1, <2>2 DEF AnswerQuestion
<1> QED
  BY <1>1, <1>2, <1>3, LoopKeeps

\* A key that calls nobody: what it asks about is a record of the question.
LEMMA LocalKeyKeeps == ASSUME PaneInv, LocalKey PROVE PaneInv'
<1>1. /\ pc = "key" /\ pc' = "draw"
      /\ UNCHANGED <<bridgeVars, back, todo, token, snap, screen, answered, closeLost>>
  BY DEF LocalKey
<1>2. Asked'
  <2>1. CASE Ask
    BY <2>1 DEF Ask, Asked
  <2>2. CASE UNCHANGED confirm
    BY <2>2 DEF PaneInv, Asked
  <2> QED
    BY <2>1, <2>2 DEF LocalKey
<1>3. Work'
  BY <1>1 DEF PaneInv, Work
<1> QED
  BY <1>1, <1>2, <1>3, LoopKeeps

\* p, f and q.
LEMMA CallingKeyKeeps == ASSUME PaneInv, CallingKey PROVE PaneInv'
<1>1. /\ pc = "key" /\ pc' = "call"
      /\ UNCHANGED <<bridgeVars, token, snap, screen, confirm, answered, closeLost>>
  BY DEF CallingKey, Begin
<1>2. Asked'
  BY <1>1 DEF PaneInv, Asked
<1>3. Work'
  <2>1. CASE Begin(<<Call(Open), Reload>>, "draw")
    BY <2>1 DEF Begin, Work, KeyCall
  <2>2. CASE Begin(<<Reload>>, "draw")
    BY <2>2 DEF Begin, Work
  <2>3. CASE Begin(<<Call(Close)>>, "quit")
    BY <2>3 DEF Begin, Work
  <2> QED
    BY <2>1, <2>2, <2>3 DEF CallingKey
<1> QED
  BY <1>1, <1>2, <1>3, LoopKeeps

\* q without a pairing in the snapshot.
LEMMA QuitKeeps == ASSUME PaneInv, Quit PROVE PaneInv'
BY LoopKeeps DEF Quit, PaneInv, Asked, Work

\* A tick ages the phrase, and ends it; it gives no pairing a life.
LEMMA TickKeeps == ASSUME PaneInv, PopupTick PROVE PaneInv'
<1>1. /\ pair' = IF pair.id # 0 THEN [pair EXCEPT !.age = Min({@ + 1, Lifetime + 1})] ELSE pair
      /\ snap' = IF PairingOpen THEN [snap EXCEPT !.left = Max({@ - 1, -1})] ELSE snap
      /\ UNCHANGED <<bridge, endpoint, opens, pc, back, todo, token, confirm, screen, answered,
                     closeLost>>
  BY DEF PopupTick, lifeVars
<1>2. Moves
  <2>1. CASE pair.id = 0
    BY <1>1, <2>1 DEF Moves, Onward, PairType, PaneInv, Numbered
  <2>2. CASE pair.id # 0
    <3> DEFINE later == Min({pair.age + 1, Lifetime + 1})
    <3>1. Lifetime \in Nat /\ pair.age \in Nat
      BY ControlAssumption DEF PaneInv, Numbered
    <3>2. later = IF pair.age + 1 <= Lifetime + 1 THEN pair.age + 1 ELSE Lifetime + 1
      BY <3>1, MinOfTwo
    <3>3. later \in Nat /\ (later <= Lifetime => pair.age <= Lifetime)
      BY <3>1, <3>2
    <3> HIDE DEF later
    <3>4. pair' = [pair EXCEPT !.age = later]
      BY <1>1, <2>2 DEF later
    <3>5. pair' \in PairType(opens')
      BY <1>1, <3>3, <3>4 DEF PairType, PaneInv, Numbered
    <3>6. pair'.id = pair.id /\ pair'.spent = pair.spent /\ pair'.age = later
      BY <3>4 DEF PaneInv, Numbered
    <3>7. Live(pair') => Live(pair)
      BY <3>3, <3>6 DEF Live
    <3> QED
      BY <1>1, <3>5, <3>6, <3>7 DEF Moves, Onward, PaneInv, Numbered
  <2> QED
    BY <2>1, <2>2
<1>3. Dead(screen) => Dead(screen)'
  BY <1>1, <1>2, DeadStays DEF PaneInv, Numbered, Moves, Dead
<1>4. bridge = 0 => pair' = NoPair
  BY <1>1 DEF PaneInv, Alone, NoPair
<1>5. Alone'
  BY <1>1, <1>4 DEF PaneInv, Alone
<1>6. snap = NoSnap => snap' = NoSnap
  BY <1>1 DEF PairingOpen
<1>7. snap # NoSnap => /\ snap' # NoSnap
                       /\ "id" \in DOMAIN snap' /\ snap'.id = snap.id
  <2>1. ASSUME snap # NoSnap PROVE "id" \in DOMAIN snap
    BY <2>1 DEF PaneInv, Numbered
  <2>2. "id" \notin DOMAIN NoSnap
    BY DEF NoSnap
  <2> QED
    BY <1>1, <2>1, <2>2
<1>8. Numbered'
  BY <1>1, <1>2, <1>6, <1>7 DEF PaneInv, Numbered, Moves, PairType
<1>9. Missed' /\ Left'
  BY <1>1, <1>3 DEF PaneInv, Missed, Left, Dead
<1>10. Recorded'
  BY <1>1, <1>3, <1>7 DEF PaneInv, Recorded, Dead
<1>11. Asked' /\ Work'
  BY <1>1 DEF PaneInv, Asked, Work, KeyCall
<1> QED
  BY <1>5, <1>8, <1>9, <1>10, <1>11 DEF PaneInv

-----------------------------------------------------------------------------
(* The theorems.                                                            *)

\* The pane opens with one reload, and has drawn nothing.
LEMMA PaneStarts == ASSUME PopupInit PROVE PaneInv
<1>1. Alone /\ Numbered
  BY DEF PopupInit, ControlInit, Alone, Numbered, NoPair, NoSnap
<1>2. Missed /\ Recorded /\ Left
  BY DEF PopupInit, ControlInit, Missed, Recorded, Left, Dead, Live, NoPair
<1>3. Asked /\ Work
  BY DEF PopupInit, Asked, Work, NoQuestion
<1> QED
  BY <1>1, <1>2, <1>3 DEF PaneInv

\* Every step of the pane and of the bridge keeps the invariant.
LEMMA PaneKeeps == ASSUME PaneInv, [PopupNext]_popupVars PROVE PaneInv'
<1>1. CASE PaneStep
  BY <1>1, ReadKeeps, ExchangeKeeps, RefusedKeeps, FaultKeeps, DrawKeeps, WaitKeeps DEF PaneStep
<1>2. CASE KeyStep
  BY <1>2, AnswerKeeps, LocalKeyKeeps, CallingKeyKeeps, QuitKeeps DEF KeyStep
<1>3. CASE PopupTick
  BY <1>3, TickKeeps
<1>4. CASE BridgeStep /\ UNCHANGED paneVars
  BY <1>4, BridgeKeeps
<1>5. CASE UNCHANGED popupVars
  <2>1. UNCHANGED bridgeVars /\ UNCHANGED paneVars
    BY <1>5 DEF popupVars
  <2>2. Moves /\ Alone' /\ bridge' = bridge
    BY <2>1 DEF bridgeVars, Moves, Onward, PairType, PaneInv, Numbered, Alone
  <2> QED
    BY <2>1, <2>2, BridgeMoves
<1> QED
  BY <1>1, <1>2, <1>3, <1>4, <1>5 DEF PopupNext

\* In every reachable state.
LEMMA PaneCorrect == PopupSpec => []PaneInv
<1>1. PopupInit => PaneInv
  BY PaneStarts
<1>2. PaneInv /\ [PopupNext]_popupVars => PaneInv'
  BY PaneKeeps
<1> QED
  BY <1>1, <1>2, PTL DEF PopupSpec

\* y removes the phone the question named, and q, unless its close is lost,
\* leaves no phone a way to use the pairing that was drawn last.
THEOREM KeysFaithful == PopupSpec => []KeysDoWhatTheyShow
<1>1. PaneInv => RemovesWhatItAsked
  <2> SUFFICES ASSUME PaneInv, pc = "call", Head(todo).c.cmd = "revoke"
               PROVE  answered = [ask |-> "one", dev |-> Head(todo).c.dev]
    BY DEF RemovesWhatItAsked
  <2> DEFINE call == Head(todo)
  <2>1. call \in {Reload, ReloadNoted, Call(Close)} \/ KeyCall(call)
    <3>1. CASE back = "quit" \/ todo \in {<<Reload>>, <<ReloadNoted>>}
      BY <3>1 DEF PaneInv, Work
    <3>2. CASE Len(todo) = 2 /\ KeyCall(todo[1])
      BY <3>2
    <3> QED
      BY <3>1, <3>2 DEF PaneInv, Work
  <2> HIDE DEF call
  <2>2. call.c.cmd = "revoke"
    BY DEF call
  <2>3. call = Must(One(answered.dev)) /\ answered = [ask |-> "one", dev |-> answered.dev]
    BY <2>1, <2>2 DEF KeyCall, Reload, ReloadNoted, Call, Must, Status, Open, Close, StopIt, All
  <2>4. call.c.dev = answered.dev
    BY <2>3 DEF Must, One
  <2> QED
    BY <2>3, <2>4 DEF call
<1>2. PaneInv => QuitEndsShownPairing
  BY DEF PaneInv, Left, Dead, QuitEndsShownPairing
<1> QED
  BY <1>1, <1>2, PaneCorrect, PTL DEF KeysDoWhatTheyShow

-----------------------------------------------------------------------------
(* The pairing session and a Device's copy of its phrase (PairingText).      *)

\* What a session and a copy are made of.
TextShape ==
    /\ session = [state |-> session.state, words |-> session.words, handle |-> session.handle,
                  age |-> session.age, failed |-> session.failed]
    /\ copy = [kind |-> copy.kind, text |-> copy.text, of |-> copy.of,
               faithful |-> copy.faithful, slips |-> copy.slips]

TextInv == TextTypeOK /\ TextShape

\* A change made to a copy is one slip, whatever is changed.
LEMMA SlipsOnly ==
    ASSUME TypedLoosely \/ Mistyped \/ Rearranged \/ Garbled
    PROVE  \E text, faithful : Slip(text, faithful)
<1>1. CASE TypedLoosely
  BY <1>1, Zenon DEF TypedLoosely
<1>2. CASE Mistyped
  BY <1>2, Zenon DEF Mistyped
<1>3. CASE Rearranged
  BY <1>3, Zenon DEF Rearranged
<1>4. CASE Garbled
  BY <1>4, Zenon DEF Garbled
<1> QED
  BY <1>1, <1>2, <1>3, <1>4

\* A session without a phrase.
LEMMA WithoutPhrase ==
    ASSUME NEW state \in {"None", "Expired", "Spent", "Enrolled"}, session' = NoPhrase(state)
    PROVE  /\ session'.state = state
           /\ session' = NoPhrase(session'.state)
           /\ session' = [state |-> session'.state, words |-> session'.words,
                          handle |-> session'.handle, age |-> session'.age,
                          failed |-> session'.failed]
BY DEF NoPhrase

\* apply_expiry: a session that is still live has not outlived its phrase.
LEMMA ExpiryIs ==
    ASSUME TextInv
    PROVE  \/ ApplyExpiry(session) = session
              /\ (session.state = "Live" => session.age <= PHRASE_LIFETIME)
           \/ session.state = "Live" /\ ApplyExpiry(session) = NoPhrase("Expired")
BY TextBounds DEF TextInv, TextTypeOK, ApplyExpiry

\* Reading the session, a failed handshake and an enrolment end the phrase or
\* count a failure.
LEMMA SessionIs ==
    ASSUME TextInv, Look \/ FailedAttempt \/ RecordEnrolled
    PROVE  /\ UNCHANGED <<origin, copy>>
           /\ \/ \E state \in {"Expired", "Spent", "Enrolled"} : session' = NoPhrase(state)
              \/ session' = [session EXCEPT !.failed = @ + 1] /\ session.state = "Live"
                 /\ session.failed + 1 < MAX_ATTEMPTS
              \/ session' = session
<1> DEFINE s == ApplyExpiry(session)
<1>1. CASE Look
  BY <1>1, ExpiryIs DEF Look
<1>2. CASE RecordEnrolled
  BY <1>2 DEF RecordEnrolled
<1>3. CASE FailedAttempt
  <2>1. UNCHANGED <<origin, copy>> /\ session' = RecordFailedAttempt(s)
    BY <1>3 DEF FailedAttempt
  <2>2. CASE s = session
    <3>1. session.state = "Live" =>
            session.failed + 1 >= MAX_ATTEMPTS \/ session.failed + 1 < MAX_ATTEMPTS
      BY TextBounds DEF TextInv, TextTypeOK
    <3> HIDE DEF s
    <3> QED
      BY <2>1, <2>2, <3>1 DEF RecordFailedAttempt
  <2>3. CASE s = NoPhrase("Expired")
    <3> HIDE DEF s
    <3>1. s.state = "Expired"
      BY <2>3 DEF NoPhrase
    <3> QED
      BY <2>1, <2>3, <3>1 DEF RecordFailedAttempt
  <2> QED
    BY <2>1, <2>2, <2>3, ExpiryIs
<1> QED
  BY <1>1, <1>2, <1>3

\* Every step of the session and of the copy keeps the invariant.
LEMMA TextKeeps == ASSUME TextInv, [TextNext]_textVars PROVE TextInv'
<1>1. ASSUME NEW words \in Drawn, NEW handle \in Handles, Generate(words, handle)
      PROVE  TextInv'
  <2>1. /\ session' = [state |-> "Live", words |-> words, handle |-> handle, age |-> 0, failed |-> 0]
        /\ UNCHANGED <<origin, copy>>
    BY <1>1 DEF Generate
  <2>2. TextShape'
    BY <2>1 DEF TextInv, TextShape
  <2>3. TextTypeOK'
    BY <2>1, TextBounds DEF TextInv, TextTypeOK
  <2> QED
    BY <2>2, <2>3 DEF TextInv
<1>2. CASE Older
  <2>1. /\ session.state = "Live" /\ session.age <= PHRASE_LIFETIME
        /\ session' = [session EXCEPT !.age = @ + 1] /\ UNCHANGED <<origin, copy>>
    BY <1>2 DEF Older
  <2>2. session' = [state |-> session.state, words |-> session.words, handle |-> session.handle,
                    age |-> session.age + 1, failed |-> session.failed]
    BY <2>1 DEF TextInv, TextShape
  <2>3. TextShape'
    BY <2>1, <2>2 DEF TextInv, TextShape
  <2>4. TextTypeOK'
    BY <2>1, <2>2, TextBounds DEF TextInv, TextTypeOK
  <2> QED
    BY <2>3, <2>4 DEF TextInv
<1>3. CASE Look \/ FailedAttempt \/ RecordEnrolled
  <2>1. UNCHANGED <<origin, copy>>
    BY <1>3, SessionIs
  <2>2. ASSUME NEW state \in {"None", "Expired", "Spent", "Enrolled"}, session' = NoPhrase(state)
        PROVE  TextInv'
    <3>1. session'.state = state /\ session' = NoPhrase(session'.state) /\ TextShape'
      BY <2>1, <2>2, WithoutPhrase DEF TextInv, TextShape
    <3> QED
      BY <2>1, <3>1 DEF TextInv, TextTypeOK
  <2>3. ASSUME session.state = "Live", session.failed + 1 < MAX_ATTEMPTS,
               session' = [session EXCEPT !.failed = @ + 1]
        PROVE  TextInv'
    <3>1. session' = [state |-> session.state, words |-> session.words, handle |-> session.handle,
                      age |-> session.age, failed |-> session.failed + 1]
      BY <2>3 DEF TextInv, TextShape
    <3>2. TextShape'
      BY <2>1, <3>1 DEF TextInv, TextShape
    <3>3. TextTypeOK'
      BY <2>1, <2>3, <3>1, TextBounds DEF TextInv, TextTypeOK
    <3> QED
      BY <3>2, <3>3 DEF TextInv
  <2>4. ASSUME session' = session PROVE TextInv'
    BY <2>1, <2>4 DEF TextInv, TextTypeOK, TextShape
  <2> QED
    BY <1>3, <2>2, <2>3, <2>4, SessionIs
<1>4. ASSUME NEW kind \in {"phrase", "uri"}, Take(kind) PROVE TextInv'
  <2>1. PICK text : copy' = [kind |-> kind, slips |-> 0, faithful |-> TRUE, of |-> session.words,
                             text |-> text]
    BY <1>4 DEF Take
  <2>2. UNCHANGED <<origin, session>>
    BY <1>4 DEF Take
  <2>3. TextShape'
    BY <2>1, <2>2 DEF TextInv, TextShape
  <2>4. TextTypeOK'
    BY <2>1, <2>2, TextBounds DEF TextInv, TextTypeOK
  <2> QED
    BY <2>3, <2>4 DEF TextInv
<1>5. ASSUME NEW text, NEW faithful, Slip(text, faithful) PROVE TextInv'
  <2>1. /\ copy.slips < MaxSlips /\ UNCHANGED <<origin, session>>
        /\ copy' = [copy EXCEPT !.text = text, !.slips = @ + 1, !.faithful = @ /\ faithful]
    BY <1>5 DEF Slip
  <2>2. /\ copy'.kind = copy.kind /\ copy'.slips = copy.slips + 1
        /\ DOMAIN copy' = {"kind", "text", "of", "faithful", "slips"}
    BY <2>1 DEF TextInv, TextShape
  <2>3. TextShape'
    BY <2>1, <2>2 DEF TextInv, TextShape
  <2>4. TextTypeOK'
    BY <2>1, <2>2, TextBounds DEF TextInv, TextTypeOK
  <2> QED
    BY <2>3, <2>4 DEF TextInv
<1>6. CASE UNCHANGED textVars
  BY <1>6 DEF textVars, TextInv, TextTypeOK, TextShape
<1> QED
  BY <1>1, <1>2, <1>3, <1>4, <1>5, <1>6, SlipsOnly DEF TextNext

\* In every reachable state.
LEMMA TextInvariant == TextSpec => []TextInv
<1>1. TextInit => TextInv
  <2> SUFFICES ASSUME TextInit PROVE TextInv
    OBVIOUS
  <2>1. TextShape
    BY DEF TextInit, TextShape, NoPhrase, NoCopy
  <2>2. session.state = "None" /\ session = NoPhrase(session.state)
    BY DEF TextInit, NoPhrase
  <2>3. copy.kind = "none" /\ copy.slips = 0 /\ origin \in Origins
    BY DEF TextInit, NoCopy
  <2> QED
    BY <2>1, <2>2, <2>3, TextBounds DEF TextInv, TextTypeOK
<1>2. TextInv /\ [TextNext]_textVars => TextInv'
  BY TextKeeps
<1> QED
  BY <1>1, <1>2, PTL DEF TextSpec

\* A live session has a phrase and fewer failures than end it; one that has
\* ended keeps nothing of its phrase.
THEOREM TextCorrect == TextSpec => []TextTypeOK
<1>1. TextInv => TextTypeOK
  BY DEF TextInv
<1> QED
  BY <1>1, TextInvariant, PTL

-----------------------------------------------------------------------------
(* Numbers, sets and steps.                                                 *)

\* The least number of a set.
LEMMA LeastNumber ==
    ASSUME NEW T \in SUBSET Nat, T # {}
    PROVE  \E m \in T : \A n \in T : m <= n
<1>1. PICK m \in T : \A n \in T : <<n, m>> \notin OpToRel(<, Nat)
  BY Zenon, NatLessThanWellFounded, WFMin
<1>2. OpToRel(<, Nat) = {ss \in Nat \X Nat : ss[1] < ss[2]}
  BY Zenon DEF OpToRel
<1>3. \A n \in T : <<n, m>> \notin {ss \in Nat \X Nat : ss[1] < ss[2]}
  BY Zenon, <1>1, <1>2
<1>4. ASSUME NEW n \in T, n < m PROVE FALSE
  <2>1. <<n, m>> \in {ss \in Nat \X Nat : ss[1] < ss[2]}
    BY <1>4
  <2>. QED
    BY <1>3, <2>1
<1>. QED
  BY <1>4

\* Induction, for what a set can say.
LEMMA SetInduction ==
    ASSUME NEW S, 0 \in S, \A n \in Nat : n \in S => n + 1 \in S
    PROVE  Nat \subseteq S
<1> SUFFICES ASSUME Nat \ S # {} PROVE FALSE
  OBVIOUS
<1>1. PICK m \in Nat \ S : \A n \in Nat \ S : m <= n
  BY LeastNumber
<1>. QED
  BY <1>1

\* The values after each of n steps, the first of them a.
Steps(A, a, n, step, f) ==
    /\ f \in [0..n -> A]
    /\ f[0] = a
    /\ \A i \in 1..n : f[i] = step[<<f[i - 1], i>>]

\* Steps that are given one by one make a function.
LEMMA Recursion ==
    ASSUME NEW A, NEW a \in A, NEW n \in Nat, NEW step \in [A \X (1..n) -> A]
    PROVE  \E f : Steps(A, a, n, step, f)
<1> DEFINE Upto(m, f) == f[0] = a /\ \A i \in 1..m : f[i] = step[<<f[i - 1], i>>]
           S == {m \in Nat : m <= n => \E f \in [0..m -> A] : Upto(m, f)}
<1>1. 0 \in S
  <2>1. [i \in 0..0 |-> a] \in [0..0 -> A] /\ Upto(0, [i \in 0..0 |-> a])
    OBVIOUS
  <2>. QED
    BY <2>1
<1>2. ASSUME NEW m \in Nat, m \in S PROVE m + 1 \in S
  <2> SUFFICES ASSUME m + 1 <= n PROVE \E f \in [0..(m + 1) -> A] : Upto(m + 1, f)
    OBVIOUS
  <2>1. PICK f \in [0..m -> A] : Upto(m, f)
    BY <1>2
  <2> DEFINE g == [i \in 0..(m + 1) |-> IF i = m + 1 THEN step[<<f[m], m + 1>>] ELSE f[i]]
  <2>2. f[m] \in A /\ m + 1 \in 1..n
    BY <2>1
  <2>3. step[<<f[m], m + 1>>] \in A
    BY <2>2
  <2>4. g \in [0..(m + 1) -> A]
    BY <2>1, <2>3
  <2>5. g[0] = a
    BY <2>1
  <2>6. \A i \in 1..m : g[i] = step[<<g[i - 1], i>>]
    <3> SUFFICES ASSUME NEW i \in 1..m PROVE g[i] = step[<<g[i - 1], i>>]
      OBVIOUS
    <3>1. g[i] = f[i] /\ g[i - 1] = f[i - 1]
      OBVIOUS
    <3>. QED
      BY <3>1, <2>1
  <2>7. g[m + 1] = step[<<g[m], m + 1>>]
    <3>1. m \in 0..(m + 1) /\ m # m + 1 /\ m + 1 \in 0..(m + 1)
      OBVIOUS
    <3>. QED
      BY <3>1
  <2>8. Upto(m + 1, g)
    <3>1. 1..(m + 1) = (1..m) \cup {m + 1}
      OBVIOUS
    <3>2. (m + 1) - 1 = m
      OBVIOUS
    <3>. QED
      BY <2>5, <2>6, <2>7, <3>1, <3>2
  <2>. QED
    BY <2>4, <2>8
<1>3. n \in S
  <2> HIDE DEF S
  <2>1. Nat \subseteq S
    BY Zenon, <1>1, <1>2, SetInduction
  <2>. QED
    BY <2>1
<1>4. PICK f \in [0..n -> A] : Upto(n, f)
  BY <1>3
<1>. QED
  BY <1>4 DEF Steps

-----------------------------------------------------------------------------
(* Splitting and joining.                                                   *)

\* q is what stands in s strictly between the places a and b.
Between(s, q, a, b) ==
    /\ Len(q) = b - a - 1
    /\ \A x \in 1..Len(q) : q[x] = s[a + x]

\* The texts of q are what the first e characters of s have between the places
\* of c, at which there are separators.
Cut(s, e, q, c, sep) ==
    /\ c \in [0..Len(q) -> 0..(e + 1)]
    /\ c[0] = 0 /\ c[Len(q)] = e + 1
    /\ \A j \in 1..Len(q) : c[j - 1] < c[j] /\ Between(s, q[j], c[j - 1], c[j])
    /\ \A j \in 1..(Len(q) - 1) : s[c[j]] = sep

\* No text of q has a separator in it.
Whole(q, sep) == \A j \in 1..Len(q) : \A x \in 1..Len(q[j]) : q[j][x] # sep

PartSeqs(C) == {q \in Seq(Seq(C)) : q # <<>>}

\* One character more makes more parts, or a longer one.
LEMMA AddCharacterType ==
    ASSUME NEW C, NEW q \in PartSeqs(C), NEW ch \in C, NEW sep
    PROVE  AddCharacter(q, ch, sep) \in PartSeqs(C)
<1>1. q \in Seq(Seq(C)) /\ q # <<>> /\ Len(q) \in 1..Len(q)
  BY DEF PartSeqs
<1>2. CASE ch = sep
  BY <1>1, <1>2 DEF AddCharacter, PartSeqs
<1>3. CASE ch # sep
  <2>1. Append(q[Len(q)], ch) \in Seq(C)
    BY <1>1
  <2> DEFINE new == Append(q[Len(q)], ch)
  <2>2. AddCharacter(q, ch, sep) = [q EXCEPT ![Len(q)] = new]
    BY <1>3 DEF AddCharacter
  <2> HIDE DEF new
  <2> QED
    BY <1>1, <2>1, <2>2 DEF PartSeqs, new
<1> QED
  BY <1>2, <1>3

\* SplitOn takes the characters one by one.
LEMMA SplitOnIs ==
    ASSUME NEW C, NEW s \in Seq(C), NEW sep
    PROVE  \E f \in [0..Len(s) -> PartSeqs(C)] :
              /\ f[0] = <<<<>>>>
              /\ \A i \in 1..Len(s) : f[i] = AddCharacter(f[i - 1], s[i], sep)
              /\ SplitOn(s, sep) = f[Len(s)]
<1> DEFINE n == Len(s)
           A == PartSeqs(C)
           step == [p \in A \X (1..n) |-> AddCharacter(p[1], s[p[2]], sep)]
           By(f) == f = [i \in 0..n |-> IF i = 0 THEN <<<<>>>> ELSE AddCharacter(f[i - 1], s[i], sep)]
<1>1. step \in [A \X (1..n) -> A]
  BY AddCharacterType
<1>2. <<<<>>>> \in A
  BY DEF PartSeqs
<1>3. n \in Nat
  OBVIOUS
<1>4. PICK f \in [0..n -> A] : f[0] = <<<<>>>> /\ \A i \in 1..n : f[i] = step[<<f[i - 1], i>>]
  <2> HIDE DEF step, n, A
  <2>1. \E f : Steps(A, <<<<>>>>, n, step, f)
    BY Zenon, <1>1, <1>2, <1>3, Recursion
  <2>. QED
    BY <2>1 DEF Steps
<1>5. \A i \in 1..n : step[<<f[i - 1], i>>] = AddCharacter(f[i - 1], s[i], sep)
  <2> SUFFICES ASSUME NEW i \in 1..n PROVE step[<<f[i - 1], i>>] = AddCharacter(f[i - 1], s[i], sep)
    OBVIOUS
  <2>1. f[i - 1] \in A /\ i \in 1..n
    BY <1>3
  <2>. QED
    BY <2>1
<1>6. By(f)
  <2> HIDE DEF step, n, A
  <2>1. \A i \in 0..n : i # 0 => i \in 1..n
    BY <1>3
  <2>. QED
    BY <1>4, <1>5, <2>1
<1> DEFINE c == CHOOSE g : By(g)
<1>7. By(c)
  BY <1>6
<1>8. SplitOn(s, sep) = c[n]
  BY DEF SplitOn
<1>9. c \in [0..n -> A]
  <2> DEFINE S == {i \in Nat : i <= n => c[i] \in A}
  <2> HIDE DEF c, A
  <2>1. 0 \in S
    BY <1>7, <1>2
  <2>2. ASSUME NEW i \in Nat, i \in S PROVE i + 1 \in S
    <3> SUFFICES ASSUME i + 1 <= n PROVE c[i + 1] \in A
      OBVIOUS
    <3>1. c[i + 1] = AddCharacter(c[i], s[i + 1], sep)
      BY <1>7
    <3>. QED
      BY <2>2, <3>1, AddCharacterType DEF A
  <2>3. Nat \subseteq S
    <3> HIDE DEF S
    <3>. QED
      BY Zenon, <2>1, <2>2, SetInduction
  <2>4. \A i \in 0..n : c[i] \in A
    BY <2>3
  <2>. QED
    BY <2>4, <1>7
<1>10. c[0] = <<<<>>>> /\ \A i \in 1..n : c[i] = AddCharacter(c[i - 1], s[i], sep)
  <2> HIDE DEF c
  <2>1. 0 \in 0..n /\ \A i \in 1..n : i \in 0..n /\ i # 0
    OBVIOUS
  <2>. QED
    BY <1>7, <2>1
<1>. QED
  <2> HIDE DEF c
  <2>. QED
    BY <1>8, <1>9, <1>10

\* The parts of a text and the places between them.
SplitAt(s, i, q, sep) == Whole(q, sep) /\ \E c : Cut(s, i, q, c, sep)

\* A part more, at the place where the others end.
LEMMA CutAppend ==
    ASSUME NEW C, NEW q \in Seq(Seq(C)), NEW w \in Seq(C),
           NEW s, NEW c, NEW sep, NEW e \in Int, NEW f \in Nat, e < f, -1 <= e,
           Cut(s, e, q, c, sep), Between(s, w, e + 1, f + 1), q # <<>> => s[e + 1] = sep
    PROVE  \E d : Cut(s, f, Append(q, w), d, sep)
<1> DEFINE n == Len(q)
           q1 == Append(q, w)
           d == [j \in 0..(n + 1) |-> IF j = n + 1 THEN f + 1 ELSE c[j]]
<1>1. n \in Nat /\ (q # <<>> => n # 0) /\ (n # 0 => q # <<>>)
  OBVIOUS
<1>2. Len(q1) = n + 1 /\ (\A j \in 1..n : q1[j] = q[j]) /\ q1[n + 1] = w
  OBVIOUS
<1>3. /\ c \in [0..n -> 0..(e + 1)] /\ c[0] = 0 /\ c[n] = e + 1
      /\ \A j \in 1..n : c[j - 1] < c[j] /\ Between(s, q[j], c[j - 1], c[j])
      /\ \A j \in 1..(n - 1) : s[c[j]] = sep
  BY DEF Cut
<1> HIDE DEF n, q1
<1>4. d \in [0..(n + 1) -> 0..(f + 1)] /\ d[0] = 0 /\ d[n + 1] = f + 1
  BY <1>1, <1>3
<1>5. \A j \in 0..n : d[j] = c[j]
  BY <1>1
<1> HIDE DEF d
<1>6. \A j \in 1..(n + 1) : d[j - 1] < d[j] /\ Between(s, q1[j], d[j - 1], d[j])
  <2> SUFFICES ASSUME NEW j \in 1..(n + 1)
               PROVE  d[j - 1] < d[j] /\ Between(s, q1[j], d[j - 1], d[j])
    OBVIOUS
  <2>1. CASE j = n + 1
    <3>1. d[j - 1] = e + 1 /\ d[j] = f + 1 /\ q1[j] = w
      BY <1>1, <1>2, <1>3, <1>4, <1>5, <2>1
    <3> QED
      BY <3>1
  <2>2. CASE j # n + 1
    <3>1. j \in 1..n /\ j \in 0..n /\ j - 1 \in 0..n
      BY <1>1, <2>2
    <3>2. d[j - 1] = c[j - 1] /\ d[j] = c[j] /\ q1[j] = q[j]
      BY <1>2, <1>5, <3>1
    <3> QED
      BY <1>3, <3>1, <3>2
  <2> QED
    BY <2>1, <2>2
<1>7. \A j \in 1..n : s[d[j]] = sep
  <2> SUFFICES ASSUME NEW j \in 1..n PROVE s[d[j]] = sep
    OBVIOUS
  <2>1. d[j] = c[j] /\ n # 0
    BY <1>1, <1>5
  <2>2. CASE j = n
    BY <1>1, <1>3, <2>1, <2>2
  <2>3. CASE j # n
    BY SMTT(30), <1>1, <1>3, <2>1, <2>3
  <2> QED
    BY <2>2, <2>3
<1>8. Cut(s, f, q1, d, sep)
  <2>1. (n + 1) - 1 = n
    BY <1>1
  <2> QED
    BY <1>2, <1>4, <1>6, <1>7, <2>1 DEF Cut
<1> QED
  BY <1>8 DEF q1

\* A separator more begins a part at its place.
LEMMA SplitAtSeparator ==
    ASSUME NEW C, NEW s \in Seq(C), NEW i \in 1..Len(s), NEW q \in PartSeqs(C), NEW sep,
           SplitAt(s, i - 1, q, sep), s[i] = sep
    PROVE  SplitAt(s, i, AddCharacter(q, s[i], sep), sep)
<1> DEFINE n == Len(q)
           q1 == Append(q, <<>>)
<1>1. AddCharacter(q, s[i], sep) = q1
  BY DEF AddCharacter
<1>2. q \in Seq(Seq(C)) /\ n \in Nat \ {0} /\ <<>> \in Seq(C)
  BY DEF PartSeqs
<1>3. Len(q1) = n + 1 /\ (\A j \in 1..n : q1[j] = q[j]) /\ q1[n + 1] = <<>>
  BY <1>2
<1>4. PICK c : Cut(s, i - 1, q, c, sep)
  BY DEF SplitAt
<1>5. Between(s, <<>>, i, i + 1)
  BY DEF Between
<1>6. \E d : Cut(s, i, q1, d, sep)
  <2> DEFINE e == i - 1
  <2>1. e \in Int /\ i \in Nat /\ e < i /\ -1 <= e /\ e + 1 = i
    OBVIOUS
  <2>2. Cut(s, e, q, c, sep) /\ Between(s, <<>>, e + 1, i + 1) /\ s[e + 1] = sep
    BY <1>4, <1>5, <2>1
  <2> HIDE DEF e
  <2> QED
    BY <1>2, <2>1, <2>2, CutAppend
<1> HIDE DEF n, q1
<1>7. Whole(q1, sep)
  <2> SUFFICES ASSUME NEW j \in 1..(n + 1), NEW x \in 1..Len(q1[j]) PROVE q1[j][x] # sep
    BY <1>3 DEF Whole
  <2>1. CASE j = n + 1
    BY <1>3, <2>1
  <2>2. CASE j # n + 1
    <3>1. j \in 1..n /\ q1[j] = q[j]
      BY <1>2, <1>3, <2>2
    <3> QED
      BY <3>1 DEF SplitAt, Whole, n
  <2> QED
    BY <2>1, <2>2
<1> QED
  BY <1>1, <1>6, <1>7 DEF SplitAt

\* Another character lengthens the last part.
LEMMA SplitAtLetter ==
    ASSUME NEW C, NEW s \in Seq(C), NEW i \in 1..Len(s), NEW q \in PartSeqs(C), NEW sep,
           SplitAt(s, i - 1, q, sep), s[i] # sep
    PROVE  SplitAt(s, i, AddCharacter(q, s[i], sep), sep)
<1> DEFINE n == Len(q)
           p == Append(q[n], s[i])
           q1 == [q EXCEPT ![n] = p]
<1>1. AddCharacter(q, s[i], sep) = q1
  BY DEF AddCharacter
<1>2. q \in Seq(Seq(C)) /\ n \in Nat \ {0} /\ n \in 1..n /\ s[i] \in C
  BY DEF PartSeqs
<1>3. PICK c : Cut(s, i - 1, q, c, sep)
  BY DEF SplitAt
<1> DEFINE c1 == [c EXCEPT ![n] = i + 1]
<1>5. /\ c \in [0..n -> 0..i] /\ c[0] = 0 /\ c[n] = i
      /\ \A j \in 1..n : c[j - 1] < c[j] /\ Between(s, q[j], c[j - 1], c[j])
      /\ \A j \in 1..(n - 1) : s[c[j]] = sep
  BY <1>3 DEF Cut
<1>4. /\ q[n] \in Seq(C) /\ p \in Seq(C) /\ Len(p) = Len(q[n]) + 1
      /\ \A x \in 1..Len(q[n]) : p[x] = q[n][x]
      /\ p[Len(q[n]) + 1] = s[i]
  <2>1. q[n] \in Seq(C)
    BY <1>2
  <2> QED
    BY <1>2, <2>1
<1>12. Len(q1) = n /\ q1[n] = p /\ \A j \in 1..(n - 1) : q1[j] = q[j]
  <2> HIDE DEF p
  <2> QED
    BY <1>2
<1> HIDE DEF n, p, q1
<1>6. c1 \in [0..n -> 0..(i + 1)] /\ c1[0] = 0 /\ c1[n] = i + 1
  BY <1>2, <1>5
<1>7. \A j \in 0..(n - 1) : c1[j] = c[j]
  BY <1>2, <1>5
<1>8. \A j \in 1..n : c1[j - 1] < c1[j] /\ Between(s, q1[j], c1[j - 1], c1[j])
  <2> SUFFICES ASSUME NEW j \in 1..n
               PROVE  c1[j - 1] < c1[j] /\ Between(s, q1[j], c1[j - 1], c1[j])
    OBVIOUS
  <2>1. CASE j = n
    <3>1. c1[j - 1] = c[j - 1] /\ c1[j] = i + 1 /\ q1[j] = p
      BY <1>2, <1>6, <1>7, <1>12, <2>1
    <3>2. c[j - 1] < i /\ c[j - 1] \in Nat /\ Between(s, q[n], c[j - 1], i)
      BY <1>2, <1>5, <2>1
    <3>3. Len(q[n]) = i - c[j - 1] - 1
      BY <3>2 DEF Between
    <3>4. \A x \in 1..Len(p) : p[x] = s[c[j - 1] + x]
      <4> SUFFICES ASSUME NEW x \in 1..Len(p) PROVE p[x] = s[c[j - 1] + x]
        OBVIOUS
      <4>1. CASE x = Len(p)
        <5>1. x = Len(q[n]) + 1 /\ c[j - 1] + x = i
          BY SMTT(30), <1>4, <3>2, <3>3, <4>1
        <5> QED
          BY <1>4, <5>1
      <4>2. CASE x # Len(p)
        <5>1. x \in 1..Len(q[n])
          BY <1>4, <3>2, <3>3, <4>2
        <5> QED
          BY <1>4, <3>2, <5>1 DEF Between
      <4> QED
        BY <4>1, <4>2
    <3> HIDE DEF c1
    <3> QED
      BY SMTT(30), <1>4, <3>1, <3>2, <3>3, <3>4 DEF Between
  <2>2. CASE j # n
    <3>1. j \in 1..n /\ j \in 0..(n - 1) /\ j - 1 \in 0..(n - 1) /\ j \in 1..(n - 1)
      BY <1>2, <2>2
    <3>2. c1[j - 1] = c[j - 1] /\ c1[j] = c[j] /\ q1[j] = q[j]
      BY <1>12, <1>7, <3>1
    <3> HIDE DEF c1
    <3> QED
      BY <1>5, <3>1, <3>2
  <2> QED
    BY <2>1, <2>2
<1>9. \A j \in 1..(n - 1) : s[c1[j]] = sep
  <2> SUFFICES ASSUME NEW j \in 1..(n - 1) PROVE s[c1[j]] = sep
    OBVIOUS
  <2>1. c1[j] = c[j]
    BY <1>2, <1>7
  <2> QED
    BY <1>5, <2>1
<1>10. Whole(q1, sep)
  <2> SUFFICES ASSUME NEW j \in 1..n, NEW x \in 1..Len(q1[j]) PROVE q1[j][x] # sep
    BY <1>12 DEF Whole
  <2>0. \A k \in 1..n : \A y \in 1..Len(q[k]) : q[k][y] # sep
    BY DEF SplitAt, Whole, n
  <2>1. CASE j = n
    <3>1. q1[j] = p
      BY <1>12, <2>1
    <3>2. x \in 1..Len(q[n]) \/ x = Len(q[n]) + 1
      BY <1>4, <3>1
    <3> QED
      BY <1>2, <1>4, <2>0, <3>1, <3>2
  <2>2. CASE j # n
    <3>1. j \in 1..(n - 1) /\ q1[j] = q[j]
      BY <1>2, <1>12, <2>2
    <3> QED
      BY <2>0, <3>1
  <2> QED
    BY <2>1, <2>2
<1>11. Cut(s, i, q1, c1, sep)
  <2> HIDE DEF c1
  <2> QED
    BY <1>12, <1>6, <1>8, <1>9 DEF Cut
<1> QED
  BY <1>1, <1>10, <1>11 DEF SplitAt

\* SplitOn cuts the text at its separators.
LEMMA SplitIsACut ==
    ASSUME NEW C, NEW s \in Seq(C), NEW sep
    PROVE  SplitOn(s, sep) \in PartSeqs(C) /\ SplitAt(s, Len(s), SplitOn(s, sep), sep)
<1>1. PICK f \in [0..Len(s) -> PartSeqs(C)] :
              /\ f[0] = <<<<>>>>
              /\ \A i \in 1..Len(s) : f[i] = AddCharacter(f[i - 1], s[i], sep)
              /\ SplitOn(s, sep) = f[Len(s)]
  BY ZenonT(60), SplitOnIs
<1> DEFINE n == Len(s)
           S == {i \in Nat : i <= n => SplitAt(s, i, f[i], sep)}
<1>2. 0 \in S
  <2> DEFINE q == <<<<>>>>
             c == [j \in 0..1 |-> j]
  <2>1. Len(q) = 1 /\ q[1] = <<>>
    OBVIOUS
  <2>2. Whole(q, sep)
    BY <2>1 DEF Whole
  <2>3. c \in [0..1 -> 0..1] /\ c[0] = 0 /\ c[1] = 1
    OBVIOUS
  <2> HIDE DEF q, c
  <2>4. Between(s, q[1], c[0], c[1])
    BY <2>1, <2>3 DEF Between
  <2>5. Cut(s, 0, q, c, sep)
    BY <2>1, <2>3, <2>4 DEF Cut
  <2> QED
    BY <1>1, <2>2, <2>5 DEF SplitAt, q
<1>3. ASSUME NEW i \in Nat, i \in S PROVE i + 1 \in S
  <2> SUFFICES ASSUME i + 1 <= n PROVE SplitAt(s, i + 1, f[i + 1], sep)
    OBVIOUS
  <2>1. i + 1 \in 1..Len(s) /\ f[i] \in PartSeqs(C) /\ (i + 1) - 1 = i
    OBVIOUS
  <2>2. f[i + 1] = AddCharacter(f[i], s[i + 1], sep)
    BY <1>1, <2>1
  <2>3. SplitAt(s, (i + 1) - 1, f[i], sep)
    BY <1>3, <2>1
  <2>4. CASE s[i + 1] = sep
    BY <2>1, <2>2, <2>3, <2>4, SplitAtSeparator
  <2>5. CASE s[i + 1] # sep
    BY <2>1, <2>2, <2>3, <2>5, SplitAtLetter
  <2> QED
    BY <2>4, <2>5
<1>4. Nat \subseteq S
  <2> HIDE DEF S
  <2> QED
    BY Zenon, <1>2, <1>3, SetInduction
<1>5. n \in Nat /\ f[n] \in PartSeqs(C)
  OBVIOUS
<1> QED
  BY <1>1, <1>4, <1>5

\* Every place of a cut text is in a part, or between two.
LEMMA CutCovers ==
    ASSUME NEW s, NEW e \in Nat, NEW q, NEW c, NEW sep, Len(q) \in Nat,
           Cut(s, e, q, c, sep), NEW x \in 1..e
    PROVE  \E j \in 1..Len(q) : c[j - 1] < x /\ x <= c[j]
<1> DEFINE T == {j \in 0..Len(q) : x <= c[j]}
<1>0. c \in [0..Len(q) -> 0..(e + 1)] /\ c[0] = 0 /\ c[Len(q)] = e + 1
  BY DEF Cut
<1>1. T \in SUBSET Nat /\ Len(q) \in T
  BY <1>0
<1>2. PICK j \in T : \A k \in T : j <= k
  BY <1>1, LeastNumber
<1>3. j # 0
  BY <1>0
<1>4. j - 1 \in 0..Len(q) /\ j - 1 \notin T
  BY <1>2, <1>3
<1> QED
  BY <1>0, <1>3, <1>4

\* The lengths of the parts say where a text is cut.
LEMMA SameEnds ==
    ASSUME NEW s, NEW e \in Nat, NEW c, NEW sep,
           NEW t, NEW f \in Nat, NEW d, NEW mark,
           NEW C, NEW q \in Seq(Seq(C)),
           Cut(s, e, q, c, sep), Cut(t, f, q, d, mark)
    PROVE  e = f /\ c = d
<1> DEFINE n == Len(q)
           S == {i \in Nat : i <= n => c[i] = d[i]}
<1>1. /\ c \in [0..n -> 0..(e + 1)] /\ c[0] = 0 /\ c[n] = e + 1
      /\ d \in [0..n -> 0..(f + 1)] /\ d[0] = 0 /\ d[n] = f + 1
      /\ \A j \in 1..n : Len(q[j]) = c[j] - c[j - 1] - 1 /\ Len(q[j]) = d[j] - d[j - 1] - 1
  BY DEF Cut, Between
<1>2. 0 \in S
  BY <1>1
<1>3. ASSUME NEW i \in Nat, i \in S PROVE i + 1 \in S
  <2> SUFFICES ASSUME i + 1 <= n PROVE c[i + 1] = d[i + 1]
    OBVIOUS
  <2>1. i + 1 \in 1..n /\ (i + 1) - 1 = i /\ i \in 0..n /\ i + 1 \in 0..n
    OBVIOUS
  <2>2. c[i] = d[i]
    BY <1>3, <2>1
  <2>4. c[i] \in 0..(e + 1) /\ c[i + 1] \in 0..(e + 1) /\ d[i + 1] \in 0..(f + 1)
    <3> HIDE DEF n, S
    <3> QED
      BY <1>1, <2>1
  <2>3. c[i + 1] - c[i] - 1 = d[i + 1] - d[i] - 1
    BY <1>1, <2>1
  <2>5. \A m, a, b \in Int : m - b - 1 = a - b - 1 => m = a
    OBVIOUS
  <2>6. c[i] \in Int /\ c[i + 1] \in Int /\ d[i + 1] \in Int
    BY <2>4
  <2> HIDE DEF n, S
  <2> QED
    BY <2>2, <2>3, <2>5, <2>6
<1>4. Nat \subseteq S
  <2> HIDE DEF S
  <2> QED
    BY Zenon, <1>2, <1>3, SetInduction
<1>5. \A i \in 0..n : c[i] = d[i]
  BY <1>4
<1> QED
  BY <1>1, <1>5

\* Two texts that are cut into the same parts differ in their separators alone.
LEMMA CutDetermines ==
    ASSUME NEW C, NEW q \in Seq(Seq(C)),
           NEW s, NEW c, NEW sep, Len(s) \in Nat, Cut(s, Len(s), q, c, sep),
           NEW t, NEW d, NEW mark, Len(t) \in Nat, Cut(t, Len(t), q, d, mark)
    PROVE  /\ Len(s) = Len(t)
           /\ \A x \in 1..Len(s) : s[x] = t[x] \/ (s[x] = sep /\ t[x] = mark)
<1>1. Len(s) = Len(t) /\ c = d
  BY SameEnds
<1> SUFFICES ASSUME NEW x \in 1..Len(s) PROVE s[x] = t[x] \/ (s[x] = sep /\ t[x] = mark)
  BY <1>1
<1>2. PICK j \in 1..Len(q) : c[j - 1] < x /\ x <= c[j]
  <2>1. Len(q) \in Nat
    OBVIOUS
  <2> QED
    BY <2>1, CutCovers
<1>3. /\ c \in [0..Len(q) -> 0..(Len(s) + 1)] /\ c[Len(q)] = Len(s) + 1
      /\ Between(s, q[j], c[j - 1], c[j]) /\ Between(t, q[j], c[j - 1], c[j])
      /\ \A k \in 1..(Len(q) - 1) : s[c[k]] = sep /\ t[c[k]] = mark
  BY <1>1 DEF Cut
<1>4. c[j - 1] \in Nat /\ c[j] \in Nat
  <2>1. j \in 0..Len(q) /\ j - 1 \in 0..Len(q)
    OBVIOUS
  <2>2. c[j - 1] \in 0..(Len(s) + 1) /\ c[j] \in 0..(Len(s) + 1)
    BY <1>3, <2>1
  <2> QED
    BY <2>2
<1>5. CASE x = c[j]
  <2>1. j # Len(q)
    BY <1>3, <1>5
  <2> QED
    BY SMTT(30), <1>3, <1>5, <2>1
<1>6. CASE x # c[j]
  <2>1. x - c[j - 1] \in 1..Len(q[j]) /\ c[j - 1] + (x - c[j - 1]) = x
    BY SMTT(30), <1>2, <1>3, <1>4, <1>6 DEF Between
  <2> QED
    BY <1>3, <2>1 DEF Between
<1> QED
  BY <1>5, <1>6

\* Join takes the parts one by one.
LEMMA JoinIs ==
    ASSUME NEW C, NEW q \in Seq(Seq(C)), NEW sep \in C
    PROVE  \E f \in [0..Len(q) -> Seq(C)] :
              /\ f[0] = <<>>
              /\ \A i \in 1..Len(q) : f[i] = AddPart(f[i - 1], i, q[i], sep)
              /\ Join(q, sep) = f[Len(q)]
<1> DEFINE n == Len(q)
           A == Seq(C)
           step == [p \in A \X (1..n) |-> AddPart(p[1], p[2], q[p[2]], sep)]
           By(f) == f = [i \in 0..n |-> IF i = 0 THEN <<>> ELSE AddPart(f[i - 1], i, q[i], sep)]
<1>0. ASSUME NEW t \in A, NEW i \in 1..n PROVE AddPart(t, i, q[i], sep) \in A
  <2>1. q[i] \in Seq(C)
    OBVIOUS
  <2>. QED
    BY <2>1 DEF AddPart
<1>1. step \in [A \X (1..n) -> A]
  BY <1>0
<1>2. <<>> \in A
  OBVIOUS
<1>3. n \in Nat
  OBVIOUS
<1>4. PICK f \in [0..n -> A] : f[0] = <<>> /\ \A i \in 1..n : f[i] = step[<<f[i - 1], i>>]
  <2> HIDE DEF step, n, A
  <2>1. \E f : Steps(A, <<>>, n, step, f)
    BY Zenon, <1>1, <1>2, <1>3, Recursion
  <2>. QED
    BY <2>1 DEF Steps
<1>5. \A i \in 1..n : step[<<f[i - 1], i>>] = AddPart(f[i - 1], i, q[i], sep)
  <2> SUFFICES ASSUME NEW i \in 1..n PROVE step[<<f[i - 1], i>>] = AddPart(f[i - 1], i, q[i], sep)
    OBVIOUS
  <2>1. f[i - 1] \in A /\ i \in 1..n
    <3> HIDE DEF step, n, A
    <3> QED
      BY <1>3, <1>4
  <2>. QED
    BY <2>1
<1>6. By(f)
  <2> HIDE DEF step, n, A
  <2>1. \A i \in 0..n : i # 0 => i \in 1..n
    BY <1>3
  <2>. QED
    BY <1>4, <1>5, <2>1
<1> DEFINE c == CHOOSE g : By(g)
<1>7. By(c)
  BY <1>6
<1>8. Join(q, sep) = c[n]
  BY DEF Join
<1>9. c \in [0..n -> A]
  <2> DEFINE S == {i \in Nat : i <= n => c[i] \in A}
  <2> HIDE DEF c, A
  <2>1. 0 \in S
    BY <1>7, <1>2
  <2>2. ASSUME NEW i \in Nat, i \in S PROVE i + 1 \in S
    <3> SUFFICES ASSUME i + 1 <= n PROVE c[i + 1] \in A
      OBVIOUS
    <3>1. c[i + 1] = AddPart(c[i], i + 1, q[i + 1], sep)
      BY <1>7
    <3>. QED
      BY <2>2, <3>1, <1>0
  <2>3. Nat \subseteq S
    <3> HIDE DEF S
    <3>. QED
      BY Zenon, <2>1, <2>2, SetInduction
  <2>4. \A i \in 0..n : c[i] \in A
    BY <2>3
  <2>. QED
    BY <2>4, <1>7
<1>10. c[0] = <<>> /\ \A i \in 1..n : c[i] = AddPart(c[i - 1], i, q[i], sep)
  <2> HIDE DEF c
  <2>1. 0 \in 0..n /\ \A i \in 1..n : i \in 0..n /\ i # 0
    OBVIOUS
  <2>. QED
    BY <1>7, <2>1
<1>. QED
  <2> HIDE DEF c
  <2>. QED
    BY <1>8, <1>9, <1>10

\* The text r is t, a separator and the part.
Longer(r, t, part, sep) ==
    /\ Len(r) = Len(t) + 1 + Len(part)
    /\ \A x \in 1..Len(t) : r[x] = t[x]
    /\ r[Len(t) + 1] = sep
    /\ \A x \in 1..Len(part) : r[Len(t) + 1 + x] = part[x]

\* The characters of a part that is added to a text.
LEMMA AddPartIs ==
    ASSUME NEW C, NEW t \in Seq(C), NEW i \in Nat, i > 1, NEW part \in Seq(C), NEW sep \in C
    PROVE  Longer(AddPart(t, i, part, sep), t, part, sep)
<1> DEFINE u == t \o <<sep>>
           v == u \o part
<1>1. AddPart(t, i, part, sep) = v
  BY DEF AddPart
<1>2. /\ u \in Seq(C) /\ Len(u) = Len(t) + 1 /\ u[Len(t) + 1] = sep
      /\ \A x \in 1..Len(t) : u[x] = t[x]
  OBVIOUS
<1> HIDE DEF u
<1>3. v \in Seq(C) /\ Len(v) = Len(t) + 1 + Len(part)
  BY <1>2
<1>4. \A x \in 1..Len(u) : v[x] = u[x]
  BY <1>2
<1>5. \A x \in 1..Len(part) : v[Len(u) + x] = part[x]
  <2> SUFFICES ASSUME NEW x \in 1..Len(part) PROVE v[Len(u) + x] = part[x]
    OBVIOUS
  <2> QED
    BY <1>2
<1> HIDE DEF v
<1>6. \A x \in 1..Len(t) : x \in 1..Len(u)
  BY <1>2
<1>7. Len(t) + 1 \in 1..Len(u)
  BY <1>2
<1> QED
  BY <1>1, <1>2, <1>3, <1>4, <1>5, <1>6, <1>7 DEF Longer

\* The ends of the parts in the text they are joined to.
LEMMA EndsExist ==
    ASSUME NEW C, NEW q \in Seq(Seq(C))
    PROVE  \E c \in [0..Len(q) -> Nat] :
              c[0] = 0 /\ \A i \in 1..Len(q) : c[i] = c[i - 1] + Len(q[i]) + 1
<1> DEFINE n == Len(q)
           step == [p \in Nat \X (1..n) |-> p[1] + Len(q[p[2]]) + 1]
<1>1. step \in [Nat \X (1..n) -> Nat]
  <2> SUFFICES ASSUME NEW p \in Nat \X (1..n) PROVE p[1] + Len(q[p[2]]) + 1 \in Nat
    OBVIOUS
  <2>1. p[2] \in 1..n /\ p[1] \in Nat
    OBVIOUS
  <2>2. q[p[2]] \in Seq(C)
    BY <2>1
  <2> QED
    BY <2>1, <2>2
<1>2. 0 \in Nat /\ n \in Nat
  OBVIOUS
<1>3. PICK c : Steps(Nat, 0, n, step, c)
  <2> HIDE DEF step, n
  <2> QED
    BY Zenon, <1>1, <1>2, Recursion
<1>4. c \in [0..n -> Nat] /\ c[0] = 0 /\ \A i \in 1..n : c[i] = step[<<c[i - 1], i>>]
  BY <1>3 DEF Steps
<1>5. ASSUME NEW i \in 1..n PROVE step[<<c[i - 1], i>>] = c[i - 1] + Len(q[i]) + 1
  <2>1. c[i - 1] \in Nat
    <3> HIDE DEF step, n
    <3> QED
      BY <1>2, <1>4
  <2> QED
    BY <2>1
<1> HIDE DEF step
<1> QED
  BY <1>4, <1>5

\* Join makes a text that is cut into the parts.
LEMMA JoinIsACut ==
    ASSUME NEW C, NEW q \in Seq(Seq(C)), q # <<>>, NEW sep \in C
    PROVE  Join(q, sep) \in Seq(C) /\ \E c : Cut(Join(q, sep), Len(Join(q, sep)), q, c, sep)
<1>1. PICK f \in [0..Len(q) -> Seq(C)] :
              /\ f[0] = <<>>
              /\ \A i \in 1..Len(q) : f[i] = AddPart(f[i - 1], i, q[i], sep)
              /\ Join(q, sep) = f[Len(q)]
  BY Zenon, JoinIs
<1>2. PICK c \in [0..Len(q) -> Nat] :
              c[0] = 0 /\ \A i \in 1..Len(q) : c[i] = c[i - 1] + Len(q[i]) + 1
  BY Zenon, EndsExist
<1> DEFINE n == Len(q)
           Built(i) == /\ Len(f[i]) + 1 = c[i]
                       /\ \A j \in 0..i : c[j] <= c[i]
                       /\ \A j \in 1..i : Between(f[i], q[j], c[j - 1], c[j])
                       /\ \A j \in 1..(i - 1) : f[i][c[j]] = sep
           S == {i \in Nat : 0 < i /\ i <= n => Built(i)}
<1>3. n \in Nat \ {0} /\ \A i \in 1..n : q[i] \in Seq(C) /\ Len(q[i]) \in Nat
  <2>1. \A i \in 1..n : q[i] \in Seq(C)
    OBVIOUS
  <2> QED
    BY <2>1
<1> HIDE DEF n
<1>4. \A i \in 0..n : f[i] \in Seq(C) /\ Len(f[i]) \in Nat /\ c[i] \in Nat
  <2>1. \A i \in 0..n : f[i] \in Seq(C) /\ c[i] \in Nat
    BY <1>1, <1>2 DEF n
  <2> QED
    BY <2>1
<1>5. \A i \in 1..n : c[i - 1] < c[i] /\ c[i] = c[i - 1] + Len(q[i]) + 1
  <2> SUFFICES ASSUME NEW i \in 1..n PROVE c[i - 1] < c[i] /\ c[i] = c[i - 1] + Len(q[i]) + 1
    OBVIOUS
  <2>1. i \in 0..n /\ i - 1 \in 0..n
    BY <1>3
  <2>2. c[i] = c[i - 1] + Len(q[i]) + 1 /\ Len(q[i]) \in Nat /\ c[i] \in Nat /\ c[i - 1] \in Nat
    BY <1>2, <1>3, <1>4, <2>1 DEF n
  <2> QED
    BY <2>2
<1>6. Built(1)
  <2>1. 1 \in 1..n /\ 1 - 1 = 0
    BY <1>3
  <2>2. f[1] = q[1] /\ c[1] = Len(q[1]) + 1
    BY <1>1, <1>2, <1>3, <2>1 DEF AddPart, n
  <2>3. Between(f[1], q[1], 0, c[1])
    BY <1>3, <2>1, <2>2 DEF Between
  <2> QED
    BY <1>2, <1>3, <1>4, <2>1, <2>2, <2>3
<1>7. ASSUME NEW i \in 1..(n - 1), Built(i) PROVE Built(i + 1)
  <2> DEFINE r == f[i + 1]
  <2>1. /\ i \in Nat /\ i + 1 \in 1..n /\ (i + 1) - 1 = i /\ i + 1 > 1 /\ i + 1 \in Nat
        /\ i \in 0..n /\ i + 1 \in 0..n
    BY <1>3
  <2>2. r = AddPart(f[i], i + 1, q[i + 1], sep)
    BY <1>1, <2>1 DEF n
  <2>3. f[i] \in Seq(C) /\ q[i + 1] \in Seq(C) /\ c[i] = Len(f[i]) + 1
    BY <1>3, <1>4, <1>7, <2>1
  <2>4. /\ Len(r) = Len(f[i]) + 1 + Len(q[i + 1])
        /\ \A x \in 1..Len(f[i]) : r[x] = f[i][x]
        /\ r[Len(f[i]) + 1] = sep
        /\ \A x \in 1..Len(q[i + 1]) : r[Len(f[i]) + 1 + x] = q[i + 1][x]
    <3> HIDE DEF r
    <3>1. Longer(r, f[i], q[i + 1], sep)
      BY <2>1, <2>2, <2>3, AddPartIs
    <3> QED
      BY <3>1 DEF Longer
  <2>5. c[i + 1] = c[i] + Len(q[i + 1]) + 1
    BY <1>5, <2>1
  <2>6. Len(q[i + 1]) \in Nat /\ c[i] \in Nat /\ c[i + 1] \in Nat /\ Len(f[i]) \in Nat
    BY <1>3, <1>4, <2>1
  <2> HIDE DEF r
  <2>7. Len(r) + 1 = c[i + 1]
    BY <2>3, <2>4, <2>5, <2>6
  <2>8. \A j \in 0..(i + 1) : c[j] <= c[i + 1]
    <3> SUFFICES ASSUME NEW j \in 0..(i + 1) PROVE c[j] <= c[i + 1]
      OBVIOUS
    <3>1. CASE j = i + 1
      BY <2>6, <3>1
    <3>2. CASE j # i + 1
      <4>1. j \in 0..i /\ j \in 0..n
        BY <1>3, <3>2
      <4>2. c[j] <= c[i] /\ c[j] \in Nat
        BY <1>4, <1>7, <4>1
      <4> QED
        BY SMTT(30), <2>5, <2>6, <4>2
    <3> QED
      BY <3>1, <3>2
  <2>9. \A j \in 1..(i + 1) : Between(r, q[j], c[j - 1], c[j])
    <3> SUFFICES ASSUME NEW j \in 1..(i + 1) PROVE Between(r, q[j], c[j - 1], c[j])
      OBVIOUS
    <3>1. CASE j = i + 1
      <4>1. j - 1 = i
        BY <3>1
      <4>2. Len(q[i + 1]) = c[i + 1] - c[i] - 1
        <5>1. \A a, b, l \in Nat : b = a + l + 1 => l = b - a - 1
          OBVIOUS
        <5> QED
          BY <2>5, <2>6, <5>1
      <4>3. \A x \in 1..Len(q[i + 1]) : q[i + 1][x] = r[c[i] + x]
        BY <2>3, <2>4
      <4> QED
        BY <3>1, <4>1, <4>2, <4>3 DEF Between
    <3>2. CASE j # i + 1
      <4>1. j \in 1..i /\ j \in 0..i /\ j \in 1..n /\ j \in 0..n /\ j - 1 \in 0..n
        BY <1>3, <3>2
      <4>2. Between(f[i], q[j], c[j - 1], c[j]) /\ c[j] <= c[i]
        BY <1>7, <4>1
      <4>3. c[j - 1] \in Nat /\ c[j] \in Nat /\ Len(q[j]) = c[j] - c[j - 1] - 1
        BY <1>4, <4>1, <4>2 DEF Between
      <4>4. ASSUME NEW x \in 1..Len(q[j]) PROVE q[j][x] = r[c[j - 1] + x]
        <5>1. q[j][x] = f[i][c[j - 1] + x]
          BY <4>2 DEF Between
        <5>2. c[j - 1] + x \in 1..Len(f[i])
          <6>1. \A a, b, e, l \in Nat : b <= e /\ e = l + 1 /\ x \in 1..(b - a - 1) => a + x \in 1..l
            OBVIOUS
          <6>2. x \in 1..(c[j] - c[j - 1] - 1)
            BY <4>3
          <6> QED
            BY <2>3, <2>6, <4>2, <4>3, <6>1, <6>2
        <5> QED
          BY <2>4, <5>1, <5>2
      <4> QED
        BY <4>3, <4>4 DEF Between
    <3> QED
      BY <3>1, <3>2
  <2>10. \A j \in 1..((i + 1) - 1) : r[c[j]] = sep
    <3> SUFFICES ASSUME NEW j \in 1..i PROVE r[c[j]] = sep
      BY <2>1
    <3>1. CASE j = i
      BY <2>3, <2>4, <3>1
    <3>2. CASE j # i
      <4>1. /\ j \in 1..(i - 1) /\ j + 1 \in 1..n /\ j + 1 \in 0..i /\ (j + 1) - 1 = j
            /\ j \in 0..n /\ j + 1 \in 0..n /\ j - 1 \in 0..n /\ j \in 1..n
        BY <1>3, <3>2
      <4>2. c[j] < c[j + 1] /\ c[j + 1] <= c[i]
        BY <1>5, <1>7, <4>1
      <4>3. c[j - 1] < c[j] /\ c[j] \in Nat /\ c[j + 1] \in Nat /\ c[j - 1] \in Nat
        BY <1>4, <1>5, <4>1
      <4>4. c[j] \in 1..Len(f[i])
        <5>1. \A a, b, d, e, l \in Nat : a < b /\ b < d /\ d <= e /\ e = l + 1 => b \in 1..l
          OBVIOUS
        <5> QED
          BY <2>3, <2>6, <4>2, <4>3, <5>1
      <4> QED
        BY <1>7, <2>4, <4>1, <4>4
    <3> QED
      BY <3>1, <3>2
  <2> QED
    BY <2>7, <2>8, <2>9, <2>10 DEF r
<1>8. 0 \in S
  OBVIOUS
<1>9. ASSUME NEW i \in Nat, i \in S PROVE i + 1 \in S
  <2> SUFFICES ASSUME i + 1 <= n PROVE Built(i + 1)
    OBVIOUS
  <2>1. CASE i = 0
    BY <1>6, <2>1
  <2>2. CASE i # 0
    <3>1. i \in 1..(n - 1) /\ 0 < i /\ i <= n
      BY <1>3, <2>2
    <3>2. Built(i)
      BY <1>9, <3>1
    <3> QED
      BY <1>7, <3>1, <3>2
  <2> QED
    BY <2>1, <2>2
<1>10. Nat \subseteq S
  <2> HIDE DEF S
  <2> QED
    BY Zenon, <1>8, <1>9, SetInduction
<1>11. Built(n)
  BY SMTT(30), <1>3, <1>10
<1>12. Cut(f[n], Len(f[n]), q, c, sep)
  <2>1. c \in [0..n -> 0..(Len(f[n]) + 1)]
    <3>1. \A j \in 0..n : c[j] \in 0..(Len(f[n]) + 1)
      BY SMTT(30), <1>3, <1>4, <1>11
    <3> QED
      BY <1>2, <3>1 DEF n
  <2>2. c[0] = 0 /\ c[n] = Len(f[n]) + 1
    BY <1>2, <1>11
  <2>3. \A j \in 1..n : c[j - 1] < c[j] /\ Between(f[n], q[j], c[j - 1], c[j])
    BY <1>5, <1>11
  <2>4. \A j \in 1..(n - 1) : f[n][c[j]] = sep
    BY <1>11
  <2> QED
    BY <2>1, <2>2, <2>3, <2>4 DEF Cut, n
<1>13. Join(q, sep) = f[n] /\ f[n] \in Seq(C)
  BY <1>1, <1>3, <1>4 DEF n
<1> QED
  BY <1>12, <1>13

\* A text that is cut into parts is the one they are joined to.
LEMMA CutIsAJoin ==
    ASSUME NEW C, NEW q \in Seq(Seq(C)), q # <<>>, NEW sep \in C,
           NEW s \in Seq(C), NEW c, Cut(s, Len(s), q, c, sep)
    PROVE  Join(q, sep) = s
<1> DEFINE t == Join(q, sep)
<1>1. PICK d : Cut(t, Len(t), q, d, sep)
  BY JoinIsACut
<1>2. t \in Seq(C) /\ Len(t) \in Nat /\ Len(s) \in Nat
  BY JoinIsACut
<1>3. Len(s) = Len(t) /\ \A x \in 1..Len(s) : s[x] = t[x]
  <2> HIDE DEF t
  <2> QED
    BY <1>1, <1>2, CutDetermines
<1> HIDE DEF t
<1>4. s = t
  BY <1>2, <1>3
<1> QED
  BY <1>4 DEF t

-----------------------------------------------------------------------------
(* Words out of parts.                                                      *)

\* The loop's state: the next part, and the words so far.
Turns(C) == [at : Nat \ {0}, words : Seq(Seq(C))]

\* Two parts with their hyphen.
LEMMA HyphenatedIs ==
    ASSUME NEW C, "-" \in C, NEW q \in Seq(Seq(C)), NEW i \in 1..(Len(q) - 1)
    PROVE  Hyphenated(q, i) \in Seq(C) /\ Longer(Hyphenated(q, i), q[i], q[i + 1], "-")
<1>1. i \in 1..Len(q) /\ i + 1 \in 1..Len(q)
  OBVIOUS
<1>2. q[i] \in Seq(C) /\ q[i + 1] \in Seq(C)
  BY <1>1
<1>3. Hyphenated(q, i) = AddPart(q[i], 2, q[i + 1], "-")
  BY DEF Hyphenated, AddPart
<1>4. AddPart(q[i], 2, q[i + 1], "-") \in Seq(C)
  BY <1>2 DEF AddPart
<1> QED
  BY <1>2, <1>3, <1>4, AddPartIs

\* What a turn of the loop does.
LEMMA TurnIs ==
    ASSUME NEW C, "-" \in C, NEW q \in Seq(Seq(C)), NEW s \in Turns(C)
    PROVE  \/ s.at > Len(q) /\ TakeWord(s, q) = s
           \/ /\ s.at < Len(q) /\ Hyphenated(q, s.at) \in WordList
              /\ TakeWord(s, q) = [at |-> s.at + 2, words |-> Append(s.words, Hyphenated(q, s.at))]
           \/ /\ s.at <= Len(q) /\ (s.at < Len(q) => Hyphenated(q, s.at) \notin WordList)
              /\ TakeWord(s, q) = [at |-> s.at + 1, words |-> Append(s.words, q[s.at])]
<1>1. s.at \in Nat /\ Len(q) \in Nat
  BY DEF Turns
<1> QED
  BY <1>1 DEF TakeWord

\* A turn of the loop leaves words, and a place further on.
LEMMA TakeWordType ==
    ASSUME NEW C, "-" \in C, NEW q \in Seq(Seq(C)), NEW s \in Turns(C)
    PROVE  TakeWord(s, q) \in Turns(C)
<1>1. s.at \in Nat \ {0} /\ s.words \in Seq(Seq(C)) /\ Len(q) \in Nat
  BY DEF Turns
<1>2. CASE s.at > Len(q) /\ TakeWord(s, q) = s
  BY <1>2
<1>3. CASE /\ s.at < Len(q)
           /\ TakeWord(s, q) = [at |-> s.at + 2, words |-> Append(s.words, Hyphenated(q, s.at))]
  <2>0. s.at \in 1..(Len(q) - 1)
    BY <1>1, <1>3
  <2>1. Hyphenated(q, s.at) \in Seq(C)
    BY <2>0, HyphenatedIs
  <2>2. Append(s.words, Hyphenated(q, s.at)) \in Seq(Seq(C))
    BY <1>1, <2>1
  <2> QED
    BY SMTT(30), <1>1, <1>3, <2>2 DEF Turns
<1>4. CASE /\ s.at <= Len(q)
           /\ TakeWord(s, q) = [at |-> s.at + 1, words |-> Append(s.words, q[s.at])]
  <2>1. q[s.at] \in Seq(C)
    BY <1>1, <1>4
  <2>2. Append(s.words, q[s.at]) \in Seq(Seq(C))
    BY <1>1, <2>1
  <2> QED
    BY <1>1, <1>4, <2>2 DEF Turns
<1> QED
  BY <1>2, <1>3, <1>4, TurnIs

\* The loop of segment_words, turn by turn.
LEMMA SegmentIs ==
    ASSUME NEW C, "-" \in C, NEW q \in Seq(Seq(C))
    PROVE  \E f \in [0..Len(q) -> Turns(C)] :
              /\ f[0] = [at |-> 1, words |-> <<>>]
              /\ \A i \in 1..Len(q) : f[i] = TakeWord(f[i - 1], q)
              /\ SegmentWords(q) = f[Len(q)].words
<1> DEFINE n == Len(q)
           A == Turns(C)
           a == [at |-> 1, words |-> <<>>]
           step == [p \in A \X (1..n) |-> TakeWord(p[1], q)]
           By(f) == f = [i \in 0..n |-> IF i = 0 THEN a ELSE TakeWord(f[i - 1], q)]
<1>1. step \in [A \X (1..n) -> A]
  BY TakeWordType
<1>2. a \in A
  BY DEF Turns
<1>3. n \in Nat
  OBVIOUS
<1>4. PICK f \in [0..n -> A] : f[0] = a /\ \A i \in 1..n : f[i] = step[<<f[i - 1], i>>]
  <2> HIDE DEF step, n, A, a
  <2>1. \E f : Steps(A, a, n, step, f)
    BY Zenon, <1>1, <1>2, <1>3, Recursion
  <2>. QED
    BY <2>1 DEF Steps
<1>5. \A i \in 1..n : step[<<f[i - 1], i>>] = TakeWord(f[i - 1], q)
  <2> SUFFICES ASSUME NEW i \in 1..n PROVE step[<<f[i - 1], i>>] = TakeWord(f[i - 1], q)
    OBVIOUS
  <2>1. f[i - 1] \in A /\ i \in 1..n
    <3> HIDE DEF step, n, A, a
    <3> QED
      BY <1>3, <1>4
  <2> HIDE DEF A, n
  <2>. QED
    BY <2>1
<1>6. By(f)
  <2> HIDE DEF step, n, A, a
  <2>1. \A i \in 0..n : i # 0 => i \in 1..n
    BY <1>3
  <2>. QED
    BY <1>4, <1>5, <2>1
<1> DEFINE c == CHOOSE g : By(g)
<1>7. By(c)
  BY <1>6
<1>8. SegmentWords(q) = c[n].words
  BY DEF SegmentWords
<1>9. c \in [0..n -> A]
  <2> DEFINE S == {i \in Nat : i <= n => c[i] \in A}
  <2> HIDE DEF c, A, a
  <2>1. 0 \in S
    BY <1>7, <1>2
  <2>2. ASSUME NEW i \in Nat, i \in S PROVE i + 1 \in S
    <3> SUFFICES ASSUME i + 1 <= n PROVE c[i + 1] \in A
      OBVIOUS
    <3>1. c[i + 1] = TakeWord(c[i], q)
      BY <1>7
    <3>. QED
      BY <2>2, <3>1, TakeWordType DEF A
  <2>3. Nat \subseteq S
    <3> HIDE DEF S
    <3>. QED
      BY Zenon, <2>1, <2>2, SetInduction
  <2>4. \A i \in 0..n : c[i] \in A
    BY <2>3
  <2>. QED
    BY <2>4, <1>7
<1>10. c[0] = a /\ \A i \in 1..n : c[i] = TakeWord(c[i - 1], q)
  <2> HIDE DEF c, a
  <2>1. 0 \in 0..n /\ \A i \in 1..n : i \in 0..n /\ i # 0
    OBVIOUS
  <2>. QED
    BY <1>7, <2>1
<1>. QED
  <2> HIDE DEF c
  <2>. QED
    BY <1>8, <1>9, <1>10

\* Between two places stands one text.
LEMMA BetweenIsOne ==
    ASSUME NEW C, NEW u \in Seq(C), NEW v \in Seq(C), NEW s, NEW a, NEW b,
           Between(s, u, a, b), Between(s, v, a, b)
    PROVE  u = v
<1>1. Len(u) = Len(v) /\ \A x \in 1..Len(u) : u[x] = v[x]
  BY DEF Between
<1> QED
  BY <1>1

\* Two parts and the hyphen between them.
LEMMA BetweenHyphenated ==
    ASSUME NEW C, "-" \in C, NEW q \in Seq(Seq(C)), NEW i \in 1..(Len(q) - 1), NEW s,
           NEW a \in Nat, NEW b \in Nat, NEW d \in Nat, a < b, b < d, s[b] = "-",
           Between(s, q[i], a, b), Between(s, q[i + 1], b, d)
    PROVE  Between(s, Hyphenated(q, i), a, d)
<1> DEFINE h == Hyphenated(q, i)
           l == Len(q[i])
           m == Len(q[i + 1])
<1>1. h \in Seq(C) /\ Longer(h, q[i], q[i + 1], "-")
  BY HyphenatedIs
<1>2. l = b - a - 1 /\ m = d - b - 1 /\ Len(h) = l + 1 + m
  BY <1>1 DEF Between, Longer
<1>3. /\ \A x \in 1..l : h[x] = s[a + x]
      /\ \A x \in 1..m : h[l + 1 + x] = s[b + x]
      /\ h[l + 1] = "-"
  BY <1>1 DEF Between, Longer
<1> HIDE DEF h, l, m
<1>4. Len(h) = d - a - 1
  BY <1>2
<1>5. ASSUME NEW x \in 1..Len(h) PROVE h[x] = s[a + x]
  <2>1. CASE x \in 1..l
    BY <1>3, <2>1
  <2>2. CASE x = l + 1
    <3>1. a + x = b
      BY <1>2, <2>2
    <3> QED
      BY <1>3, <2>2, <3>1
  <2>3. CASE x > l + 1
    <3> DEFINE y == x - l - 1
    <3>1. y \in 1..m /\ l + 1 + y = x /\ b + y = a + x
      BY <1>2, <2>3
    <3> HIDE DEF y
    <3> QED
      BY <1>3, <3>1
  <2> QED
    BY <1>2, <2>1, <2>2, <2>3
<1> QED
  BY <1>4, <1>5 DEF Between, h

\* The words so far are the text up to the next part.
Spelling(n, q, p, s) ==
    /\ s.at <= Len(q) + 1
    /\ s.words # <<>> => s.at > 1
    /\ \E c : Cut(n, p[s.at - 1] - 1, s.words, c, "-")

\* Where a part of a cut text begins and ends, and the one after it.
PartAt(n, q, p, i) ==
    /\ p[i - 1] \in 0..(Len(n) + 1) /\ p[i] \in 0..(Len(n) + 1) /\ p[i - 1] < p[i]
    /\ Between(n, q[i], p[i - 1], p[i])
    /\ i > 1 => n[p[i - 1]] = "-"
    /\ i < Len(q) => /\ n[p[i]] = "-" /\ p[i] < p[i + 1] /\ p[i + 1] \in 0..(Len(n) + 1)
                     /\ Between(n, q[i + 1], p[i], p[i + 1])

\* A cut text has its parts there.
LEMMA NextPart ==
    ASSUME NEW C, NEW n \in Seq(C), NEW q \in Seq(Seq(C)), NEW p,
           Cut(n, Len(n), q, p, "-"), NEW i \in 1..Len(q)
    PROVE  PartAt(n, q, p, i)
<1> DEFINE m == Len(q)
           l == Len(n)
<1>1. /\ p \in [0..m -> 0..(l + 1)]
      /\ \A j \in 1..m : p[j - 1] < p[j] /\ Between(n, q[j], p[j - 1], p[j])
      /\ \A j \in 1..(m - 1) : n[p[j]] = "-"
  BY DEF Cut
<1>2. m \in Nat /\ l \in Nat /\ i \in 1..m
  OBVIOUS
<1> HIDE DEF m, l
<1>3. i - 1 \in 0..m /\ i \in 0..m
  BY <1>2
<1>4. i > 1 => i - 1 \in 1..(m - 1)
  BY <1>2
<1>5. i < m => i \in 1..(m - 1) /\ i + 1 \in 1..m /\ i + 1 \in 0..m /\ (i + 1) - 1 = i
  BY <1>2
<1>6. p[i - 1] \in 0..(l + 1) /\ p[i] \in 0..(l + 1) /\ p[i - 1] < p[i] /\ Between(n, q[i], p[i - 1], p[i])
  BY <1>1, <1>2, <1>3
<1>7. i > 1 => n[p[i - 1]] = "-"
  BY <1>1, <1>4
<1>8. i < m => n[p[i]] = "-" /\ p[i] < p[i + 1] /\ p[i + 1] \in 0..(l + 1)
                            /\ Between(n, q[i + 1], p[i], p[i + 1])
  <2> SUFFICES ASSUME i < m PROVE n[p[i]] = "-" /\ p[i] < p[i + 1] /\ p[i + 1] \in 0..(l + 1)
                            /\ Between(n, q[i + 1], p[i], p[i + 1])
    OBVIOUS
  <2>1. p[(i + 1) - 1] < p[i + 1] /\ Between(n, q[i + 1], p[(i + 1) - 1], p[i + 1])
    BY <1>1, <1>5
  <2> QED
    BY <1>1, <1>5, <2>1
<1> QED
  BY <1>6, <1>7, <1>8 DEF m, l, PartAt

\* A word taken from a text is the one that stands there.
LEMMA TurnSpells ==
    ASSUME NEW C, "-" \in C, NEW n \in Seq(C), NEW q \in Seq(Seq(C)), NEW p,
           Cut(n, Len(n), q, p, "-"), NEW s \in Turns(C), Spelling(n, q, p, s)
    PROVE  /\ Spelling(n, q, p, TakeWord(s, q))
           /\ IF s.at > Len(q) THEN TakeWord(s, q) = s ELSE TakeWord(s, q).at > s.at
<1> DEFINE at == s.at
           e == p[at - 1] - 1
<1>1. at \in Nat \ {0} /\ s.words \in Seq(Seq(C)) /\ Len(q) \in Nat /\ Len(n) \in Nat
  BY DEF Turns
<1>2. at <= Len(q) + 1 /\ (s.words # <<>> => at > 1)
  BY DEF Spelling
<1>3. PICK c : Cut(n, e, s.words, c, "-")
  BY DEF Spelling
<1>8. \A i \in 1..Len(q) : PartAt(n, q, p, i)
  BY NextPart
<1>4. ASSUME NEW w \in Seq(C), NEW j \in at..Len(q), Between(n, w, p[at - 1], p[j]), p[at - 1] < p[j],
             TakeWord(s, q) = [at |-> j + 1, words |-> Append(s.words, w)]
      PROVE  Spelling(n, q, p, TakeWord(s, q)) /\ TakeWord(s, q).at > s.at
  <2> DEFINE f == p[j] - 1
  <2>1. at \in 1..Len(q) /\ j \in 1..Len(q) /\ j \in Nat /\ (j + 1) - 1 = j /\ j + 1 > at /\ j + 1 > 1
    BY <1>1
  <2>2. /\ p[at - 1] \in 0..(Len(n) + 1) /\ p[j] \in 0..(Len(n) + 1)
        /\ at > 1 => n[p[at - 1]] = "-"
    BY <1>8, <2>1 DEF PartAt
  <2>3. e \in Int /\ f \in Nat /\ e < f /\ -1 <= e /\ e + 1 = p[at - 1] /\ f + 1 = p[j]
    <3>1. p[at - 1] \in Nat /\ p[j] \in Nat /\ p[at - 1] < p[j]
      <4> HIDE DEF at
      <4> QED
        BY <1>1, <1>4, <2>2
    <3>2. \A a, b \in Nat : a < b =>
              /\ a - 1 \in Int /\ b - 1 \in Nat /\ a - 1 < b - 1 /\ -1 <= a - 1
              /\ (a - 1) + 1 = a /\ (b - 1) + 1 = b
      OBVIOUS
    <3> HIDE DEF at
    <3> QED
      BY <3>1, <3>2
  <2>4. s.words # <<>> => n[e + 1] = "-"
    BY <1>2, <2>2, <2>3
  <2>5. Between(n, w, e + 1, f + 1)
    BY <1>4, <2>3
  <2> HIDE DEF e, f
  <2>6. \E d : Cut(n, f, Append(s.words, w), d, "-")
    BY <1>1, <1>3, <2>3, <2>4, <2>5, CutAppend
  <2>7. TakeWord(s, q).at = j + 1 /\ TakeWord(s, q).words = Append(s.words, w)
    BY <1>4
  <2>8. p[TakeWord(s, q).at - 1] - 1 = f
    BY <2>1, <2>7 DEF f
  <2> QED
    BY <2>1, <2>6, <2>7, <2>8 DEF Spelling
<1>5. CASE at > Len(q) /\ TakeWord(s, q) = s
  BY <1>5
<1>6. CASE /\ at < Len(q)
           /\ TakeWord(s, q) = [at |-> at + 2, words |-> Append(s.words, Hyphenated(q, at))]
  <2>1. at \in 1..Len(q) /\ at \in 1..(Len(q) - 1) /\ at + 1 \in at..Len(q) /\ at + 2 = (at + 1) + 1
    BY SMTT(30), <1>1, <1>6
  <2>2. Hyphenated(q, at) \in Seq(C)
    BY <2>1, HyphenatedIs
  <2>3. /\ p[at - 1] \in 0..(Len(n) + 1) /\ p[at] \in 0..(Len(n) + 1) /\ p[at - 1] < p[at]
        /\ Between(n, q[at], p[at - 1], p[at])
        /\ n[p[at]] = "-" /\ p[at] < p[at + 1] /\ p[at + 1] \in 0..(Len(n) + 1)
        /\ Between(n, q[at + 1], p[at], p[at + 1])
    BY <1>6, <1>8, <2>1 DEF PartAt
  <2>4. p[at - 1] \in Nat /\ p[at] \in Nat /\ p[at + 1] \in Nat
    BY <1>1, <2>3
  <2>5. Between(n, Hyphenated(q, at), p[at - 1], p[at + 1]) /\ p[at - 1] < p[at + 1]
    <3>1. Between(n, Hyphenated(q, at), p[at - 1], p[at + 1])
      <4> HIDE DEF at
      <4> QED
        BY <2>1, <2>3, <2>4, BetweenHyphenated
    <3> HIDE DEF at
    <3> QED
      BY <2>3, <2>4, <3>1
  <2>6. TakeWord(s, q) = [at |-> (at + 1) + 1, words |-> Append(s.words, Hyphenated(q, at))]
    BY <1>6, <2>1
  <2> HIDE DEF at
  <2>7. Spelling(n, q, p, TakeWord(s, q)) /\ TakeWord(s, q).at > s.at
    BY <1>4, <2>1, <2>2, <2>5, <2>6
  <2>8. ~(at > Len(q))
    BY <1>1, <1>6
  <2> QED
    BY <2>7, <2>8 DEF at
<1>7. CASE /\ at <= Len(q)
           /\ TakeWord(s, q) = [at |-> at + 1, words |-> Append(s.words, q[at])]
  <2>1. at \in 1..Len(q) /\ at \in at..Len(q)
    BY <1>1, <1>7
  <2>2. q[at] \in Seq(C)
    BY <2>1
  <2>3. Between(n, q[at], p[at - 1], p[at]) /\ p[at - 1] < p[at]
    BY <1>8, <2>1 DEF PartAt
  <2> HIDE DEF at
  <2>4. Spelling(n, q, p, TakeWord(s, q)) /\ TakeWord(s, q).at > s.at
    BY <1>4, <1>7, <2>1, <2>2, <2>3
  <2>5. ~(at > Len(q))
    BY <1>1, <1>7
  <2> QED
    BY <2>4, <2>5 DEF at
<1> QED
  BY <1>5, <1>6, <1>7, TurnIs

\* What the list promises of a word, and of its hyphen.
LEMMA WordIs ==
    ASSUME NEW w \in WordList
    PROVE  /\ w \in Seq(Letters \cup {"-"}) /\ Len(w) \in Nat \ {0}
           /\ \A i \in 1..Len(w) : w[i] = "-" =>
                 /\ 1 < i /\ i < Len(w) /\ SubSeq(w, 1, i - 1) \notin WordList
                 /\ \A j \in (i + 1)..Len(w) : w[j] # "-"
<1>1. w \in Seq(Letters \cup {"-"}) /\ w # <<>> /\ w[1] # "-" /\ w[Len(w)] # "-"
  BY ListHasWords
<1>2. Len(w) \in Nat \ {0}
  BY <1>1
<1>3. ASSUME NEW i \in 1..Len(w), w[i] = "-"
      PROVE  /\ 1 < i /\ i < Len(w) /\ SubSeq(w, 1, i - 1) \notin WordList
             /\ \A j \in (i + 1)..Len(w) : w[j] # "-"
  <2>1. SubSeq(w, 1, i - 1) \notin WordList /\ ~Contains(SubSeq(w, i + 1, Len(w)), "-")
    BY <1>3, ListIsUnambiguous
  <2>2. ASSUME NEW j \in (i + 1)..Len(w) PROVE w[j] # "-"
    <3> DEFINE t == SubSeq(w, i + 1, Len(w))
    <3>1. j - i \in 1..Len(t) /\ t[j - i] = w[j]
      BY <1>1, <1>2
    <3> HIDE DEF t
    <3> QED
      BY <2>1, <3>1 DEF Contains, t
  <2>3. i # 1 /\ i # Len(w)
    BY <1>1, <1>3
  <2> QED
    BY <1>2, <2>1, <2>2, <2>3
<1> QED
  BY <1>1, <1>2, <1>3

\* A part that begins a hyphenated word is no word itself.
LEMMA LeftHalf ==
    ASSUME NEW C, "-" \in C, NEW q \in Seq(Seq(C)), NEW i \in 1..(Len(q) - 1),
           Hyphenated(q, i) \in WordList
    PROVE  q[i] \notin WordList
<1> DEFINE h == Hyphenated(q, i)
           l == Len(q[i])
<1>1. h \in Seq(C) /\ Longer(h, q[i], q[i + 1], "-")
  BY HyphenatedIs
<1>2. q[i] \in Seq(C) /\ q[i + 1] \in Seq(C)
  <2>1. i \in 1..Len(q) /\ i + 1 \in 1..Len(q)
    OBVIOUS
  <2> QED
    BY <2>1
<1>3. l \in Nat /\ Len(q[i + 1]) \in Nat
  BY <1>2
<1>4. /\ Len(h) = l + 1 + Len(q[i + 1]) /\ h[l + 1] = "-"
      /\ \A x \in 1..l : h[x] = q[i][x]
  BY <1>1 DEF Longer
<1> HIDE DEF h
<1>5. l + 1 \in 1..Len(h) /\ (l + 1) - 1 = l /\ l <= Len(h)
  <2>1. \A a, b, k \in Nat : k = a + 1 + b => a + 1 \in 1..k /\ (a + 1) - 1 = a /\ a <= k
    OBVIOUS
  <2>2. Len(h) \in Nat
    BY <1>1
  <2> HIDE DEF l
  <2> QED
    BY <1>3, <1>4, <2>1, <2>2
<1>6. SubSeq(h, 1, l) = q[i]
  <2> DEFINE t == SubSeq(h, 1, l)
  <2>1. /\ t \in Seq(C) /\ Len(t) = l
        /\ \A x \in 1..l : t[x] = h[x]
    <3> HIDE DEF l
    <3> QED
      BY <1>1, <1>3, <1>5
  <2> HIDE DEF t
  <2>2. Len(t) = Len(q[i]) /\ \A x \in 1..Len(t) : t[x] = q[i][x]
    BY <1>4, <2>1
  <2>3. t = q[i]
    BY <1>2, <2>1, <2>2
  <2> QED
    BY <2>3 DEF t
<1>7. h \in WordList
  BY DEF h
<1>8. SubSeq(h, 1, (l + 1) - 1) \notin WordList
  BY <1>4, <1>5, <1>7, WordIs
<1> QED
  BY <1>5, <1>6, <1>8

\* A text without hyphens inside a word has letters.
LEMMA InsideAWord ==
    ASSUME NEW w \in WordList, NEW n, NEW u, NEW a \in Nat, NEW b \in Nat, NEW f \in Nat, NEW d \in Nat,
           a <= b, b < f, f <= d, Between(n, w, a, d), Between(n, u, b, f),
           \A x \in 1..Len(u) : u[x] # "-"
    PROVE  \A x \in 1..Len(u) : u[x] \in Letters
<1> SUFFICES ASSUME NEW x \in 1..Len(u) PROVE u[x] \in Letters
  OBVIOUS
<1> DEFINE y == b - a + x
<1>1. Len(u) = f - b - 1 /\ u[x] = n[b + x] /\ Len(w) = d - a - 1
  BY DEF Between
<1>2. y \in 1..Len(w) /\ a + y = b + x
  BY <1>1
<1> HIDE DEF y
<1>3. w[y] = u[x] /\ w \in Seq(Letters \cup {"-"})
  BY <1>1, <1>2, WordIs DEF Between
<1>4. w[y] \in Letters \cup {"-"}
  BY <1>2, <1>3
<1> QED
  BY <1>3, <1>4

\* A place inside a part is no separator.
LEMMA NoneInside ==
    ASSUME NEW n, NEW u, NEW a \in Nat, NEW b \in Nat, NEW d \in Nat, a < d, d < b,
           Between(n, u, a, b), \A x \in 1..Len(u) : u[x] # "-"
    PROVE  n[d] # "-"
<1>1. d - a \in 1..Len(u) /\ a + (d - a) = d
  BY DEF Between
<1> QED
  BY <1>1 DEF Between

\* Where a word begins with a part it ends with that part or with the next one.
LEMMA NextWord ==
    ASSUME NEW n, NEW q, NEW p, NEW ws, NEW c,
           Len(n) \in Nat, Len(q) \in Nat, Len(ws) \in Nat, Whole(q, "-"),
           p[Len(q)] = Len(n) + 1, c[Len(ws)] = Len(n) + 1,
           NEW i \in 1..Len(q), \A j \in 1..Len(q) : PartAt(n, q, p, j),
           NEW m \in 1..Len(ws), PartAt(n, ws, c, m), ws[m] \in WordList,
           p[i - 1] = c[m - 1]
    PROVE  \/ p[i] = c[m]
           \/ i < Len(q) /\ p[i] < c[m] /\ p[i + 1] = c[m]
<1> DEFINE a == p[i - 1]
           b == p[i]
           d == c[m]
           w == ws[m]
           l == Len(n)
<1>1. /\ a \in 0..(l + 1) /\ b \in 0..(l + 1) /\ a < b
      /\ Between(n, q[i], a, b)
      /\ i < Len(q) => n[b] = "-" /\ b < p[i + 1] /\ p[i + 1] \in 0..(l + 1)
                       /\ Between(n, q[i + 1], b, p[i + 1])
  BY DEF PartAt
<1>2. /\ d \in 0..(l + 1) /\ a < d /\ Between(n, w, a, d)
      /\ m < Len(ws) => n[d] = "-"
  BY DEF PartAt
<1>3. /\ \A x \in 1..Len(q[i]) : q[i][x] # "-"
      /\ i < Len(q) => \A x \in 1..Len(q[i + 1]) : q[i + 1][x] # "-"
  <2>1. i < Len(q) => i + 1 \in 1..Len(q)
    OBVIOUS
  <2> QED
    BY <2>1 DEF Whole
<1>4. (i = Len(q) => b = l + 1) /\ (m = Len(ws) => d = l + 1)
  OBVIOUS
<1>5. i + 1 \in 1..Len(q) /\ i + 1 < Len(q) => n[p[i + 1]] = "-"
  BY DEF PartAt
<1>6. i + 1 = Len(q) => p[i + 1] = l + 1
  OBVIOUS
<1>7. l \in Nat /\ w \in WordList
  OBVIOUS
<1> HIDE DEF a, b, d, w, l
<1>8. a \in Nat /\ b \in Nat /\ d \in Nat
  BY <1>1, <1>2, <1>7
<1>9. CASE d < b
  <2>1. n[d] # "-"
    BY <1>1, <1>2, <1>3, <1>8, <1>9, NoneInside
  <2>2. m < Len(ws)
    BY <1>1, <1>4, <1>7, <1>8, <1>9
  <2> QED
    BY <1>2, <2>1, <2>2
<1>10. CASE b < d
  <2>1. i < Len(q)
    BY <1>2, <1>4, <1>7, <1>8, <1>10
  <2> DEFINE e == p[i + 1]
  <2>2. n[b] = "-" /\ b < e /\ e \in 0..(l + 1) /\ Between(n, q[i + 1], b, e)
    BY <1>1, <2>1
  <2>3. \A x \in 1..Len(q[i + 1]) : q[i + 1][x] # "-"
    BY <1>3, <2>1
  <2>4. (i + 1 < Len(q) => n[e] = "-") /\ (i + 1 = Len(q) => e = l + 1) /\ i + 1 <= Len(q)
    BY <1>5, <1>6, <2>1
  <2> HIDE DEF e
  <2>5. e \in Nat
    BY <1>7, <2>2
  <2>6. CASE e < d
    <3>1. n[e] = "-"
      BY <1>2, <1>7, <1>8, <2>4, <2>5, <2>6
    <3>2. /\ b - a \in 1..Len(w) /\ a + (b - a) = b
          /\ e - a \in ((b - a) + 1)..Len(w) /\ e - a \in 1..Len(w) /\ a + (e - a) = e
      BY <1>1, <1>2, <1>8, <1>10, <2>2, <2>5, <2>6 DEF Between
    <3>3. w[b - a] = "-" /\ w[e - a] = "-"
      BY <1>2, <2>2, <3>1, <3>2 DEF Between
    <3> QED
      BY <1>7, <3>2, <3>3, WordIs
  <2>7. CASE d < e
    <3>1. n[d] # "-"
      BY <1>8, <1>10, <2>2, <2>3, <2>5, <2>7, NoneInside
    <3>2. m < Len(ws)
      BY <1>4, <1>7, <1>8, <2>2, <2>5, <2>7
    <3> QED
      BY <1>2, <3>1, <3>2
  <2>8. CASE e = d
    BY <1>10, <2>1, <2>8 DEF b, d, e
  <2> QED
    BY <1>8, <2>5, <2>6, <2>7, <2>8
<1>11. CASE b = d
  BY <1>11 DEF b, d
<1> QED
  BY <1>8, <1>9, <1>10, <1>11

\* What parse_canonical wants of a part.
Lettered(u) == u # <<>> /\ \A x \in 1..Len(u) : u[x] \in Letters

\* The words so far are the first of ws, and the parts they took are in order.
Following(q, p, ws, c, s) ==
    /\ s.at <= Len(q) + 1 /\ Len(s.words) <= Len(ws)
    /\ \A j \in 1..Len(s.words) : s.words[j] = ws[j]
    /\ p[s.at - 1] = c[Len(s.words)]
    /\ \A j \in 1..(s.at - 1) : Lettered(q[j])

\* Words of the list are texts.
LEMMA WordsAreTexts ==
    ASSUME NEW C, Letters \cup {"-"} \subseteq C, NEW ws \in Seq(WordList)
    PROVE  ws \in Seq(Seq(C))
<1>1. WordList \subseteq Seq(C)
  <2> SUFFICES ASSUME NEW w \in WordList PROVE w \in Seq(C)
    OBVIOUS
  <2>1. w \in Seq(Letters \cup {"-"})
    BY WordIs
  <2> DEFINE D == Letters \cup {"-"}
  <2> HIDE DEF D
  <2>2. w \in Seq(D) /\ D \subseteq C
    BY <2>1 DEF D
  <2> QED
    BY <2>2
<1> DEFINE T == Seq(C)
<1> HIDE DEF T
<1>2. WordList \subseteq T
  BY <1>1 DEF T
<1>3. ws \in Seq(T)
  BY <1>2
<1> QED
  BY <1>3 DEF T

\* One word more of ws, from the next part or from the next two.
LEMMA WordFollows ==
    ASSUME NEW C, NEW q \in Seq(Seq(C)), NEW p, NEW ws \in Seq(WordList), NEW c,
           NEW s \in Turns(C), Following(q, p, ws, c, s), Len(s.words) < Len(ws),
           NEW j \in s.at..Len(q), p[j] = c[Len(s.words) + 1],
           \A i \in s.at..j : Lettered(q[i]),
           NEW t, t = [at |-> j + 1, words |-> Append(s.words, ws[Len(s.words) + 1])]
    PROVE  Following(q, p, ws, c, t)
<1> DEFINE k == Len(s.words)
<1>1. s.at \in Nat \ {0} /\ s.words \in Seq(Seq(C)) /\ Len(q) \in Nat /\ Len(ws) \in Nat /\ k \in Nat
  BY DEF Turns
<1>2. t.at = j + 1 /\ t.words = Append(s.words, ws[k + 1])
  OBVIOUS
<1>3. Len(t.words) = k + 1 /\ t.words[k + 1] = ws[k + 1] /\ \A i \in 1..k : t.words[i] = s.words[i]
  BY <1>1, <1>2
<1>4. \A i \in 1..(k + 1) : t.words[i] = ws[i]
  <2> SUFFICES ASSUME NEW i \in 1..(k + 1) PROVE t.words[i] = ws[i]
    OBVIOUS
  <2>1. CASE i = k + 1
    BY <1>3, <2>1
  <2>2. CASE i # k + 1
    <3>1. i \in 1..k
      BY <1>1, <2>2
    <3> QED
      BY <1>3, <3>1 DEF Following
  <2> QED
    BY <2>1, <2>2
<1>5. j \in Nat /\ (j + 1) - 1 = j /\ j + 1 <= Len(q) + 1 /\ k + 1 <= Len(ws)
  BY <1>1
<1>6. \A i \in 1..j : Lettered(q[i])
  <2> SUFFICES ASSUME NEW i \in 1..j PROVE Lettered(q[i])
    OBVIOUS
  <2>1. i \in s.at..j \/ i \in 1..(s.at - 1)
    BY <1>1, <1>5
  <2> QED
    BY <2>1 DEF Following
<1> QED
  BY <1>2, <1>3, <1>4, <1>5, <1>6 DEF Following

\* A turn of the loop takes the next word of the phrase that is spelled.
LEMMA TurnFollows ==
    ASSUME NEW C, Letters \cup {"-"} \subseteq C, NEW n \in Seq(C), NEW q \in Seq(Seq(C)),
           Whole(q, "-"), NEW p, Cut(n, Len(n), q, p, "-"),
           NEW ws \in Seq(WordList), NEW c, Cut(n, Len(n), ws, c, "-"),
           NEW s \in Turns(C), Following(q, p, ws, c, s)
    PROVE  Following(q, p, ws, c, TakeWord(s, q))
<1> DEFINE i == s.at
           k == Len(s.words)
           m == k + 1
           w == ws[m]
           t == TakeWord(s, q)
<1>1. /\ i \in Nat \ {0} /\ s.words \in Seq(Seq(C)) /\ k \in Nat /\ Len(ws) \in Nat
      /\ Len(q) \in Nat /\ Len(n) \in Nat /\ "-" \in C /\ ws \in Seq(Seq(C))
  <2>1. ws \in Seq(Seq(C))
    BY Zenon, WordsAreTexts
  <2>2. i \in Nat \ {0} /\ s.words \in Seq(Seq(C))
    BY DEF Turns
  <2> HIDE DEF i
  <2> QED
    BY <2>1, <2>2
<1>2. /\ i <= Len(q) + 1 /\ k <= Len(ws) /\ p[i - 1] = c[k]
  BY DEF Following
<1>3. /\ \A j \in 1..Len(q) : PartAt(n, q, p, j)
      /\ \A j \in 1..Len(ws) : PartAt(n, ws, c, j)
      /\ p[Len(q)] = Len(n) + 1 /\ c[Len(ws)] = Len(n) + 1
  <2>1. \A j \in 1..Len(q) : PartAt(n, q, p, j)
    BY NextPart
  <2>2. \A j \in 1..Len(ws) : PartAt(n, ws, c, j)
    BY <1>1, NextPart
  <2> QED
    BY <2>1, <2>2 DEF Cut
<1>6. \/ i > Len(q) /\ t = s
      \/ /\ i < Len(q) /\ Hyphenated(q, i) \in WordList
         /\ t = [at |-> i + 2, words |-> Append(s.words, Hyphenated(q, i))]
      \/ /\ i <= Len(q) /\ (i < Len(q) => Hyphenated(q, i) \notin WordList)
         /\ t = [at |-> i + 1, words |-> Append(s.words, q[i])]
  <2>1. "-" \in C
    BY <1>1
  <2> QED
    BY Zenon, <2>1, TurnIs
<1>4. CASE i > Len(q)
  <2>1. t = s
    <3> HIDE DEF i, t
    <3> QED
      BY <1>1, <1>4, <1>6
  <2> QED
    BY <2>1
<1>5. CASE i <= Len(q)
  <2>1. i \in 1..Len(q)
    BY <1>1, <1>5
  <2>2. /\ p[i - 1] \in 0..(Len(n) + 1) /\ p[i] \in 0..(Len(n) + 1) /\ p[i - 1] < p[i]
        /\ Between(n, q[i], p[i - 1], p[i])
        /\ i < Len(q) => /\ n[p[i]] = "-" /\ p[i] < p[i + 1] /\ p[i + 1] \in 0..(Len(n) + 1)
                         /\ Between(n, q[i + 1], p[i], p[i + 1])
    BY <1>3, <2>1 DEF PartAt
  <2>3. p[i - 1] \in Nat /\ p[i] \in Nat /\ p[i] <= Len(n) + 1
    BY <1>1, <2>2
  <2>4. k < Len(ws)
    <3>1. c[k] # c[Len(ws)]
      BY <1>1, <1>2, <1>3, <2>2, <2>3
    <3> QED
      BY <1>1, <1>2, <3>1
  <2>5. m \in 1..Len(ws) /\ w \in WordList /\ m - 1 = k
    BY <1>1, <2>4
  <2>6. PartAt(n, ws, c, m)
    BY <1>3, <2>5
  <2>7. c[m] \in Nat /\ Between(n, w, p[i - 1], c[m])
    BY <1>1, <1>2, <2>5, <2>6 DEF PartAt
  <2>8. w \in Seq(C) /\ Len(w) # 0
    BY <1>1, <2>5, WordIs
  <2>9. \A j \in 1..Len(q) : \A x \in 1..Len(q[j]) : q[j][x] # "-"
    BY DEF Whole
  <2>10. \/ p[i] = c[m]
         \/ i < Len(q) /\ p[i] < c[m] /\ p[i + 1] = c[m]
    <3>1. p[i - 1] = c[m - 1]
      BY <1>2, <2>5
    <3> HIDE DEF i, m, k, w
    <3>2. ws[m] \in WordList
      BY <2>5 DEF w
    <3> QED
      <4>1. /\ Len(n) \in Nat /\ Len(q) \in Nat /\ Len(ws) \in Nat /\ Whole(q, "-")
            /\ p[Len(q)] = Len(n) + 1 /\ c[Len(ws)] = Len(n) + 1
            /\ i \in 1..Len(q) /\ m \in 1..Len(ws)
        BY <1>1, <1>3, <2>1, <2>5
      <4>2. \A j \in 1..Len(q) : PartAt(n, q, p, j)
        BY <1>3
      <4> QED
        BY SMTT(30), <2>6, <3>1, <3>2, <4>1, <4>2, NextWord
  <2>11. q[i] \in Seq(C)
    BY <2>1
  <2>12. CASE p[i] = c[m]
    <3>1. q[i] = w
      BY <2>2, <2>7, <2>8, <2>11, <2>12, BetweenIsOne
    <3>2. i < Len(q) => Hyphenated(q, i) \notin WordList
      <4> SUFFICES ASSUME i < Len(q), Hyphenated(q, i) \in WordList PROVE FALSE
        OBVIOUS
      <4>1. i \in 1..(Len(q) - 1)
        BY <1>1, <2>1
      <4> HIDE DEF i
      <4> QED
        BY <1>1, <2>5, <3>1, <4>1, LeftHalf
    <3>3. t = [at |-> i + 1, words |-> Append(s.words, w)]
      <4> HIDE DEF i, t, w
      <4> QED
        BY <1>1, <1>5, <1>6, <3>1, <3>2
    <3>4. Lettered(q[i])
      <4>1. \A x \in 1..Len(q[i]) : q[i][x] \in Letters
        <5> HIDE DEF i, m, k, w
        <5>1. p[i - 1] <= p[i - 1] /\ p[i] <= c[m]
          BY <2>3, <2>7, <2>12
        <5> QED
          BY <2>1, <2>2, <2>3, <2>5, <2>7, <2>9, <5>1, InsideAWord
      <4>2. q[i] # <<>>
        BY <2>8, <3>1
      <4> QED
        BY <4>1, <4>2 DEF Lettered
    <3>5. i \in i..Len(q) /\ \A j \in i..i : Lettered(q[j])
      BY <2>1, <3>4
    <3> HIDE DEF t
    <3> QED
      BY <2>4, <2>12, <3>3, <3>5, WordFollows DEF t
  <2>13. CASE i < Len(q) /\ p[i] < c[m] /\ p[i + 1] = c[m]
    <3>1. i \in 1..(Len(q) - 1) /\ i + 1 \in 1..Len(q) /\ i + 1 \in i..Len(q)
      BY <1>1, <2>1, <2>13
    <3>0. p[i - 1] \in Nat /\ p[i] \in Nat /\ c[m] \in Nat /\ p[i - 1] < p[i] /\ p[i] < c[m]
      BY <2>2, <2>3, <2>7, <2>13
    <3>2. /\ n[p[i]] = "-" /\ Between(n, q[i + 1], p[i], c[m])
          /\ q[i + 1] \in Seq(C)
      BY <2>2, <2>13, <3>1
    <3>3. Between(n, Hyphenated(q, i), p[i - 1], c[m]) /\ Hyphenated(q, i) \in Seq(C)
      <4> HIDE DEF i, m, k, w
      <4> QED
        BY <1>1, <2>2, <2>3, <2>7, <2>13, <3>1, <3>2, BetweenHyphenated, HyphenatedIs
    <3>4. Hyphenated(q, i) = w
      BY <2>7, <2>8, <3>3, BetweenIsOne
    <3>5. t = [at |-> i + 2, words |-> Append(s.words, w)]
      <4> HIDE DEF i, t, w
      <4> QED
        BY <1>1, <1>6, <2>5, <2>13, <3>4
    <3>6. Lettered(q[i]) /\ Lettered(q[i + 1])
      <4>1. \A x \in 1..Len(q[i]) : q[i][x] \in Letters
        <5> HIDE DEF i, m, k, w
        <5>1. p[i - 1] <= p[i - 1] /\ p[i] <= c[m]
          BY <2>3, <2>7, <2>13
        <5> QED
          BY <2>1, <2>2, <2>3, <2>5, <2>7, <2>9, <5>1, InsideAWord
      <4>2. \A x \in 1..Len(q[i + 1]) : q[i + 1][x] \in Letters
        <5> HIDE DEF i, m, k, w
        <5>1. p[i - 1] <= p[i] /\ p[i] < c[m] /\ c[m] <= c[m]
          BY <3>0
        <5> QED
          BY <2>3, <2>5, <2>7, <2>9, <3>1, <3>2, <5>1, InsideAWord
      <4>3. /\ Len(q[i]) = p[i] - p[i - 1] - 1 /\ Len(q[i + 1]) = c[m] - p[i] - 1
            /\ Len(w) = c[m] - p[i - 1] - 1
        BY <2>2, <2>7, <3>2 DEF Between
      <4>4. /\ p[i] - p[i - 1] \in 1..Len(w) /\ p[i - 1] + (p[i] - p[i - 1]) = p[i]
        <5>1. \A a, b, d, l \in Int : a < b /\ b < d /\ l = d - a - 1 => b - a \in 1..l /\ a + (b - a) = b
          OBVIOUS
        <5>2. p[i - 1] \in Int /\ p[i] \in Int /\ c[m] \in Int /\ Len(w) \in Int
          BY <2>8, <3>0
        <5> HIDE DEF i, m, k, w
        <5> QED
          BY <3>0, <4>3, <5>1, <5>2
      <4>5. w[p[i] - p[i - 1]] = "-"
        BY <2>7, <3>2, <4>4 DEF Between
      <4>6. 1 < p[i] - p[i - 1] /\ p[i] - p[i - 1] < Len(w)
        BY <2>5, <4>4, <4>5, WordIs
      <4>7. Len(q[i]) # 0 /\ Len(q[i + 1]) # 0
        <5>1. \A a, b, d, l \in Int : 1 < b - a /\ b - a < l /\ l = d - a - 1 =>
                  b - a - 1 # 0 /\ d - b - 1 # 0
          OBVIOUS
        <5>2. p[i - 1] \in Int /\ p[i] \in Int /\ c[m] \in Int /\ Len(w) \in Int
          BY <2>8, <3>0
        <5> HIDE DEF i, m, k, w
        <5> QED
          BY <4>3, <4>6, <5>1, <5>2
      <4>8. q[i] # <<>> /\ q[i + 1] # <<>>
        BY <4>7
      <4> QED
        BY <4>1, <4>2, <4>8 DEF Lettered
    <3>7. (i + 1) + 1 = i + 2 /\ \A j \in i..(i + 1) : Lettered(q[j])
      <4> HIDE DEF i
      <4>1. (i + 1) + 1 = i + 2 /\ \A j \in i..(i + 1) : j = i \/ j = i + 1
        BY <1>1
      <4> QED
        BY <3>6, <4>1
    <3>8. t = [at |-> (i + 1) + 1, words |-> Append(s.words, w)]
      BY <3>5, <3>7
    <3>9. p[i + 1] = c[m]
      BY <2>13
    <3> HIDE DEF t
    <3>10. Following(q, p, ws, c, t)
      BY <2>4, <3>1, <3>7, <3>8, <3>9, WordFollows
    <3> QED
      BY <3>10 DEF t
  <2> QED
    BY <2>10, <2>12, <2>13
<1> QED
  BY <1>1, <1>4, <1>5

\* The words of segment_words, joined again, are the text.
LEMMA SegmentSpells ==
    ASSUME NEW C, "-" \in C, NEW n \in Seq(C)
    PROVE  LET words == SegmentWords(SplitOn(n, "-")) IN
           words \in Seq(Seq(C)) /\ words # <<>> /\ Join(words, "-") = n
<1> DEFINE q == SplitOn(n, "-")
<1>1. q \in Seq(Seq(C)) /\ q # <<>> /\ \E p : Cut(n, Len(n), q, p, "-")
  BY SplitIsACut DEF PartSeqs, SplitAt
<1> HIDE DEF q
<1>2. PICK p : Cut(n, Len(n), q, p, "-")
  BY <1>1
<1>3. PICK f \in [0..Len(q) -> Turns(C)] :
              /\ f[0] = [at |-> 1, words |-> <<>>]
              /\ \A i \in 1..Len(q) : f[i] = TakeWord(f[i - 1], q)
              /\ SegmentWords(q) = f[Len(q)].words
  BY Zenon, <1>1, SegmentIs
<1> DEFINE m == Len(q)
           S == {i \in Nat : i <= m => Spelling(n, q, p, f[i]) /\ f[i].at > i}
<1>4. m \in Nat \ {0} /\ Len(n) \in Nat
  BY <1>1
<1>5. 0 \in S
  <2>1. p[0] = 0
    BY <1>2 DEF Cut
  <2> DEFINE e == 0 - 1
             w == <<>>
             c == [j \in 0..0 |-> 0]
  <2>2. Len(w) = 0 /\ e + 1 = 0 /\ 1 - 1 = 0
    OBVIOUS
  <2>3. c \in [0..0 -> 0..0] /\ c[0] = 0
    OBVIOUS
  <2> HIDE DEF c, e, w
  <2>4. Cut(n, e, w, c, "-")
    BY <2>2, <2>3 DEF Cut
  <2>5. f[0].at = 1 /\ f[0].words = w
    BY <1>3 DEF w
  <2>6. Spelling(n, q, p, f[0])
    <3>1. p[f[0].at - 1] - 1 = e
      BY <2>1, <2>2, <2>5 DEF e
    <3> QED
      BY <1>4, <2>4, <2>5, <3>1 DEF Spelling, w
  <2> QED
    BY <2>5, <2>6
<1>6. ASSUME NEW i \in Nat, i \in S PROVE i + 1 \in S
  <2> SUFFICES ASSUME i + 1 <= m PROVE Spelling(n, q, p, f[i + 1]) /\ f[i + 1].at > i + 1
    OBVIOUS
  <2>1. i \in 0..m /\ i + 1 \in 1..m /\ (i + 1) - 1 = i /\ i + 1 \in 0..m
    BY <1>4
  <2>2. f[i] \in Turns(C) /\ f[i + 1] \in Turns(C) /\ f[i + 1] = TakeWord(f[i], q)
    BY <1>3, <2>1
  <2>3. Spelling(n, q, p, f[i]) /\ f[i].at > i
    BY <1>6, <2>1
  <2>4. /\ Spelling(n, q, p, TakeWord(f[i], q))
        /\ IF f[i].at > Len(q) THEN TakeWord(f[i], q) = f[i] ELSE TakeWord(f[i], q).at > f[i].at
    BY <1>1, <1>2, <2>2, <2>3, TurnSpells
  <2>5. f[i].at \in Nat /\ f[i + 1].at \in Nat
    BY <2>2 DEF Turns
  <2> QED
    BY <1>4, <2>1, <2>2, <2>3, <2>4, <2>5
<1>7. Nat \subseteq S
  <2> HIDE DEF S
  <2> QED
    BY Zenon, <1>5, <1>6, SetInduction
<1>8. Spelling(n, q, p, f[m]) /\ f[m].at > m /\ f[m] \in Turns(C)
  BY <1>3, <1>4, <1>7
<1> DEFINE ws == f[m].words
<1>9. f[m].at = m + 1 /\ ws \in Seq(Seq(C))
  BY <1>4, <1>8 DEF Spelling, Turns
<1>10. p[m] - 1 = Len(n) /\ (m + 1) - 1 = m
  BY <1>2, <1>4 DEF Cut
<1>11. PICK c : Cut(n, Len(n), ws, c, "-")
  BY <1>8, <1>9, <1>10 DEF Spelling
<1>12. ws # <<>>
  BY <1>4, <1>11 DEF Cut
<1>13. Join(ws, "-") = n
  <2> HIDE DEF ws
  <2> QED
    BY <1>9, <1>11, <1>12, CutIsAJoin
<1> QED
  BY <1>3, <1>9, <1>12, <1>13 DEF q

\* A text that spells words of the list is taken apart into them.
LEMMA SegmentFollows ==
    ASSUME NEW C, Letters \cup {"-"} \subseteq C, NEW n \in Seq(C),
           NEW ws \in Seq(WordList), ws # <<>>, Canonical(ws) = n
    PROVE  LET q == SplitOn(n, "-") IN
           SegmentWords(q) = ws /\ \A j \in 1..Len(q) : Lettered(q[j])
<1> DEFINE q == SplitOn(n, "-")
<1>0. "-" \in C
  OBVIOUS
<1>1. q \in Seq(Seq(C)) /\ q # <<>> /\ Whole(q, "-") /\ \E p : Cut(n, Len(n), q, p, "-")
  BY SplitIsACut DEF PartSeqs, SplitAt
<1> HIDE DEF q
<1>2. PICK p : Cut(n, Len(n), q, p, "-")
  BY <1>1
<1>3. PICK f \in [0..Len(q) -> Turns(C)] :
              /\ f[0] = [at |-> 1, words |-> <<>>]
              /\ \A i \in 1..Len(q) : f[i] = TakeWord(f[i - 1], q)
              /\ SegmentWords(q) = f[Len(q)].words
  BY Zenon, <1>0, <1>1, SegmentIs
<1>14. ws \in Seq(Seq(C)) /\ Len(ws) \in Nat
  <2>1. Len(ws) \in Nat
    OBVIOUS
  <2> QED
    BY <2>1, WordsAreTexts
<1>15. PICK c : Cut(n, Len(n), ws, c, "-")
  BY <1>0, <1>14, JoinIsACut DEF Canonical
<1> DEFINE m == Len(q)
           S == {i \in Nat : i <= m => Following(q, p, ws, c, f[i]) /\ f[i].at > i}
<1>4. m \in Nat \ {0} /\ Len(n) \in Nat
  BY <1>1
<1>5. 0 \in S
  <2>1. p[0] = 0 /\ c[0] = 0
    BY <1>2, <1>15 DEF Cut
  <2>2. f[0].at = 1 /\ f[0].words = <<>> /\ 1 - 1 = 0 /\ Len(<<>>) = 0
    BY <1>3
  <2>3. Following(q, p, ws, c, f[0])
    BY <1>4, <1>14, <2>1, <2>2 DEF Following
  <2> QED
    BY <2>2, <2>3
<1>6. ASSUME NEW i \in Nat, i \in S PROVE i + 1 \in S
  <2> SUFFICES ASSUME i + 1 <= m PROVE Following(q, p, ws, c, f[i + 1]) /\ f[i + 1].at > i + 1
    OBVIOUS
  <2>1. i \in 0..m /\ i + 1 \in 1..m /\ (i + 1) - 1 = i /\ i + 1 \in 0..m
    BY <1>4
  <2>2. f[i] \in Turns(C) /\ f[i + 1] \in Turns(C) /\ f[i + 1] = TakeWord(f[i], q)
    BY <1>3, <2>1
  <2>3. Following(q, p, ws, c, f[i]) /\ f[i].at > i
    BY <1>6, <2>1
  <2>4. Following(q, p, ws, c, TakeWord(f[i], q))
    BY <1>1, <1>2, <1>15, <2>2, <2>3, TurnFollows
  <2>5. f[i].at \in Nat /\ f[i + 1].at \in Nat
    BY <2>2 DEF Turns
  <2>6. (f[i].at > m /\ f[i + 1] = f[i]) \/ f[i + 1].at > f[i].at
    <3> DEFINE s == f[i]
    <3>1. \/ s.at > Len(q) /\ TakeWord(s, q) = s
          \/ TakeWord(s, q) = [at |-> s.at + 2, words |-> Append(s.words, Hyphenated(q, s.at))]
          \/ TakeWord(s, q) = [at |-> s.at + 1, words |-> Append(s.words, q[s.at])]
      <4> HIDE DEF s
      <4>1. s \in Turns(C)
        BY <2>2 DEF s
      <4> QED
        BY Zenon, <1>0, <1>1, <4>1, TurnIs
    <3>2. f[i + 1] = TakeWord(s, q) /\ s.at \in Nat
      BY <2>2, <2>5
    <3> QED
      BY <3>1, <3>2
  <2> QED
    BY <1>4, <2>1, <2>2, <2>3, <2>4, <2>5, <2>6
<1>7. Nat \subseteq S
  <2> HIDE DEF S
  <2> QED
    BY Zenon, <1>5, <1>6, SetInduction
<1>8. Following(q, p, ws, c, f[m]) /\ f[m].at > m /\ f[m] \in Turns(C)
  BY <1>3, <1>4, <1>7
<1> DEFINE words == f[m].words
           k == Len(words)
<1>9. f[m].at = m + 1 /\ words \in Seq(Seq(C)) /\ k \in Nat
  BY <1>4, <1>8 DEF Following, Turns
<1>10. p[m] = Len(n) + 1 /\ (m + 1) - 1 = m
  BY <1>2, <1>4 DEF Cut
<1>11. /\ k <= Len(ws) /\ c[k] = Len(n) + 1
       /\ \A j \in 1..k : words[j] = ws[j]
       /\ \A j \in 1..m : Lettered(q[j])
  BY <1>8, <1>9, <1>10 DEF Following
<1>12. k = Len(ws)
  <2> SUFFICES ASSUME k < Len(ws) PROVE FALSE
    BY <1>9, <1>11, <1>14
  <2>1. k + 1 \in 1..Len(ws) /\ (k + 1) - 1 = k
    BY <1>9, <1>14
  <2>2. PartAt(n, ws, c, k + 1)
    BY <1>14, <1>15, <2>1, NextPart
  <2> QED
    BY <1>4, <1>11, <2>1, <2>2 DEF PartAt
<1>13. words = ws
  <2> HIDE DEF words
  <2>1. words \in Seq(Seq(C)) /\ ws \in Seq(Seq(C)) /\ Len(words) = Len(ws)
        /\ \A j \in 1..Len(words) : words[j] = ws[j]
    BY <1>9, <1>11, <1>12, <1>14
  <2> QED
    BY Zenon, <2>1, SeqEqual
<1> QED
  BY <1>3, <1>11, <1>13 DEF q

-----------------------------------------------------------------------------
(* Normalizing.                                                             *)

\* The characters a phrase is typed with.
Chars == Letters \cup DOMAIN Lower \cup Marks \cup {"9"}

LowerCase(c) == IF c \in DOMAIN Lower THEN Lower[c] ELSE c

\* The greatest number of a bounded set.
LEMMA GreatestNumber ==
    ASSUME NEW n \in Nat, NEW T \in SUBSET (0..n), T # {}
    PROVE  \E m \in T : \A i \in T : i <= m
<1> DEFINE U == {n - i : i \in T}
<1>1. U \in SUBSET Nat /\ U # {}
  <2>1. \A i \in 0..n : n - i \in Nat
    OBVIOUS
  <2>2. PICK x : x \in T
    OBVIOUS
  <2>3. n - x \in U
    BY <2>2
  <2>4. \A i \in T : i \in 0..n
    OBVIOUS
  <2>5. \A u \in U : u \in Nat
    BY <2>1, <2>4
  <2> QED
    BY <2>3, <2>5
<1>2. PICK u \in U : \A v \in U : u <= v
  BY <1>1, LeastNumber
<1>3. PICK m \in T : u = n - m
  BY <1>2
<1>4. \A i \in T : n - m <= n - i
  BY <1>2, <1>3
<1> QED
  BY <1>4

\* Trim keeps what is between the first and the last character that is no blank.
LEMMA TrimIs ==
    ASSUME NEW C, NEW s \in Seq(C), NEW a \in 1..Len(s), NEW b \in 1..Len(s),
           s[a] # Blank, s[b] # Blank,
           \A i \in 1..Len(s) : i < a \/ i > b => s[i] = Blank
    PROVE  Trim(s) = SubSeq(s, a, b)
<1> DEFINE inked == {i \in DOMAIN s : s[i] # Blank}
           IsFirst(x) == x \in inked /\ \A j \in inked : x <= j
           IsLast(x) == x \in inked /\ \A j \in inked : x >= j
<1>1. inked \subseteq a..b /\ a \in inked /\ b \in inked
  OBVIOUS
<1>2. (CHOOSE i \in inked : \A j \in inked : i <= j) = a
  <2> HIDE DEF inked
  <2>1. \A x \in inked : (\A j \in inked : x <= j) <=> x = a
    BY <1>1
  <2> QED
    BY <1>1, <2>1
<1>3. (CHOOSE i \in inked : \A j \in inked : i >= j) = b
  <2> HIDE DEF inked
  <2>1. \A x \in inked : (\A j \in inked : x >= j) <=> x = b
    BY <1>1
  <2> QED
    BY <1>1, <2>1
<1>4. inked # {}
  BY <1>1
<1> QED
  BY <1>2, <1>3, <1>4 DEF Trim

\* A trimmed text is a text.
LEMMA TrimType ==
    ASSUME NEW C, NEW s \in Seq(C)
    PROVE  Trim(s) \in Seq(C)
<1> DEFINE inked == {i \in DOMAIN s : s[i] # Blank}
<1>1. CASE inked = {}
  BY <1>1 DEF Trim
<1>2. CASE inked # {}
  <2>1. inked \in SUBSET Nat /\ inked \in SUBSET (0..Len(s)) /\ Len(s) \in Nat
    OBVIOUS
  <2> HIDE DEF inked
  <2>2. PICK a \in inked : \A j \in inked : a <= j
    BY <1>2, <2>1, LeastNumber
  <2>3. PICK b \in inked : \A j \in inked : j <= b
    BY <1>2, <2>1, GreatestNumber
  <2>4. a \in 1..Len(s) /\ b \in 1..Len(s) /\ s[a] # Blank /\ s[b] # Blank
    BY DEF inked
  <2>5. \A i \in 1..Len(s) : i < a \/ i > b => s[i] = Blank
    <3> SUFFICES ASSUME NEW i \in 1..Len(s), i < a \/ i > b, s[i] # Blank PROVE FALSE
      OBVIOUS
    <3>1. i \in inked
      BY DEF inked
    <3> QED
      BY <2>1, <2>2, <2>3, <3>1
  <2>6. Trim(s) = SubSeq(s, a, b)
    BY <2>4, <2>5, TrimIs
  <2>7. SubSeq(s, a, b) \in Seq(C)
    BY <2>4
  <2> QED
    BY <2>6, <2>7
<1> QED
  BY <1>1, <1>2

\* A character more of a normalized text.
LEMMA AddNormalType ==
    ASSUME NEW s \in Seq(Chars), NEW c \in Chars
    PROVE  AddNormal(s, c) \in Seq(Chars)
<1>1. "-" \in Chars
  BY DEF Chars, Marks
<1>2. c \in DOMAIN Lower => Lower[c] \in Chars
  BY DEF Chars, Lower, Letters
<1>3. (IF c \in DOMAIN Lower THEN Lower[c] ELSE c) \in Chars
  BY <1>2
<1> DEFINE d == IF c \in DOMAIN Lower THEN Lower[c] ELSE c
<1> HIDE DEF d
<1>4. Append(s, "-") \in Seq(Chars) /\ Append(s, d) \in Seq(Chars)
  BY <1>1, <1>3 DEF d
<1> QED
  BY <1>4 DEF AddNormal, d

\* Normalize takes the characters one by one.
LEMMA NormalizeIs ==
    ASSUME NEW text \in Seq(Chars)
    PROVE  LET t == Trim(text) IN
           \E f \in [0..Len(t) -> Seq(Chars)] :
              /\ f[0] = <<>>
              /\ \A i \in 1..Len(t) : f[i] = AddNormal(f[i - 1], t[i])
              /\ Normalize(text) = f[Len(t)]
<1> DEFINE t == Trim(text)
           n == Len(t)
           A == Seq(Chars)
           step == [p \in A \X (1..n) |-> AddNormal(p[1], t[p[2]])]
           By(f) == f = [i \in 0..n |-> IF i = 0 THEN <<>> ELSE AddNormal(f[i - 1], t[i])]
<1>11. t \in Seq(Chars)
  BY TrimType
<1>3. n \in Nat
  BY <1>11
<1>0. ASSUME NEW s \in A, NEW i \in 1..n PROVE AddNormal(s, t[i]) \in A
  <2>1. t[i] \in Chars
    <3> HIDE DEF t
    <3> QED
      BY <1>11
  <2>. QED
    BY <2>1, AddNormalType
<1>1. step \in [A \X (1..n) -> A]
  BY <1>0
<1>2. <<>> \in A
  OBVIOUS
<1>4. PICK f \in [0..n -> A] : f[0] = <<>> /\ \A i \in 1..n : f[i] = step[<<f[i - 1], i>>]
  <2> HIDE DEF step, n, A
  <2>1. \E f : Steps(A, <<>>, n, step, f)
    BY Zenon, <1>1, <1>2, <1>3, Recursion
  <2>. QED
    BY <2>1 DEF Steps
<1>5. \A i \in 1..n : step[<<f[i - 1], i>>] = AddNormal(f[i - 1], t[i])
  <2> SUFFICES ASSUME NEW i \in 1..n PROVE step[<<f[i - 1], i>>] = AddNormal(f[i - 1], t[i])
    OBVIOUS
  <2>1. f[i - 1] \in A /\ i \in 1..n
    <3> HIDE DEF step, n, A
    <3> QED
      BY <1>3, <1>4
  <2> HIDE DEF A, n, t
  <2>. QED
    BY <2>1
<1>6. By(f)
  <2> HIDE DEF step, n, A, t
  <2>1. \A i \in 0..n : i # 0 => i \in 1..n
    BY <1>3
  <2>. QED
    BY <1>4, <1>5, <2>1
<1> DEFINE c == CHOOSE g : By(g)
<1>7. By(c)
  BY <1>6
<1>8. Normalize(text) = c[n]
  BY DEF Normalize
<1>9. c \in [0..n -> A]
  <2> DEFINE S == {i \in Nat : i <= n => c[i] \in A}
  <2> HIDE DEF c, A, t
  <2>1. 0 \in S
    BY <1>7, <1>2
  <2>2. ASSUME NEW i \in Nat, i \in S PROVE i + 1 \in S
    <3> SUFFICES ASSUME i + 1 <= n PROVE c[i + 1] \in A
      OBVIOUS
    <3>1. c[i + 1] = AddNormal(c[i], t[i + 1])
      BY <1>7
    <3>. QED
      BY <1>0, <2>2, <3>1
  <2>3. Nat \subseteq S
    <3> HIDE DEF S
    <3>. QED
      BY Zenon, <2>1, <2>2, SetInduction
  <2>4. \A i \in 0..n : c[i] \in A
    BY <2>3
  <2>. QED
    BY <2>4, <1>7
<1>10. c[0] = <<>> /\ \A i \in 1..n : c[i] = AddNormal(c[i - 1], t[i])
  <2> HIDE DEF c, t
  <2>1. 0 \in 0..n /\ \A i \in 1..n : i \in 0..n /\ i # 0
    OBVIOUS
  <2>. QED
    BY <1>7, <2>1
<1>. QED
  <2> HIDE DEF c
  <2>. QED
    BY <1>8, <1>9, <1>10

\* A normalized text is a text.
LEMMA NormalizeType == ASSUME NEW text \in Seq(Chars) PROVE Normalize(text) \in Seq(Chars)
<1> DEFINE t == Trim(text)
<1>1. PICK f \in [0..Len(t) -> Seq(Chars)] : Normalize(text) = f[Len(t)]
  BY NormalizeIs
<1>2. Len(t) \in 0..Len(t)
  <2>1. t \in Seq(Chars)
    BY TrimType
  <2> HIDE DEF t
  <2> QED
    BY <2>1
<1> QED
  BY <1>1, <1>2

-----------------------------------------------------------------------------
(* Parsing.                                                                 *)

\* A text that spells a phrase is parsed, into that phrase.
LEMMA SpelledIsParsed ==
    ASSUME NEW text \in Seq(Chars), NEW ws \in [1..WORD_COUNT -> WordList],
           Canonical(ws) = Normalize(text)
    PROVE  ParseCanonical(text) = [ok |-> TRUE, canonical |-> Normalize(text), words |-> ws]
<1> DEFINE n == Normalize(text)
           q == SplitOn(n, "-")
<1>1. n \in Seq(Chars)
  BY NormalizeType
<1>2. Letters \cup {"-"} \subseteq Chars /\ "-" \in Chars
  BY DEF Chars, Marks
<1>3. ws \in Seq(WordList) /\ ws # <<>> /\ Len(ws) = WORD_COUNT
  BY ListHasWords
<1>4. q \in Seq(Seq(Chars))
  <2> HIDE DEF n
  <2> QED
    BY <1>1, SplitIsACut DEF PartSeqs
<1>5. SegmentWords(q) = ws /\ \A j \in 1..Len(q) : Lettered(q[j])
  <2> HIDE DEF n
  <2>1. Canonical(ws) = n
    BY DEF n
  <2> QED
    BY <1>1, <1>2, <1>3, <2>1, SegmentFollows
<1> HIDE DEF q
<1>6. \A p \in ToSet(q) : p \in Seq(Chars) /\ p # <<>> /\ ToSet(p) \subseteq Letters
  <2> SUFFICES ASSUME NEW j \in 1..Len(q) PROVE q[j] \in Seq(Chars) /\ q[j] # <<>> /\ ToSet(q[j]) \subseteq Letters
    BY <1>4 DEF ToSet
  <2>1. q[j] \in Seq(Chars)
    BY <1>4
  <2>2. DOMAIN q[j] = 1..Len(q[j])
    BY <2>1
  <2> QED
    BY <1>5, <2>1, <2>2 DEF Lettered, ToSet
<1>7. ToSet(ws) \subseteq WordList
  BY DEF ToSet
<1> QED
  BY <1>3, <1>5, <1>6, <1>7 DEF ParseCanonical, q

\* A text that is parsed spells the phrase.
LEMMA ParsedIsSpelled ==
    ASSUME NEW text \in Seq(Chars), ParseCanonical(text).ok
    PROVE  LET ws == ParseCanonical(text).words IN
           ws \in [1..WORD_COUNT -> WordList] /\ Canonical(ws) = Normalize(text)
<1> DEFINE n == Normalize(text)
           words == SegmentWords(SplitOn(n, "-"))
<1>1. n \in Seq(Chars) /\ "-" \in Chars
  BY NormalizeType DEF Chars, Marks
<1>2. words \in Seq(Seq(Chars)) /\ Join(words, "-") = n
  <2> HIDE DEF n
  <2> QED
    BY <1>1, SegmentSpells
<1>3. ~Refusal("Separator").ok /\ ~Refusal("Case").ok /\ ~Refusal("WordCount").ok /\ ~Refusal("WordUnknown").ok
  BY DEF Refusal
<1>4. /\ Len(words) = WORD_COUNT /\ ToSet(words) \subseteq WordList
      /\ ParseCanonical(text) = [ok |-> TRUE, canonical |-> n, words |-> words]
  <2> HIDE DEF words
  <2>1. words = SegmentWords(SplitOn(Normalize(text), "-"))
    BY DEF words
  <2> QED
    BY <1>3, <2>1 DEF ParseCanonical
<1> HIDE DEF words
<1>5. words \in [1..WORD_COUNT -> WordList]
  <2>2. DOMAIN words = 1..Len(words)
    BY <1>2
  <2>3. ToSet(words) \subseteq WordList
    BY <1>4
  <2>1. \A i \in 1..Len(words) : words[i] \in WordList
    BY <2>2, <2>3 DEF ToSet
  <2> QED
    BY <1>2, <1>4, <2>1
<1> QED
  BY <1>2, <1>4, <1>5 DEF Canonical

\* However a text was typed, its parse is the one phrase it spells.
LEMMA TextParses ==
    ASSUME copy.text \in Seq(Chars)
    PROVE  ParsesWhatIsSpelled
<1> DEFINE text == copy.text
           spelled == {ws \in [1..WORD_COUNT -> WordList] : Canonical(ws) = Normalize(text)}
           parsed == ParseCanonical(text)
<1>1. ASSUME NEW ws \in spelled PROVE parsed.ok /\ parsed.words = ws
  <2>1. parsed = [ok |-> TRUE, canonical |-> Normalize(text), words |-> ws]
    BY SpelledIsParsed
  <2> HIDE DEF parsed
  <2> QED
    BY <2>1
<1>2. parsed.ok => parsed.words \in spelled
  BY ParsedIsSpelled
<1>3. IF parsed.ok THEN spelled = {parsed.words} ELSE spelled = {}
  <2> HIDE DEF parsed, spelled
  <2>1. CASE parsed.ok
    BY <1>1, <1>2, <2>1
  <2>2. CASE ~parsed.ok
    BY <1>1, <2>2
  <2> QED
    BY <2>1, <2>2
<1> QED
  BY <1>3 DEF ParsesWhatIsSpelled

-----------------------------------------------------------------------------
(* Typing.                                                                  *)

\* A key begins and ends with a letter, and has a letter after every hyphen.
KeyShape(K) ==
    /\ K \in Seq(Letters \cup {"-"}) /\ K # <<>>
    /\ K[1] # "-" /\ K[Len(K)] # "-"
    /\ \A x \in 1..(Len(K) - 1) : K[x] = "-" => K[x + 1] # "-"

\* The next typed character stands for the next one of the key, or for the
\* same one when that is a separator, or a blank around it.
StepsTo(K, a, b) == b = a + 1 \/ (b = a /\ (a = 0 \/ a = Len(K) + 1 \/ K[a] = "-"))

\* The character c can stand for place v of the key.
Shows(K, v, c) ==
    IF v \in 1..Len(K)
    THEN IF K[v] = "-" THEN c \in Marks ELSE c \notin Marks /\ LowerCase(c) = K[v]
    ELSE c = Blank

\* Each character of T stands for the place g says.
Reads(T, K, g) ==
    /\ Len(T) \in Nat \ {0}
    /\ g \in [1..Len(T) -> 0..(Len(K) + 1)]
    /\ g[1] \in {0, 1} /\ g[Len(T)] \in {Len(K), Len(K) + 1}
    /\ \A i \in 1..(Len(T) - 1) : StepsTo(K, g[i], g[i + 1])
    /\ \A i \in 1..Len(T) : Shows(K, g[i], T[i])

Spells(T, K) == \E g : Reads(T, K, g)

\* Later characters stand for later places.
LEMMA Later ==
    ASSUME NEW K, Len(K) \in Nat, NEW T, NEW g, Reads(T, K, g),
           NEW a \in 1..Len(T), NEW b \in 1..Len(T), a <= b
    PROVE  g[a] <= g[b]
<1> DEFINE l == Len(T)
           S == {i \in Nat : a + i <= l => g[a] <= g[a + i]}
<1>1. l \in Nat /\ g \in [1..l -> 0..(Len(K) + 1)] /\ \A i \in 1..(l - 1) : StepsTo(K, g[i], g[i + 1])
  BY DEF Reads
<1>2. \A i \in 1..l : g[i] \in Int
  BY <1>1
<1> HIDE DEF l
<1>3. 0 \in S
  BY <1>1, <1>2
<1>4. ASSUME NEW i \in Nat, i \in S PROVE i + 1 \in S
  <2> SUFFICES ASSUME a + (i + 1) <= l PROVE g[a] <= g[a + (i + 1)]
    OBVIOUS
  <2>1. a + i \in 1..(l - 1) /\ (a + i) + 1 = a + (i + 1) /\ a + i \in 1..l /\ a + (i + 1) \in 1..l /\ a \in 1..l
    BY <1>1
  <2>2. g[a + (i + 1)] = g[a + i] + 1 \/ g[a + (i + 1)] = g[a + i]
    BY <1>1, <2>1 DEF StepsTo
  <2>3. g[a] <= g[a + i]
    BY <1>1, <1>4, <2>1
  <2> QED
    BY <1>2, <2>1, <2>2, <2>3
<1>5. Nat \subseteq S
  <2> HIDE DEF S
  <2> QED
    BY Zenon, <1>3, <1>4, SetInduction
<1>6. b - a \in S /\ a + (b - a) = b /\ b <= l
  BY <1>5 DEF l
<1> QED
  BY <1>6

\* The text u is the first v characters of the key.
Begins(u, K, v) == Len(u) = v /\ \A x \in 1..v : u[x] = K[x]

\* A character more is read.
LEMMA AddNormalReads ==
    ASSUME NEW K, KeyShape(K), NEW u \in Seq(Chars), NEW c \in Chars,
           NEW v \in 1..Len(K), NEW w \in 1..Len(K), Begins(u, K, v), StepsTo(K, v, w), Shows(K, w, c)
    PROVE  Begins(AddNormal(u, c), K, w)
<1>1. Len(K) \in Nat /\ Len(u) = v /\ u # <<>> /\ u[Len(u)] = K[v]
  BY DEF KeyShape, Begins
<1>2. CASE w = v
  <2>1. K[v] = "-"
    BY <1>1, <1>2 DEF StepsTo
  <2>2. AddNormal(u, c) = u
    BY <1>1, <1>2, <2>1 DEF AddNormal, Shows
  <2> QED
    BY <1>2, <2>2
<1>3. CASE w = v + 1
  <2>1. ASSUME NEW d \in Chars, d = K[w], AddNormal(u, c) = Append(u, d)
        PROVE  Begins(AddNormal(u, c), K, w)
    <3> DEFINE r == Append(u, d)
    <3>1. Len(r) = v + 1 /\ r[v + 1] = d /\ \A x \in 1..v : r[x] = u[x]
      BY <1>1
    <3> HIDE DEF r
    <3>2. \A x \in 1..w : x = v + 1 \/ x \in 1..v
      BY <1>3
    <3>3. Begins(r, K, w)
      BY <1>3, <2>1, <3>1, <3>2 DEF Begins
    <3> QED
      BY <2>1, <3>3 DEF r
  <2>2. CASE K[w] = "-"
    <3>1. c \in Marks
      BY <2>2 DEF Shows
    <3>2. K[v] # "-"
      <4>1. v \in 1..(Len(K) - 1)
        BY <1>1, <1>3
      <4> QED
        BY <1>3, <2>2, <4>1 DEF KeyShape
    <3>3. AddNormal(u, c) = Append(u, "-")
      BY <1>1, <3>1, <3>2 DEF AddNormal
    <3> QED
      BY <2>1, <2>2, <3>3 DEF Chars, Marks
  <2>3. CASE K[w] # "-"
    <3>1. c \notin Marks /\ LowerCase(c) = K[w]
      BY <2>3 DEF Shows
    <3>2. AddNormal(u, c) = Append(u, LowerCase(c))
      BY <3>1 DEF AddNormal, LowerCase
    <3>3. K[w] \in Chars
      BY DEF KeyShape, Chars, Marks
    <3> QED
      BY <2>1, <3>1, <3>2, <3>3
  <2> QED
    BY <2>2, <2>3
<1> QED
  BY <1>1, <1>2, <1>3 DEF StepsTo

\* The part of a typed text that stands for the key, without the blanks around it.
LEMMA TrimReads ==
    ASSUME NEW K, KeyShape(K), NEW T \in Seq(Chars), NEW g, Reads(T, K, g)
    PROVE  \E a, b \in 1..Len(T) :
              /\ a <= b /\ Trim(T) = SubSeq(T, a, b) /\ g[a] = 1 /\ g[b] = Len(K)
              /\ \A i \in a..b : g[i] \in 1..Len(K)
<1> DEFINE l == Len(T)
           k == Len(K)
           A == {i \in 1..l : g[i] >= 1}
           B == {i \in 1..l : g[i] <= k}
<1>1. /\ l \in Nat \ {0} /\ k \in Nat \ {0}
      /\ g \in [1..l -> 0..(k + 1)] /\ g[1] \in {0, 1} /\ g[l] \in {k, k + 1}
      /\ \A i \in 1..(l - 1) : StepsTo(K, g[i], g[i + 1])
      /\ \A i \in 1..l : Shows(K, g[i], T[i])
  BY DEF Reads, KeyShape
<1>2. \A i, j \in 1..l : i <= j => g[i] <= g[j]
  <2>1. Len(K) \in Nat
    BY <1>1
  <2> QED
    BY <2>1, Later
<1>3. K[1] # "-" /\ K[k] # "-"
  BY DEF KeyShape
<1> HIDE DEF l, k
<1>4. \A i \in 1..l : g[i] \in Nat /\ g[i] <= k + 1
  BY <1>1
<1>5. A \in SUBSET Nat /\ l \in A
  BY <1>1
<1>6. PICK a \in A : \A i \in A : a <= i
  BY <1>5, LeastNumber
<1>7. B \in SUBSET (0..l) /\ 1 \in B
  BY <1>1
<1>8. PICK b \in B : \A i \in B : i <= b
  BY <1>1, <1>7, GreatestNumber
<1>9. a \in 1..l /\ b \in 1..l /\ 1 <= g[a] /\ g[b] <= k
  OBVIOUS
<1>10. g[a] = 1
  <2>1. CASE a = 1
    BY <1>1, <1>9, <2>1
  <2>2. CASE a # 1
    <3>1. a - 1 \in 1..(l - 1) /\ a - 1 \in 1..l /\ (a - 1) + 1 = a /\ ~(a <= a - 1)
      BY <1>1, <1>9, <2>2
    <3>2. g[a - 1] = 0
      BY <1>4, <1>6, <3>1
    <3>3. StepsTo(K, g[a - 1], g[(a - 1) + 1])
      BY <1>1, <3>1
    <3>4. StepsTo(K, 0, g[a])
      BY <3>1, <3>2, <3>3
    <3> QED
      BY <1>9, <3>4 DEF StepsTo
  <2> QED
    BY <2>1, <2>2
<1>11. g[b] = k
  <2>1. CASE b = l
    BY <1>1, <1>9, <2>1
  <2>2. CASE b # l
    <3>1. b \in 1..(l - 1) /\ b + 1 \in 1..l /\ ~(b + 1 <= b)
      BY <1>1, <1>9, <2>2
    <3>2. ~(g[b + 1] <= k)
      BY <1>8, <3>1
    <3>3. g[b + 1] = k + 1 /\ StepsTo(K, g[b], g[b + 1])
      BY <1>1, <1>4, <3>1, <3>2
    <3> QED
      BY <1>1, <1>4, <1>9, <3>3 DEF StepsTo
  <2> QED
    BY <2>1, <2>2
<1>12. a <= b
  <2> SUFFICES ASSUME b < a PROVE FALSE
    BY <1>9
  <2>1. g[b] <= g[a] /\ b \in A
    BY <1>1, <1>2, <1>9, <1>11
  <2> QED
    BY <1>6, <1>9, <2>1
<1>13. \A i \in a..b : g[i] \in 1..k
  <2> SUFFICES ASSUME NEW i \in a..b PROVE g[i] \in 1..k
    OBVIOUS
  <2>1. i \in 1..l /\ a <= i /\ i <= b
    <3>1. a \in Int /\ b \in Int /\ 1 <= a /\ b <= l
      BY <1>1, <1>9
    <3> QED
      BY <1>1, <3>1
  <2> QED
    BY <1>1, <1>2, <1>4, <1>9, <1>10, <1>11, <2>1
<1>14. T[a] # Blank /\ T[b] # Blank
  <2>1. Shows(K, 1, T[a]) /\ Shows(K, k, T[b])
    BY <1>1, <1>9, <1>10, <1>11
  <2>2. 1 \in 1..Len(K) /\ k \in 1..Len(K)
    BY <1>1 DEF k
  <2> QED
    BY <1>3, <2>1, <2>2 DEF Shows, Marks
<1>15. \A i \in 1..l : i < a \/ i > b => T[i] = Blank
  <2> SUFFICES ASSUME NEW i \in 1..l, i < a \/ i > b PROVE T[i] = Blank
    OBVIOUS
  <2>1. g[i] \notin 1..k
    BY <1>1, <1>4, <1>6, <1>8, <1>9
  <2> QED
    BY <1>1, <2>1 DEF Shows, k
<1>16. Trim(T) = SubSeq(T, a, b)
  BY <1>9, <1>14, <1>15, TrimIs DEF l
<1> QED
  BY <1>9, <1>10, <1>11, <1>12, <1>13, <1>16 DEF l, k

\* normalize: a text that spells a key becomes the key.
LEMMA SpelledIsNormalized ==
    ASSUME NEW K, KeyShape(K), NEW T \in Seq(Chars), Spells(T, K)
    PROVE  Normalize(T) = K
<1>1. PICK g : Reads(T, K, g)
  BY DEF Spells
<1>2. PICK a \in 1..Len(T), b \in 1..Len(T) :
              /\ a <= b /\ Trim(T) = SubSeq(T, a, b) /\ g[a] = 1 /\ g[b] = Len(K)
              /\ \A i \in a..b : g[i] \in 1..Len(K)
  BY <1>1, TrimReads
<1> DEFINE t == Trim(T)
           m == b - a + 1
<1>3. /\ m \in Nat \ {0} /\ Len(t) = m /\ t \in Seq(Chars)
      /\ \A i \in 1..m : t[i] = T[a + i - 1]
  BY <1>2
<1>4. PICK f \in [0..Len(t) -> Seq(Chars)] :
              /\ f[0] = <<>>
              /\ \A i \in 1..Len(t) : f[i] = AddNormal(f[i - 1], t[i])
              /\ Normalize(T) = f[Len(t)]
  BY NormalizeIs
<1> HIDE DEF t, m
<1>5. /\ f \in [0..m -> Seq(Chars)] /\ f[0] = <<>> /\ Normalize(T) = f[m]
      /\ \A i \in 1..m : f[i] = AddNormal(f[i - 1], t[i])
  BY <1>3, <1>4
<1>6. /\ \A i \in 1..(Len(T) - 1) : StepsTo(K, g[i], g[i + 1])
      /\ \A i \in 1..Len(T) : Shows(K, g[i], T[i])
      /\ Len(T) \in Nat /\ Len(K) \in Nat \ {0}
  BY <1>1 DEF Reads, KeyShape
<1> DEFINE S == {i \in Nat : 0 < i /\ i <= m => Begins(f[i], K, g[a + i - 1])}
<1>7. Begins(f[1], K, 1)
  <2>1. 1 \in 1..m /\ a + 1 - 1 = a /\ 1 - 1 = 0 /\ a \in 1..Len(T)
    BY <1>3
  <2>2. f[1] = AddNormal(<<>>, T[a]) /\ T[a] \in Chars
    <3>1. t[1] = T[a + 1 - 1]
      BY <1>3, <2>1
    <3>2. f[1] = AddNormal(f[1 - 1], t[1])
      BY <1>5, <2>1
    <3>3. T[a] \in Chars
      BY <2>1
    <3> QED
      BY <1>5, <2>1, <3>1, <3>2, <3>3
  <2>3. Shows(K, 1, T[a])
    BY <1>2, <1>6
  <2>4. 1 \in 1..Len(K) /\ K[1] # "-"
    BY <1>6 DEF KeyShape
  <2>5. T[a] \notin Marks /\ LowerCase(T[a]) = K[1]
    BY <2>3, <2>4 DEF Shows
  <2>6. AddNormal(<<>>, T[a]) = Append(<<>>, K[1])
    BY <2>5 DEF AddNormal, LowerCase
  <2>7. Append(<<>>, K[1]) = <<K[1]>>
    OBVIOUS
  <2> QED
    BY <2>2, <2>6, <2>7 DEF Begins
<1>8. ASSUME NEW i \in 1..(m - 1), Begins(f[i], K, g[a + i - 1])
      PROVE  Begins(f[i + 1], K, g[a + (i + 1) - 1])
  <2> DEFINE x == a + i - 1
             y == a + (i + 1) - 1
  <2>1. /\ i + 1 \in 1..m /\ (i + 1) - 1 = i /\ y = x + 1 /\ i \in 0..m /\ i + 1 \in 0..m
        /\ x \in a..b /\ y \in a..b /\ x \in 1..(Len(T) - 1) /\ y \in 1..Len(T)
    BY <1>3, <1>6 DEF m
  <2>2. f[i + 1] = AddNormal(f[i], T[y]) /\ f[i] \in Seq(Chars) /\ T[y] \in Chars
    <3>1. t[i + 1] = T[y]
      BY <1>3, <2>1
    <3>2. f[i + 1] = AddNormal(f[(i + 1) - 1], t[i + 1])
      BY <1>5, <2>1
    <3>3. f[i] \in Seq(Chars)
      BY <1>5, <2>1
    <3> HIDE DEF y
    <3>4. T[y] \in Chars
      BY <2>1
    <3> QED
      BY <2>1, <3>1, <3>2, <3>3, <3>4
  <2> HIDE DEF y
  <2>3. g[x] \in 1..Len(K) /\ g[y] \in 1..Len(K) /\ StepsTo(K, g[x], g[y]) /\ Shows(K, g[y], T[y])
    BY <1>2, <1>6, <2>1
  <2>4. Begins(f[i], K, g[x])
    BY <1>8
  <2> HIDE DEF x
  <2>5. Begins(f[i + 1], K, g[y])
    BY <2>2, <2>3, <2>4, AddNormalReads
  <2> QED
    BY <2>5 DEF y
<1>9. 0 \in S
  OBVIOUS
<1>10. ASSUME NEW i \in Nat, i \in S PROVE i + 1 \in S
  <2> SUFFICES ASSUME i + 1 <= m PROVE Begins(f[i + 1], K, g[a + (i + 1) - 1])
    OBVIOUS
  <2>1. CASE i = 0
    <3>1. i + 1 = 1 /\ a + (i + 1) - 1 = a
      BY <2>1
    <3> QED
      BY <1>2, <1>7, <3>1
  <2>2. CASE i # 0
    <3>1. i \in 1..(m - 1) /\ 0 < i /\ i <= m
      BY <1>3, <2>2
    <3>2. Begins(f[i], K, g[a + i - 1])
      BY <1>10, <3>1
    <3> QED
      BY <1>8, <3>1, <3>2
  <2> QED
    BY <2>1, <2>2
<1>11. Nat \subseteq S
  <2> HIDE DEF S
  <2> QED
    BY Zenon, <1>9, <1>10, SetInduction
<1>12. Begins(f[m], K, Len(K))
  <2>1. a + m - 1 = b
    BY DEF m
  <2> QED
    BY SMTT(30), <1>2, <1>3, <1>11, <2>1
<1>13. f[m] \in Seq(Chars) /\ K \in Seq(Chars)
  <2>1. Letters \cup {"-"} \subseteq Chars
    BY DEF Chars, Marks
  <2> DEFINE D == Letters \cup {"-"}
  <2>2. K \in Seq(D) /\ D \subseteq Chars
    BY <2>1 DEF KeyShape
  <2> HIDE DEF D
  <2>3. m \in 0..m
    BY <1>3
  <2> QED
    BY <1>5, <2>2, <2>3
<1>14. f[m] = K
  <2>1. Len(f[m]) = Len(K) /\ \A x \in 1..Len(f[m]) : f[m][x] = K[x]
    BY <1>12 DEF Begins
  <2> QED
    BY Zenon, <1>13, <2>1, SeqEqual
<1> QED
  BY <1>5, <1>14

\* The Host's key is one, and the screen spells it.
LEMMA KeyAndDisplay ==
    ASSUME NEW ws \in [1..WORD_COUNT -> WordList]
    PROVE  /\ KeyShape(Canonical(ws))
           /\ DisplayForm(ws) \in Seq(Chars) /\ Spells(DisplayForm(ws), Canonical(ws))
<1> DEFINE K == Canonical(ws)
           D == DisplayForm(ws)
           A == Letters \cup {"-"}
           l == Len(K)
<1>1. ws \in Seq(WordList) /\ ws # <<>>
  BY ListHasWords
<1>2. ws \in Seq(Seq(A)) /\ ws \in Seq(Seq(Chars)) /\ A \subseteq Chars /\ "-" \in A /\ "-" \in Chars /\ Blank \in Chars
  <2>1. A \subseteq A /\ A \subseteq Chars
    BY DEF Chars, Marks
  <2>2. ws \in Seq(Seq(A)) /\ ws \in Seq(Seq(Chars))
    BY Zenon, <1>1, <2>1, WordsAreTexts
  <2> QED
    BY <2>1, <2>2 DEF Chars, Marks
<1>3. K \in Seq(A) /\ \E c : Cut(K, l, ws, c, "-")
  <2> HIDE DEF A
  <2> QED
    BY <1>1, <1>2, JoinIsACut DEF Canonical
<1>4. D \in Seq(Chars) /\ \E d : Cut(D, Len(D), ws, d, Blank)
  BY <1>1, <1>2, JoinIsACut DEF DisplayForm
<1>5. Len(K) = Len(D) /\ \A x \in 1..Len(K) : K[x] = D[x] \/ (K[x] = "-" /\ D[x] = Blank)
  <2>1. PICK c, d : Cut(K, Len(K), ws, c, "-") /\ Cut(D, Len(D), ws, d, Blank)
    BY <1>3, <1>4
  <2>2. Len(K) \in Nat /\ Len(D) \in Nat
    BY <1>3, <1>4
  <2> HIDE DEF K, D
  <2> QED
    BY <1>2, <2>1, <2>2, CutDetermines
<1> DEFINE q == SplitOn(K, "-")
<1>6. /\ q \in Seq(Seq(A)) /\ q # <<>> /\ Whole(q, "-") /\ \E p : Cut(K, l, q, p, "-")
      /\ \A j \in 1..Len(q) : Lettered(q[j])
  <2> HIDE DEF K, A
  <2>1. q \in Seq(Seq(A)) /\ q # <<>> /\ Whole(q, "-") /\ \E p : Cut(K, l, q, p, "-")
    BY <1>3, SplitIsACut DEF PartSeqs, SplitAt
  <2>2. \A j \in 1..Len(q) : Lettered(q[j])
    <3>1. A \subseteq A
      OBVIOUS
    <3> QED
      BY <1>1, <1>3, <3>1, SegmentFollows DEF K, A
  <2> QED
    BY <2>1, <2>2
<1>7. PICK p : Cut(K, l, q, p, "-")
  BY <1>6
<1> DEFINE m == Len(q)
<1> HIDE DEF K, D, q, A, m
<1>8. m \in Nat \ {0} /\ l \in Nat
  BY <1>3, <1>6 DEF m
<1>9. /\ p[0] = 0 /\ p[m] = l + 1 /\ p \in [0..m -> 0..(l + 1)]
      /\ \A j \in 1..m : Between(K, q[j], p[j - 1], p[j])
      /\ \A j \in 1..(m - 1) : K[p[j]] = "-"
  BY <1>7 DEF Cut, m
<1>10. \A j \in 1..m : /\ p[j - 1] \in Nat /\ p[j] \in Nat /\ p[j - 1] + 1 < p[j]
                       /\ \A x \in 1..Len(q[j]) : q[j][x] # "-"
  <2> SUFFICES ASSUME NEW j \in 1..m
               PROVE  /\ p[j - 1] \in Nat /\ p[j] \in Nat /\ p[j - 1] + 1 < p[j]
                      /\ \A x \in 1..Len(q[j]) : q[j][x] # "-"
    OBVIOUS
  <2>1. q[j] \in Seq(A) /\ q[j] # <<>> /\ \A x \in 1..Len(q[j]) : q[j][x] # "-"
    BY <1>6 DEF m, Lettered, Whole
  <2>2. Len(q[j]) \in Nat \ {0}
    BY <2>1
  <2>3. j \in 0..m /\ j - 1 \in 0..m
    BY <1>8
  <2>4. p[j - 1] \in Nat /\ p[j] \in Nat
    BY <1>8, <1>9, <2>3
  <2>5. Len(q[j]) = p[j] - p[j - 1] - 1
    BY <1>9 DEF Between
  <2> QED
    BY SMTT(30), <2>1, <2>2, <2>4, <2>5
<1>11. \A j \in 1..m, x \in Nat : p[j - 1] < x /\ x < p[j] => K[x] # "-"
  BY <1>9, <1>10, NoneInside
<1>12. l \in Nat \ {0} /\ K[1] # "-"
  <2>1. 1 \in 1..m /\ 1 - 1 = 0 /\ 1 \in 0..m
    BY <1>8
  <2>2. 1 < p[1] /\ p[1] <= l + 1
    BY <1>8, <1>9, <1>10, <2>1
  <2>3. 1 \in Nat /\ p[1 - 1] < 1
    BY <1>9, <2>1
  <2> QED
    BY <1>8, <1>10, <1>11, <2>1, <2>2, <2>3
<1>13. K[l] # "-"
  <2>1. m \in 1..m
    BY <1>8
  <2>2. p[m - 1] < l /\ l < p[m]
    BY <1>8, <1>9, <1>10, <2>1
  <2> QED
    BY <1>8, <1>11, <2>1, <2>2
<1>14. ASSUME NEW x \in 1..(l - 1), K[x] = "-" PROVE K[x + 1] # "-"
  <2>1. x \in 1..l /\ x \in Nat /\ x + 1 \in Nat
    BY <1>8
  <2>2. PICK j \in 1..m : p[j - 1] < x /\ x <= p[j]
    BY <1>7, <1>8, <2>1, CutCovers DEF m
  <2>3. x = p[j]
    BY <1>10, <1>11, <1>14, <2>1, <2>2
  <2>4. j # m
    BY <1>8, <1>9, <2>3
  <2>5. j + 1 \in 1..m /\ (j + 1) - 1 = j
    BY <1>8, <2>4
  <2>6. p[j] + 1 < p[j + 1] /\ p[j] \in Nat
    BY <1>10, <2>5
  <2> QED
    BY <1>11, <2>1, <2>3, <2>5, <2>6
<1>15. KeyShape(K)
  <2>1. K # <<>>
    BY <1>12
  <2> QED
    BY <1>3, <1>12, <1>13, <1>14, <2>1 DEF KeyShape, A
<1>16. Spells(D, K)
  <2> DEFINE g == [x \in 1..Len(D) |-> x]
  <2>1. /\ Len(D) \in Nat \ {0} /\ g \in [1..Len(D) -> 0..(Len(K) + 1)]
        /\ g[1] = 1 /\ g[Len(D)] = Len(K)
        /\ \A i \in 1..(Len(D) - 1) : g[i + 1] = g[i] + 1
        /\ \A i \in 1..Len(D) : g[i] = i /\ i \in 1..Len(K)
    BY <1>5, <1>12
  <2> HIDE DEF g
  <2>2. ASSUME NEW i \in 1..Len(D) PROVE Shows(K, i, D[i])
    <3>1. i \in 1..Len(K) /\ (K[i] = D[i] \/ (K[i] = "-" /\ D[i] = Blank))
      BY <1>5
    <3>2. K[i] \in Letters \cup {"-"}
      BY <1>3, <3>1 DEF A
    <3>3. K[i] \in Letters => K[i] \notin Marks /\ LowerCase(K[i]) = K[i]
      BY DEF Letters, Marks, Blank, LowerCase, Lower
    <3> QED
      BY <3>1, <3>2, <3>3 DEF Shows, Marks
  <2>3. Reads(D, K, g)
    BY <2>1, <2>2 DEF Reads, StepsTo
  <2> QED
    BY <2>3 DEF Spells
<1> QED
  BY <1>4, <1>15, <1>16 DEF K, D

\* The text r is T with m put in at place i.
Inserted(r, T, i, m) ==
    /\ Len(r) = Len(T) + 1 /\ r[i] = m
    /\ \A x \in 1..(i - 1) : r[x] = T[x]
    /\ \A x \in i..Len(T) : r[x + 1] = T[x]

\* A character more that can stand where it is put.
LEMMA InsertReads ==
    ASSUME NEW K, KeyShape(K), NEW T, NEW g, Reads(T, K, g),
           NEW i \in 1..(Len(T) + 1), NEW r, NEW m, Inserted(r, T, i, m),
           NEW v \in 0..(Len(K) + 1), Shows(K, v, m),
           IF i = 1 THEN v \in {0, 1} ELSE StepsTo(K, g[i - 1], v),
           IF i = Len(T) + 1 THEN v \in {Len(K), Len(K) + 1} ELSE StepsTo(K, v, g[i])
    PROVE  Spells(r, K)
<1> DEFINE l == Len(T)
           k == Len(K)
           h == [x \in 1..(l + 1) |-> IF x < i THEN g[x] ELSE IF x = i THEN v ELSE g[x - 1]]
<1>1. /\ l \in Nat \ {0} /\ k \in Nat /\ g \in [1..l -> 0..(k + 1)]
      /\ g[1] \in {0, 1} /\ g[l] \in {k, k + 1}
      /\ \A x \in 1..(l - 1) : StepsTo(K, g[x], g[x + 1])
      /\ \A x \in 1..l : Shows(K, g[x], T[x])
  BY DEF Reads, KeyShape
<1>2. Len(r) = l + 1 /\ r[i] = m /\ (\A x \in 1..(i - 1) : r[x] = T[x]) /\ \A x \in i..l : r[x + 1] = T[x]
  BY DEF Inserted
<1> HIDE DEF l, k
<1>3. i \in 1..(l + 1) /\ v \in 0..(k + 1)
  BY DEF l, k
<1>4. /\ \A x \in 1..(i - 1) : h[x] = g[x]
      /\ h[i] = v
      /\ \A x \in i..l : h[x + 1] = g[x]
      /\ h \in [1..(l + 1) -> 0..(k + 1)]
  <2>1. \A x \in 1..(i - 1) : h[x] = g[x]
    BY <1>1, <1>3
  <2>2. h[i] = v
    BY <1>1, <1>3
  <2>3. \A x \in i..l : h[x + 1] = g[x]
    <3> SUFFICES ASSUME NEW x \in i..l PROVE h[x + 1] = g[x]
      OBVIOUS
    <3>1. x + 1 \in 1..(l + 1) /\ ~(x + 1 < i) /\ x + 1 # i /\ (x + 1) - 1 = x
      BY <1>1, <1>3
    <3> QED
      BY <3>1
  <2>4. ASSUME NEW x \in 1..(l + 1) PROVE h[x] \in 0..(k + 1)
    <3>1. CASE x < i
      <4>1. x \in 1..l
        BY <1>1, <1>3, <3>1
      <4> QED
        BY <1>1, <3>1, <4>1
    <3>2. CASE x = i
      BY <1>3, <3>2
    <3>3. CASE x > i
      <4>1. x - 1 \in 1..l /\ ~(x < i) /\ x # i
        BY <1>1, <1>3, <3>3
      <4> QED
        BY <1>1, <4>1
    <3> QED
      BY <1>1, <1>3, <3>1, <3>2, <3>3
  <2>5. h \in [1..(l + 1) -> 0..(k + 1)]
    BY <2>4
  <2> QED
    BY <2>1, <2>2, <2>3, <2>5
<1> HIDE DEF h
<1>5. \A x \in 1..(l + 1) : x \in 1..(i - 1) \/ x = i \/ (x - 1 \in i..l /\ (x - 1) + 1 = x)
  BY <1>1, <1>3
<1>6. ASSUME NEW x \in 1..(l + 1) PROVE Shows(K, h[x], r[x])
  <2>1. CASE x \in 1..(i - 1)
    <3>1. x \in 1..l
      BY <1>1, <1>3, <2>1
    <3> QED
      BY <1>1, <1>2, <1>4, <2>1, <3>1
  <2>2. CASE x = i
    BY <1>2, <1>4, <2>2
  <2>3. CASE x - 1 \in i..l /\ (x - 1) + 1 = x
    <3> DEFINE y == x - 1
    <3>1. y \in i..l /\ y \in 1..l /\ x = y + 1
      BY <1>1, <1>3, <2>3
    <3> HIDE DEF y
    <3> QED
      BY <1>1, <1>2, <1>4, <3>1
  <2> QED
    BY <1>5, <2>1, <2>2, <2>3
<1>7. ASSUME NEW x \in 1..l PROVE StepsTo(K, h[x], h[x + 1])
  <2>1. CASE x + 1 < i
    <3>1. x \in 1..(i - 1) /\ x + 1 \in 1..(i - 1) /\ x \in 1..(l - 1)
      BY <1>1, <1>3, <2>1
    <3> QED
      BY <1>1, <1>4, <3>1
  <2>2. CASE x + 1 = i
    <3>1. x \in 1..(i - 1) /\ i # 1 /\ i - 1 = x
      BY <1>1, <1>3, <2>2
    <3> QED
      BY <1>4, <2>2, <3>1
  <2>3. CASE x = i
    <3>1. x \in i..l /\ i # l + 1
      BY <1>1, <1>3, <2>3
    <3> QED
      BY <1>4, <2>3, <3>1 DEF l
  <2>4. CASE x > i
    <3> DEFINE y == x - 1
    <3>1. y \in i..l /\ x \in i..l /\ x = y + 1 /\ y \in 1..(l - 1)
      BY <1>1, <1>3, <2>4
    <3> HIDE DEF y
    <3>2. h[x] = g[y] /\ h[x + 1] = g[x] /\ StepsTo(K, g[y], g[y + 1])
      BY <1>1, <1>4, <3>1
    <3> QED
      BY <3>1, <3>2
  <2> QED
    BY <1>1, <1>3, <2>1, <2>2, <2>3, <2>4
<1>8. h[1] \in {0, 1}
  <2>1. CASE i = 1
    BY <1>4, <2>1
  <2>2. CASE i # 1
    <3>1. 1 \in 1..(i - 1)
      BY <1>1, <1>3, <2>2
    <3> QED
      BY <1>1, <1>4, <3>1
  <2> QED
    BY <2>1, <2>2
<1>9. h[l + 1] \in {k, k + 1}
  <2>1. CASE i = l + 1
    BY <1>4, <2>1 DEF l, k
  <2>2. CASE i # l + 1
    <3>1. l \in i..l
      BY <1>1, <1>3, <2>2
    <3> QED
      BY <1>1, <1>4, <3>1
  <2> QED
    BY <2>1, <2>2
<1>10. Reads(r, K, h)
  <2>1. (l + 1) - 1 = l /\ l + 1 \in Nat \ {0}
    BY <1>1
  <2> QED
    BY <1>2, <1>4, <1>6, <1>7, <1>8, <1>9, <2>1 DEF Reads, k
<1> QED
  BY <1>10 DEF Spells

\* Another character that can stand in the place of one.
LEMMA ReplaceReads ==
    ASSUME NEW K, NEW T \in Seq(Chars), NEW g, Reads(T, K, g), NEW i \in 1..Len(T),
           NEW m, Shows(K, g[i], m)
    PROVE  Spells(ReplaceAt(T, i, m), K)
<1> DEFINE r == ReplaceAt(T, i, m)
<1>1. Len(r) = Len(T) /\ r[i] = m /\ \A x \in 1..Len(T) : x # i => r[x] = T[x]
  BY DEF ReplaceAt
<1> HIDE DEF r
<1>2. Reads(r, K, g)
  BY <1>1 DEF Reads
<1> QED
  BY <1>2 DEF Spells, r

\* Capitals and small letters are read alike.
LEMMA UpperIs ==
    ASSUME NEW c \in Chars
    PROVE  /\ Upper(c) \in Chars /\ LowerCase(Upper(c)) = LowerCase(c)
           /\ (Upper(c) = c \/ (c \notin Marks /\ Upper(c) \notin Marks))
<1>1. CASE \E u \in DOMAIN Lower : Lower[u] = c
  <2>1. PICK u \in DOMAIN Lower : Lower[u] = c /\ Upper(c) = u
    BY <1>1 DEF Upper
  <2>2. c \in Letters /\ u \in Chars /\ u \notin Marks /\ c \notin Marks /\ c \notin DOMAIN Lower
    BY <2>1 DEF Lower, Letters, Chars, Marks, Blank
  <2> QED
    BY <2>1, <2>2 DEF LowerCase
<1>2. CASE ~\E u \in DOMAIN Lower : Lower[u] = c
  BY <1>2 DEF Upper
<1> QED
  BY <1>1, <1>2

\* Between two letters, a mark stands for a separator of the key.
LEMMA MarkBetween ==
    ASSUME NEW K, KeyShape(K), NEW T \in Seq(Chars), NEW g, Reads(T, K, g),
           NEW i \in 1..Len(T), NEW j \in 1..Len(T), NEW k \in 1..Len(T), j < i, i < k,
           T[i] \in Marks, T[j] \notin Marks, T[k] \notin Marks
    PROVE  g[i] \in 1..Len(K) /\ K[g[i]] = "-"
<1>1. /\ Shows(K, g[i], T[i]) /\ Shows(K, g[j], T[j]) /\ Shows(K, g[k], T[k])
      /\ g[i] \in 0..(Len(K) + 1) /\ g[j] \in 0..(Len(K) + 1) /\ g[k] \in 0..(Len(K) + 1)
  BY DEF Reads
<1>2. Len(K) \in Nat
  BY DEF KeyShape
<1>3. g[j] <= g[i] /\ g[i] <= g[k]
  BY <1>2, Later
<1>4. g[j] \in 1..Len(K) /\ g[k] \in 1..Len(K)
  BY <1>1 DEF Shows, Marks
<1>5. g[i] \in 1..Len(K)
  BY <1>1, <1>2, <1>3, <1>4
<1> QED
  BY <1>1, <1>5 DEF Shows

\* InsertAt puts one character in.
LEMMA InsertAtIs ==
    ASSUME NEW C, NEW T \in Seq(C), NEW i \in 1..Len(T), NEW m \in C
    PROVE  InsertAt(T, i, m) \in Seq(C) /\ Inserted(InsertAt(T, i, m), T, i, m)
<1> DEFINE u == SubSeq(T, 1, i - 1)
           w == SubSeq(T, i, Len(T))
           r == u \o <<m>> \o w
<1>1. InsertAt(T, i, m) = r
  BY DEF InsertAt
<1>2. Len(T) \in Nat /\ i - 1 \in Nat /\ i \in Nat /\ i <= Len(T)
  OBVIOUS
<1>3. u \in Seq(C) /\ Len(u) = i - 1 /\ \A x \in 1..(i - 1) : u[x] = T[x]
  BY <1>2
<1>4. w \in Seq(C) /\ Len(w) = Len(T) - i + 1 /\ \A x \in 1..(Len(T) - i + 1) : w[x] = T[i + x - 1]
  BY <1>2
<1> HIDE DEF u, w
<1>5. r = AddPart(u, 2, w, m) /\ r \in Seq(C)
  BY <1>3, <1>4 DEF AddPart
<1>6. Longer(r, u, w, m)
  <2> HIDE DEF r
  <2> QED
    BY <1>3, <1>4, <1>5, AddPartIs
<1> HIDE DEF r
<1>7. /\ Len(r) = Len(u) + 1 + Len(w) /\ r[Len(u) + 1] = m
      /\ \A x \in 1..Len(u) : r[x] = u[x]
      /\ \A x \in 1..Len(w) : r[Len(u) + 1 + x] = w[x]
  BY <1>6 DEF Longer
<1>8. Len(r) = Len(T) + 1 /\ r[i] = m /\ \A x \in 1..(i - 1) : r[x] = T[x]
  BY <1>2, <1>3, <1>4, <1>7
<1>9. ASSUME NEW x \in i..Len(T) PROVE r[x + 1] = T[x]
  <2> DEFINE y == x - i + 1
  <2>1. y \in 1..Len(w) /\ y \in 1..(Len(T) - i + 1) /\ Len(u) + 1 + y = x + 1 /\ i + y - 1 = x
    BY <1>2, <1>3, <1>4
  <2> HIDE DEF y
  <2>2. r[Len(u) + 1 + y] = w[y] /\ w[y] = T[i + y - 1]
    BY <1>4, <1>7, <2>1
  <2> QED
    BY <2>1, <2>2
<1> QED
  BY <1>1, <1>5, <1>8, <1>9 DEF Inserted

\* Blanks around a text.
LEMMA BlanksAreRead ==
    ASSUME NEW K, KeyShape(K), NEW T \in Seq(Chars), Spells(T, K)
    PROVE  /\ <<Blank>> \o T \in Seq(Chars) /\ Spells(<<Blank>> \o T, K)
           /\ Append(T, Blank) \in Seq(Chars) /\ Spells(Append(T, Blank), K)
<1>1. PICK g : Reads(T, K, g)
  BY DEF Spells
<1>2. /\ Len(T) \in Nat \ {0} /\ Len(K) \in Nat \ {0} /\ g[1] \in {0, 1} /\ g[Len(T)] \in {Len(K), Len(K) + 1}
      /\ Blank \in Chars
  BY <1>1 DEF Reads, KeyShape, Chars, Marks
<1>3. <<Blank>> \o T \in Seq(Chars) /\ Spells(<<Blank>> \o T, K)
  <2> DEFINE r == <<Blank>> \o T
  <2>1. r \in Seq(Chars) /\ Len(r) = Len(T) + 1 /\ r[1] = Blank /\ \A x \in 1..Len(T) : r[x + 1] = T[x]
    BY <1>2
  <2> HIDE DEF r
  <2>2. Inserted(r, T, 1, Blank)
    BY <1>2, <2>1 DEF Inserted
  <2>3. /\ 1 \in 1..(Len(T) + 1) /\ 0 \in 0..(Len(K) + 1) /\ 0 \in {0, 1} /\ 1 # Len(T) + 1
        /\ Shows(K, 0, Blank) /\ StepsTo(K, 0, g[1])
    BY <1>2 DEF Shows, StepsTo
  <2>4. Spells(r, K)
    BY <1>1, <2>2, <2>3, InsertReads
  <2> QED
    BY <2>1, <2>4 DEF r
<1>4. Append(T, Blank) \in Seq(Chars) /\ Spells(Append(T, Blank), K)
  <2> DEFINE r == Append(T, Blank)
             i == Len(T) + 1
             v == Len(K) + 1
  <2>1. r \in Seq(Chars) /\ Len(r) = i /\ r[i] = Blank /\ \A x \in 1..Len(T) : r[x] = T[x]
    BY <1>2
  <2> HIDE DEF r
  <2>2. Inserted(r, T, i, Blank)
    BY <1>2, <2>1 DEF Inserted
  <2>3. /\ i \in 1..(Len(T) + 1) /\ i # 1 /\ i - 1 = Len(T) /\ v \in 0..(Len(K) + 1)
        /\ v \in {Len(K), Len(K) + 1} /\ Shows(K, v, Blank) /\ StepsTo(K, g[Len(T)], v)
    BY <1>2 DEF Shows, StepsTo
  <2>4. IF i = 1 THEN v \in {0, 1} ELSE StepsTo(K, g[i - 1], v)
    <3> HIDE DEF i, v
    <3> QED
      BY <2>3
  <2>5. IF i = Len(T) + 1 THEN v \in {Len(K), Len(K) + 1} ELSE StepsTo(K, v, g[i])
    BY <2>3
  <2>6. Spells(r, K)
    <3> HIDE DEF i, v
    <3> QED
      BY <1>1, <2>2, <2>3, <2>4, <2>5, InsertReads
  <2> QED
    BY <2>1, <2>6 DEF r
<1> QED
  BY <1>3, <1>4

\* Another separator, or one more, where there is one.
LEMMA MarksAreRead ==
    ASSUME NEW K, KeyShape(K), NEW T \in Seq(Chars), Spells(T, K),
           NEW i \in 1..Len(T), NEW j \in 1..Len(T), NEW k \in 1..Len(T), j < i, i < k,
           T[i] \in Marks, T[j] \notin Marks, T[k] \notin Marks, NEW m \in Marks
    PROVE  /\ ReplaceAt(T, i, m) \in Seq(Chars) /\ Spells(ReplaceAt(T, i, m), K)
           /\ InsertAt(T, i, m) \in Seq(Chars) /\ Spells(InsertAt(T, i, m), K)
<1>1. PICK g : Reads(T, K, g)
  BY DEF Spells
<1>2. m \in Chars
  BY DEF Chars
<1>3. g[i] \in 1..Len(K) /\ K[g[i]] = "-"
  BY <1>1, MarkBetween
<1>4. Shows(K, g[i], m) /\ StepsTo(K, g[i], g[i])
  BY <1>3 DEF Shows, StepsTo
<1>5. ReplaceAt(T, i, m) \in Seq(Chars)
  BY <1>2 DEF ReplaceAt
<1>6. Spells(ReplaceAt(T, i, m), K)
  BY <1>1, <1>4, ReplaceReads
<1>7. InsertAt(T, i, m) \in Seq(Chars) /\ Inserted(InsertAt(T, i, m), T, i, m)
  BY <1>2, InsertAtIs
<1>8. Len(K) \in Nat
  BY DEF KeyShape
<1>9. StepsTo(K, g[i - 1], g[i])
  <2>1. i - 1 \in 1..(Len(T) - 1) /\ (i - 1) + 1 = i
    OBVIOUS
  <2>2. StepsTo(K, g[i - 1], g[(i - 1) + 1])
    BY <1>1, <2>1 DEF Reads
  <2> QED
    BY <2>1, <2>2
<1>10. Spells(InsertAt(T, i, m), K)
  <2> DEFINE r == InsertAt(T, i, m)
             v == g[i]
  <2>1. Inserted(r, T, i, m) /\ Shows(K, v, m) /\ StepsTo(K, g[i - 1], v) /\ StepsTo(K, v, g[i])
    BY <1>4, <1>7, <1>9
  <2>2. i \in 1..(Len(T) + 1) /\ i # 1 /\ i # Len(T) + 1 /\ v \in 0..(Len(K) + 1)
    BY <1>3, <1>8
  <2> HIDE DEF r, v
  <2>3. Spells(r, K)
    BY <1>1, <2>1, <2>2, InsertReads
  <2> QED
    BY <2>3 DEF r
<1> QED
  BY <1>5, <1>6, <1>7, <1>10

\* A capital letter.
LEMMA CapitalsAreRead ==
    ASSUME NEW K, NEW T \in Seq(Chars), Spells(T, K), NEW i \in 1..Len(T)
    PROVE  ReplaceAt(T, i, Upper(T[i])) \in Seq(Chars) /\ Spells(ReplaceAt(T, i, Upper(T[i])), K)
<1>1. PICK g : Reads(T, K, g)
  BY DEF Spells
<1>2. T[i] \in Chars
  OBVIOUS
<1>3. /\ Upper(T[i]) \in Chars /\ LowerCase(Upper(T[i])) = LowerCase(T[i])
      /\ (Upper(T[i]) = T[i] \/ (T[i] \notin Marks /\ Upper(T[i]) \notin Marks))
  BY <1>2, UpperIs
<1>4. Shows(K, g[i], T[i])
  BY <1>1 DEF Reads
<1>5. Shows(K, g[i], Upper(T[i]))
  BY <1>3, <1>4 DEF Shows, Marks
<1>6. ReplaceAt(T, i, Upper(T[i])) \in Seq(Chars)
  BY <1>3 DEF ReplaceAt
<1> QED
  BY <1>1, <1>5, <1>6, ReplaceReads

-----------------------------------------------------------------------------
(* A phrase on its way to a Device.                                         *)

\* What a Device has of a phrase is typed characters, and spells the phrase
\* unless somebody made a mistake in it.
TypedInv ==
    copy.kind = "phrase" =>
        /\ copy.text \in Seq(Chars)
        /\ copy.faithful => copy.of \in [1..WORD_COUNT -> WordList] /\ Spells(copy.text, Canonical(copy.of))

\* A change to a copy.
LEMMA SlipIs ==
    ASSUME TextShape, NEW text, NEW faithful, Slip(text, faithful)
    PROVE  /\ copy'.kind = copy.kind /\ copy'.text = text /\ copy'.of = copy.of
           /\ copy'.faithful = (copy.faithful /\ faithful)
<1>1. copy' = [copy EXCEPT !.text = text, !.slips = @ + 1, !.faithful = @ /\ faithful]
  BY DEF Slip
<1> QED
  BY <1>1, Zenon DEF TextShape

\* A change that keeps a faithful copy spelling its phrase, or makes it a mistaken one.
LEMMA SlipKeepsTyped ==
    ASSUME TextShape, NEW text \in Seq(Chars), NEW faithful, Slip(text, faithful),
           copy.faithful /\ faithful =>
              copy.of \in [1..WORD_COUNT -> WordList] /\ Spells(text, Canonical(copy.of))
    PROVE  TypedInv'
<1>1. /\ copy'.kind = copy.kind /\ copy'.text = text /\ copy'.of = copy.of
      /\ copy'.faithful = (copy.faithful /\ faithful)
  BY SlipIs
<1>2. copy'.text \in Seq(Chars)
  BY <1>1
<1>3. copy'.faithful =>
         copy'.of \in [1..WORD_COUNT -> WordList] /\ Spells(copy'.text, Canonical(copy'.of))
  BY <1>1, Zenon
<1> QED
  BY <1>2, <1>3, Zenon DEF TypedInv

\* TypedLoosely: what a person may change without changing what is spelled.
LEMMA LooseKeepsTyped ==
    ASSUME TextShape, TypedInv, TypedLoosely
    PROVE  TypedInv'
<1> DEFINE T == copy.text
           K == Canonical(copy.of)
           Good(text) == /\ text \in Seq(Chars)
                         /\ copy.faithful => copy.of \in [1..WORD_COUNT -> WordList] /\ Spells(text, K)
<1>1. copy.kind = "phrase"
  BY DEF TypedLoosely
<1>2. /\ T \in Seq(Chars)
      /\ copy.faithful => copy.of \in [1..WORD_COUNT -> WordList] /\ Spells(T, K) /\ KeyShape(K)
  BY <1>1, KeyAndDisplay DEF TypedInv
<1>3. ASSUME NEW text, Slip(text, TRUE), Good(text) PROVE TypedInv'
  BY <1>3, SlipKeepsTyped
<1>4. DOMAIN T = 1..Len(T)
  BY <1>2
<1>5. PICK i \in DOMAIN T :
          \/ Slip(ReplaceAt(T, i, Upper(T[i])), TRUE)
          \/ \E m \in Marks :
                /\ T[i] \in Marks
                /\ \E j, k \in DOMAIN T : j < i /\ i < k /\ {T[j], T[k]} \cap Marks = {}
                /\ \/ Slip(ReplaceAt(T, i, m), TRUE)
                   \/ Slip(InsertAt(T, i, m), TRUE)
          \/ i = 1 /\ Slip(<<Blank>> \o T, TRUE)
          \/ i = 1 /\ Slip(Append(T, Blank), TRUE)
  BY DEF TypedLoosely
<1>6. CASE Slip(ReplaceAt(T, i, Upper(T[i])), TRUE)
  <2> DEFINE text == ReplaceAt(T, i, Upper(T[i]))
  <2>1. T[i] \in Chars
    BY <1>2, <1>4
  <2>2. text \in Seq(Chars)
    BY <1>2, <2>1, UpperIs DEF ReplaceAt
  <2>3. copy.faithful => Spells(text, K)
    BY <1>2, <1>4, CapitalsAreRead
  <2>4. Good(text)
    BY <1>2, <2>2, <2>3
  <2> HIDE DEF Good
  <2> QED
    BY <1>3, <1>6, <2>4
<1>7. ASSUME NEW m \in Marks, T[i] \in Marks,
             NEW j \in DOMAIN T, NEW k \in DOMAIN T, j < i, i < k, {T[j], T[k]} \cap Marks = {},
             Slip(ReplaceAt(T, i, m), TRUE) \/ Slip(InsertAt(T, i, m), TRUE)
      PROVE  TypedInv'
  <2>1. T[j] \notin Marks /\ T[k] \notin Marks /\ m \in Chars
    BY <1>7 DEF Chars
  <2>2. ReplaceAt(T, i, m) \in Seq(Chars)
    BY <1>2, <2>1 DEF ReplaceAt
  <2>3. InsertAt(T, i, m) \in Seq(Chars)
    BY <1>2, <1>4, <2>1, InsertAtIs
  <2>4. copy.faithful => Spells(ReplaceAt(T, i, m), K) /\ Spells(InsertAt(T, i, m), K)
    BY <1>2, <1>4, <1>7, <2>1, MarksAreRead
  <2>5. Good(ReplaceAt(T, i, m)) /\ Good(InsertAt(T, i, m))
    BY <1>2, <2>2, <2>3, <2>4
  <2> HIDE DEF Good
  <2> QED
    BY <1>3, <1>7, <2>5
<1>8. CASE Slip(<<Blank>> \o T, TRUE) \/ Slip(Append(T, Blank), TRUE)
  <2>1. Blank \in Chars
    BY DEF Chars, Marks
  <2>2. <<Blank>> \o T \in Seq(Chars) /\ Append(T, Blank) \in Seq(Chars)
    BY <1>2, <2>1
  <2>3. copy.faithful => Spells(<<Blank>> \o T, K) /\ Spells(Append(T, Blank), K)
    BY <1>2, BlanksAreRead
  <2>4. Good(<<Blank>> \o T) /\ Good(Append(T, Blank))
    BY <1>2, <2>2, <2>3
  <2> HIDE DEF Good
  <2> QED
    BY <1>3, <1>8, <2>4
<1> QED
  BY <1>5, <1>6, <1>7, <1>8

\* Mistyped: whatever is typed, characters are typed.
LEMMA MistakesKeepTyped ==
    ASSUME TextShape, TypedInv, Mistyped
    PROVE  TypedInv'
<1> DEFINE T == copy.text
<1>1. copy.kind = "phrase" /\ T \in Seq(Chars)
  BY DEF Mistyped, TypedInv
<1>2. DOMAIN T = 1..Len(T) /\ Len(T) \in Nat
  BY <1>1
<1>3. PICK i \in DOMAIN T :
          \/ \E c \in Letters \cup {"-", "9"} : Slip(ReplaceAt(T, i, c), FALSE)
          \/ Slip(RemoveAt(T, i), FALSE)
          \/ Slip(InsertAt(T, i, "-"), FALSE)
  BY DEF Mistyped
<1>4. ASSUME NEW text \in Seq(Chars), Slip(text, FALSE) PROVE TypedInv'
  BY <1>4, SlipKeepsTyped
<1>5. ASSUME NEW c \in Letters \cup {"-", "9"} PROVE ReplaceAt(T, i, c) \in Seq(Chars)
  <2>1. c \in Chars
    BY DEF Chars, Marks
  <2> QED
    BY <1>1, <2>1 DEF ReplaceAt
<1>6. RemoveAt(T, i) \in Seq(Chars)
  <2>1. SubSeq(T, 1, i - 1) \in Seq(Chars) /\ SubSeq(T, i + 1, Len(T)) \in Seq(Chars)
    BY <1>1, <1>2
  <2> QED
    BY <2>1 DEF RemoveAt
<1>7. InsertAt(T, i, "-") \in Seq(Chars)
  <2>1. "-" \in Chars
    BY DEF Chars, Marks
  <2> QED
    BY <1>1, <1>2, <2>1, InsertAtIs
<1> QED
  BY <1>3, <1>4, <1>5, <1>6, <1>7

\* Every step keeps a typed phrase what it is.
LEMMA TypedKeeps == ASSUME TextInv, TypedInv, [TextNext]_textVars PROVE TypedInv'
<1>0. TextShape
  BY DEF TextInv
<1>1. CASE UNCHANGED copy
  BY <1>1 DEF TypedInv
<1>2. ASSUME NEW words \in Drawn, NEW handle \in Handles, Generate(words, handle) PROVE TypedInv'
  BY <1>1, <1>2 DEF Generate
<1>3. CASE Older \/ Look \/ FailedAttempt \/ RecordEnrolled \/ UNCHANGED textVars
  BY <1>1, <1>3 DEF Older, Look, FailedAttempt, RecordEnrolled, textVars
<1>4. ASSUME NEW kind \in {"phrase", "uri"}, Take(kind) PROVE TypedInv'
  <2>1. /\ ApplyExpiry(session).state = "Live"
        /\ copy' = [kind |-> kind, slips |-> 0, faithful |-> TRUE, of |-> session.words,
                    text |-> IF kind = "uri" THEN Uri ELSE DisplayForm(session.words)]
    BY <1>4 DEF Take
  <2>2. copy'.kind = kind /\ copy'.of = session.words /\ (kind = "phrase" => copy'.text = DisplayForm(session.words))
    BY <2>1
  <2>3. session.state = "Live"
    BY <2>1 DEF ApplyExpiry, NoPhrase
  <2>4. session.words \in [1..WORD_COUNT -> WordList]
    BY <2>3, DrawnFromTheList DEF TextInv, TextTypeOK
  <2>5. DisplayForm(session.words) \in Seq(Chars) /\ Spells(DisplayForm(session.words), Canonical(session.words))
    BY <2>4, KeyAndDisplay
  <2> QED
    BY <2>2, <2>4, <2>5 DEF TypedInv
<1>5. CASE Rearranged \/ Garbled
  <2>1. copy.kind # "phrase"
    BY <1>5 DEF Rearranged, Garbled
  <2>2. PICK text, faithful : Slip(text, faithful)
    BY <1>5, SlipsOnly
  <2>3. copy'.kind = copy.kind
    BY <1>0, <2>2, SlipIs
  <2> QED
    BY <2>1, <2>3 DEF TypedInv
<1> QED
  BY <1>0, <1>2, <1>3, <1>4, <1>5, LooseKeepsTyped, MistakesKeepTyped DEF TextNext

\* R-13-024 to R-13-026: a phrase that is typed as it was shown, whatever its
\* capitals and separators, is read as the Host spelled it; the parser accepts
\* exactly the texts that spell a phrase, and finds the one phrase they spell.
THEOREM TypingFaithful == TextSpec => []TypedPhrasesAreRead
<1>1. TextInit => TypedInv
  BY DEF TextInit, NoCopy, TypedInv
<1>2. TextInv /\ TypedInv /\ [TextNext]_textVars => TypedInv'
  BY TypedKeeps
<1>3. TypedInv => TypedPhrasesAreRead
  <2> SUFFICES ASSUME TypedInv PROVE TypedPhraseWorks /\ ParsesWhatIsSpelled
    BY DEF TypedPhrasesAreRead
  <2>1. ParsesWhatIsSpelled
    <3>1. CASE copy.kind = "phrase"
      BY <3>1, TextParses DEF TypedInv
    <3>2. CASE copy.kind # "phrase"
      BY <3>2 DEF ParsesWhatIsSpelled
    <3> QED
      BY <3>1, <3>2
  <2>2. ASSUME copy.kind = "phrase", copy.faithful PROVE DeviceKey = Canonical(copy.of)
    <3> DEFINE K == Canonical(copy.of)
    <3>1. copy.text \in Seq(Chars) /\ copy.of \in [1..WORD_COUNT -> WordList] /\ Spells(copy.text, K)
      BY <2>2 DEF TypedInv
    <3>2. KeyShape(K)
      BY <3>1, KeyAndDisplay
    <3>3. Normalize(copy.text) = K
      <4> HIDE DEF K
      <4> QED
        BY <3>1, <3>2, SpelledIsNormalized
    <3>4. ParseCanonical(copy.text) = [ok |-> TRUE, canonical |-> K, words |-> copy.of]
      BY <3>1, <3>3, SpelledIsParsed
    <3> HIDE DEF K
    <3> QED
      BY <2>2, <3>4 DEF DeviceKey, K
  <2> QED
    BY <2>1, <2>2 DEF TypedPhraseWorks
<1> QED
  BY <1>1, <1>2, <1>3, TextInvariant, PTL DEF TextSpec

-----------------------------------------------------------------------------
(* Escapes.                                                                 *)

Digits == {"2", "3", "5", "6", "A", "D", "F"}

\* The table of escapes: two digits for each character, and no two alike.
LEMMA EscapesAre ==
    /\ DOMAIN Escapes = {":", "/", "%", "&", "="}
    /\ \A c \in DOMAIN Escapes : Escapes[c] \in Seq(Digits) /\ Len(Escapes[c]) = 2
    /\ \A c, d \in DOMAIN Escapes : Escapes[c] = Escapes[d] => c = d
<1> DEFINE code(c) == Escapes[c]
<1>1. DOMAIN Escapes = {":", "/", "%", "&", "="}
  BY DEF Escapes
<1>2. /\ Escapes[":"] = <<"3", "A">> /\ Escapes["/"] = <<"2", "F">> /\ Escapes["%"] = <<"2", "5">>
      /\ Escapes["&"] = <<"2", "6">> /\ Escapes["="] = <<"3", "D">>
  BY DEF Escapes
<1> HIDE DEF Escapes
<1>3. ASSUME NEW c \in DOMAIN Escapes PROVE Escapes[c] \in Seq(Digits) /\ Len(Escapes[c]) = 2
  <2>1. \A x, y \in Digits : <<x, y>> \in Seq(Digits) /\ Len(<<x, y>>) = 2
    OBVIOUS
  <2>2. {"2", "3", "5", "6", "A", "D", "F"} \subseteq Digits
    BY DEF Digits
  <2>3. \E x, y \in Digits : Escapes[c] = <<x, y>>
    BY <1>1, <1>2, <2>2
  <2> QED
    BY <2>1, <2>3
<1>4. ASSUME NEW c \in DOMAIN Escapes, NEW d \in DOMAIN Escapes, Escapes[c] = Escapes[d]
      PROVE  c = d
  <2>1. /\ Escapes[":"][1] = "3" /\ Escapes[":"][2] = "A" /\ Escapes["/"][1] = "2" /\ Escapes["/"][2] = "F"
        /\ Escapes["%"][1] = "2" /\ Escapes["%"][2] = "5" /\ Escapes["&"][1] = "2" /\ Escapes["&"][2] = "6"
        /\ Escapes["="][1] = "3" /\ Escapes["="][2] = "D"
    BY <1>2
  <2> QED
    BY <1>1, <1>4, <2>1
<1> QED
  BY <1>1, <1>3, <1>4

\* One character more of an escaped text.
LEMMA AddEncodedIs ==
    ASSUME NEW C, Digits \cup {"%"} \subseteq C, NEW t \in Seq(C),
           NEW c \in C \cup DOMAIN Escapes
    PROVE  /\ AddEncoded(t, c) \in Seq(C)
           /\ \A x \in 1..Len(t) : AddEncoded(t, c)[x] = t[x]
           /\ c \in DOMAIN Escapes =>
                /\ Len(AddEncoded(t, c)) = Len(t) + 3
                /\ AddEncoded(t, c)[Len(t) + 1] = "%"
                /\ AddEncoded(t, c)[Len(t) + 2] = Escapes[c][1]
                /\ AddEncoded(t, c)[Len(t) + 3] = Escapes[c][2]
           /\ c \notin DOMAIN Escapes =>
                /\ Len(AddEncoded(t, c)) = Len(t) + 1
                /\ AddEncoded(t, c)[Len(t) + 1] = c
<1> DEFINE e == Escapes[c]
           r == (t \o <<"%">>) \o e
<1>1. CASE c \in DOMAIN Escapes
  <2>1. e \in Seq(C) /\ Len(e) = 2
    <3>1. e \in Seq(Digits) /\ Len(e) = 2
      BY <1>1, EscapesAre
    <3> HIDE DEF e
    <3> QED
      BY <3>1
  <2>2. AddEncoded(t, c) = r
    BY <1>1 DEF AddEncoded
  <2> HIDE DEF e
  <2>3. r = AddPart(t, 2, e, "%") /\ r \in Seq(C)
    BY <2>1 DEF AddPart
  <2> HIDE DEF r
  <2>4. Longer(r, t, e, "%")
    BY <2>1, <2>3, AddPartIs
  <2>5. Len(t) \in Nat /\ 1 \in 1..Len(e) /\ 2 \in 1..Len(e)
    BY <2>1
  <2>6. /\ Len(r) = Len(t) + 3 /\ \A x \in 1..Len(t) : r[x] = t[x]
        /\ r[Len(t) + 1] = "%" /\ r[Len(t) + 2] = e[1] /\ r[Len(t) + 3] = e[2]
    <3>1. /\ Len(r) = Len(t) + 1 + Len(e) /\ r[Len(t) + 1] = "%"
          /\ r[Len(t) + 1 + 1] = e[1] /\ r[Len(t) + 1 + 2] = e[2]
          /\ \A x \in 1..Len(t) : r[x] = t[x]
      BY <2>4, <2>5 DEF Longer
    <3>2. Len(t) + 1 + 1 = Len(t) + 2 /\ Len(t) + 1 + 2 = Len(t) + 3
      BY <2>5
    <3> QED
      BY <2>1, <3>1, <3>2
  <2> QED
    BY <1>1, <2>2, <2>3, <2>6 DEF e
<1>2. CASE c \notin DOMAIN Escapes
  BY <1>2 DEF AddEncoded
<1> QED
  BY <1>1, <1>2

\* The escaped text, character by character.
LEMMA EncodeIs ==
    ASSUME NEW C, Digits \cup {"%"} \subseteq C, NEW s \in Seq(C \cup DOMAIN Escapes)
    PROVE  \E f \in [0..Len(s) -> Seq(C)] :
              /\ f[0] = <<>>
              /\ \A i \in 1..Len(s) : f[i] = AddEncoded(f[i - 1], s[i])
              /\ PercentEncode(s) = f[Len(s)]
<1> DEFINE n == Len(s)
           A == Seq(C)
           a == <<>>
           step == [p \in A \X (1..n) |-> AddEncoded(p[1], s[p[2]])]
           By(f) == f = [i \in 0..n |-> IF i = 0 THEN a ELSE AddEncoded(f[i - 1], s[i])]
<1>1. step \in [A \X (1..n) -> A]
  <2>1. ASSUME NEW t \in A, NEW i \in 1..n PROVE AddEncoded(t, s[i]) \in A
    <3>1. t \in Seq(C) /\ s[i] \in C \cup DOMAIN Escapes
      BY DEF A
    <3> QED
      BY <3>1, AddEncodedIs DEF A
  <2> HIDE DEF A, n
  <2> QED
    BY <2>1
<1>2. a \in A
  OBVIOUS
<1>3. n \in Nat
  OBVIOUS
<1>4. PICK f \in [0..n -> A] : f[0] = a /\ \A i \in 1..n : f[i] = step[<<f[i - 1], i>>]
  <2> HIDE DEF step, n, A, a
  <2>1. \E f : Steps(A, a, n, step, f)
    BY Zenon, <1>1, <1>2, <1>3, Recursion
  <2>. QED
    BY <2>1 DEF Steps
<1>5. \A i \in 1..n : step[<<f[i - 1], i>>] = AddEncoded(f[i - 1], s[i])
  <2> SUFFICES ASSUME NEW i \in 1..n PROVE step[<<f[i - 1], i>>] = AddEncoded(f[i - 1], s[i])
    OBVIOUS
  <2>1. f[i - 1] \in A /\ i \in 1..n
    <3> HIDE DEF step, n, A, a
    <3> QED
      BY <1>3, <1>4
  <2> HIDE DEF A, n
  <2>. QED
    BY <2>1
<1>6. By(f)
  <2> HIDE DEF step, n, A, a
  <2>1. \A i \in 0..n : i # 0 => i \in 1..n
    BY <1>3
  <2>. QED
    BY <1>4, <1>5, <2>1
<1> DEFINE c == CHOOSE g : By(g)
<1>7. By(c)
  BY <1>6
<1>8. PercentEncode(s) = c[n]
  BY DEF PercentEncode
<1>9. c \in [0..n -> A]
  <2> DEFINE S == {i \in Nat : i <= n => c[i] \in A}
  <2> HIDE DEF c, A, a
  <2>1. 0 \in S
    BY <1>7, <1>2
  <2>2. ASSUME NEW i \in Nat, i \in S PROVE i + 1 \in S
    <3> SUFFICES ASSUME i + 1 <= n PROVE c[i + 1] \in A
      OBVIOUS
    <3>1. c[i + 1] = AddEncoded(c[i], s[i + 1])
      BY <1>7
    <3>2. c[i] \in Seq(C) /\ s[i + 1] \in C \cup DOMAIN Escapes
      BY <2>2 DEF A
    <3>3. AddEncoded(c[i], s[i + 1]) \in Seq(C)
      BY <3>2, AddEncodedIs
    <3>. QED
      BY <3>1, <3>3 DEF A
  <2>3. Nat \subseteq S
    <3> HIDE DEF S
    <3>. QED
      BY Zenon, <2>1, <2>2, SetInduction
  <2>4. \A i \in 0..n : c[i] \in A
    BY <2>3
  <2>. QED
    BY <2>4, <1>7
<1>10. c[0] = a /\ \A i \in 1..n : c[i] = AddEncoded(c[i - 1], s[i])
  <2> HIDE DEF c, a
  <2>1. 0 \in 0..n /\ \A i \in 1..n : i \in 0..n /\ i # 0
    OBVIOUS
  <2>. QED
    BY <1>7, <2>1
<1>. QED
  <2> HIDE DEF c
  <2>. QED
    BY <1>8, <1>9, <1>10

\* A slice of a text.
LEMMA SliceIs ==
    ASSUME NEW C, NEW s \in Seq(C), NEW a \in Nat \ {0}, NEW b \in Nat, a <= b + 1, b <= Len(s)
    PROVE  /\ SubSeq(s, a, b) \in Seq(C) /\ Len(SubSeq(s, a, b)) = (b - a) + 1
           /\ \A x \in 1..((b - a) + 1) : SubSeq(s, a, b)[x] = s[(a + x) - 1]
<1>1. a \in Int /\ b \in Int /\ \A i \in a..b : s[i] \in C
  OBVIOUS
<1>2. /\ SubSeq(s, a, b) \in Seq(C)
      /\ Len(SubSeq(s, a, b)) = IF a <= b THEN b - a + 1 ELSE 0
      /\ \A i \in 1..(b - a + 1) : SubSeq(s, a, b)[i] = s[a + i - 1]
  BY <1>1, SubSeqProperties
<1> QED
  BY <1>2

\* The loop's state: the next character, and the text so far.
Decoding(C) == [at : Nat \ {0}, out : Seq(C)]

\* What percent_encode writes and percent_decode reads.
Coded(C) == Digits \cup DOMAIN Escapes \subseteq C

\* A turn of the loop leaves a text, and a place further on.
LEMMA TakeCodeType ==
    ASSUME NEW C, Coded(C), NEW s \in Seq(C), NEW d \in Decoding(C)
    PROVE  TakeCode(d, s) \in Decoding(C)
<1>1. d.at \in Nat \ {0} /\ d.out \in Seq(C) /\ Len(s) \in Nat
  BY DEF Decoding
<1>2. CASE d.at > Len(s)
  BY <1>1, <1>2 DEF TakeCode
<1>3. CASE d.at <= Len(s) /\ Escaped(s, d.at) # {}
  <2> DEFINE c == CHOOSE x \in Escaped(s, d.at) : TRUE
  <2>1. c \in Escaped(s, d.at)
    BY <1>3
  <2>2. c \in C
    BY <2>1 DEF Escaped, Coded
  <2>3. TakeCode(d, s) = [at |-> d.at + 3, out |-> Append(d.out, c)]
    BY <1>1, <1>3 DEF TakeCode
  <2> HIDE DEF c
  <2>4. Append(d.out, c) \in Seq(C)
    BY <1>1, <2>2
  <2> QED
    BY <1>1, <2>3, <2>4 DEF Decoding
<1>4. CASE d.at <= Len(s) /\ Escaped(s, d.at) = {}
  <2>1. TakeCode(d, s) = [at |-> d.at + 1, out |-> Append(d.out, s[d.at])]
    BY <1>1, <1>4 DEF TakeCode
  <2>2. s[d.at] \in C
    BY <1>1, <1>4
  <2>3. Append(d.out, s[d.at]) \in Seq(C)
    BY <1>1, <2>2
  <2> QED
    BY <1>1, <2>1, <2>3 DEF Decoding
<1> QED
  BY <1>1, <1>2, <1>3, <1>4

\* The loop of percent_decode, turn by turn.
LEMMA DecodeIs ==
    ASSUME NEW C, Coded(C), NEW s \in Seq(C)
    PROVE  \E f \in [0..Len(s) -> Decoding(C)] :
              /\ f[0] = [at |-> 1, out |-> <<>>]
              /\ \A i \in 1..Len(s) : f[i] = TakeCode(f[i - 1], s)
              /\ PercentDecode(s) = f[Len(s)].out
<1> DEFINE n == Len(s)
           A == Decoding(C)
           a == [at |-> 1, out |-> <<>>]
           step == [p \in A \X (1..n) |-> TakeCode(p[1], s)]
           By(f) == f = [i \in 0..n |-> IF i = 0 THEN a ELSE TakeCode(f[i - 1], s)]
<1>1. step \in [A \X (1..n) -> A]
  BY TakeCodeType
<1>2. a \in A
  BY DEF Decoding
<1>3. n \in Nat
  OBVIOUS
<1>4. PICK f \in [0..n -> A] : f[0] = a /\ \A i \in 1..n : f[i] = step[<<f[i - 1], i>>]
  <2> HIDE DEF step, n, A, a
  <2>1. \E f : Steps(A, a, n, step, f)
    BY Zenon, <1>1, <1>2, <1>3, Recursion
  <2>. QED
    BY <2>1 DEF Steps
<1>5. \A i \in 1..n : step[<<f[i - 1], i>>] = TakeCode(f[i - 1], s)
  <2> SUFFICES ASSUME NEW i \in 1..n PROVE step[<<f[i - 1], i>>] = TakeCode(f[i - 1], s)
    OBVIOUS
  <2>1. f[i - 1] \in A /\ i \in 1..n
    <3> HIDE DEF step, n, A, a
    <3> QED
      BY <1>3, <1>4
  <2> HIDE DEF A, n
  <2>. QED
    BY <2>1
<1>6. By(f)
  <2> HIDE DEF step, n, A, a
  <2>1. \A i \in 0..n : i # 0 => i \in 1..n
    BY <1>3
  <2>. QED
    BY <1>4, <1>5, <2>1
<1> DEFINE c == CHOOSE g : By(g)
<1>7. By(c)
  BY <1>6
<1>8. PercentDecode(s) = c[n].out
  BY DEF PercentDecode
<1>9. c \in [0..n -> A]
  <2> DEFINE S == {i \in Nat : i <= n => c[i] \in A}
  <2> HIDE DEF c, A, a
  <2>1. 0 \in S
    BY <1>7, <1>2
  <2>2. ASSUME NEW i \in Nat, i \in S PROVE i + 1 \in S
    <3> SUFFICES ASSUME i + 1 <= n PROVE c[i + 1] \in A
      OBVIOUS
    <3>1. c[i + 1] = TakeCode(c[i], s)
      BY <1>7
    <3>. QED
      BY <2>2, <3>1, TakeCodeType DEF A
  <2>3. Nat \subseteq S
    <3> HIDE DEF S
    <3>. QED
      BY Zenon, <2>1, <2>2, SetInduction
  <2>4. \A i \in 0..n : c[i] \in A
    BY <2>3
  <2>. QED
    BY <2>4, <1>7
<1>10. c[0] = a /\ \A i \in 1..n : c[i] = TakeCode(c[i - 1], s)
  <2> HIDE DEF c, a
  <2>1. 0 \in 0..n /\ \A i \in 1..n : i \in 0..n /\ i # 0
    OBVIOUS
  <2>. QED
    BY <1>7, <2>1
<1>. QED
  <2> HIDE DEF c
  <2>. QED
    BY <1>8, <1>9, <1>10

\* A turn that meets an escape, and one that meets any other character.
LEMMA TakeCodeIs ==
    ASSUME NEW C, NEW s \in Seq(C), NEW d \in Decoding(C), d.at <= Len(s)
    PROVE  /\ s[d.at] # "%" =>
                TakeCode(d, s) = [at |-> d.at + 1, out |-> Append(d.out, s[d.at])]
           /\ \A c \in DOMAIN Escapes :
                /\ s[d.at] = "%" /\ d.at + 2 <= Len(s)
                /\ s[d.at + 1] = Escapes[c][1] /\ s[d.at + 2] = Escapes[c][2]
                => TakeCode(d, s) = [at |-> d.at + 3, out |-> Append(d.out, c)]
<1> DEFINE i == d.at
<1>1. i \in Nat \ {0} /\ Len(s) \in Nat
  BY DEF Decoding
<1>2. ASSUME s[i] # "%"
      PROVE  TakeCode(d, s) = [at |-> d.at + 1, out |-> Append(d.out, s[d.at])]
  <2>1. Escaped(s, i) = {}
    BY <1>2 DEF Escaped
  <2> QED
    BY <1>1, <2>1 DEF TakeCode
<1>3. ASSUME NEW c \in DOMAIN Escapes, s[i] = "%", i + 2 <= Len(s),
             s[i + 1] = Escapes[c][1], s[i + 2] = Escapes[c][2]
      PROVE  TakeCode(d, s) = [at |-> d.at + 3, out |-> Append(d.out, c)]
  <2> DEFINE t == SubSeq(s, i + 1, i + 2)
  <2>1. t \in Seq(C) /\ Len(t) = 2 /\ t[1] = s[i + 1] /\ t[2] = s[i + 2]
    <3> HIDE DEF i
    <3>1. /\ i + 1 \in Nat \ {0} /\ i + 2 \in Nat /\ i + 2 <= Len(s) /\ i + 1 <= i + 2 + 1
      BY <1>1, <1>3
    <3>2. t \in Seq(C) /\ Len(t) = ((i + 2) - (i + 1)) + 1
      BY <3>1, SliceIs
    <3>3. \A x \in 1..(((i + 2) - (i + 1)) + 1) : t[x] = s[(i + 1 + x) - 1]
      BY <3>1, SliceIs
    <3> HIDE DEF t
    <3>4. /\ ((i + 2) - (i + 1)) + 1 = 2 /\ (i + 1 + 1) - 1 = i + 1 /\ (i + 1 + 2) - 1 = i + 2
      BY <1>1
    <3> QED
      BY <3>2, <3>3, <3>4
  <2> HIDE DEF t
  <2>2. Escapes[c] \in Seq(Digits) /\ Len(Escapes[c]) = 2
    BY EscapesAre
  <2>3. t = Escapes[c]
    <3>1. Len(t) = Len(Escapes[c]) /\ \A x \in 1..Len(t) : t[x] = Escapes[c][x]
      BY <1>3, <2>1, <2>2
    <3> QED
      BY <2>1, <2>2, <3>1
  <2>4. c \in Escaped(s, i)
    BY <1>3, <2>3 DEF Escaped, t
  <2>5. \A b \in Escaped(s, i) : b = c
    <3> SUFFICES ASSUME NEW b \in Escaped(s, i) PROVE b = c
      OBVIOUS
    <3>1. b \in DOMAIN Escapes /\ Escapes[b] = t
      BY DEF Escaped, t
    <3> QED
      BY <2>3, <3>1, EscapesAre
  <2>6. (CHOOSE b \in Escaped(s, i) : TRUE) = c
    BY <2>4, <2>5
  <2>7. TakeCode(d, s) = [at |-> d.at + 3,
                         out |-> Append(d.out, CHOOSE b \in Escaped(s, i) : TRUE)]
    <3>1. Escaped(s, d.at) # {} /\ ~(d.at > Len(s))
      BY <1>1, <2>4
    <3> QED
      BY <3>1 DEF TakeCode
  <2> QED
    BY <2>6, <2>7
<1> QED
  BY <1>2, <1>3

\* What one character more adds.
Grows(r, u, c) ==
    /\ \A x \in 1..Len(u) : r[x] = u[x]
    /\ c \in DOMAIN Escapes =>
         /\ Len(r) = Len(u) + 3 /\ r[Len(u) + 1] = "%"
         /\ r[Len(u) + 2] = Escapes[c][1] /\ r[Len(u) + 3] = Escapes[c][2]
    /\ c \notin DOMAIN Escapes => Len(r) = Len(u) + 1 /\ r[Len(u) + 1] = c

\* What is escaped of a text grows at its end.
LEMMA EncodingGrows ==
    ASSUME NEW C, Digits \cup {"%"} \subseteq C, NEW u \in Seq(C), NEW c \in C
    PROVE  Grows(AddEncoded(u, c), u, c)
<1> DEFINE r == AddEncoded(u, c)
<1>1. \A x \in 1..Len(u) : r[x] = u[x]
  BY AddEncodedIs
<1>2. c \in DOMAIN Escapes => Len(r) = Len(u) + 3 /\ r[Len(u) + 1] = "%"
  BY AddEncodedIs
<1>3. c \in DOMAIN Escapes => r[Len(u) + 2] = Escapes[c][1] /\ r[Len(u) + 3] = Escapes[c][2]
  BY AddEncodedIs
<1>4. c \notin DOMAIN Escapes => Len(r) = Len(u) + 1 /\ r[Len(u) + 1] = c
  BY AddEncodedIs
<1> HIDE DEF r
<1>5. Grows(r, u, c)
  BY Zenon, <1>1, <1>2, <1>3, <1>4 DEF Grows
<1> QED
  BY <1>5 DEF r

\* Decoding, k turns of it, reads the first k characters of what was encoded.
LEMMA DecodedIsEncoded ==
    ASSUME NEW C, Coded(C), NEW s \in Seq(C)
    PROVE  PercentEncode(s) \in Seq(C) /\ PercentDecode(PercentEncode(s)) = s
<1> DEFINE n == Len(s)
           t == PercentEncode(s)
<1>1. Digits \cup {"%"} \subseteq C
  BY EscapesAre DEF Coded
<1>2. PICK f \in [0..n -> Seq(C)] :
          /\ f[0] = <<>> /\ \A i \in 1..n : f[i] = AddEncoded(f[i - 1], s[i])
          /\ t = f[n]
  <2>1. s \in Seq(C \cup DOMAIN Escapes)
    OBVIOUS
  <2> QED
    BY <1>1, <2>1, EncodeIs
<1> HIDE DEF t
<1>3. n \in Nat /\ \A i \in 1..n : s[i] \in C /\ i - 1 \in 0..n
  OBVIOUS
<1> HIDE DEF n
<1>4. \A i \in 0..n : f[i] \in Seq(C) /\ Len(f[i]) \in Nat
  <2>1. \A i \in 0..n : f[i] \in Seq(C)
    BY <1>2
  <2> QED
    BY <2>1
<1>5. t \in Seq(C) /\ Len(t) \in Nat
  BY <1>2, <1>3, <1>4
<1>6. \A i \in 1..n : Grows(f[i], f[i - 1], s[i])
  <2> SUFFICES ASSUME NEW i \in 1..n PROVE Grows(f[i], f[i - 1], s[i])
    OBVIOUS
  <2>1. f[i] = AddEncoded(f[i - 1], s[i]) /\ f[i - 1] \in Seq(C) /\ s[i] \in C
    BY <1>2, <1>3, <1>4
  <2>2. Grows(AddEncoded(f[i - 1], s[i]), f[i - 1], s[i])
    BY <1>1, <2>1, EncodingGrows
  <2> QED
    BY <2>1, <2>2
\* What is encoded stays.
<1>7. \A k \in 0..n : Len(f[k]) <= Len(t) /\ \A x \in 1..Len(f[k]) : t[x] = f[k][x]
  <2> DEFINE Kept(k) == Len(f[k]) <= Len(t) /\ \A x \in 1..Len(f[k]) : t[x] = f[k][x]
             S == {m \in Nat : m <= n => Kept(n - m)}
  <2>1. 0 \in S
    <3>1. n - 0 = n
      BY <1>3
    <3> QED
      BY <1>2, <1>5, <3>1
  <2>2. ASSUME NEW m \in Nat, m \in S PROVE m + 1 \in S
    <3>0. m + 1 \in Nat
      OBVIOUS
    <3> SUFFICES ASSUME m + 1 <= n PROVE Kept(n - (m + 1))
      BY Zenon, <3>0
    <3> DEFINE i == n - m
    <3>1. i \in 1..n /\ i - 1 = n - (m + 1) /\ i - 1 \in 0..n /\ i \in 0..n
      BY <1>3
    <3>2. Kept(i)
      BY <1>3, <2>2
    <3> HIDE DEF i
    <3>3. /\ Len(f[i - 1]) \in Nat /\ Len(f[i]) \in Nat /\ Len(f[i - 1]) <= Len(f[i])
          /\ \A x \in 1..Len(f[i - 1]) : f[i][x] = f[i - 1][x]
      <4>1. Len(f[i - 1]) \in Nat /\ Len(f[i]) \in Nat
        BY <1>4, <3>1
      <4>2. s[i] \in DOMAIN Escapes \/ s[i] \notin DOMAIN Escapes
        OBVIOUS
      <4>3. Len(f[i]) = Len(f[i - 1]) + 3 \/ Len(f[i]) = Len(f[i - 1]) + 1
        BY Zenon, <1>6, <3>1, <4>2 DEF Grows
      <4>4. \A x \in 1..Len(f[i - 1]) : f[i][x] = f[i - 1][x]
        BY Zenon, <1>6, <3>1 DEF Grows
      <4> QED
        BY <4>1, <4>3, <4>4
    <3>4. Kept(i - 1)
      BY <1>5, <3>2, <3>3
    <3> QED
      BY <3>1, <3>4
  <2>3. Nat \subseteq S
    <3> HIDE DEF S
    <3> QED
      BY Zenon, <2>1, <2>2, SetInduction
  <2>4. ASSUME NEW k \in 0..n PROVE Kept(k)
    <3>1. n - k \in Nat /\ n - k <= n /\ n - (n - k) = k
      BY <1>3
    <3>2. n - k \in S
      BY <2>3, <3>1
    <3>3. Kept(n - (n - k))
      BY <3>1, <3>2
    <3> HIDE DEF Kept
    <3> QED
      BY <3>1, <3>3
  <2> QED
    BY <2>4
<1>8. PICK d \in [0..Len(t) -> Decoding(C)] :
          /\ d[0] = [at |-> 1, out |-> <<>>]
          /\ \A i \in 1..Len(t) : d[i] = TakeCode(d[i - 1], t)
          /\ PercentDecode(t) = d[Len(t)].out
  BY <1>5, DecodeIs
<1> DEFINE Read(k) == /\ k <= Len(f[k]) /\ d[k].at = Len(f[k]) + 1 /\ Len(d[k].out) = k
                      /\ \A x \in 1..k : d[k].out[x] = s[x]
<1>9. ASSUME NEW k \in 0..(n - 1), Read(k) PROVE Read(k + 1)
  <2> DEFINE i == k + 1
             e == d[k]
             l == Len(f[k])
             v == TakeCode(e, t)
             c == s[i]
  <2>1. /\ i \in 1..n /\ i - 1 = k /\ k \in Nat /\ i \in Nat /\ k \in 0..n /\ i \in 0..n
    BY <1>3
  <2>2. l \in Nat /\ Len(f[i]) \in Nat /\ c \in C
    BY <1>3, <1>4, <2>1
  <2>3. e \in Decoding(C) /\ e.at = l + 1 /\ e.out \in Seq(C) /\ Len(e.out) = k
    <3>1. k \in 0..Len(t)
      BY <1>4, <1>5, <1>7, <1>9, <2>1
    <3>2. d[k] \in Decoding(C)
      BY <1>8, <3>1
    <3> QED
      BY <1>9, <3>2 DEF Decoding
  <2>4. \A x \in 1..k : e.out[x] = s[x]
    BY <1>9
  <2>5. /\ c \in DOMAIN Escapes =>
             /\ Len(f[i]) = l + 3 /\ f[i][l + 1] = "%"
             /\ f[i][l + 2] = Escapes[c][1] /\ f[i][l + 3] = Escapes[c][2]
        /\ c \notin DOMAIN Escapes => Len(f[i]) = l + 1 /\ f[i][l + 1] = c
    <3>1. Grows(f[i], f[k], c)
      BY <1>6, <2>1
    <3> HIDE DEF i, c
    <3> QED
      BY <3>1 DEF Grows
  <2>6. Len(f[i]) <= Len(t) /\ \A x \in 1..Len(f[i]) : t[x] = f[i][x]
    BY <1>7, <2>1
  <2> HIDE DEF e, l, c, i
  <2>7. v.at = Len(f[i]) + 1 /\ v.out = Append(e.out, c)
    <3>1. CASE c \in DOMAIN Escapes
      <4>1. l + 1 \in 1..(l + 3) /\ l + 2 \in 1..(l + 3) /\ l + 3 \in 1..(l + 3)
        BY <2>2
      <4>2. /\ l + 3 <= Len(t) /\ t[l + 1] = "%"
            /\ t[l + 2] = Escapes[c][1] /\ t[l + 3] = Escapes[c][2]
        BY <2>5, <2>6, <3>1, <4>1
      <4>3. l + 1 <= Len(t) /\ l + 1 + 1 = l + 2 /\ l + 1 + 2 = l + 3 /\ l + 1 + 3 = l + 3 + 1
        BY <1>5, <2>2, <4>2
      <4>4. v = [at |-> e.at + 3, out |-> Append(e.out, c)]
        <5>1. /\ e.at <= Len(t) /\ e.at + 2 <= Len(t) /\ t[e.at] = "%"
              /\ t[e.at + 1] = Escapes[c][1] /\ t[e.at + 2] = Escapes[c][2]
          BY <2>3, <4>2, <4>3
        <5> QED
          BY <1>5, <2>3, <3>1, <5>1, TakeCodeIs
      <4> HIDE DEF v
      <4> QED
        BY <2>3, <2>5, <3>1, <4>3, <4>4
    <3>2. CASE c \notin DOMAIN Escapes
      <4>1. l + 1 \in 1..(l + 1)
        BY <2>2
      <4>2. l + 1 <= Len(t) /\ t[l + 1] = c
        BY <2>5, <2>6, <3>2, <4>1
      <4>3. c # "%"
        BY <3>2, EscapesAre
      <4>4. v = [at |-> e.at + 1, out |-> Append(e.out, c)]
        BY <1>5, <2>3, <4>2, <4>3, TakeCodeIs
      <4> HIDE DEF v
      <4> QED
        BY <2>3, <2>5, <3>2, <4>4
    <3> QED
      BY <3>1, <3>2
  <2>8. k + 1 <= Len(f[i]) /\ k + 1 <= Len(t)
    <3>1. k <= l
      BY <1>9 DEF l
    <3>2. l < Len(f[i])
      BY <2>2, <2>5
    <3> QED
      BY <1>5, <2>1, <2>2, <2>6, <3>1, <3>2
  <2>9. d[i] = v
    <3>1. i \in 1..Len(t)
      BY <1>5, <2>1, <2>8 DEF i
    <3> QED
      BY <1>8, <2>1, <3>1 DEF e
  <2>10. /\ Len(Append(e.out, c)) = i /\ Append(e.out, c)[i] = s[i]
         /\ \A x \in 1..k : Append(e.out, c)[x] = s[x]
    BY <2>3, <2>4 DEF i, c
  <2>11. \A x \in 1..i : x = i \/ x \in 1..k
    BY <2>1 DEF i
  <2>12. Read(i)
    <3> HIDE DEF v
    <3> QED
      BY <2>7, <2>8, <2>9, <2>10, <2>11 DEF i
  <2> QED
    BY <2>12 DEF i
<1>10. Read(0)
  <2>1. Len(f[0]) = 0 /\ 0 \in 0..Len(t)
    BY <1>2, <1>5
  <2> QED
    BY <1>8, <2>1
<1>11. \A k \in 0..n : Read(k)
  <2> DEFINE S == {k \in Nat : k <= n => Read(k)}
  <2> HIDE DEF Read
  <2>1. 0 \in S
    BY <1>10
  <2>2. ASSUME NEW k \in Nat, k \in S PROVE k + 1 \in S
    <3>1. k + 1 <= n => k \in 0..(n - 1)
      BY <1>3
    <3> QED
      BY <1>3, <1>9, <2>2, <3>1
  <2>3. Nat \subseteq S
    <3> HIDE DEF S
    <3> QED
      BY Zenon, <2>1, <2>2, SetInduction
  <2> QED
    BY <1>3, <2>3
<1>12. n <= Len(t) /\ d[n].at > Len(t)
  <2>1. n \in 0..n
    BY <1>3
  <2>2. n <= Len(f[n]) /\ d[n].at = Len(f[n]) + 1
    BY <1>11, <2>1
  <2>3. Len(f[n]) = Len(t)
    BY <1>2
  <2> QED
    BY <1>5, <2>2, <2>3
<1>13. d[Len(t)] = d[n]
  <2> DEFINE S == {j \in Nat : n + j <= Len(t) => d[n + j] = d[n]}
  <2>1. 0 \in S
    BY <1>3
  <2>2. ASSUME NEW j \in Nat, j \in S PROVE j + 1 \in S
    <3> SUFFICES ASSUME n + (j + 1) <= Len(t) PROVE d[n + (j + 1)] = d[n]
      OBVIOUS
    <3>1. n + (j + 1) \in 1..Len(t) /\ (n + (j + 1)) - 1 = n + j /\ n + j <= Len(t)
      BY <1>3, <1>5
    <3>2. d[n + (j + 1)] = TakeCode(d[n + j], t) /\ d[n + j] = d[n]
      BY <1>8, <2>2, <3>1
    <3> QED
      BY <1>12, <3>2 DEF TakeCode
  <2>3. Nat \subseteq S
    <3> HIDE DEF S
    <3> QED
      BY Zenon, <2>1, <2>2, SetInduction
  <2>4. Len(t) - n \in Nat /\ n + (Len(t) - n) = Len(t)
    BY <1>3, <1>5, <1>12
  <2>5. Len(t) - n \in S
    BY <2>3, <2>4
  <2> QED
    BY <2>4, <2>5
<1>14. d[n].out = s
  <2>1. n \in 0..n /\ Read(n) /\ n \in 0..Len(t)
    BY <1>3, <1>5, <1>11, <1>12
  <2>2. d[n] \in Decoding(C)
    BY <1>8, <2>1
  <2>3. d[n].out \in Seq(C)
    BY <2>2 DEF Decoding
  <2>4. Len(s) = n
    BY DEF n
  <2> QED
    BY <2>1, <2>3, <2>4
<1> QED
  BY <1>5, <1>8, <1>13, <1>14 DEF t

-----------------------------------------------------------------------------
(* Taking a URI apart, and what is written of it.                           *)

\* Where a character first stands.
LEMMA FirstIs ==
    ASSUME NEW C, NEW s \in Seq(C), NEW k \in 1..Len(s), NEW x, s[k] = x,
           \A j \in 1..(k - 1) : s[j] # x
    PROVE  /\ First(s, <<x>>) = k
           /\ Before(s, <<x>>) = SubSeq(s, 1, k - 1)
           /\ After(s, <<x>>) = SubSeq(s, k + 1, Len(s))
<1>1. \A i \in 1..Len(s) : Occurs(s, <<x>>, i) <=> s[i] = x
  <2> SUFFICES ASSUME NEW i \in 1..Len(s) PROVE Occurs(s, <<x>>, i) <=> s[i] = x
    OBVIOUS
  <2> DEFINE t == SubSeq(s, i, i)
  <2>1. /\ i \in Nat \ {0} /\ i \in Nat /\ i <= i + 1 /\ i <= Len(s) /\ (i - i) + 1 = 1 /\ (i + 1) - 1 = i
    OBVIOUS
  <2>2. t \in Seq(C) /\ Len(t) = (i - i) + 1
    BY <2>1, SliceIs
  <2>3. \A j \in 1..((i - i) + 1) : t[j] = s[(i + j) - 1]
    BY <2>1, SliceIs
  <2> HIDE DEF t
  <2>4. Len(t) = 1 /\ t[1] = s[i]
    BY <2>1, <2>2, <2>3
  <2>5. t = <<x>> <=> s[i] = x
    BY <2>2, <2>4
  <2>6. Len(<<x>>) = 1
    OBVIOUS
  <2> QED
    BY <2>1, <2>5, <2>6 DEF Occurs, t
<1>2. Len(s) \in Nat /\ DOMAIN s = 1..Len(s) /\ k \in Nat /\ Len(<<x>>) = 1
  OBVIOUS
<1>3. First(s, <<x>>) = k
  <2> DEFINE P(i) == i \in DOMAIN s /\ Occurs(s, <<x>>, i) /\ \A j \in 1..(i - 1) : ~Occurs(s, <<x>>, j)
  <2>1. P(k)
    <3>1. \A j \in 1..(k - 1) : j \in 1..Len(s)
      BY <1>2
    <3> QED
      BY <1>1, <1>2, <3>1
  <2>2. ASSUME NEW i, P(i) PROVE i = k
    <3>1. i \in 1..Len(s) /\ s[i] = x /\ \A j \in 1..(i - 1) : s[j] # x
      <4>1. i \in 1..Len(s)
        BY <1>2, <2>2
      <4>2. \A j \in 1..(i - 1) : j \in 1..Len(s)
        BY <1>2, <4>1
      <4> QED
        BY <1>1, <2>2, <4>1, <4>2
    <3>2. ~(i < k)
      <4>1. i < k => i \in 1..(k - 1)
        BY <1>2, <3>1
      <4> QED
        BY <3>1, <4>1
    <3>3. ~(k < i)
      <4>1. k < i => k \in 1..(i - 1)
        BY <1>2, <3>1
      <4> QED
        BY <3>1, <4>1
    <3> QED
      BY <1>2, <3>1, <3>2, <3>3
  <2>3. First(s, <<x>>) = CHOOSE i : P(i)
    BY DEF First
  <2> HIDE DEF P
  <2>4. (CHOOSE i : P(i)) = k
    BY Zenon, <2>1, <2>2
  <2> QED
    BY <2>3, <2>4
<1> QED
  BY <1>2, <1>3 DEF Before, After

\* A field is split at its first sign.
LEMMA FieldIs ==
    ASSUME NEW C, NEW key \in C, key # "=", "=" \in C, NEW value \in Seq(C)
    PROVE  /\ Field(key, value) \in Seq(C) /\ Len(Field(key, value)) = Len(value) + 2
           /\ Field(key, value)[1] = key /\ Field(key, value)[2] = "="
           /\ \A x \in 1..Len(value) : Field(key, value)[x + 2] = value[x]
           /\ Before(Field(key, value), <<"=">>) = <<key>>
           /\ After(Field(key, value), <<"=">>) = value
<1> DEFINE f == Field(key, value)
           a == SubSeq(f, 1, 2 - 1)
           b == SubSeq(f, 2 + 1, Len(f))
<1>1. /\ f \in Seq(C) /\ Len(f) = Len(value) + 2 /\ f[1] = key /\ f[2] = "="
      /\ \A x \in 1..Len(value) : f[x + 2] = value[x]
  <2> DEFINE u == <<key>>
  <2>1. f = AddPart(u, 2, value, "=")
    BY DEF Field, AddPart
  <2>2. f \in Seq(C)
    BY DEF Field
  <2>3. u \in Seq(C) /\ Len(u) = 1 /\ u[1] = key /\ Len(value) \in Nat
    OBVIOUS
  <2> HIDE DEF u
  <2>4. Longer(f, u, value, "=")
    <3>1. 2 \in Nat /\ 2 > 1
      OBVIOUS
    <3> QED
      BY <2>1, <2>3, <3>1, AddPartIs
  <2> HIDE DEF f
  <2>5. 1 \in 1..1
    OBVIOUS
  <2> QED
    BY <2>2, <2>3, <2>4, <2>5 DEF Longer
<1> HIDE DEF f
<1>2. Before(f, <<"=">>) = a /\ After(f, <<"=">>) = b
  <2>1. 2 \in 1..Len(f) /\ \A j \in 1..(2 - 1) : f[j] # "="
    BY <1>1
  <2> QED
    BY <1>1, <2>1, FirstIs
<1>3. a = <<key>>
  <2>1. 1 \in Nat \ {0} /\ 2 - 1 \in Nat /\ 1 <= (2 - 1) + 1 /\ 2 - 1 <= Len(f)
    BY <1>1
  <2>2. a \in Seq(C) /\ Len(a) = ((2 - 1) - 1) + 1
    BY <1>1, <2>1, SliceIs
  <2>3. \A x \in 1..(((2 - 1) - 1) + 1) : a[x] = f[(1 + x) - 1]
    BY <1>1, <2>1, SliceIs
  <2> HIDE DEF a
  <2>4. Len(a) = 1 /\ a[1] = f[1]
    BY <2>2, <2>3
  <2> QED
    BY <1>1, <2>2, <2>4
<1>4. b = value
  <2>1. 2 + 1 \in Nat \ {0} /\ Len(f) \in Nat /\ 2 + 1 <= Len(f) + 1 /\ Len(f) <= Len(f)
    BY <1>1
  <2>2. b \in Seq(C) /\ Len(b) = (Len(f) - (2 + 1)) + 1
    BY <1>1, <2>1, SliceIs
  <2>3. \A x \in 1..((Len(f) - (2 + 1)) + 1) : b[x] = f[((2 + 1) + x) - 1]
    BY <1>1, <2>1, SliceIs
  <2> HIDE DEF b
  <2>4. Len(b) = Len(value) /\ \A x \in 1..Len(value) : b[x] = value[x]
    <3>1. Len(value) \in Nat
      OBVIOUS
    <3>2. (Len(f) - (2 + 1)) + 1 = Len(value)
      BY <1>1, <3>1
    <3>3. \A x \in 1..Len(value) : ((2 + 1) + x) - 1 = x + 2
      BY <3>1
    <3> QED
      BY <1>1, <2>2, <2>3, <3>2, <3>3
  <2> QED
    BY <2>2, <2>4
<1> QED
  BY <1>1, <1>2, <1>3, <1>4 DEF f

\* The characters of a URI, and those that may follow its path.
QueryChars ==
    (Letters \cup {"-", "x", "1", "ws", "host", "herdr-remote", "://", "pair"} \cup Digits
        \cup DOMAIN Escapes \cup Keys \cup Handles \cup UNION {ToSet(o) : o \in Origins}) \ {"?"}
UriChars == QueryChars \cup {"?"}

\* Which characters these are.
LEMMA CharactersAre ==
    /\ Coded(QueryChars) /\ Coded(UriChars) /\ Letters \cup {"-"} \subseteq QueryChars
    /\ Handles \cup Keys \cup {"x", "1", "ws", "host", "="} \subseteq QueryChars
    /\ {"&", "%", ":", "/"} \cup Digits \subseteq QueryChars
    /\ {"herdr-remote", "://", "pair", "?"} \subseteq UriChars
    /\ "?" \notin QueryChars /\ "?" \notin Keys /\ "&" \notin Keys \cup {"x"} /\ "=" \notin Keys \cup {"x"}
    /\ "&" \notin Digits /\ "x" \notin Keys
<1>1. DOMAIN Escapes = {":", "/", "%", "&", "="}
  BY EscapesAre
<1>2. "?" \notin Handles
  BY HandlesArePlain
<1> QED
  BY <1>1, <1>2 DEF QueryChars, UriChars, Coded, Letters, Digits, Keys

\* An origin is a text without a query.
LEMMA OriginIs == ASSUME NEW o \in Origins PROVE o \in Seq(QueryChars) /\ IsOrigin(o)
<1> DEFINE C == ToSet(o)
           sep == <<":", "/", "/">>
           k == First(o, sep)
           n == Len(o)
<1>1. o \in Seq(C) /\ IsOrigin(o)
  BY HostAcceptsOrigins
<1>2. n \in Nat /\ DOMAIN o = 1..n
  BY <1>1
<1>3. Len(sep) = 3 /\ sep[1] = ":" /\ sep[2] = "/" /\ sep[3] = "/"
  OBVIOUS
<1> HIDE DEF C, sep, n
<1>4. k \in 1..n /\ Occurs(o, sep, k)
  <2> DEFINE T == {i \in 1..n : Occurs(o, sep, i)}
             P(i) == i \in DOMAIN o /\ Occurs(o, sep, i) /\ \A j \in 1..(i - 1) : ~Occurs(o, sep, j)
  <2>1. T \in SUBSET Nat /\ T # {}
    BY <1>1, <1>2 DEF IsOrigin, Within, sep
  <2>2. PICK m \in T : \A j \in T : m <= j
    <3> HIDE DEF T
    <3> QED
      BY <2>1, LeastNumber
  <2>3. P(m)
    <3>1. m \in 1..n /\ Occurs(o, sep, m)
      OBVIOUS
    <3>2. ASSUME NEW j \in 1..(m - 1), Occurs(o, sep, j) PROVE FALSE
      <4>1. j \in 1..n /\ j < m
        BY <1>2, <3>1
      <4>2. m <= j
        BY <2>2, <3>2, <4>1
      <4> QED
        BY <3>1, <4>1, <4>2
    <3> QED
      BY <1>2, <3>1, <3>2
  <2>4. k = CHOOSE i : P(i)
    BY DEF First
  <2> HIDE DEF k, P, T
  <2>5. P(k)
    BY Zenon, <2>3, <2>4
  <2> QED
    BY <1>2, <2>5 DEF P
<1> HIDE DEF k
<1>5. k + 3 - 1 <= n /\ SubSeq(o, k, k + 3 - 1) = sep
  BY <1>3, <1>4 DEF Occurs, n
<1>6. /\ SubSeq(o, 1, k - 1) \in {<<"http">>, <<"https">>}
      /\ {"/", "?", "#", "@"} \cap ToSet(SubSeq(o, k + 3, n)) = {}
  <2>1. /\ Before(o, sep) = SubSeq(o, 1, k - 1) /\ After(o, sep) = SubSeq(o, k + 3, n)
    BY <1>3 DEF Before, After, k, n
  <2> QED
    BY <1>1, <2>1 DEF IsOrigin, sep
<1>7. ASSUME NEW x \in 1..n, o[x] = "?" PROVE FALSE
  <2>1. CASE x < k
    <3> DEFINE t == SubSeq(o, 1, k - 1)
    <3>1. 1 \in Nat \ {0} /\ k - 1 \in Nat /\ 1 <= (k - 1) + 1 /\ k - 1 <= Len(o)
      BY <1>2, <1>4 DEF n
    <3>2. Len(t) = ((k - 1) - 1) + 1 /\ \A i \in 1..(((k - 1) - 1) + 1) : t[i] = o[(1 + i) - 1]
      BY <1>1, <3>1, SliceIs
    <3> HIDE DEF t
    <3>3. ((k - 1) - 1) + 1 = k - 1 /\ x \in 1..(k - 1) /\ (1 + x) - 1 = x
      BY <1>2, <1>4, <2>1
    <3>4. Len(t) = k - 1 /\ t[x] = "?"
      BY <1>7, <3>2, <3>3
    <3>5. t \in {<<"http">>, <<"https">>}
      BY <1>6 DEF t
    <3>6. \A u \in {<<"http">>, <<"https">>} : Len(u) = 1 /\ u[1] # "?"
      OBVIOUS
    <3>7. x = 1
      BY <3>3, <3>4, <3>5, <3>6
    <3> QED
      BY <3>4, <3>5, <3>6, <3>7
  <2>2. CASE k <= x /\ x <= k + 2
    <3> DEFINE t == SubSeq(o, k, k + 3 - 1)
               i == (x - k) + 1
    <3>1. k \in Nat \ {0} /\ k + 3 - 1 \in Nat /\ k <= (k + 3 - 1) + 1 /\ k + 3 - 1 <= Len(o)
      BY <1>2, <1>4, <1>5 DEF n
    <3>2. \A j \in 1..(((k + 3 - 1) - k) + 1) : t[j] = o[(k + j) - 1]
      BY <1>1, <3>1, SliceIs
    <3>3. i \in 1..(((k + 3 - 1) - k) + 1) /\ (k + i) - 1 = x /\ i \in 1..3
      BY <1>2, <1>4, <2>2
    <3> HIDE DEF i, t
    <3>4. t[i] = "?"
      BY <1>7, <3>2, <3>3
    <3>5. t = sep
      BY <1>5 DEF t
    <3>6. i = 1 \/ i = 2 \/ i = 3
      BY <3>3
    <3> QED
      BY <1>3, <3>4, <3>5, <3>6
  <2>3. CASE k + 3 <= x
    <3> DEFINE t == SubSeq(o, k + 3, n)
               i == (x - (k + 3)) + 1
    <3>1. k + 3 \in Nat \ {0} /\ n \in Nat /\ k + 3 <= n + 1 /\ n <= Len(o)
      BY <1>2, <1>4, <1>5 DEF n
    <3>2. /\ t \in Seq(C) /\ Len(t) = (n - (k + 3)) + 1
          /\ \A j \in 1..((n - (k + 3)) + 1) : t[j] = o[((k + 3) + j) - 1]
      BY <1>1, <3>1, SliceIs
    <3>3. i \in 1..((n - (k + 3)) + 1) /\ ((k + 3) + i) - 1 = x
      BY <1>2, <1>4, <2>3
    <3> HIDE DEF i, t
    <3>4. t[i] = "?" /\ i \in DOMAIN t
      BY <1>7, <3>2, <3>3
    <3>5. "?" \in ToSet(t)
      BY <3>4 DEF ToSet
    <3> QED
      BY <1>6, <3>5 DEF t
  <2> QED
    BY <1>2, <1>4, <2>1, <2>2, <2>3
<1>8. \A x \in 1..n : o[x] \in QueryChars
  <2> SUFFICES ASSUME NEW x \in 1..n PROVE o[x] \in QueryChars
    OBVIOUS
  <2>1. o[x] \in ToSet(o)
    BY <1>2 DEF ToSet
  <2>2. o[x] # "?"
    BY <1>7
  <2> QED
    BY <2>1, <2>2 DEF QueryChars
<1> QED
  BY <1>1, <1>2, <1>8 DEF n

\* What is escaped has no separator left.
LEMMA EscapedIsPlain ==
    ASSUME NEW s \in Seq(QueryChars)
    PROVE  /\ PercentEncode(s) \in Seq(QueryChars \ {"&"}) /\ PercentDecode(PercentEncode(s)) = s
<1> DEFINE C == QueryChars \ {"&", "=", ":", "/"}
<1>1. Digits \cup {"%"} \subseteq C
  BY CharactersAre DEF Digits
<1>2. s \in Seq(C \cup DOMAIN Escapes)
  <2>1. QueryChars \subseteq C \cup DOMAIN Escapes
    BY EscapesAre
  <2> HIDE DEF C
  <2> QED
    BY <2>1
<1>3. PercentEncode(s) \in Seq(C)
  <2> HIDE DEF C
  <2> QED
    BY <1>1, <1>2, EncodeIs
<1>4. PercentEncode(s) \in Seq(QueryChars \ {"&"})
  BY <1>3
<1> QED
  BY <1>4, CharactersAre, DecodedIsEncoded

\* A cut of whole parts has its next place where the text has its next separator.
LEMMA NextPlace ==
    ASSUME NEW n \in Nat, NEW s, NEW sep, NEW p, NEW c, NEW q, NEW d,
           Len(p) \in Nat, Len(q) \in Nat, Whole(q, sep),
           Cut(s, n, p, c, sep), Cut(s, n, q, d, sep),
           NEW j \in Nat, j < Len(p), j < Len(q), c[j] = d[j]
    PROVE  ~(c[j + 1] < d[j + 1])
<1> SUFFICES ASSUME c[j + 1] < d[j + 1] PROVE FALSE
  OBVIOUS
<1> DEFINE i == j + 1
           x == c[i] - d[j]
<1>1. /\ i \in 1..Len(p) /\ i \in 1..Len(q) /\ i - 1 = j /\ j \in 0..Len(p) /\ j \in 0..Len(q)
      /\ i \in 0..Len(p) /\ i \in 0..Len(q)
  OBVIOUS
<1>2. /\ c[i] \in 0..(n + 1) /\ c[j] \in 0..(n + 1) /\ d[i] \in 0..(n + 1) /\ d[j] \in 0..(n + 1)
      /\ c[j] < c[i] /\ Between(s, q[i], d[j], d[i]) /\ c[Len(p)] = n + 1
  BY <1>1 DEF Cut
<1>3. c[i] # n + 1
  BY <1>2
<1>4. s[c[i]] = sep
  <2>1. i # Len(p)
    BY <1>2, <1>3
  <2>2. i \in 1..(Len(p) - 1)
    BY <1>1, <2>1
  <2> QED
    BY <2>2 DEF Cut
<1>5. x \in 1..Len(q[i]) /\ d[j] + x = c[i]
  <2>1. Len(q[i]) = d[i] - d[j] - 1
    BY <1>2 DEF Between
  <2>2. c[i] \in Int /\ d[j] \in Int /\ d[i] \in Int /\ d[j] < c[i] /\ c[i] < d[i]
    BY <1>2
  <2> QED
    BY <2>1, <2>2
<1> HIDE DEF x
<1>6. q[i][x] = s[c[i]]
  BY <1>2, <1>5 DEF Between
<1> QED
  BY <1>1, <1>4, <1>5, <1>6 DEF Whole

\* A text has one cut into whole parts.
LEMMA CutIsOne ==
    ASSUME NEW C, NEW p \in Seq(Seq(C)), NEW q \in Seq(Seq(C)), NEW s \in Seq(C), NEW sep,
           Whole(p, sep), Whole(q, sep),
           NEW c, Cut(s, Len(s), p, c, sep), NEW d, Cut(s, Len(s), q, d, sep)
    PROVE  p = q
<1> DEFINE n == Len(s)
           S == {j \in Nat : j <= Len(p) /\ j <= Len(q) => c[j] = d[j]}
<1>1. n \in Nat /\ Len(p) \in Nat /\ Len(q) \in Nat
  OBVIOUS
<1> HIDE DEF n
<1>2. Cut(s, n, p, c, sep) /\ Cut(s, n, q, d, sep)
  BY DEF n
<1>3. 0 \in S
  BY <1>2 DEF Cut
<1>4. ASSUME NEW j \in Nat, j \in S PROVE j + 1 \in S
  <2> SUFFICES ASSUME j + 1 <= Len(p), j + 1 <= Len(q) PROVE c[j + 1] = d[j + 1]
    OBVIOUS
  <2>1. j < Len(p) /\ j < Len(q) /\ c[j] = d[j]
    BY <1>1, <1>4
  <2>2. ~(c[j + 1] < d[j + 1]) /\ ~(d[j + 1] < c[j + 1])
    BY <1>1, <1>2, <2>1, NextPlace
  <2>3. c[j + 1] \in 0..(n + 1) /\ d[j + 1] \in 0..(n + 1)
    <3>1. j + 1 \in 0..Len(p) /\ j + 1 \in 0..Len(q)
      BY <1>1
    <3> QED
      BY <1>2, <3>1 DEF Cut
  <2> QED
    BY <1>1, <2>2, <2>3
<1>5. Nat \subseteq S
  <2> HIDE DEF S
  <2> QED
    BY Zenon, <1>3, <1>4, SetInduction
<1>6. Len(p) = Len(q)
  <2>1. \A j \in Nat : j <= Len(p) /\ j <= Len(q) => c[j] = d[j]
    BY <1>5
  <2>2. ~(Len(p) < Len(q))
    <3> SUFFICES ASSUME Len(p) < Len(q) PROVE FALSE
      OBVIOUS
    <3>1. d[Len(p)] = n + 1 /\ d[Len(p) + 1] \in 0..(n + 1)
      <4>1. Len(p) + 1 \in 0..Len(q)
        BY <1>1
      <4> QED
        BY <1>1, <1>2, <2>1, <4>1 DEF Cut
    <3>2. d[Len(p)] < d[Len(p) + 1]
      <4>1. Len(p) + 1 \in 1..Len(q) /\ (Len(p) + 1) - 1 = Len(p)
        BY <1>1
      <4> QED
        BY <1>2, <4>1 DEF Cut
    <3> QED
      BY <1>1, <3>1, <3>2
  <2>3. ~(Len(q) < Len(p))
    <3> SUFFICES ASSUME Len(q) < Len(p) PROVE FALSE
      OBVIOUS
    <3>1. c[Len(q)] = n + 1 /\ c[Len(q) + 1] \in 0..(n + 1)
      <4>1. Len(q) + 1 \in 0..Len(p)
        BY <1>1
      <4> QED
        BY <1>1, <1>2, <2>1, <4>1 DEF Cut
    <3>2. c[Len(q)] < c[Len(q) + 1]
      <4>1. Len(q) + 1 \in 1..Len(p) /\ (Len(q) + 1) - 1 = Len(q)
        BY <1>1
      <4> QED
        BY <1>2, <4>1 DEF Cut
    <3> QED
      BY <1>1, <3>1, <3>2
  <2> QED
    BY <1>1, <2>2, <2>3
<1>7. ASSUME NEW j \in 1..Len(p) PROVE p[j] = q[j]
  <2>1. j \in Nat /\ j - 1 \in Nat /\ j <= Len(p) /\ j <= Len(q) /\ j - 1 <= Len(p) /\ j - 1 <= Len(q)
        /\ j \in 1..Len(q)
    BY <1>1, <1>6
  <2>2. c[j] = d[j] /\ c[j - 1] = d[j - 1]
    BY <1>5, <2>1
  <2>3. Between(s, p[j], c[j - 1], c[j]) /\ Between(s, q[j], d[j - 1], d[j])
    BY <1>2, <2>1 DEF Cut
  <2>4. p[j] \in Seq(C) /\ q[j] \in Seq(C)
    BY <2>1
  <2> QED
    BY <2>2, <2>3, <2>4, BetweenIsOne
<1> DEFINE B == Seq(C)
<1>8. p \in Seq(B) /\ q \in Seq(B)
  OBVIOUS
<1>9. Len(p) = Len(q) /\ \A j \in 1..Len(p) : p[j] = q[j]
  BY <1>6, <1>7
<1> HIDE DEF B
<1> QED
  BY Zenon, <1>8, <1>9, SeqEqual

\* What was joined is split into the same parts.
LEMMA JoinedIsSplit ==
    ASSUME NEW C, NEW q \in Seq(Seq(C)), q # <<>>, NEW sep \in C, Whole(q, sep)
    PROVE  Join(q, sep) \in Seq(C) /\ SplitOn(Join(q, sep), sep) = q
<1> DEFINE s == Join(q, sep)
           p == SplitOn(s, sep)
<1>1. s \in Seq(C) /\ \E d : Cut(s, Len(s), q, d, sep)
  BY JoinIsACut
<1> HIDE DEF s
<1>2. p \in Seq(Seq(C)) /\ Whole(p, sep) /\ \E c : Cut(s, Len(s), p, c, sep)
  BY <1>1, SplitIsACut DEF SplitAt, PartSeqs
<1> HIDE DEF p
<1>3. p = q
  BY <1>1, <1>2, CutIsOne
<1> QED
  BY <1>1, <1>3 DEF s, p

-----------------------------------------------------------------------------
(* Fields.                                                                  *)

Names == Keys \cup {"x"}

\* What the field of each name says in the URI of a pairing.
Said(o, h, K) ==
    [key \in Names |-> IF key = "r" THEN PercentEncode(o) ELSE IF key = "h" THEN <<h>>
                       ELSE IF key = "p" THEN K ELSE <<"1">>]

\* The fields q have the names ks, each of the four once, and say it.
Lists(q, ks, said) ==
    /\ ks \in Seq(Names) /\ Len(q) = Len(ks)
    /\ \A i \in 1..Len(ks) : q[i] = Field(ks[i], said[ks[i]])
    /\ \A key \in Keys : \E i \in 1..Len(ks) : ks[i] = key /\ \A j \in 1..Len(ks) : ks[j] = key => j = i

Pairing(o, h, K) == o \in Origins /\ h \in Handles /\ K \in Seq(Letters \cup {"-"})

\* What a field says has no field's end in it.
LEMMA SaidIs ==
    ASSUME NEW o, NEW h, NEW K, Pairing(o, h, K), NEW key \in Names
    PROVE  Said(o, h, K)[key] \in Seq(QueryChars \ {"&"})
<1>1. PercentEncode(o) \in Seq(QueryChars \ {"&"})
  BY OriginIs, EscapedIsPlain DEF Pairing
<1>2. "1" \in QueryChars \ {"&"} /\ h \in QueryChars \ {"&"} /\ Letters \cup {"-"} \subseteq QueryChars \ {"&"}
  BY CharactersAre, HandlesArePlain DEF Pairing, Letters
<1>3. K \in Seq(QueryChars \ {"&"})
  BY <1>2 DEF Pairing
<1>4. <<"1">> \in Seq(QueryChars \ {"&"}) /\ <<h>> \in Seq(QueryChars \ {"&"})
  BY <1>2
<1> QED
  BY <1>1, <1>3, <1>4 DEF Said

\* A field of a name says it.
LEMMA NamedField ==
    ASSUME NEW o, NEW h, NEW K, Pairing(o, h, K), NEW key \in Names
    PROVE  LET f == Field(key, Said(o, h, K)[key]) IN
           /\ f \in Seq(QueryChars \ {"&"}) /\ Len(f) = Len(Said(o, h, K)[key]) + 2
           /\ f[1] = key /\ f[2] = "="
           /\ Before(f, <<"=">>) = <<key>> /\ After(f, <<"=">>) = Said(o, h, K)[key]
<1> DEFINE E == QueryChars \ {"&"}
           v == Said(o, h, K)[key]
           f == Field(key, v)
<1>1. key \in E /\ key # "=" /\ "=" \in E
  BY CharactersAre DEF Names
<1>2. v \in Seq(E)
  BY SaidIs
<1> HIDE DEF v, E
<1>3. /\ f \in Seq(E) /\ Len(f) = Len(v) + 2 /\ f[1] = key /\ f[2] = "="
      /\ Before(f, <<"=">>) = <<key>> /\ After(f, <<"=">>) = v
  BY <1>1, <1>2, FieldIs
<1> QED
  BY <1>3 DEF v, E

\* A listed field is named by its name, says what is said, and is whole.
LEMMA ListedAreFields ==
    ASSUME NEW o, NEW h, NEW K, Pairing(o, h, K), NEW ks, NEW q \in Seq(Seq(QueryChars)),
           Lists(q, ks, Said(o, h, K))
    PROVE  /\ q # <<>> /\ Whole(q, "&") /\ DOMAIN q = 1..Len(ks) /\ Len(ks) \in Nat
           /\ \A i \in 1..Len(ks) :
                 /\ Contains(q[i], "=") /\ ks[i] \in Names
                 /\ Before(q[i], <<"=">>) = <<ks[i]>> /\ After(q[i], <<"=">>) = Said(o, h, K)[ks[i]]
<1>1. ks \in Seq(Names) /\ Len(q) = Len(ks) /\ Len(ks) \in Nat
  BY DEF Lists
<1>2. ASSUME NEW i \in 1..Len(ks)
      PROVE  /\ q[i] \in Seq(QueryChars \ {"&"}) /\ Contains(q[i], "=") /\ ks[i] \in Names
             /\ Before(q[i], <<"=">>) = <<ks[i]>> /\ After(q[i], <<"=">>) = Said(o, h, K)[ks[i]]
  <2> DEFINE key == ks[i]
             f == q[i]
             v == Said(o, h, K)[key]
  <2>1. key \in Names /\ f = Field(key, v)
    BY <1>1, <1>2 DEF Lists
  <2>2. v \in Seq(QueryChars \ {"&"})
    BY <2>1, SaidIs
  <2> HIDE DEF key, f
  <2>3. /\ f \in Seq(QueryChars \ {"&"}) /\ Len(f) = Len(v) + 2 /\ f[2] = "="
        /\ Before(f, <<"=">>) = <<key>> /\ After(f, <<"=">>) = v
    BY <2>1, NamedField
  <2>4. 2 \in 1..Len(f)
    BY <2>2, <2>3
  <2>5. Contains(f, "=")
    BY <2>3, <2>4 DEF Contains
  <2> QED
    BY <2>1, <2>3, <2>5 DEF key, f
<1>3. q # <<>>
  <2>1. "v" \in Keys
    BY DEF Keys
  <2> QED
    BY <1>1, <2>1 DEF Lists
<1>4. Whole(q, "&")
  <2> SUFFICES ASSUME NEW j \in 1..Len(q), NEW x \in 1..Len(q[j]) PROVE q[j][x] # "&"
    BY DEF Whole
  <2>1. q[j] \in Seq(QueryChars \ {"&"})
    BY <1>1, <1>2
  <2> QED
    BY <2>1
<1> QED
  BY <1>1, <1>2, <1>3, <1>4

\* Where each name is, and what it says.
LEMMA ListedNames ==
    ASSUME NEW o, NEW h, NEW K, Pairing(o, h, K), NEW ks, NEW q \in Seq(Seq(QueryChars)),
           Lists(q, ks, Said(o, h, K)), NEW key \in Keys
    PROVE  /\ Named(q, key) # {} /\ \A i, j \in Named(q, key) : i = j
           /\ Value(q, key) = Said(o, h, K)[key]
<1>1. PICK i \in 1..Len(ks) : ks[i] = key /\ \A j \in 1..Len(ks) : ks[j] = key => j = i
  BY DEF Lists
<1>2. DOMAIN q = 1..Len(ks)
  BY ListedAreFields
<1>3. \A j \in 1..Len(ks) : Before(q[j], <<"=">>) = <<ks[j]>> /\ After(q[j], <<"=">>) = Said(o, h, K)[ks[j]]
  BY ListedAreFields
<1>4. \A a : <<a>> = <<key>> => a = key
  OBVIOUS
<1>5. Named(q, key) = {i}
  BY <1>1, <1>2, <1>3, <1>4 DEF Named
<1>6. (CHOOSE j \in Named(q, key) : TRUE) = i
  BY <1>5
<1> QED
  BY <1>1, <1>3, <1>5, <1>6 DEF Value

\* Fields that list a pairing are read as that pairing.
LEMMA ListedIsRead ==
    ASSUME NEW o, NEW h, NEW K, Pairing(o, h, K), NEW ks, NEW q \in Seq(Seq(QueryChars)),
           Lists(q, ks, Said(o, h, K))
    PROVE  ParseQuery(q) = [ok |-> TRUE, origin |-> o, handle |-> h, phrase |-> K]
<1> DEFINE lacks == {key \in Keys : Named(q, key) = {}}
           said == Said(o, h, K)
<1>1. lacks = {} /\ ~Repeated(q)
  BY ListedNames DEF Repeated
<1>2. /\ Value(q, "v") = said["v"] /\ Value(q, "r") = said["r"]
      /\ Value(q, "h") = said["h"] /\ Value(q, "p") = said["p"]
  <2>1. "v" \in Keys /\ "r" \in Keys /\ "h" \in Keys /\ "p" \in Keys
    BY DEF Keys
  <2> QED
    BY <2>1, ListedNames
<1>3. said["v"] = <<"1">> /\ said["r"] = PercentEncode(o) /\ said["h"] = <<h>> /\ said["p"] = K
  BY DEF Said, Names, Keys
<1>4. PercentDecode(PercentEncode(o)) = o /\ IsOrigin(o)
  BY OriginIs, EscapedIsPlain DEF Pairing
<1>5. <<h>> \in {<<x>> : x \in Handles} /\ <<h>>[1] = h
  BY DEF Pairing
<1> HIDE DEF said
<1>6. /\ Value(q, "v") = <<"1">> /\ PercentDecode(Value(q, "r")) = o
      /\ Value(q, "h") = <<h>> /\ Value(q, "p") = K
  BY <1>2, <1>3, <1>4
<1> QED
  BY <1>1, <1>4, <1>5, <1>6 DEF ParseQuery

\* The start of a URI, and what comes after it.
LEMMA UriIs ==
    ASSUME NEW Q \in Seq(QueryChars)
    PROVE  LET t == Prefix \o Q IN
           /\ t \in Seq(UriChars) /\ Len(t) = Len(Q) + 4
           /\ t[1] = "herdr-remote" /\ t[2] = "://" /\ t[3] = "pair" /\ t[4] = "?"
           /\ \A x \in 1..Len(Q) : t[x + 4] = Q[x]
<1> DEFINE C == UriChars
           t == Prefix \o Q
<1>1. Q \in Seq(C)
  BY DEF UriChars
<1>2. /\ Prefix \in Seq(C) /\ Len(Prefix) = 4
      /\ Prefix[1] = "herdr-remote" /\ Prefix[2] = "://" /\ Prefix[3] = "pair" /\ Prefix[4] = "?"
  BY CharactersAre DEF Prefix
<1> HIDE DEF C
<1>3. /\ t \in Seq(C) /\ Len(t) = Len(Prefix) + Len(Q)
      /\ \A x \in 1..(Len(Prefix) + Len(Q)) :
            t[x] = IF x <= Len(Prefix) THEN Prefix[x] ELSE Q[x - Len(Prefix)]
  BY <1>1, <1>2, ConcatProperties
<1>4. Len(Q) \in Nat
  BY <1>1
<1> HIDE DEF t
<1>5. t[1] = Prefix[1] /\ t[2] = Prefix[2] /\ t[3] = Prefix[3] /\ t[4] = Prefix[4]
  BY <1>2, <1>3, <1>4
<1>6. ASSUME NEW x \in 1..Len(Q) PROVE t[x + 4] = Q[x]
  <2>1. x + 4 \in 1..(4 + Len(Q)) /\ ~(x + 4 <= 4) /\ (x + 4) - 4 = x
    BY <1>4
  <2> QED
    BY <1>2, <1>3, <2>1
<1> QED
  BY <1>2, <1>3, <1>4, <1>5, <1>6 DEF t, C

\* A URI that begins as it should is split at the end of its path.
LEMMA BeginsRight ==
    ASSUME NEW t \in Seq(UriChars), Len(t) >= 4,
           t[1] = "herdr-remote", t[2] = "://", t[3] = "pair", t[4] = "?"
    PROVE  /\ IsPrefix(SubSeq(Prefix, 1, 2), t) /\ IsPrefix(Prefix, t) /\ Contains(t, "?")
           /\ Before(t, <<"?">>) = SubSeq(Prefix, 1, 3)
           /\ After(t, <<"?">>) = SubSeq(t, 5, Len(t))
<1> DEFINE C == UriChars
<1>1. /\ Prefix \in Seq(C) /\ Len(Prefix) = 4
      /\ Prefix[1] = "herdr-remote" /\ Prefix[2] = "://" /\ Prefix[3] = "pair" /\ Prefix[4] = "?"
  BY CharactersAre DEF Prefix
<1>2. t \in Seq(C) /\ Len(t) \in Nat /\ 4 \in 1..Len(t)
  OBVIOUS
<1> HIDE DEF C
<1>3. \A k \in 1..4 : /\ SubSeq(Prefix, 1, k) = SubSeq(t, 1, k) /\ Len(SubSeq(Prefix, 1, k)) = k
                      /\ SubSeq(Prefix, 1, k) \in Seq(C)
  <2> SUFFICES ASSUME NEW k \in 1..4
               PROVE  /\ SubSeq(Prefix, 1, k) = SubSeq(t, 1, k) /\ Len(SubSeq(Prefix, 1, k)) = k
                      /\ SubSeq(Prefix, 1, k) \in Seq(C)
    BY Zenon
  <2> DEFINE a == SubSeq(Prefix, 1, k)
             b == SubSeq(t, 1, k)
  <2>1. 1 \in Nat \ {0} /\ k \in Nat /\ 1 <= k + 1 /\ k <= Len(Prefix) /\ k <= Len(t) /\ (k - 1) + 1 = k
    BY <1>1, <1>2
  <2>2. a \in Seq(C) /\ Len(a) = (k - 1) + 1 /\ \A x \in 1..((k - 1) + 1) : a[x] = Prefix[(1 + x) - 1]
    BY <1>1, <2>1, SliceIs
  <2>3. b \in Seq(C) /\ Len(b) = (k - 1) + 1 /\ \A x \in 1..((k - 1) + 1) : b[x] = t[(1 + x) - 1]
    BY <1>2, <2>1, SliceIs
  <2> HIDE DEF a, b
  <2>4. \A x \in 1..k : (1 + x) - 1 = x /\ Prefix[x] = t[x]
    <3>1. \A x \in 1..k : (1 + x) - 1 = x /\ (x = 1 \/ x = 2 \/ x = 3 \/ x = 4)
      OBVIOUS
    <3> QED
      BY <1>1, <3>1
  <2>5. Len(a) = k /\ Len(b) = k /\ \A x \in 1..k : a[x] = b[x]
    BY <2>1, <2>2, <2>3, <2>4
  <2>6. a = b
    BY <2>2, <2>3, <2>5
  <2> QED
    BY <2>2, <2>5, <2>6 DEF a, b
<1>4. IsPrefix(SubSeq(Prefix, 1, 2), t)
  <2> DEFINE a == SubSeq(Prefix, 1, 2)
  <2>1. 2 \in 1..4
    OBVIOUS
  <2>2. a = SubSeq(t, 1, 2) /\ Len(a) = 2 /\ a \in Seq(C)
    BY <1>3, <2>1
  <2> HIDE DEF a
  <2>3. SubSeq(a, 1, Len(a)) = a
    BY <2>2, SubSeqFull
  <2>4. IsPrefix(a, t)
    BY <1>2, <2>2, <2>3 DEF IsPrefix
  <2> QED
    BY <2>4 DEF a
<1>5. IsPrefix(Prefix, t)
  <2>1. SubSeq(Prefix, 1, 4) = SubSeq(t, 1, 4)
    BY <1>3
  <2> QED
    BY <1>1, <1>2, <2>1 DEF IsPrefix
<1>6. Contains(t, "?")
  BY <1>2 DEF Contains
<1>7. Before(t, <<"?">>) = SubSeq(t, 1, 4 - 1) /\ After(t, <<"?">>) = SubSeq(t, 4 + 1, Len(t))
  <2>1. \A j \in 1..(4 - 1) : t[j] # "?"
    <3>1. \A j \in 1..(4 - 1) : j = 1 \/ j = 2 \/ j = 3
      OBVIOUS
    <3> QED
      BY <3>1
  <2> QED
    BY <1>2, <2>1, FirstIs
<1>8. SubSeq(Prefix, 1, 3) = SubSeq(t, 1, 3) /\ 4 - 1 = 3 /\ 4 + 1 = 5
  BY <1>3
<1> QED
  BY <1>4, <1>5, <1>6, <1>7, <1>8

\* What was joined is a text.
LEMMA JoinType ==
    ASSUME NEW C, NEW q \in Seq(Seq(C)), NEW sep \in C PROVE Join(q, sep) \in Seq(C)
<1>1. PICK f \in [0..Len(q) -> Seq(C)] : Join(q, sep) = f[Len(q)]
  BY JoinIs
<1>2. Len(q) \in 0..Len(q)
  OBVIOUS
<1> QED
  BY <1>1, <1>2

\* A URI is split at the end of its path.
LEMMA QueryIs ==
    ASSUME NEW Q \in Seq(QueryChars)
    PROVE  /\ IsPrefix(SubSeq(Prefix, 1, 2), Prefix \o Q) /\ IsPrefix(Prefix, Prefix \o Q)
           /\ Contains(Prefix \o Q, "?") /\ Before(Prefix \o Q, <<"?">>) = SubSeq(Prefix, 1, 3)
           /\ After(Prefix \o Q, <<"?">>) = Q /\ SubSeq(Prefix \o Q, 5, Len(Prefix \o Q)) = Q
<1> DEFINE t == Prefix \o Q
           b == SubSeq(t, 5, Len(t))
<1>1. /\ t \in Seq(UriChars) /\ Len(t) = Len(Q) + 4
      /\ t[1] = "herdr-remote" /\ t[2] = "://" /\ t[3] = "pair" /\ t[4] = "?"
      /\ \A x \in 1..Len(Q) : t[x + 4] = Q[x]
  BY UriIs
<1>2. Len(Q) \in Nat /\ Q \in Seq(UriChars)
  BY DEF UriChars
<1> HIDE DEF t
<1>3. Len(t) >= 4 /\ Len(t) \in Nat
  BY <1>1, <1>2
<1>4. /\ IsPrefix(SubSeq(Prefix, 1, 2), t) /\ IsPrefix(Prefix, t) /\ Contains(t, "?")
      /\ Before(t, <<"?">>) = SubSeq(Prefix, 1, 3) /\ After(t, <<"?">>) = b
  BY <1>1, <1>3, BeginsRight
<1>5. b = Q
  <2>1. 5 \in Nat \ {0} /\ 5 <= Len(t) + 1 /\ Len(t) <= Len(t) /\ (Len(t) - 5) + 1 = Len(Q)
    BY <1>1, <1>2
  <2>2. b \in Seq(UriChars) /\ Len(b) = (Len(t) - 5) + 1
    BY <1>1, <1>3, <2>1, SliceIs
  <2>3. \A x \in 1..((Len(t) - 5) + 1) : b[x] = t[(5 + x) - 1]
    BY <1>1, <1>3, <2>1, SliceIs
  <2> HIDE DEF b
  <2>4. \A x \in 1..Len(Q) : (5 + x) - 1 = x + 4
    BY <1>2
  <2>5. Len(b) = Len(Q) /\ \A x \in 1..Len(b) : b[x] = Q[x]
    BY <1>1, <2>1, <2>2, <2>3, <2>4
  <2> QED
    BY <1>2, <2>2, <2>5
<1> HIDE DEF b
<1>6. After(t, <<"?">>) = Q /\ SubSeq(t, 5, Len(t)) = Q
  BY <1>4, <1>5 DEF b
<1> QED
  BY <1>4, <1>6 DEF t

\* Fields that list a pairing make a URI that is read as that pairing.
LEMMA ListedParses ==
    ASSUME NEW o, NEW h, NEW K, Pairing(o, h, K), NEW ks, NEW q \in Seq(Seq(QueryChars)),
           Lists(q, ks, Said(o, h, K)), ~(Len(Prefix \o Join(q, "&")) > MaxLen)
    PROVE  ParseUri(Prefix \o Join(q, "&")) = [ok |-> TRUE, origin |-> o, handle |-> h, phrase |-> K]
<1> DEFINE Q == Join(q, "&")
           t == Prefix \o Q
<1>1. "&" \in QueryChars
  BY CharactersAre
<1>2. /\ q # <<>> /\ Whole(q, "&") /\ DOMAIN q = 1..Len(ks)
      /\ \A i \in 1..Len(ks) : Contains(q[i], "=")
  BY ListedAreFields
<1>3. Q \in Seq(QueryChars) /\ SplitOn(Q, "&") = q
  BY <1>1, <1>2, JoinedIsSplit
<1> HIDE DEF Q
<1>4. /\ IsPrefix(SubSeq(Prefix, 1, 2), t) /\ Contains(t, "?")
      /\ Before(t, <<"?">>) = SubSeq(Prefix, 1, 3) /\ After(t, <<"?">>) = Q
  BY <1>3, QueryIs
<1>5. ~(Len(t) > MaxLen)
  BY DEF Q
<1>6. ~\E f \in ToSet(q) : ~Contains(f, "=")
  BY <1>2 DEF ToSet
<1> HIDE DEF t
<1>7. ParseUri(t) = ParseQuery(q)
  BY <1>3, <1>4, <1>5, <1>6 DEF ParseUri
<1> QED
  BY <1>7, ListedIsRead DEF t, Q

\* What a session shows lists its pairing.
LEMMA BuiltIsListed ==
    ASSUME NEW o, NEW h, NEW K, Pairing(o, h, K)
    PROVE  \E ks, q : /\ q \in Seq(Seq(QueryChars)) /\ Lists(q, ks, Said(o, h, K))
                      /\ Build([origin |-> o, handle |-> h, phrase |-> K]) = Prefix \o Join(q, "&")
<1> DEFINE said == Said(o, h, K)
           ks == <<"v", "r", "h", "p">>
           q == <<Field("v", <<"1">>), Field("r", PercentEncode(o)), Field("h", <<h>>), Field("p", K)>>
<1>1. Names = {"v", "r", "h", "p", "x"} /\ Keys = {"v", "r", "h", "p"}
  BY DEF Names, Keys
<1>2. said["v"] = <<"1">> /\ said["r"] = PercentEncode(o) /\ said["h"] = <<h>> /\ said["p"] = K
  BY DEF Said, Names, Keys
<1> HIDE DEF said
<1>3. q = <<Field("v", said["v"]), Field("r", said["r"]), Field("h", said["h"]), Field("p", said["p"])>>
  BY <1>2
<1>4. \A key \in Names : Field(key, said[key]) \in Seq(QueryChars)
  <2>1. \A key \in Names : Field(key, said[key]) \in Seq(QueryChars \ {"&"})
    BY NamedField DEF said
  <2> QED
    BY <2>1
<1> HIDE DEF q
<1>5. /\ q \in Seq(Seq(QueryChars)) /\ Len(q) = 4
      /\ q[1] = Field("v", said["v"]) /\ q[2] = Field("r", said["r"])
      /\ q[3] = Field("h", said["h"]) /\ q[4] = Field("p", said["p"])
  <2> DEFINE a == Field("v", said["v"])
             b == Field("r", said["r"])
             c == Field("h", said["h"])
             d == Field("p", said["p"])
  <2>1. a \in Seq(QueryChars) /\ b \in Seq(QueryChars) /\ c \in Seq(QueryChars) /\ d \in Seq(QueryChars)
    BY <1>1, <1>4
  <2>2. q = <<a, b, c, d>>
    BY <1>3
  <2> HIDE DEF a, b, c, d
  <2>3. /\ q \in Seq(Seq(QueryChars)) /\ Len(q) = 4
        /\ q[1] = a /\ q[2] = b /\ q[3] = c /\ q[4] = d
    BY <2>1, <2>2
  <2> QED
    BY <2>3 DEF a, b, c, d
<1>6. ks \in Seq(Names) /\ Len(ks) = 4 /\ ks[1] = "v" /\ ks[2] = "r" /\ ks[3] = "h" /\ ks[4] = "p"
  BY <1>1
<1> HIDE DEF ks
<1>7. \A i \in 1..4 : i = 1 \/ i = 2 \/ i = 3 \/ i = 4
  OBVIOUS
<1>8. \A key \in Keys : \E i \in 1..Len(ks) : ks[i] = key /\ \A j \in 1..Len(ks) : ks[j] = key => j = i
  BY <1>1, <1>6, <1>7
<1>9. \A i \in 1..Len(ks) : q[i] = Field(ks[i], said[ks[i]])
  BY <1>5, <1>6, <1>7
<1>10. Lists(q, ks, said)
  BY <1>5, <1>6, <1>8, <1>9 DEF Lists
<1>11. Build([origin |-> o, handle |-> h, phrase |-> K]) = Prefix \o Join(q, "&")
  BY DEF Build, q
<1> QED
  BY <1>5, <1>10, <1>11 DEF said

\* Where the fields end in a query.
LEMMA JoinEnds ==
    ASSUME NEW q \in Seq(Seq(QueryChars)), q # <<>>
    PROVE  \E c : /\ c[0] = 0 /\ c[Len(q)] = Len(Join(q, "&")) + 1
                  /\ \A i \in 0..Len(q) : c[i] \in Nat
                  /\ \A i \in 1..Len(q) : c[i] = c[i - 1] + Len(q[i]) + 1
<1> DEFINE s == Join(q, "&")
<1>1. "&" \in QueryChars
  BY CharactersAre
<1>2. PICK c : Cut(s, Len(s), q, c, "&")
  BY <1>1, JoinIsACut
<1>3. s \in Seq(QueryChars)
  BY <1>1, JoinType
<1> HIDE DEF s
<1>4. Len(s) \in Nat /\ Len(q) \in Nat
  BY <1>3
<1>5. c[0] = 0 /\ c[Len(q)] = Len(s) + 1 /\ \A i \in 0..Len(q) : c[i] \in Nat
  <2>1. c[0] = 0 /\ c[Len(q)] = Len(s) + 1 /\ \A i \in 0..Len(q) : c[i] \in 0..(Len(s) + 1)
    BY <1>2 DEF Cut
  <2>2. \A x \in 0..(Len(s) + 1) : x \in Nat
    BY <1>4
  <2> QED
    BY <2>1, <2>2
<1>6. ASSUME NEW i \in 1..Len(q) PROVE c[i] = c[i - 1] + Len(q[i]) + 1
  <2>1. Len(q[i]) = c[i] - c[i - 1] - 1
    BY <1>2 DEF Cut, Between
  <2>2. c[i] \in Nat /\ c[i - 1] \in Nat
    <3>1. i \in 0..Len(q) /\ i - 1 \in 0..Len(q)
      BY <1>4
    <3> QED
      BY <1>5, <3>1
  <2> QED
    BY <2>1, <2>2
<1> QED
  BY <1>5, <1>6 DEF s

\* Two neighbours that change places.
Swapped(r, q, i) ==
    /\ Len(r) = Len(q) /\ r[i] = q[i + 1] /\ r[i + 1] = q[i]
    /\ \A x \in 1..Len(q) : x # i /\ x # i + 1 => r[x] = q[x]

\* Rearranged: two neighbours change places.
LEMMA SwapIs ==
    ASSUME NEW C, NEW q \in Seq(C), NEW i \in 1..(Len(q) - 1)
    PROVE  LET r == ReplaceAt(ReplaceAt(q, i, q[i + 1]), i + 1, q[i]) IN r \in Seq(C) /\ Swapped(r, q, i)
<1> DEFINE u == ReplaceAt(q, i, q[i + 1])
           r == ReplaceAt(u, i + 1, q[i])
<1>1. Len(q) \in Nat /\ i \in 1..Len(q) /\ i + 1 \in 1..Len(q) /\ i # i + 1
  OBVIOUS
<1>2. /\ u \in Seq(C) /\ Len(u) = Len(q) /\ u[i] = q[i + 1]
      /\ \A x \in 1..Len(q) : x # i => u[x] = q[x]
  BY <1>1 DEF ReplaceAt
<1> HIDE DEF u
<1>3. /\ r \in Seq(C) /\ Len(r) = Len(u) /\ r[i + 1] = q[i]
      /\ \A x \in 1..Len(u) : x # i + 1 => r[x] = u[x]
  BY <1>1, <1>2 DEF ReplaceAt
<1> HIDE DEF r
<1>4. r \in Seq(C) /\ Swapped(r, q, i)
  BY <1>1, <1>2, <1>3 DEF Swapped
<1> QED
  BY <1>4 DEF r, u

\* A query is as long as before.
LEMMA SwapLength ==
    ASSUME NEW q \in Seq(Seq(QueryChars)), NEW r \in Seq(Seq(QueryChars)), NEW i \in 1..(Len(q) - 1),
           Swapped(r, q, i)
    PROVE  Len(Join(r, "&")) = Len(Join(q, "&"))
<1> DEFINE n == Len(q)
<1>1. n \in Nat /\ i \in 1..n /\ i + 1 \in 1..n /\ i \in Nat /\ Len(r) = n /\ q # <<>> /\ r # <<>>
  BY DEF Swapped
<1>2. PICK c : /\ c[0] = 0 /\ c[n] = Len(Join(q, "&")) + 1 /\ \A j \in 0..n : c[j] \in Nat
               /\ \A j \in 1..n : c[j] = c[j - 1] + Len(q[j]) + 1
  BY <1>1, JoinEnds
<1>3. PICK d : /\ d[0] = 0 /\ d[n] = Len(Join(r, "&")) + 1 /\ \A j \in 0..n : d[j] \in Nat
               /\ \A j \in 1..n : d[j] = d[j - 1] + Len(r[j]) + 1
  BY <1>1, JoinEnds
<1>4. \A j \in 1..n : Len(q[j]) \in Nat /\ Len(r[j]) \in Nat
  <2>1. \A j \in 1..n : q[j] \in Seq(QueryChars) /\ r[j] \in Seq(QueryChars)
    BY <1>1
  <2> QED
    BY <2>1
<1> HIDE DEF n
<1> DEFINE Same(j) == IF j = i THEN d[j] = c[j - 1] + Len(q[j + 1]) + 1 ELSE d[j] = c[j]
           S == {j \in Nat : j <= n => Same(j)}
<1>5. 0 \in S
  <2>1. 0 # i /\ d[0] = c[0] /\ 0 \in Nat
    BY <1>1, <1>2, <1>3
  <2>2. Same(0)
    BY <2>1
  <2> HIDE DEF Same
  <2> QED
    BY <2>1, <2>2
<1>6. ASSUME NEW j \in Nat, j \in S PROVE j + 1 \in S
  <2>0. j + 1 \in Nat
    OBVIOUS
  <2> SUFFICES ASSUME j + 1 <= n PROVE Same(j + 1)
    BY Zenon, <2>0
  <2> DEFINE k == j + 1
  <2>1. k \in 1..n /\ k - 1 = j /\ j \in 0..n /\ k \in 0..n /\ Same(j)
    BY <1>1, <1>6
  <2>2. /\ c[k] = c[j] + Len(q[k]) + 1 /\ d[k] = d[j] + Len(r[k]) + 1
        /\ c[j] \in Nat /\ d[j] \in Nat /\ c[k] \in Nat /\ d[k] \in Nat
    BY <1>2, <1>3, <2>1
  <2> HIDE DEF k
  <2>3. CASE k = i
    <3>1. d[j] = c[j] /\ r[k] = q[k + 1]
      BY <1>1, <2>1, <2>3 DEF Swapped
    <3> QED
      BY <2>1, <2>2, <2>3, <3>1 DEF k
  <2>4. CASE k = i + 1
    <3>1. j = i /\ r[k] = q[i]
      BY <1>1, <2>1, <2>4 DEF Swapped, k
    <3>2. d[j] = c[j - 1] + Len(q[j + 1]) + 1 /\ j + 1 = k
      BY <2>1, <3>1 DEF k
    <3>3. c[j] = c[j - 1] + Len(q[j]) + 1 /\ c[j - 1] \in Nat
      <4>1. j \in 1..n /\ j - 1 \in 0..n
        BY <1>1, <3>1
      <4> QED
        BY <1>2, <4>1
    <3>4. d[k] = c[k]
      <4>1. Len(q[k]) \in Nat /\ Len(q[j]) \in Nat
        BY <1>1, <1>4, <2>1, <3>1
      <4>2. r[k] = q[j] /\ d[j] = c[j - 1] + Len(q[k]) + 1 /\ Len(r[k]) = Len(q[j])
        BY <3>1, <3>2
      <4>3. \A a, b, e \in Nat : (a + b + 1) + e + 1 = (a + e + 1) + b + 1
        OBVIOUS
      <4>4. d[k] = (c[j - 1] + Len(q[k]) + 1) + Len(q[j]) + 1
        BY <2>2, <4>2
      <4>5. c[k] = (c[j - 1] + Len(q[j]) + 1) + Len(q[k]) + 1
        BY <2>2, <3>3
      <4> QED
        BY <3>3, <4>1, <4>3, <4>4, <4>5
    <3>5. k # i
      BY <1>1, <2>4
    <3> QED
      BY <3>4, <3>5 DEF k
  <2>5. CASE k # i /\ k # i + 1
    <3>1. j # i /\ k \in 1..Len(q)
      BY <1>1, <2>1, <2>5 DEF k, n
    <3>2. r[k] = q[k]
      BY <2>5, <3>1 DEF Swapped
    <3>3. d[j] = c[j]
      BY <2>1, <3>1
    <3> QED
      BY <2>2, <2>5, <3>2, <3>3 DEF k
  <2> QED
    BY <2>3, <2>4, <2>5
<1>7. Nat \subseteq S
  <2> HIDE DEF S
  <2> QED
    BY Zenon, <1>5, <1>6, SetInduction
<1>8. Same(n) /\ n # i
  <2>1. n # i
    BY <1>1 DEF n
  <2> QED
    BY <1>1, <1>7, <2>1
<1>9. Join(r, "&") \in Seq(QueryChars) /\ Join(q, "&") \in Seq(QueryChars)
  BY CharactersAre, JoinType
<1>10. Len(Join(r, "&")) \in Nat /\ Len(Join(q, "&")) \in Nat
  BY <1>9
<1> QED
  BY <1>2, <1>3, <1>8, <1>10

\* A query is longer by a field and a separator.
LEMMA InsertLength ==
    ASSUME NEW q \in Seq(Seq(QueryChars)), NEW r \in Seq(Seq(QueryChars)), NEW i \in 1..Len(q),
           NEW f \in Seq(QueryChars), Inserted(r, q, i, f)
    PROVE  Len(Join(r, "&")) = Len(Join(q, "&")) + Len(f) + 1
<1> DEFINE n == Len(q)
<1>1. n \in Nat /\ i \in 1..n /\ i \in Nat /\ Len(r) = n + 1 /\ q # <<>> /\ r # <<>> /\ Len(f) \in Nat
  BY DEF Inserted
<1>2. PICK c : /\ c[0] = 0 /\ c[n] = Len(Join(q, "&")) + 1 /\ \A j \in 0..n : c[j] \in Nat
               /\ \A j \in 1..n : c[j] = c[j - 1] + Len(q[j]) + 1
  BY <1>1, JoinEnds
<1>3. PICK d : /\ d[0] = 0 /\ d[n + 1] = Len(Join(r, "&")) + 1 /\ \A j \in 0..(n + 1) : d[j] \in Nat
               /\ \A j \in 1..(n + 1) : d[j] = d[j - 1] + Len(r[j]) + 1
  BY <1>1, JoinEnds
<1>4. \A j \in 1..n : Len(q[j]) \in Nat
  <2>1. \A j \in 1..n : q[j] \in Seq(QueryChars)
    BY <1>1
  <2> QED
    BY <2>1
<1> DEFINE w == Len(f) + 1
           Moved(j) == IF j < i THEN d[j] = c[j] ELSE d[j + 1] = c[j] + w
           S == {j \in Nat : j <= n => Moved(j)}
<1>5. r[i] = f /\ \A j \in 1..n : IF j < i THEN r[j] = q[j] ELSE r[j + 1] = q[j]
  <2>1. \A j \in 1..n : IF j < i THEN j \in 1..(i - 1) ELSE j \in i..Len(q)
    BY <1>1
  <2> QED
    BY <2>1 DEF Inserted
<1> HIDE DEF n
<1>6. 0 \in S
  <2>1. 0 < i /\ d[0] = c[0] /\ 0 \in Nat
    BY <1>1, <1>2, <1>3
  <2>2. Moved(0)
    BY <2>1
  <2> HIDE DEF Moved
  <2> QED
    BY <2>1, <2>2
<1>7. ASSUME NEW j \in Nat, j \in S PROVE j + 1 \in S
  <2>0. j + 1 \in Nat
    OBVIOUS
  <2> SUFFICES ASSUME j + 1 <= n PROVE Moved(j + 1)
    BY Zenon, <2>0
  <2> DEFINE k == j + 1
  <2>1. /\ k \in 1..n /\ k - 1 = j /\ (k + 1) - 1 = k /\ j \in 0..n /\ k \in 0..n /\ j \in Nat
        /\ j \in 0..(n + 1) /\ k \in 1..(n + 1) /\ k + 1 \in 1..(n + 1) /\ k + 1 \in 0..(n + 1) /\ k \in 0..(n + 1)
        /\ k < i => j < i
    BY <1>1
  <2>2. Moved(j) /\ Len(q[k]) \in Nat
    BY <1>4, <1>7, <2>1
  <2>3. /\ c[k] = c[j] + Len(q[k]) + 1 /\ d[k] = d[j] + Len(r[k]) + 1 /\ d[k + 1] = d[k] + Len(r[k + 1]) + 1
        /\ c[j] \in Nat /\ d[j] \in Nat /\ c[k] \in Nat /\ d[k] \in Nat /\ d[k + 1] \in Nat
    BY <1>2, <1>3, <2>1
  <2>4. IF k < i THEN r[k] = q[k] ELSE r[k + 1] = q[k]
    BY <1>5, <2>1
  <2>5. k = j + 1
    OBVIOUS
  <2> HIDE DEF k
  <2>6. CASE k < i
    BY <2>1, <2>2, <2>3, <2>4, <2>6 DEF k
  <2>7. CASE k = i
    <3>1. j < i /\ ~(k < i) /\ r[k] = f
      BY <1>1, <1>5, <2>5, <2>7
    <3>2. d[j] = c[j] /\ r[k + 1] = q[k]
      BY <2>2, <2>4, <3>1
    <3>3. d[k + 1] = c[k] + w
      <4>1. d[k] = c[j] + Len(f) + 1 /\ Len(r[k + 1]) = Len(q[k])
        BY <2>3, <3>1, <3>2
      <4>2. \A a, b, e \in Nat : (a + b + 1) + e + 1 = (a + e + 1) + (b + 1)
        OBVIOUS
      <4>3. d[k + 1] = (c[j] + Len(f) + 1) + Len(q[k]) + 1
        BY <2>3, <4>1
      <4>4. c[k] + w = (c[j] + Len(q[k]) + 1) + (Len(f) + 1)
        BY <2>3
      <4>5. Len(f) \in Nat /\ Len(q[k]) \in Nat /\ c[j] \in Nat
        BY <1>1, <2>2, <2>3
      <4> QED
        BY <4>2, <4>3, <4>4, <4>5
    <3> QED
      BY <2>5, <3>1, <3>3
  <2>8. CASE i < k
    <3>1. ~(j < i) /\ ~(k < i)
      BY <1>1, <2>1, <2>5, <2>8
    <3>2. d[k] = c[j] + w /\ r[k + 1] = q[k]
      BY <2>2, <2>4, <2>5, <3>1
    <3>3. d[k + 1] = c[k] + w
      <4>1. Len(r[k + 1]) = Len(q[k]) /\ d[k] = c[j] + (Len(f) + 1)
        BY <3>2
      <4>2. \A a, b, e \in Nat : (a + (b + 1)) + e + 1 = (a + e + 1) + (b + 1)
        OBVIOUS
      <4>3. d[k + 1] = (c[j] + (Len(f) + 1)) + Len(q[k]) + 1
        BY <2>3, <4>1
      <4>4. c[k] + w = (c[j] + Len(q[k]) + 1) + (Len(f) + 1)
        BY <2>3
      <4>5. Len(f) \in Nat /\ Len(q[k]) \in Nat /\ c[j] \in Nat
        BY <1>1, <2>2, <2>3
      <4> QED
        BY <4>2, <4>3, <4>4, <4>5
    <3> QED
      BY <2>5, <3>1, <3>3
  <2> QED
    BY <1>1, <2>1, <2>6, <2>7, <2>8
<1>8. Nat \subseteq S
  <2> HIDE DEF S
  <2> QED
    BY Zenon, <1>6, <1>7, SetInduction
<1>9. d[n + 1] = c[n] + w
  <2>1. Moved(n) /\ ~(n < i)
    BY <1>1, <1>8
  <2> QED
    BY <2>1
<1>10. Join(r, "&") \in Seq(QueryChars) /\ Join(q, "&") \in Seq(QueryChars)
  BY CharactersAre, JoinType
<1>11. Len(Join(r, "&")) \in Nat /\ Len(Join(q, "&")) \in Nat
  BY <1>10
<1>12. /\ c[n] = Len(Join(q, "&")) + 1 /\ d[n + 1] = Len(Join(r, "&")) + 1
  BY <1>2, <1>3
<1>13. \A a, b, e \in Nat : a + 1 = (b + 1) + (e + 1) => a = b + e + 1
  OBVIOUS
<1> QED
  BY <1>1, <1>9, <1>11, <1>12, <1>13

\* Fields in another order list the same.
LEMMA SwapLists ==
    ASSUME NEW q \in Seq(Seq(QueryChars)), NEW ks, NEW said, Lists(q, ks, said),
           NEW i \in 1..(Len(q) - 1), NEW r, Swapped(r, q, i)
    PROVE  \E ls : Lists(r, ls, said)
<1> DEFINE ls == ReplaceAt(ReplaceAt(ks, i, ks[i + 1]), i + 1, ks[i])
           n == Len(ks)
<1>1. ks \in Seq(Names) /\ Len(q) = n /\ n \in Nat /\ Len(r) = n
  BY DEF Lists, Swapped
<1>2. ls \in Seq(Names) /\ Swapped(ls, ks, i)
  <2>1. i \in 1..(Len(ks) - 1)
    BY <1>1
  <2> QED
    BY <1>1, <2>1, SwapIs
<1> HIDE DEF ls, n
<1>3. Len(ls) = n /\ ls[i] = ks[i + 1] /\ ls[i + 1] = ks[i]
      /\ \A x \in 1..n : x # i /\ x # i + 1 => ls[x] = ks[x]
  BY <1>2 DEF Swapped, n
<1>4. r[i] = q[i + 1] /\ r[i + 1] = q[i] /\ \A x \in 1..n : x # i /\ x # i + 1 => r[x] = q[x]
  BY <1>1 DEF Swapped
<1>5. i \in 1..n /\ i + 1 \in 1..n /\ i # i + 1
  BY <1>1
<1>6. \A x \in 1..n : r[x] = Field(ls[x], said[ls[x]])
  <2> SUFFICES ASSUME NEW x \in 1..n PROVE r[x] = Field(ls[x], said[ls[x]])
    OBVIOUS
  <2>1. \A y \in 1..n : q[y] = Field(ks[y], said[ks[y]])
    BY DEF Lists, n
  <2> QED
    BY <1>3, <1>4, <1>5, <2>1
<1>7. ASSUME NEW key \in Keys
      PROVE  \E a \in 1..n : ls[a] = key /\ \A j \in 1..n : ls[j] = key => j = a
  <2>1. PICK b \in 1..n : ks[b] = key /\ \A j \in 1..n : ks[j] = key => j = b
    BY DEF Lists, n
  <2> DEFINE a == IF b = i THEN i + 1 ELSE IF b = i + 1 THEN i ELSE b
  <2>2. a \in 1..n /\ ls[a] = key
    BY <1>3, <1>5, <2>1
  <2>3. \A j \in 1..n : ls[j] = key => j = a
    BY <1>3, <1>5, <2>1
  <2> QED
    BY <2>2, <2>3
<1>8. Lists(r, ls, said)
  BY <1>1, <1>2, <1>3, <1>6, <1>7 DEF Lists
<1> QED
  BY <1>8

\* Nor does a field that nobody knows change what is listed.
LEMMA InsertLists ==
    ASSUME NEW q \in Seq(Seq(QueryChars)), NEW ks, NEW said, Lists(q, ks, said),
           NEW i \in 1..Len(q), NEW r, Inserted(r, q, i, Field("x", said["x"]))
    PROVE  \E ls : Lists(r, ls, said)
<1> DEFINE ls == InsertAt(ks, i, "x")
           n == Len(ks)
<1>1. ks \in Seq(Names) /\ Len(q) = n /\ n \in Nat /\ Len(r) = n + 1
  BY DEF Lists, Inserted
<1>2. ls \in Seq(Names) /\ Inserted(ls, ks, i, "x")
  <2>1. i \in 1..Len(ks) /\ "x" \in Names
    BY <1>1 DEF Names
  <2> QED
    BY <1>1, <2>1, InsertAtIs
<1> HIDE DEF ls, n
<1>3. /\ Len(ls) = n + 1 /\ ls[i] = "x"
      /\ \A x \in 1..(i - 1) : ls[x] = ks[x]
      /\ \A x \in i..n : ls[x + 1] = ks[x]
  BY <1>2 DEF Inserted, n
<1>4. /\ r[i] = Field("x", said["x"])
      /\ \A x \in 1..(i - 1) : r[x] = q[x]
      /\ \A x \in i..n : r[x + 1] = q[x]
  BY <1>1 DEF Inserted
<1>5. i \in 1..n
  BY <1>1
<1>10. ASSUME NEW y \in i..n PROVE r[y + 1] = q[y] /\ ls[y + 1] = ks[y]
  BY <1>3, <1>4
<1>6. \A x \in 1..(n + 1) : x \in 1..(i - 1) \/ x = i \/ (x - 1 \in i..n /\ (x - 1) + 1 = x)
  BY <1>1, <1>5
<1>7. \A x \in 1..(n + 1) : r[x] = Field(ls[x], said[ls[x]])
  <2> SUFFICES ASSUME NEW x \in 1..(n + 1) PROVE r[x] = Field(ls[x], said[ls[x]])
    OBVIOUS
  <2>1. \A y \in 1..n : q[y] = Field(ks[y], said[ks[y]])
    BY DEF Lists, n
  <2>2. CASE x \in 1..(i - 1)
    <3>1. x \in 1..n
      BY <1>1, <1>5, <2>2
    <3> QED
      BY <1>3, <1>4, <2>1, <2>2, <3>1
  <2>3. CASE x = i
    BY <1>3, <1>4, <2>3
  <2>4. CASE x - 1 \in i..n /\ (x - 1) + 1 = x
    <3> DEFINE y == x - 1
    <3>3. y \in i..n /\ y + 1 = x
      BY <2>4
    <3> HIDE DEF y
    <3>4. r[y + 1] = q[y] /\ ls[y + 1] = ks[y]
      BY <1>10, <3>3
    <3>1. r[x] = q[x - 1] /\ ls[x] = ks[x - 1]
      BY <3>3, <3>4 DEF y
    <3>2. x - 1 \in 1..n
      BY <1>1, <1>5, <2>4
    <3> QED
      BY <2>1, <2>4, <3>1, <3>2
  <2> QED
    BY <1>6, <2>2, <2>3, <2>4
<1>8. ASSUME NEW key \in Keys
      PROVE  \E a \in 1..(n + 1) : ls[a] = key /\ \A j \in 1..(n + 1) : ls[j] = key => j = a
  <2>1. PICK b \in 1..n : ks[b] = key /\ \A j \in 1..n : ks[j] = key => j = b
    BY DEF Lists, n
  <2>2. key # "x"
    BY CharactersAre
  <2> DEFINE a == IF b < i THEN b ELSE b + 1
  <2>3. a \in 1..(n + 1) /\ ls[a] = key
    <3>1. CASE b < i
      <4>1. b \in 1..(i - 1) /\ b \in 1..(n + 1)
        BY <1>1, <1>5, <3>1
      <4> QED
        BY <1>3, <2>1, <3>1, <4>1
    <3>2. CASE ~(b < i)
      <4>1. b \in i..n /\ b + 1 \in 1..(n + 1)
        BY <1>1, <1>5, <3>2
      <4>2. ls[b + 1] = ks[b]
        BY <1>10, <4>1
      <4> QED
        BY <2>1, <3>2, <4>1, <4>2
    <3> QED
      BY <3>1, <3>2
  <2>4. ASSUME NEW j \in 1..(n + 1), ls[j] = key PROVE j = a
    <3>1. CASE j \in 1..(i - 1)
      <4>1. ks[j] = key /\ j \in 1..n
        BY <1>1, <1>3, <1>5, <2>4, <3>1
      <4>2. j = b
        BY <2>1, <4>1
      <4> QED
        BY <1>5, <3>1, <4>2
    <3>2. CASE j = i
      BY <1>3, <2>2, <2>4, <3>2
    <3>3. CASE j - 1 \in i..n /\ (j - 1) + 1 = j
      <4>1. ks[j - 1] = key
        <5> DEFINE y == j - 1
        <5>1. y \in i..n /\ y + 1 = j
          BY <3>3
        <5> HIDE DEF y
        <5>2. ls[y + 1] = ks[y]
          BY <1>10, <5>1
        <5> QED
          BY <2>4, <5>1, <5>2 DEF y
      <4>2. j - 1 \in 1..n /\ ~(j - 1 < i)
        BY <1>1, <1>5, <3>3
      <4>3. j - 1 = b
        BY <2>1, <4>1, <4>2
      <4> QED
        BY <3>3, <4>2, <4>3
    <3> QED
      BY <1>6, <3>1, <3>2, <3>3
  <2> QED
    BY <2>3, <2>4
<1>9. Lists(r, ls, said)
  BY <1>1, <1>2, <1>3, <1>7, <1>8 DEF Lists
<1> QED
  BY <1>9

-----------------------------------------------------------------------------
(* A URI on its way to a Device.                                            *)

\* A text in which the query begins once at most.
OneQuery(t) ==
    /\ t \in Seq(UriChars)
    /\ \A i, j \in 1..Len(t) : t[i] = "?" /\ t[j] = "?" => i = j

\* A copy that lists the pairing it was taken from.
Faithful(t, o, K) ==
    /\ Len(t) <= MaxLen
    /\ \E h \in Handles : \E ks, q :
          /\ q \in Seq(Seq(QueryChars)) /\ Lists(q, ks, Said(o, h, K))
          /\ t = Prefix \o Join(q, "&")

UriInv ==
    /\ session.state = "Live" => Len(Uri) <= MaxLen
    /\ copy.kind = "uri" =>
          /\ OneQuery(copy.text)
          /\ copy.faithful =>
                /\ copy.of \in [1..WORD_COUNT -> WordList]
                /\ Faithful(copy.text, origin, Canonical(copy.of))

\* The key of a phrase is a value of a field.
LEMMA KeyIsPlain ==
    ASSUME NEW ws \in [1..WORD_COUNT -> WordList], NEW o \in Origins, NEW h \in Handles
    PROVE  Pairing(o, h, Canonical(ws))
  BY KeyAndDisplay DEF Pairing, KeyShape

\* A text with a path and fields has one query.
LEMMA FieldsHaveOneQuery ==
    ASSUME NEW Q \in Seq(QueryChars) PROVE OneQuery(Prefix \o Q)
<1> DEFINE t == Prefix \o Q
<1>1. /\ t \in Seq(UriChars) /\ Len(t) = Len(Q) + 4
      /\ t[1] = "herdr-remote" /\ t[2] = "://" /\ t[3] = "pair"
      /\ \A x \in 1..Len(Q) : t[x + 4] = Q[x]
  BY UriIs
<1> HIDE DEF t
<1>2. ASSUME NEW i \in 1..Len(t), t[i] = "?" PROVE i = 4
  <2>1. Len(Q) \in Nat
    OBVIOUS
  <2>2. i = 1 \/ i = 2 \/ i = 3 \/ i = 4 \/ (i - 4 \in 1..Len(Q) /\ (i - 4) + 4 = i)
    BY <1>1, <2>1
  <2>3. ~(i - 4 \in 1..Len(Q) /\ (i - 4) + 4 = i)
    <3> SUFFICES ASSUME i - 4 \in 1..Len(Q), (i - 4) + 4 = i PROVE FALSE
      OBVIOUS
    <3>1. t[(i - 4) + 4] = Q[i - 4] /\ Q[i - 4] \in QueryChars
      BY <1>1
    <3> QED
      BY <1>2, <3>1, CharactersAre
  <2> QED
    BY <1>1, <1>2, <2>2, <2>3
<1>3. OneQuery(t)
  BY <1>1, <1>2 DEF OneQuery
<1> QED
  BY <1>3 DEF t

\* What is left when a character is lost.
LEMMA LostCharacter ==
    ASSUME NEW C, NEW t \in Seq(C), NEW i \in 1..Len(t)
    PROVE  LET r == RemoveAt(t, i) IN
           /\ r \in Seq(C) /\ Len(r) = Len(t) - 1
           /\ \A x \in 1..Len(r) : r[x] = t[IF x < i THEN x ELSE x + 1]
<1> DEFINE u == SubSeq(t, 1, i - 1)
           w == SubSeq(t, i + 1, Len(t))
           r == u \o w
           n == Len(t)
<1>1. n \in Nat /\ i \in Nat /\ 1 <= i /\ i <= n
  OBVIOUS
<1>2. u \in Seq(C) /\ Len(u) = i - 1 /\ \A x \in 1..(i - 1) : u[x] = t[x]
  <2>1. 1 \in Nat \ {0} /\ i - 1 \in Nat /\ 1 <= (i - 1) + 1 /\ i - 1 <= Len(t)
    BY <1>1
  <2>2. u \in Seq(C) /\ Len(u) = ((i - 1) - 1) + 1 /\ \A x \in 1..(((i - 1) - 1) + 1) : u[x] = t[(1 + x) - 1]
    BY <2>1, SliceIs
  <2>3. ((i - 1) - 1) + 1 = i - 1 /\ \A x \in 1..(i - 1) : (1 + x) - 1 = x
    BY <1>1
  <2> HIDE DEF u
  <2> QED
    BY <2>2, <2>3
<1>3. w \in Seq(C) /\ Len(w) = n - i /\ \A x \in 1..(n - i) : w[x] = t[i + x]
  <2>1. i + 1 \in Nat \ {0} /\ n \in Nat /\ i + 1 <= n + 1 /\ n <= Len(t)
    BY <1>1
  <2>2. /\ w \in Seq(C) /\ Len(w) = (n - (i + 1)) + 1
        /\ \A x \in 1..((n - (i + 1)) + 1) : w[x] = t[((i + 1) + x) - 1]
    BY <2>1, SliceIs
  <2>3. (n - (i + 1)) + 1 = n - i /\ \A x \in 1..(n - i) : ((i + 1) + x) - 1 = i + x
    BY <1>1
  <2> HIDE DEF w, n
  <2> QED
    BY <2>2, <2>3
<1> HIDE DEF u, w, n
<1>4. /\ r \in Seq(C) /\ Len(r) = Len(u) + Len(w)
      /\ \A x \in 1..(Len(u) + Len(w)) : r[x] = IF x <= Len(u) THEN u[x] ELSE w[x - Len(u)]
  BY <1>2, <1>3, ConcatProperties
<1> HIDE DEF r
<1>5. Len(r) = n - 1
  BY <1>1, <1>2, <1>3, <1>4
<1>6. ASSUME NEW x \in 1..Len(r) PROVE r[x] = t[IF x < i THEN x ELSE x + 1]
  <2>1. x \in 1..(Len(u) + Len(w))
    BY <1>4
  <2>2. CASE x < i
    <3>1. x <= Len(u) /\ x \in 1..(i - 1)
      BY <1>1, <1>2, <2>2
    <3> QED
      BY <1>2, <1>4, <2>1, <2>2, <3>1
  <2>3. CASE ~(x < i)
    <3>1. ~(x <= Len(u)) /\ x - (i - 1) \in 1..(n - i) /\ i + (x - (i - 1)) = x + 1
      BY <1>1, <1>2, <1>5, <2>3
    <3>2. r[x] = w[x - (i - 1)]
      BY <1>2, <1>4, <2>1, <3>1
    <3>3. w[x - (i - 1)] = t[i + (x - (i - 1))]
      BY <1>3, <3>1
    <3> QED
      BY <2>3, <3>1, <3>2, <3>3
  <2> QED
    BY <2>2, <2>3
<1> QED
  BY <1>4, <1>5, <1>6 DEF RemoveAt, r, u, w, n

\* With a character less a query begins once at most.
LEMMA LostKeepsOneQuery ==
    ASSUME NEW t, OneQuery(t), NEW i \in 1..Len(t) PROVE OneQuery(RemoveAt(t, i))
<1> DEFINE r == RemoveAt(t, i)
           at(x) == IF x < i THEN x ELSE x + 1
<1>1. t \in Seq(UriChars) /\ Len(t) \in Nat
  BY DEF OneQuery
<1>2. r \in Seq(UriChars) /\ Len(r) = Len(t) - 1 /\ \A x \in 1..Len(r) : r[x] = t[at(x)]
  BY <1>1, LostCharacter
<1> HIDE DEF r
<1>3. ASSUME NEW x \in 1..Len(r), NEW y \in 1..Len(r), r[x] = "?", r[y] = "?" PROVE x = y
  <2>1. at(x) \in 1..Len(t) /\ at(y) \in 1..Len(t)
    BY <1>1, <1>2
  <2>2. at(x) = at(y)
    <3> HIDE DEF at
    <3> QED
      BY <1>2, <1>3, <2>1 DEF OneQuery
  <2> QED
    BY <1>1, <1>2, <2>2
<1>4. OneQuery(r)
  BY <1>2, <1>3 DEF OneQuery
<1> QED
  BY <1>4 DEF r

\* The fields of what follows the path.
LEMMA QueryFieldsAre ==
    ASSUME OneQuery(copy.text), IsPrefix(Prefix, copy.text)
    PROVE  /\ Len(copy.text) >= 4 /\ Query \in Seq(QueryChars)
           /\ SplitOn(Query, "&") \in PartSeqs(QueryChars)
<1> DEFINE t == copy.text
           b == SubSeq(t, 5, Len(t))
<1>1. /\ Prefix \in Seq(UriChars) /\ Len(Prefix) = 4 /\ Prefix[4] = "?"
  BY CharactersAre DEF Prefix
<1>2. t \in Seq(UriChars) /\ Len(t) \in Nat /\ \A i, j \in 1..Len(t) : t[i] = "?" /\ t[j] = "?" => i = j
  BY DEF OneQuery
<1>3. Len(t) >= 4 /\ SubSeq(Prefix, 1, 4) = SubSeq(t, 1, 4)
  BY <1>1, <1>2 DEF IsPrefix
<1>4. t[4] = "?"
  <2> DEFINE u == SubSeq(Prefix, 1, 4)
             w == SubSeq(t, 1, 4)
  <2>1. 1 \in Nat \ {0} /\ 4 \in Nat /\ 1 <= 4 + 1 /\ 4 <= Len(Prefix) /\ 4 <= Len(t)
    BY <1>1, <1>2, <1>3
  <2>2. \A x \in 1..((4 - 1) + 1) : u[x] = Prefix[(1 + x) - 1]
    BY <1>1, <2>1, SliceIs
  <2>3. \A x \in 1..((4 - 1) + 1) : w[x] = t[(1 + x) - 1]
    BY <1>2, <2>1, SliceIs
  <2>4. u = w
    BY <1>3
  <2> HIDE DEF u, w
  <2>5. 4 \in 1..((4 - 1) + 1) /\ (1 + 4) - 1 = 4
    OBVIOUS
  <2> QED
    BY <1>1, <2>2, <2>3, <2>4, <2>5
<1>5. Len(Prefix) + 1 = 5 /\ Query = b
  BY <1>1 DEF Query
<1>6. b \in Seq(QueryChars)
  <2>1. 5 \in Nat \ {0} /\ Len(t) \in Nat /\ 5 <= Len(t) + 1 /\ Len(t) <= Len(t)
    BY <1>2, <1>3
  <2>2. b \in Seq(UriChars) /\ Len(b) = (Len(t) - 5) + 1
    BY <1>2, <2>1, SliceIs
  <2>3. \A x \in 1..((Len(t) - 5) + 1) : b[x] = t[(5 + x) - 1]
    BY <1>2, <2>1, SliceIs
  <2> HIDE DEF b, t
  <2>4. ASSUME NEW x \in 1..Len(b) PROVE b[x] \in QueryChars
    <3>1. b[x] = t[(5 + x) - 1] /\ (5 + x) - 1 \in 1..Len(t) /\ (5 + x) - 1 # 4 /\ 4 \in 1..Len(t)
      BY <1>2, <1>3, <2>2, <2>3
    <3>2. b[x] # "?"
      BY <1>2, <1>4, <3>1
    <3>3. b[x] \in UriChars
      BY <2>2
    <3> QED
      BY <3>2, <3>3 DEF UriChars
  <2> QED
    BY <2>2, <2>4
<1> QED
  BY <1>3, <1>5, <1>6, SplitIsACut

\* Fields that are written again make one query.
LEMMA WrittenHasOneQuery ==
    ASSUME NEW q \in Seq(Seq(QueryChars)) PROVE OneQuery(WithFields(q))
<1>1. Join(q, "&") \in Seq(QueryChars)
  BY CharactersAre, JoinType
<1> QED
  BY <1>1, FieldsHaveOneQuery DEF WithFields

\* The fields of a faithful copy are those it lists.
LEMMA FaithfulFields ==
    ASSUME NEW o, NEW h, NEW K, Pairing(o, h, K), NEW ks, NEW q \in Seq(Seq(QueryChars)),
           Lists(q, ks, Said(o, h, K)), copy.text = Prefix \o Join(q, "&")
    PROVE  SplitOn(Query, "&") = q
<1> DEFINE Q == Join(q, "&")
<1>1. "&" \in QueryChars
  BY CharactersAre
<1>2. Q \in Seq(QueryChars) /\ SplitOn(Q, "&") = q
  BY <1>1, ListedAreFields, JoinedIsSplit
<1> HIDE DEF Q
<1>3. SubSeq(copy.text, 5, Len(copy.text)) = Q
  BY <1>2, QueryIs DEF Q
<1>4. Len(Prefix) + 1 = 5
  BY DEF Prefix
<1>5. Query = Q
  BY <1>3, <1>4 DEF Query
<1> QED
  BY <1>2, <1>5

\* How long a URI is.
LEMMA WrittenLength ==
    ASSUME NEW q \in Seq(Seq(QueryChars))
    PROVE  Len(Join(q, "&")) \in Nat /\ Len(Prefix \o Join(q, "&")) = Len(Join(q, "&")) + 4
<1>1. Join(q, "&") \in Seq(QueryChars)
  BY CharactersAre, JoinType
<1> QED
  BY <1>1, UriIs

\* What Rearranged makes of a faithful copy is one.
LEMMA RearrangedIsFaithful ==
    ASSUME NEW o \in Origins, NEW ws \in [1..WORD_COUNT -> WordList],
           Faithful(copy.text, o, Canonical(ws))
    PROVE  LET fields == SplitOn(Query, "&") IN
           \A i \in 1..(Len(fields) - 1) :
              /\ Faithful(WithFields(ReplaceAt(ReplaceAt(fields, i, fields[i + 1]), i + 1, fields[i])),
                          o, Canonical(ws))
              /\ Len(copy.text) + 4 <= MaxLen =>
                    Faithful(WithFields(InsertAt(fields, i, Field("x", <<"1">>))), o, Canonical(ws))
<1> DEFINE K == Canonical(ws)
           fields == SplitOn(Query, "&")
<1> SUFFICES ASSUME NEW i \in 1..(Len(fields) - 1)
             PROVE  /\ Faithful(WithFields(ReplaceAt(ReplaceAt(fields, i, fields[i + 1]), i + 1, fields[i])), o, K)
                    /\ Len(copy.text) + 4 <= MaxLen =>
                          Faithful(WithFields(InsertAt(fields, i, Field("x", <<"1">>))), o, K)
  BY Zenon
<1>0. PICK h \in Handles : \E ks, q :
          /\ q \in Seq(Seq(QueryChars)) /\ Lists(q, ks, Said(o, h, K))
          /\ copy.text = Prefix \o Join(q, "&")
  BY DEF Faithful
<1>1. PICK ks, q :
          /\ q \in Seq(Seq(QueryChars)) /\ Lists(q, ks, Said(o, h, K))
          /\ copy.text = Prefix \o Join(q, "&")
  BY <1>0
<1>2. Pairing(o, h, K)
  BY KeyIsPlain
<1>3. fields = q
  BY <1>1, <1>2, FaithfulFields
<1>4. Len(copy.text) = Len(Join(q, "&")) + 4 /\ Len(Join(q, "&")) \in Nat /\ Len(copy.text) <= MaxLen
  BY <1>1, WrittenLength DEF Faithful
<1> HIDE DEF K
<1>5. i \in 1..(Len(q) - 1) /\ i \in 1..Len(q)
  <2>1. Len(q) \in Nat
    BY <1>1
  <2> QED
    BY <1>3, <2>1
<1>6. Faithful(WithFields(ReplaceAt(ReplaceAt(q, i, q[i + 1]), i + 1, q[i])), o, K)
  <2> DEFINE r == ReplaceAt(ReplaceAt(q, i, q[i + 1]), i + 1, q[i])
  <2>1. r \in Seq(Seq(QueryChars)) /\ Swapped(r, q, i)
    BY <1>1, <1>5, SwapIs
  <2> HIDE DEF r
  <2>2. \E ls : Lists(r, ls, Said(o, h, K))
    BY <1>1, <1>5, <2>1, SwapLists
  <2>3. Len(Join(r, "&")) = Len(Join(q, "&"))
    BY <1>1, <1>5, <2>1, SwapLength
  <2>4. Len(WithFields(r)) = Len(Join(r, "&")) + 4
    BY <2>1, WrittenLength DEF WithFields
  <2>5. Len(WithFields(r)) <= MaxLen
    BY <1>4, <2>3, <2>4
  <2>6. Faithful(WithFields(r), o, K)
    BY <2>1, <2>2, <2>5 DEF Faithful, WithFields
  <2> QED
    BY <2>6 DEF r
<1>7. ASSUME Len(copy.text) + 4 <= MaxLen
      PROVE  Faithful(WithFields(InsertAt(q, i, Field("x", <<"1">>))), o, K)
  <2> DEFINE f == Field("x", <<"1">>)
             r == InsertAt(q, i, f)
  <2>1. Said(o, h, K)["x"] = <<"1">> /\ "x" \in Names
    BY CharactersAre DEF Said, Names, Keys
  <2>2. f \in Seq(QueryChars) /\ Len(f) = 3
    <3>1. ASSUME NEW key \in Names
          PROVE  LET v == Said(o, h, K)[key] IN
                 Field(key, v) \in Seq(QueryChars \ {"&"}) /\ Len(Field(key, v)) = Len(v) + 2
      <4> HIDE DEF f
      <4> QED
        BY <1>2, <3>1, NamedField
    <3> DEFINE v == Said(o, h, K)["x"]
    <3>2. v = <<"1">>
      BY <2>1
    <3>3. Field("x", v) \in Seq(QueryChars \ {"&"}) /\ Len(Field("x", v)) = Len(v) + 2
      BY Zenon, <2>1, <3>1
    <3> HIDE DEF v
    <3>4. f = Field("x", v)
      BY <3>2
    <3>5. Field("x", v) \in Seq(QueryChars) /\ Len(v) = 1
      BY <3>2, <3>3
    <3> QED
      BY <3>3, <3>4, <3>5
  <2> HIDE DEF f
  <2>3. r \in Seq(Seq(QueryChars)) /\ Inserted(r, q, i, f)
    BY <1>1, <1>5, <2>2, InsertAtIs
  <2> HIDE DEF r
  <2>4. \E ls : Lists(r, ls, Said(o, h, K))
    BY <1>1, <1>5, <2>1, <2>3, InsertLists DEF f
  <2>5. Len(Join(r, "&")) = Len(Join(q, "&")) + Len(f) + 1
    BY <1>1, <1>5, <2>2, <2>3, InsertLength
  <2>6. Len(WithFields(r)) = Len(Join(r, "&")) + 4
    BY <2>3, WrittenLength DEF WithFields
  <2>7. Len(WithFields(r)) <= MaxLen
    BY <1>4, <1>7, <2>2, <2>5, <2>6
  <2>8. Faithful(WithFields(r), o, K)
    BY <2>3, <2>4, <2>7 DEF Faithful, WithFields
  <2> QED
    BY <2>8 DEF r, f
<1> QED
  BY <1>3, <1>6, <1>7

\* A change that leaves one query, and keeps a faithful copy listing its pairing.
LEMMA SlipKeepsUri ==
    ASSUME TextShape, UriInv, NEW text, NEW faithful, Slip(text, faithful),
           copy.kind = "uri" =>
              /\ OneQuery(text)
              /\ copy.faithful /\ faithful =>
                    copy.of \in [1..WORD_COUNT -> WordList] /\ Faithful(text, origin, Canonical(copy.of))
    PROVE  UriInv'
<1>1. /\ copy'.kind = copy.kind /\ copy'.text = text /\ copy'.of = copy.of
      /\ copy'.faithful = (copy.faithful /\ faithful)
  BY SlipIs
<1>2. origin' = origin /\ session' = session
  BY DEF Slip
<1>3. (session.state = "Live" => Len(Uri) <= MaxLen)'
  BY <1>2 DEF UriInv, Uri
<1>4. copy'.kind = "uri" => OneQuery(copy'.text)
  BY <1>1
<1>5. copy'.kind = "uri" /\ copy'.faithful =>
         copy'.of \in [1..WORD_COUNT -> WordList] /\ Faithful(copy'.text, origin', Canonical(copy'.of))
  BY <1>1, <1>2, Zenon
<1> QED
  BY <1>3, <1>4, <1>5, Zenon DEF UriInv

\* Rearranged: fields in another order and unknown ones.
LEMMA RearrangedKeepsUri ==
    ASSUME TextInv, UriInv, Rearranged
    PROVE  UriInv'
<1> DEFINE fields == SplitOn(Query, "&")
           swapped(i) == WithFields(ReplaceAt(ReplaceAt(fields, i, fields[i + 1]), i + 1, fields[i]))
           joined(i) == WithFields(InsertAt(fields, i, Field("x", <<"1">>)))
<1>1. copy.kind = "uri" /\ IsPrefix(Prefix, copy.text) /\ OneQuery(copy.text)
  BY DEF Rearranged, UriInv
<1>2. fields \in Seq(Seq(QueryChars))
  BY <1>1, QueryFieldsAre DEF PartSeqs
<1>3. PICK i \in 1..(Len(fields) - 1) :
          \/ Slip(swapped(i), TRUE)
          \/ Len(copy.text) + 4 <= MaxLen /\ Slip(joined(i), TRUE)
  BY DEF Rearranged
<1>4. OneQuery(swapped(i)) /\ OneQuery(joined(i))
  <2> HIDE DEF fields
  <2>1. ReplaceAt(ReplaceAt(fields, i, fields[i + 1]), i + 1, fields[i]) \in Seq(Seq(QueryChars))
    BY <1>2, SwapIs
  <2>2. Field("x", <<"1">>) \in Seq(QueryChars)
    <3>1. "x" \in QueryChars /\ "x" # "=" /\ "=" \in QueryChars /\ <<"1">> \in Seq(QueryChars)
      BY CharactersAre
    <3> QED
      BY <3>1, FieldIs
  <2>3. i \in 1..Len(fields)
    BY <1>2
  <2>4. InsertAt(fields, i, Field("x", <<"1">>)) \in Seq(Seq(QueryChars))
    BY <1>2, <2>2, <2>3, InsertAtIs
  <2> QED
    BY <2>1, <2>4, WrittenHasOneQuery
<1>5. copy.faithful => /\ copy.of \in [1..WORD_COUNT -> WordList]
                       /\ Faithful(swapped(i), origin, Canonical(copy.of))
                       /\ Len(copy.text) + 4 <= MaxLen => Faithful(joined(i), origin, Canonical(copy.of))
  <2> SUFFICES ASSUME copy.faithful
               PROVE  /\ copy.of \in [1..WORD_COUNT -> WordList]
                      /\ Faithful(swapped(i), origin, Canonical(copy.of))
                      /\ Len(copy.text) + 4 <= MaxLen => Faithful(joined(i), origin, Canonical(copy.of))
    OBVIOUS
  <2>1. copy.of \in [1..WORD_COUNT -> WordList] /\ Faithful(copy.text, origin, Canonical(copy.of))
    BY <1>1 DEF UriInv
  <2>2. origin \in Origins
    BY DEF TextInv, TextTypeOK
  <2> QED
    BY <2>1, <2>2, RearrangedIsFaithful
<1> HIDE DEF swapped, joined
<1>7. TextShape
  BY DEF TextInv
<1>6. ASSUME NEW text, Slip(text, TRUE), OneQuery(text),
             copy.faithful => copy.of \in [1..WORD_COUNT -> WordList] /\ Faithful(text, origin, Canonical(copy.of))
      PROVE  UriInv'
  BY <1>6, <1>7, SlipKeepsUri
<1> QED
  BY <1>3, <1>4, <1>5, <1>6

\* Garbled: whatever is lost, doubled or changed, a query begins once.
LEMMA GarbledKeepsUri ==
    ASSUME TextInv, UriInv, Garbled
    PROVE  UriInv'
<1> DEFINE fields == SplitOn(Query, "&")
           t == copy.text
<1>1. copy.kind = "uri" /\ IsPrefix(Prefix, t) /\ OneQuery(t) /\ TextShape
  BY DEF Garbled, UriInv, TextInv
<1>2. fields \in Seq(Seq(QueryChars))
  BY <1>1, QueryFieldsAre DEF PartSeqs
<1>3. \/ \E i \in DOMAIN fields : Slip(WithFields(RemoveAt(fields, i)), FALSE)
      \/ \E i \in DOMAIN fields : Slip(WithFields(Append(fields, fields[i])), FALSE)
      \/ Slip(WithFields(Append(fields, Field("r", <<"ws", ":", "/", "/", "host">>))), FALSE)
      \/ \E i \in DOMAIN t : Slip(RemoveAt(t, i), FALSE)
  BY Zenon DEF Garbled
<1>4. ASSUME NEW text, Slip(text, FALSE), OneQuery(text) PROVE UriInv'
  BY <1>1, <1>4, SlipKeepsUri
<1> HIDE DEF fields
<1>5. DOMAIN fields = 1..Len(fields) /\ Len(fields) \in Nat
  BY <1>2
<1>6. ASSUME NEW i \in DOMAIN fields PROVE OneQuery(WithFields(RemoveAt(fields, i)))
  <2>1. RemoveAt(fields, i) \in Seq(Seq(QueryChars))
    BY <1>2, <1>5, LostCharacter
  <2> QED
    BY <2>1, WrittenHasOneQuery
<1>7. ASSUME NEW i \in DOMAIN fields PROVE OneQuery(WithFields(Append(fields, fields[i])))
  <2>1. Append(fields, fields[i]) \in Seq(Seq(QueryChars))
    BY <1>2, <1>5
  <2> QED
    BY <2>1, WrittenHasOneQuery
<1>8. OneQuery(WithFields(Append(fields, Field("r", <<"ws", ":", "/", "/", "host">>))))
  <2> DEFINE v == <<"ws", ":", "/", "/", "host">>
  <2>1. "r" \in QueryChars /\ "r" # "=" /\ "=" \in QueryChars
    BY CharactersAre DEF Keys
  <2>2. v \in Seq(QueryChars)
    BY CharactersAre
  <2> HIDE DEF v
  <2>3. Field("r", v) \in Seq(QueryChars)
    BY <2>1, <2>2, FieldIs
  <2>4. Append(fields, Field("r", v)) \in Seq(Seq(QueryChars))
    BY <1>2, <2>3
  <2>5. OneQuery(WithFields(Append(fields, Field("r", v))))
    BY <2>4, WrittenHasOneQuery
  <2> QED
    BY <2>5 DEF v
<1>9. ASSUME NEW i \in DOMAIN t PROVE OneQuery(RemoveAt(t, i))
  <2>1. i \in 1..Len(t)
    BY <1>1 DEF OneQuery
  <2> QED
    BY <1>1, <2>1, LostKeepsOneQuery
<1> HIDE DEF t
<1> QED
  BY <1>3, <1>4, <1>6, <1>7, <1>8, <1>9

\* LivePhrase::generate: the URI of a live session fits.
LEMMA UriStaysShort ==
    ASSUME TextInv, UriInv, [TextNext]_textVars
    PROVE  (session.state = "Live" => Len(Uri) <= MaxLen)'
<1>1. ASSUME NEW words \in Drawn, NEW handle \in Handles, Generate(words, handle)
      PROVE  (session.state = "Live" => Len(Uri) <= MaxLen)'
  <2>1. /\ Len(Build([origin |-> origin, handle |-> handle, phrase |-> Canonical(words)])) <= MaxLen
        /\ session' = [state |-> "Live", words |-> words, handle |-> handle, age |-> 0, failed |-> 0]
        /\ origin' = origin
    BY <1>1 DEF Generate, Fits
  <2>2. session'.words = words /\ session'.handle = handle
    BY <2>1
  <2>3. Uri' = Build([origin |-> origin', handle |-> session'.handle, phrase |-> Canonical(session'.words)])
    BY DEF Uri
  <2> QED
    BY <2>1, <2>2, <2>3
<1>2. ASSUME UNCHANGED origin, session'.words = session.words, session'.handle = session.handle,
             session.state = "Live"
      PROVE  (session.state = "Live" => Len(Uri) <= MaxLen)'
  <2>1. Uri' = Uri
    BY <1>2 DEF Uri
  <2> QED
    BY <1>2, <2>1 DEF UriInv
<1>3. ASSUME UNCHANGED <<origin, session>> PROVE (session.state = "Live" => Len(Uri) <= MaxLen)'
  BY <1>2, <1>3 DEF UriInv, Uri
<1>4. ASSUME session'.state # "Live" PROVE (session.state = "Live" => Len(Uri) <= MaxLen)'
  BY <1>4
<1>5. CASE Older
  <2>1. session.state = "Live" /\ session' = [session EXCEPT !.age = @ + 1] /\ UNCHANGED origin
    BY <1>5 DEF Older
  <2>2. session'.words = session.words /\ session'.handle = session.handle
    BY <2>1 DEF TextInv, TextShape
  <2> QED
    BY <1>2, <2>1, <2>2
<1>6. CASE Look \/ FailedAttempt \/ RecordEnrolled
  <2>1. UNCHANGED origin
    BY <1>6, SessionIs
  <2>2. ASSUME NEW state \in {"None", "Expired", "Spent", "Enrolled"}, session' = NoPhrase(state)
        PROVE  session'.state # "Live"
    BY <2>2 DEF NoPhrase
  <2>3. ASSUME session' = [session EXCEPT !.failed = @ + 1]
        PROVE  session'.words = session.words /\ session'.handle = session.handle
    BY <2>3 DEF TextInv, TextShape
  <2> QED
    BY <1>2, <1>3, <1>4, <1>6, <2>1, <2>2, <2>3, SessionIs
<1>7. ASSUME NEW kind \in {"phrase", "uri"}, Take(kind) PROVE UNCHANGED <<origin, session>>
  BY <1>7 DEF Take
<1>8. CASE TypedLoosely \/ Mistyped \/ Rearranged \/ Garbled
  <2>1. PICK text, faithful : Slip(text, faithful)
    BY <1>8, SlipsOnly
  <2>2. UNCHANGED <<origin, session>>
    BY <2>1 DEF Slip
  <2> QED
    BY <1>3, <2>2
<1>9. CASE UNCHANGED textVars
  BY <1>3, <1>9 DEF textVars
<1> QED
  BY <1>1, <1>3, <1>5, <1>6, <1>7, <1>8, <1>9 DEF TextNext

\* pairing_uri: the copy that is taken lists the pairing.
LEMMA TakenIsFaithful ==
    ASSUME TextInv, UriInv, session.state = "Live"
    PROVE  /\ session.words \in [1..WORD_COUNT -> WordList]
           /\ OneQuery(Uri) /\ Faithful(Uri, origin, Canonical(session.words))
<1> DEFINE h == session.handle
           K == Canonical(session.words)
<1>1. session.words \in [1..WORD_COUNT -> WordList] /\ h \in Handles /\ origin \in Origins
  BY DrawnFromTheList DEF TextInv, TextTypeOK
<1>2. Pairing(origin, h, K)
  BY <1>1, KeyIsPlain
<1>3. Len(Uri) <= MaxLen /\ Uri = Build([origin |-> origin, handle |-> h, phrase |-> K])
  BY DEF UriInv, Uri
<1> HIDE DEF h, K
<1>4. PICK ks, q : /\ q \in Seq(Seq(QueryChars)) /\ Lists(q, ks, Said(origin, h, K))
                   /\ Build([origin |-> origin, handle |-> h, phrase |-> K]) = Prefix \o Join(q, "&")
  BY <1>2, BuiltIsListed
<1>5. OneQuery(Uri)
  BY <1>3, <1>4, WrittenHasOneQuery DEF WithFields
<1>6. Faithful(Uri, origin, K)
  BY <1>1, <1>3, <1>4 DEF Faithful
<1> QED
  BY <1>1, <1>5, <1>6 DEF K

\* Every step keeps a copied URI what it is.
LEMMA UriKeeps == ASSUME TextInv, UriInv, [TextNext]_textVars PROVE UriInv'
<1>0. TextShape
  BY DEF TextInv
<1>1. ASSUME UNCHANGED <<copy, origin>> PROVE UriInv'
  BY <1>1, UriStaysShort DEF UriInv
<1>2. ASSUME NEW words \in Drawn, NEW handle \in Handles, Generate(words, handle) PROVE UriInv'
  BY <1>1, <1>2 DEF Generate
<1>3. CASE Older \/ Look \/ FailedAttempt \/ RecordEnrolled \/ UNCHANGED textVars
  BY <1>1, <1>3 DEF Older, Look, FailedAttempt, RecordEnrolled, textVars
<1>4. ASSUME NEW kind \in {"phrase", "uri"}, Take(kind) PROVE UriInv'
  <2>1. /\ ApplyExpiry(session).state = "Live" /\ UNCHANGED origin
        /\ copy' = [kind |-> kind, slips |-> 0, faithful |-> TRUE, of |-> session.words,
                    text |-> IF kind = "uri" THEN Uri ELSE DisplayForm(session.words)]
    BY <1>4 DEF Take
  <2>2. copy'.kind = kind /\ copy'.of = session.words /\ (kind = "uri" => copy'.text = Uri)
    BY <2>1
  <2>3. session.state = "Live"
    BY <2>1 DEF ApplyExpiry, NoPhrase
  <2>4. /\ session.words \in [1..WORD_COUNT -> WordList]
        /\ OneQuery(Uri) /\ Faithful(Uri, origin, Canonical(session.words))
    BY <2>3, TakenIsFaithful
  <2> QED
    BY <2>1, <2>2, <2>4, UriStaysShort DEF UriInv
<1>5. CASE TypedLoosely \/ Mistyped
  <2>1. copy.kind # "uri"
    BY <1>5 DEF TypedLoosely, Mistyped
  <2>2. PICK text, faithful : Slip(text, faithful)
    BY <1>5, SlipsOnly
  <2> QED
    BY <1>0, <2>1, <2>2, SlipKeepsUri
<1> QED
  BY <1>2, <1>3, <1>4, <1>5, RearrangedKeepsUri, GarbledKeepsUri DEF TextNext

-----------------------------------------------------------------------------
(* Where a name stands in a text that is accepted.                          *)

Heads(f, key) == Len(f) >= 2 /\ f[1] = key /\ f[2] = "="

\* A field is named by what it begins with.
LEMMA NameIs ==
    ASSUME NEW C, NEW f \in Seq(C), NEW key, key # "=", Contains(f, "=")
    PROVE  Before(f, <<"=">>) = <<key>> <=> Heads(f, key)
<1> DEFINE S == {i \in 1..Len(f) : f[i] = "="}
<1>1. S \in SUBSET Nat /\ S # {}
  BY DEF Contains
<1>2. PICK k \in S : \A j \in S : k <= j
  BY <1>1, LeastNumber
<1>3. k \in 1..Len(f) /\ k \in Nat /\ f[k] = "=" /\ \A j \in 1..(k - 1) : f[j] # "="
  BY <1>2
<1> HIDE DEF S
<1> DEFINE a == SubSeq(f, 1, k - 1)
<1>4. Before(f, <<"=">>) = a
  BY <1>3, FirstIs
<1>5. a \in Seq(C) /\ Len(a) = k - 1 /\ \A x \in 1..(k - 1) : a[x] = f[x]
  <2>1. 1 \in Nat \ {0} /\ k - 1 \in Nat /\ 1 <= (k - 1) + 1 /\ k - 1 <= Len(f)
    BY <1>3
  <2>2. a \in Seq(C) /\ Len(a) = ((k - 1) - 1) + 1 /\ \A x \in 1..(((k - 1) - 1) + 1) : a[x] = f[(1 + x) - 1]
    BY <2>1, SliceIs
  <2>3. ((k - 1) - 1) + 1 = k - 1 /\ \A x \in 1..(k - 1) : (1 + x) - 1 = x
    BY <1>3
  <2> HIDE DEF a
  <2> QED
    BY <2>2, <2>3
<1> HIDE DEF a
<1>6. ASSUME a = <<key>> PROVE Heads(f, key)
  <2>1. Len(a) = 1 /\ a[1] = key
    BY <1>6
  <2>3. Len(a) = k - 1
    BY <1>5
  <2>4. k - 1 = 1
    BY <2>1, <2>3, Zenon
  <2>2. k = 2 /\ 1 \in 1..(k - 1)
    BY <1>3, <2>4
  <2> QED
    BY <1>3, <1>5, <2>1, <2>2 DEF Heads
<1>7. ASSUME Heads(f, key) PROVE a = <<key>>
  <2>1. k <= 2
    <3>1. 2 \in S
      BY <1>7 DEF S, Heads
    <3> QED
      BY <1>2, <3>1
  <2>2. k # 1
    BY <1>3, <1>7 DEF Heads
  <2>3. k = 2
    BY <1>3, <2>1, <2>2
  <2>4. Len(a) = 1 /\ a[1] = key
    BY <1>5, <1>7, <2>3 DEF Heads
  <2>5. key \in C
    BY <1>7 DEF Heads
  <2>6. a \in Seq(C)
    BY <1>5
  <2> QED
    BY <2>4, <2>5, <2>6
<1> QED
  BY <1>4, <1>6, <1>7

\* What the path of an accepted text leaves.
LEMMA QueryBegins ==
    ASSUME NEW t, OneQuery(t), Contains(t, "?"), Before(t, <<"?">>) = SubSeq(Prefix, 1, 3)
    PROVE  LET Q == After(t, <<"?">>) IN
           /\ Len(t) >= 4 /\ t[1] = "herdr-remote" /\ t[2] = "://" /\ t[3] = "pair" /\ t[4] = "?"
           /\ Q \in Seq(QueryChars) /\ Len(Q) = Len(t) - 4
           /\ \A x \in 1..Len(Q) : Q[x] = t[x + 4]
<1>1. /\ Prefix \in Seq(UriChars) /\ Len(Prefix) = 4
      /\ Prefix[1] = "herdr-remote" /\ Prefix[2] = "://" /\ Prefix[3] = "pair"
  BY CharactersAre DEF Prefix
<1>2. t \in Seq(UriChars) /\ Len(t) \in Nat /\ \A i, j \in 1..Len(t) : t[i] = "?" /\ t[j] = "?" => i = j
  BY DEF OneQuery
<1>3. PICK k \in 1..Len(t) : t[k] = "?"
  BY DEF Contains
<1>4. \A j \in 1..(k - 1) : t[j] # "?"
  <2> SUFFICES ASSUME NEW j \in 1..(k - 1), t[j] = "?" PROVE FALSE
    OBVIOUS
  <2>1. j \in 1..Len(t) /\ j # k
    BY <1>2, <1>3
  <2> QED
    BY <1>2, <1>3, <2>1
<1> DEFINE a == SubSeq(t, 1, k - 1)
           b == SubSeq(t, k + 1, Len(t))
           p == SubSeq(Prefix, 1, 3)
<1>5. Before(t, <<"?">>) = a /\ After(t, <<"?">>) = b
  BY <1>2, <1>3, <1>4, FirstIs
<1>6. Len(a) = k - 1 /\ \A x \in 1..(k - 1) : a[x] = t[x]
  <2>1. 1 \in Nat \ {0} /\ k - 1 \in Nat /\ 1 <= (k - 1) + 1 /\ k - 1 <= Len(t)
    BY <1>2, <1>3
  <2>2. Len(a) = ((k - 1) - 1) + 1 /\ \A x \in 1..(((k - 1) - 1) + 1) : a[x] = t[(1 + x) - 1]
    BY <1>2, <2>1, SliceIs
  <2>3. ((k - 1) - 1) + 1 = k - 1 /\ \A x \in 1..(k - 1) : (1 + x) - 1 = x
    BY <1>3
  <2> HIDE DEF a
  <2> QED
    BY <2>2, <2>3
<1>7. Len(p) = 3 /\ \A x \in 1..3 : p[x] = Prefix[x]
  <2>1. 1 \in Nat \ {0} /\ 3 \in Nat /\ 1 <= 3 + 1 /\ 3 <= Len(Prefix)
    BY <1>1
  <2>2. Len(p) = (3 - 1) + 1 /\ \A x \in 1..((3 - 1) + 1) : p[x] = Prefix[(1 + x) - 1]
    BY <1>1, <2>1, SliceIs
  <2>3. (3 - 1) + 1 = 3 /\ \A x \in 1..3 : (1 + x) - 1 = x
    OBVIOUS
  <2> HIDE DEF p
  <2> QED
    BY <2>2, <2>3
<1>8. a = p
  BY <1>5
<1> HIDE DEF a, p
<1>9. k = 4 /\ t[1] = "herdr-remote" /\ t[2] = "://" /\ t[3] = "pair"
  <2>3. Len(a) = k - 1 /\ Len(a) = 3
    BY <1>6, <1>7, <1>8
  <2>4. k - 1 = 3
    BY <2>3, Zenon
  <2>1. k = 4
    BY <1>2, <1>3, <2>4
  <2>2. \A x \in 1..3 : t[x] = Prefix[x]
    BY <1>6, <1>7, <1>8, <2>1
  <2> QED
    BY <1>1, <2>1, <2>2
<1>10. /\ b \in Seq(UriChars) /\ Len(b) = Len(t) - 4
       /\ \A x \in 1..(Len(t) - 4) : b[x] = t[x + 4]
  <2>1. k + 1 \in Nat \ {0} /\ Len(t) \in Nat /\ k + 1 <= Len(t) + 1 /\ Len(t) <= Len(t)
    BY <1>2, <1>3
  <2>2. b \in Seq(UriChars) /\ Len(b) = (Len(t) - (k + 1)) + 1
    BY <1>2, <2>1, SliceIs
  <2>3. \A x \in 1..((Len(t) - (k + 1)) + 1) : b[x] = t[((k + 1) + x) - 1]
    BY <1>2, <2>1, SliceIs
  <2>4. (Len(t) - (k + 1)) + 1 = Len(t) - 4 /\ \A x \in 1..(Len(t) - 4) : ((k + 1) + x) - 1 = x + 4
    BY <1>2, <1>9
  <2> HIDE DEF b
  <2> QED
    BY <2>2, <2>3, <2>4
<1> HIDE DEF b
<1>11. ASSUME NEW x \in 1..Len(b) PROVE b[x] \in QueryChars
  <2>1. b[x] = t[x + 4] /\ x + 4 \in 1..Len(t) /\ x + 4 # k
    BY <1>2, <1>9, <1>10
  <2>2. b[x] # "?" /\ b[x] \in UriChars
    BY <1>2, <1>3, <1>10, <2>1
  <2> QED
    BY <2>2 DEF UriChars
<1>12. b \in Seq(QueryChars)
  BY <1>10, <1>11
<1> QED
  BY <1>3, <1>5, <1>9, <1>10, <1>12

\* The place after the end of a part, or of the path, is where a name may begin.
Place(t, key, i) == i > 1 /\ t[i - 1] \in {"?", "&"} /\ Occurs(t, <<key, "=">>, i)

\* Which places these are.
LEMMA OccursIs ==
    ASSUME NEW C, NEW t \in Seq(C), NEW i \in 1..Len(t), NEW key
    PROVE  Occurs(t, <<key, "=">>, i) <=> i + 1 <= Len(t) /\ t[i] = key /\ t[i + 1] = "="
<1> DEFINE sep == <<key, "=">>
           w == SubSeq(t, i, (i + 2) - 1)
<1>1. Len(sep) = 2 /\ sep[1] = key /\ sep[2] = "=" /\ sep \in Seq({key, "="})
  OBVIOUS
<1>2. Occurs(t, sep, i) <=> (i + 2) - 1 <= Len(t) /\ w = sep
  <2> HIDE DEF sep
  <2> QED
    BY <1>1 DEF Occurs
<1>3. ASSUME i + 1 <= Len(t) PROVE w \in Seq(C) /\ Len(w) = 2 /\ w[1] = t[i] /\ w[2] = t[i + 1]
  <2>1. i \in Nat \ {0} /\ (i + 2) - 1 \in Nat /\ i <= ((i + 2) - 1) + 1 /\ (i + 2) - 1 <= Len(t)
    BY <1>3
  <2>2. w \in Seq(C) /\ Len(w) = (((i + 2) - 1) - i) + 1
    BY <2>1, SliceIs
  <2>3. \A x \in 1..((((i + 2) - 1) - i) + 1) : w[x] = t[(i + x) - 1]
    BY <2>1, SliceIs
  <2>4. (((i + 2) - 1) - i) + 1 = 2 /\ (i + 1) - 1 = i /\ (i + 2) - 1 = i + 1
    OBVIOUS
  <2> HIDE DEF w
  <2>5. Len(w) = 2 /\ \A x \in 1..2 : w[x] = t[(i + x) - 1]
    BY <2>2, <2>3, <2>4
  <2> QED
    BY <2>2, <2>4, <2>5
<1>4. (i + 2) - 1 = i + 1
  OBVIOUS
<1> HIDE DEF sep, w
<1>5. ASSUME i + 1 <= Len(t), t[i] = key, t[i + 1] = "=" PROVE w = sep
  BY <1>1, <1>3, <1>5
<1>6. ASSUME i + 1 <= Len(t), w = sep PROVE t[i] = key /\ t[i + 1] = "="
  BY <1>1, <1>3, <1>6
<1> QED
  BY <1>2, <1>4, <1>5, <1>6 DEF sep

\* Q is what follows the path in t.
QueryOf(t, Q) ==
    /\ t \in Seq(UriChars) /\ Len(t) >= 4
    /\ t[1] = "herdr-remote" /\ t[2] = "://" /\ t[3] = "pair" /\ t[4] = "?"
    /\ Q \in Seq(QueryChars) /\ Len(Q) = Len(t) - 4
    /\ \A x \in 1..Len(Q) : Q[x] = t[x + 4]

\* Where a query is cut into the fields q.
CutInto(Q, q, c) ==
    /\ q \in Seq(Seq(QueryChars)) /\ Whole(q, "&") /\ Cut(Q, Len(Q), q, c, "&")

\* The numbers of a cut.
LEMMA CutNumbers ==
    ASSUME NEW Q \in Seq(QueryChars), NEW q, NEW c, CutInto(Q, q, c), NEW a \in 1..Len(q)
    PROVE  /\ a \in Nat /\ c[a - 1] \in Nat /\ c[a] \in Nat /\ Len(q[a]) = c[a] - c[a - 1] - 1
           /\ c[a - 1] < c[a] /\ c[a] <= Len(Q) + 1
           /\ \A x \in 1..Len(q[a]) : q[a][x] = Q[c[a - 1] + x] /\ q[a][x] # "&"
           /\ (a = 1 => c[a - 1] = 0) /\ (a # 1 => Q[c[a - 1]] = "&" /\ c[a - 1] \in 1..Len(Q))
           /\ (a = Len(q) => c[a] = Len(Q) + 1) /\ (a # Len(q) => Q[c[a]] = "&")
<1>1. /\ c \in [0..Len(q) -> 0..(Len(Q) + 1)] /\ c[0] = 0 /\ c[Len(q)] = Len(Q) + 1
      /\ \A j \in 1..Len(q) : c[j - 1] < c[j] /\ Between(Q, q[j], c[j - 1], c[j])
      /\ \A j \in 1..(Len(q) - 1) : Q[c[j]] = "&"
  BY DEF CutInto, Cut
<1>2. a \in Nat /\ a - 1 \in 0..Len(q) /\ a \in 0..Len(q) /\ Len(q) \in Nat /\ Len(Q) \in Nat
  BY DEF CutInto
<1>3. c[a - 1] \in Nat /\ c[a] \in Nat /\ c[a] <= Len(Q) + 1
  <2>1. \A x \in 0..Len(q) : c[x] \in 0..(Len(Q) + 1)
    BY <1>1
  <2>2. c[a - 1] \in 0..(Len(Q) + 1) /\ c[a] \in 0..(Len(Q) + 1)
    BY <1>2, <2>1
  <2> QED
    BY <1>2, <2>2
<1>4. c[a - 1] < c[a] /\ Between(Q, q[a], c[a - 1], c[a])
  BY <1>1
<1>5. \A x \in 1..Len(q[a]) : q[a][x] # "&"
  BY DEF CutInto, Whole
<1>6. ASSUME a # 1 PROVE Q[c[a - 1]] = "&" /\ c[a - 1] \in 1..Len(Q)
  <2> DEFINE j == a - 1
  <2>1. j \in 1..(Len(q) - 1) /\ j \in 1..Len(q) /\ j - 1 \in 0..Len(q)
    BY <1>2, <1>6
  <2> HIDE DEF j
  <2>2. Q[c[j]] = "&" /\ c[j - 1] < c[j] /\ c[j - 1] \in 0..(Len(Q) + 1)
    BY <1>1, <2>1
  <2>3. c[j] < c[a] /\ c[j] \in Nat
    BY <1>3, <1>4 DEF j
  <2>4. c[j] \in 1..Len(Q)
    BY <1>2, <1>3, <2>2, <2>3
  <2> QED
    BY <2>2, <2>4 DEF j
<1>7. a # Len(q) => Q[c[a]] = "&"
  BY <1>1, <1>2
<1>8. (a = 1 => c[a - 1] = 0) /\ (a = Len(q) => c[a] = Len(Q) + 1)
  BY <1>1
<1> QED
  BY <1>2, <1>3, <1>4, <1>5, <1>6, <1>7, <1>8 DEF Between

\* A field begins at a place.
LEMMA FieldHasAPlace ==
    ASSUME NEW t, NEW Q, QueryOf(t, Q), NEW q, NEW c, CutInto(Q, q, c),
           NEW a \in 1..Len(q), NEW key, Heads(q[a], key)
    PROVE  c[a - 1] + 5 \in DOMAIN t /\ Place(t, key, c[a - 1] + 5)
<1> DEFINE b == c[a - 1]
           i == b + 5
<1>1. /\ t \in Seq(UriChars) /\ t[4] = "?" /\ Q \in Seq(QueryChars) /\ Len(Q) = Len(t) - 4
      /\ Len(t) \in Nat /\ \A x \in 1..Len(Q) : Q[x] = t[x + 4]
  BY DEF QueryOf
<1>2. /\ b \in Nat /\ c[a] \in Nat /\ Len(q[a]) = c[a] - b - 1 /\ c[a] <= Len(Q) + 1
      /\ \A x \in 1..Len(q[a]) : q[a][x] = Q[b + x] /\ q[a][x] # "&"
      /\ (a = 1 => b = 0) /\ (a # 1 => Q[b] = "&" /\ b \in 1..Len(Q))
  BY <1>1, CutNumbers
<1> HIDE DEF b
<1>3. Len(q[a]) >= 2 /\ q[a][1] = key /\ q[a][2] = "="
  BY DEF Heads
<1>4. b + 2 <= Len(Q) /\ 1 \in 1..Len(q[a]) /\ 2 \in 1..Len(q[a])
  <2>1. c[a] - b - 1 >= 2
    BY <1>2, <1>3, Zenon
  <2>2. b \in Nat /\ c[a] \in Nat /\ Len(q[a]) = c[a] - b - 1 /\ c[a] <= Len(Q) + 1
    BY <1>2
  <2>3. Len(Q) \in Nat
    BY <1>1
  <2>4. b + 2 <= Len(Q)
    BY <2>1, <2>2, <2>3
  <2>5. 1 \in 1..(c[a] - b - 1) /\ 2 \in 1..(c[a] - b - 1)
    BY <2>1, <2>2
  <2> QED
    BY <2>2, <2>4, <2>5
<1>5. b + 1 \in 1..Len(Q) /\ b + 2 \in 1..Len(Q) /\ Q[b + 1] = key /\ Q[b + 2] = "="
  <2>1. \A x \in 1..Len(q[a]) : q[a][x] = Q[b + x]
    BY <1>2
  <2>2. Q[b + 1] = key /\ Q[b + 2] = "="
    BY <1>3, <1>4, <2>1
  <2>3. b \in Nat /\ Len(Q) \in Nat
    BY <1>1, <1>2
  <2> QED
    BY <1>4, <2>2, <2>3
<1>6. t[(b + 1) + 4] = key /\ t[(b + 2) + 4] = "="
  BY <1>1, <1>5
<1>7. i \in 1..Len(t) /\ i + 1 <= Len(t) /\ (b + 1) + 4 = i /\ (b + 2) + 4 = i + 1 /\ i > 1 /\ i - 1 = b + 4
  BY <1>1, <1>2, <1>4
<1>8. t[b + 4] \in {"?", "&"}
  <2>1. CASE a = 1
    BY <1>1, <1>2, <2>1
  <2>2. CASE a # 1
    BY <1>1, <1>2, <2>2
  <2> QED
    BY <2>1, <2>2
<1> HIDE DEF i
<1>9. Occurs(t, <<key, "=">>, i)
  BY <1>1, <1>6, <1>7, OccursIs
<1>10. i \in DOMAIN t /\ Place(t, key, i)
  BY <1>1, <1>7, <1>8, <1>9 DEF Place
<1> QED
  BY <1>10 DEF i, b

\* A place is where a field begins.
LEMMA PlaceHasAField ==
    ASSUME NEW t, NEW Q, QueryOf(t, Q), NEW q, NEW c, CutInto(Q, q, c), Len(q) > 0,
           NEW key \in Keys, NEW i \in DOMAIN t, Place(t, key, i)
    PROVE  \E a \in 1..Len(q) : i = c[a - 1] + 5 /\ Heads(q[a], key)
<1> DEFINE n == Len(Q)
<1>1. /\ t \in Seq(UriChars) /\ Q \in Seq(QueryChars) /\ n = Len(t) - 4 /\ Len(t) \in Nat /\ n \in Nat
      /\ t[1] = "herdr-remote" /\ t[2] = "://" /\ t[3] = "pair"
      /\ \A x \in 1..n : Q[x] = t[x + 4]
  BY DEF QueryOf
<1>2. i \in 1..Len(t) /\ i \in Nat /\ i > 1 /\ t[i - 1] \in {"?", "&"}
  BY <1>1 DEF Place
<1>3. i + 1 <= Len(t) /\ t[i] = key /\ t[i + 1] = "="
  BY <1>1, <1>2, OccursIs DEF Place
<1>4. i >= 5
  <2>1. i - 1 # 1 /\ i - 1 # 2 /\ i - 1 # 3
    BY <1>1, <1>2
  <2> QED
    BY <1>2, <2>1
<1> DEFINE b == i - 5
<1>5. b \in Nat /\ b + 5 = i /\ b + 2 <= n /\ b + 1 \in 1..n /\ b + 2 \in 1..n
      /\ (b + 1) + 4 = i /\ (b + 2) + 4 = i + 1 /\ b + 4 = i - 1
  <2>1. n = Len(t) - 4 /\ Len(t) \in Nat /\ i \in Nat /\ i + 1 <= Len(t)
    BY <1>1, <1>2, <1>3
  <2> HIDE DEF n
  <2> QED
    BY <1>4, <2>1
<1> HIDE DEF b
<1>6. Q[b + 1] = key /\ Q[b + 2] = "="
  <2>1. Q[b + 1] = t[(b + 1) + 4] /\ Q[b + 2] = t[(b + 2) + 4]
    BY <1>1, <1>5
  <2> QED
    BY <1>3, <1>5, <2>1
<1>7. Len(q) \in Nat /\ Whole(q, "&") /\ Cut(Q, n, q, c, "&")
  BY DEF CutInto
<1>8. \E a \in 1..Len(q) : c[a - 1] = b
  <2>1. CASE b = 0
    <3>1. 1 \in 1..Len(q) /\ c[1 - 1] = 0
      BY <1>7 DEF Cut
    <3> QED
      BY <2>1, <3>1
  <2>2. CASE b # 0
    <3>1. b \in 1..n
      BY <1>5, <2>2
    <3>2. Q[b] = "&"
      <4>1. Q[b] = t[b + 4] /\ Q[b] \in QueryChars
        BY <1>1, <3>1
      <4> QED
        BY <1>2, <1>5, <4>1, CharactersAre
    <3>3. PICK j \in 1..Len(q) : c[j - 1] < b /\ b <= c[j]
      BY <1>1, <1>7, <3>1, CutCovers
    <3> DEFINE d == c[j - 1]
    <3>4. /\ d \in Nat /\ c[j] \in Nat /\ Len(q[j]) = c[j] - d - 1 /\ c[j] <= n + 1
          /\ \A x \in 1..Len(q[j]) : q[j][x] = Q[d + x] /\ q[j][x] # "&"
          /\ (j = Len(q) => c[j] = n + 1) /\ j \in Nat
      BY <1>1, CutNumbers
    <3>5. d < b /\ b <= c[j]
      BY <3>3
    <3> HIDE DEF d
    <3>6. ~(b < c[j])
      <4> SUFFICES ASSUME b < c[j] PROVE FALSE
        OBVIOUS
      <4> DEFINE x == b - d
      <4>1. x \in 1..Len(q[j]) /\ d + x = b
        BY <1>5, <3>4, <3>5
      <4> HIDE DEF x
      <4>2. q[j][x] = Q[b] /\ q[j][x] # "&"
        BY <3>4, <4>1
      <4> QED
        BY <3>2, <4>2
    <3>7. c[j] = b
      BY <1>5, <3>4, <3>5, <3>6
    <3>8. j # Len(q)
      BY <1>1, <1>5, <3>1, <3>4, <3>7
    <3>9. j + 1 \in 1..Len(q) /\ (j + 1) - 1 = j
      BY <1>7, <3>8
    <3> QED
      BY <3>7, <3>9
  <2> QED
    BY <2>1, <2>2
<1>9. PICK a \in 1..Len(q) : c[a - 1] = b
  BY <1>8
<1>10. /\ c[a] \in Nat /\ Len(q[a]) = c[a] - b - 1 /\ b < c[a]
       /\ \A x \in 1..Len(q[a]) : q[a][x] = Q[b + x]
       /\ (a = Len(q) => c[a] = n + 1) /\ (a # Len(q) => Q[c[a]] = "&")
  <2> DEFINE d == c[a - 1]
  <2>1. d = b
    BY <1>9
  <2>2. /\ d \in Nat /\ c[a] \in Nat /\ Len(q[a]) = c[a] - d - 1 /\ d < c[a]
        /\ \A x \in 1..Len(q[a]) : q[a][x] = Q[d + x]
        /\ (a = Len(q) => c[a] = n + 1) /\ (a # Len(q) => Q[c[a]] = "&")
    BY <1>1, CutNumbers
  <2> HIDE DEF d
  <2> QED
    BY <2>1, <2>2
<1>11. c[a] # b + 1 /\ c[a] # b + 2
  <2>1. key # "&"
    BY CharactersAre
  <2>2. CASE a = Len(q)
    BY <1>1, <1>5, <1>10, <2>2
  <2>3. CASE a # Len(q)
    BY <1>6, <1>10, <2>1, <2>3
  <2> QED
    BY <2>2, <2>3
<1>12. Len(q[a]) >= 2 /\ 1 \in 1..Len(q[a]) /\ 2 \in 1..Len(q[a])
  <2>1. c[a] \in Nat /\ b \in Nat /\ b < c[a] /\ Len(q[a]) = c[a] - b - 1
    BY <1>5, <1>10
  <2>2. c[a] - b - 1 >= 2
    BY <1>11, <2>1
  <2>3. 1 \in 1..(c[a] - b - 1) /\ 2 \in 1..(c[a] - b - 1)
    BY <2>1, <2>2
  <2> QED
    BY <2>1, <2>2, <2>3
<1>13. Heads(q[a], key)
  BY <1>6, <1>10, <1>12 DEF Heads
<1> QED
  BY <1>5, <1>9, <1>13

\* A text that is accepted has a path, and fields that name each of the four once.
LEMMA AcceptedIs ==
    ASSUME NEW t, ParseUri(t).ok
    PROVE  LET q == SplitOn(After(t, <<"?">>), "&") IN
           /\ Contains(t, "?") /\ Before(t, <<"?">>) = SubSeq(Prefix, 1, 3)
           /\ \A f \in ToSet(q) : Contains(f, "=")
           /\ \A key \in Keys : Named(q, key) # {} /\ \A i, j \in Named(q, key) : i = j
<1> DEFINE q == SplitOn(After(t, <<"?">>), "&")
           lacks == {key \in Keys : Named(q, key) = {}}
<1>1. \A error : ~Refusal(error).ok
  BY DEF Refusal
<1>2. /\ Contains(t, "?") /\ Before(t, <<"?">>) = SubSeq(Prefix, 1, 3)
      /\ \A f \in ToSet(q) : Contains(f, "=")
      /\ ParseUri(t) = ParseQuery(q)
  <2> HIDE DEF q
  <2> QED
    BY <1>1 DEF ParseUri, q
<1> HIDE DEF q
<1>3. ~Repeated(q) /\ lacks = {}
  BY <1>1, <1>2 DEF ParseQuery
<1>4. \A key \in Keys : Named(q, key) # {}
  BY <1>3
<1>5. \A key \in Keys : \A i, j \in Named(q, key) : i = j
  BY <1>3 DEF Repeated
<1> QED
  BY <1>2, <1>4, <1>5 DEF q

\* R-11-141: each of the four names stands at one place of an accepted text.
LEMMA AcceptedNamesOnce ==
    ASSUME NEW t, OneQuery(t), ParseUri(t).ok, NEW key \in Keys
    PROVE  Cardinality({i \in DOMAIN t : Place(t, key, i)}) = 1
<1> DEFINE Q == After(t, <<"?">>)
           q == SplitOn(Q, "&")
           S == {i \in DOMAIN t : Place(t, key, i)}
<1>1. /\ Contains(t, "?") /\ Before(t, <<"?">>) = SubSeq(Prefix, 1, 3)
      /\ \A f \in ToSet(q) : Contains(f, "=")
      /\ Named(q, key) # {} /\ \A i, j \in Named(q, key) : i = j
  BY AcceptedIs
<1>2. QueryOf(t, Q)
  BY <1>1, QueryBegins DEF QueryOf, OneQuery
<1> HIDE DEF Q
<1>3. Q \in Seq(QueryChars)
  BY <1>2 DEF QueryOf
<1>4. q \in Seq(Seq(QueryChars)) /\ q # <<>> /\ Whole(q, "&") /\ \E c : Cut(Q, Len(Q), q, c, "&")
  BY <1>3, SplitIsACut DEF SplitAt, PartSeqs
<1> HIDE DEF q
<1>5. PICK c : CutInto(Q, q, c)
  BY <1>4 DEF CutInto
<1>6. Len(q) \in Nat /\ Len(q) > 0 /\ DOMAIN q = 1..Len(q)
  BY <1>4
<1>7. ASSUME NEW a \in 1..Len(q) PROVE a \in Named(q, key) <=> Heads(q[a], key)
  <2>1. q[a] \in Seq(QueryChars) /\ q[a] \in ToSet(q)
    <3>1. q[a] \in Seq(QueryChars)
      BY <1>4, <1>6
    <3>2. ToSet(q) = {q[x] : x \in DOMAIN q}
      BY DEF ToSet
    <3>3. q[a] \in ToSet(q)
      BY Zenon, <1>6, <3>2
    <3> QED
      BY <3>1, <3>3
  <2>2. key # "="
    BY CharactersAre
  <2>3. Before(q[a], <<"=">>) = <<key>> <=> Heads(q[a], key)
    BY <1>1, <2>1, <2>2, NameIs
  <2> QED
    BY <1>6, <2>3 DEF Named
<1>8. PICK a \in 1..Len(q) : a \in Named(q, key)
  BY <1>1, <1>6 DEF Named
<1> DEFINE i == c[a - 1] + 5
<1>9. i \in S
  <2>1. Heads(q[a], key)
    BY <1>7, <1>8
  <2> QED
    BY <1>2, <1>5, <2>1, FieldHasAPlace
<1>10. ASSUME NEW j \in S PROVE j = i
  <2>1. PICK b \in 1..Len(q) : j = c[b - 1] + 5 /\ Heads(q[b], key)
    BY <1>2, <1>5, <1>6, PlaceHasAField
  <2>2. b = a
    BY <1>1, <1>7, <1>8, <2>1
  <2> QED
    BY <2>1, <2>2
<1> HIDE DEF i, S
<1>11. S = {i}
  BY <1>9, <1>10
<1>12. Cardinality(S) = 1
  BY <1>11, FS_Singleton
<1> QED
  BY <1>12 DEF S

\* R-11-140, R-11-141 and LivePhrase::generate: every URI that is shown is read
\* back as it was meant, and so is one whose fields were reordered or joined by
\* unknown ones; whatever else a Device has, what it accepts names each field once.
THEOREM UrisFaithful == TextSpec => []PairUrisAreRead
<1>1. TextInit => UriInv
  BY DEF TextInit, NoCopy, NoPhrase, UriInv
<1>2. TextInv /\ UriInv /\ [TextNext]_textVars => UriInv'
  BY UriKeeps
<1>3. TextInv /\ UriInv => PairUrisAreRead
  <2> SUFFICES ASSUME TextInv, UriInv PROVE ScannedUriWorks /\ ReadOneWayOnly /\ ShownUriParses
    BY DEF PairUrisAreRead
  <2>1. ASSUME copy.kind = "uri", copy.faithful
        PROVE  /\ ParseUri(copy.text).ok /\ ParseUri(copy.text).origin = origin
               /\ ParseUri(copy.text).phrase = Canonical(copy.of)
    <3> DEFINE K == Canonical(copy.of)
    <3>1. copy.of \in [1..WORD_COUNT -> WordList] /\ Faithful(copy.text, origin, K) /\ origin \in Origins
      BY <2>1 DEF UriInv, TextInv, TextTypeOK
    <3>0. PICK h \in Handles : \E ks, q :
              /\ q \in Seq(Seq(QueryChars)) /\ Lists(q, ks, Said(origin, h, K))
              /\ copy.text = Prefix \o Join(q, "&")
      BY <3>1 DEF Faithful
    <3>2. PICK ks, q :
              /\ q \in Seq(Seq(QueryChars)) /\ Lists(q, ks, Said(origin, h, K))
              /\ copy.text = Prefix \o Join(q, "&")
      BY <3>0
    <3>3. Pairing(origin, h, K)
      BY <3>1, KeyIsPlain
    <3> HIDE DEF K
    <3>4. ~(Len(Prefix \o Join(q, "&")) > MaxLen)
      <4>1. Len(Prefix \o Join(q, "&")) <= MaxLen
        BY <3>1, <3>2 DEF Faithful
      <4>2. Len(Prefix \o Join(q, "&")) \in Nat
        BY <3>2, WrittenLength
      <4> QED
        BY <4>1, <4>2, TextBounds
    <3>5. ParseUri(copy.text) = [ok |-> TRUE, origin |-> origin, handle |-> h, phrase |-> K]
      BY <3>2, <3>3, <3>4, ListedParses
    <3> QED
      BY <3>5 DEF K
  <2>2. ASSUME copy.kind = "uri", ParseUri(copy.text).ok, NEW key \in Keys
        PROVE  Cardinality({i \in DOMAIN copy.text :
                   i > 1 /\ copy.text[i - 1] \in {"?", "&"} /\ Occurs(copy.text, <<key, "=">>, i)}) = 1
    <3>1. Cardinality({i \in DOMAIN copy.text : Place(copy.text, key, i)}) = 1
      BY <2>2, AcceptedNamesOnce DEF UriInv
    <3> QED
      BY <3>1, Zenon DEF Place
  <2>3. ASSUME session.state = "Live"
        PROVE  ParseUri(Uri) = [ok |-> TRUE, origin |-> origin, handle |-> session.handle,
                                phrase |-> Canonical(session.words)]
    <3> DEFINE h == session.handle
               K == Canonical(session.words)
    <3>1. session.words \in [1..WORD_COUNT -> WordList] /\ h \in Handles /\ origin \in Origins
      BY <2>3, DrawnFromTheList DEF TextInv, TextTypeOK
    <3>2. Pairing(origin, h, K)
      BY <3>1, KeyIsPlain
    <3>3. Len(Uri) <= MaxLen /\ Uri = Build([origin |-> origin, handle |-> h, phrase |-> K])
      BY <2>3 DEF UriInv, Uri
    <3> HIDE DEF h, K
    <3>4. PICK ks, q : /\ q \in Seq(Seq(QueryChars)) /\ Lists(q, ks, Said(origin, h, K))
                       /\ Uri = Prefix \o Join(q, "&")
      BY <3>2, <3>3, BuiltIsListed
    <3>5. ~(Len(Prefix \o Join(q, "&")) > MaxLen)
      <4>1. Len(Prefix \o Join(q, "&")) \in Nat
        BY <3>4, WrittenLength
      <4> QED
        BY <3>3, <3>4, <4>1, TextBounds
    <3>6. ParseUri(Uri) = [ok |-> TRUE, origin |-> origin, handle |-> h, phrase |-> K]
      BY <3>2, <3>4, <3>5, ListedParses
    <3> QED
      BY <3>6 DEF h, K
  <2> QED
    BY <2>1, <2>2, <2>3 DEF ScannedUriWorks, ReadOneWayOnly, ShownUriParses
<1> QED
  BY <1>1, <1>2, <1>3, TextInvariant, PTL DEF TextSpec
=============================================================================
