--------------------------- MODULE PaneScheduler ---------------------------
(***************************************************************************)
(* The read schedule of one watched pane on the Host                        *)
(* (crates/herdr-relay/src/watch/scheduler.rs) and the poll_scheduler step   *)
(* of the run loop that drives it (watch/run_loop.rs).                       *)
(*                                                                         *)
(* Three triggers share one stream of pane.read calls: a moved revision      *)
(* (read at once, then at most once per coalescing window), the poll timer,  *)
(* and the offsets armed by a forwarded send_input.  All of them obey one    *)
(* cap on the reads of any second.  Time is counted in ticks; the thread     *)
(* that runs the loop also serves Device requests and makes blocking Herdr   *)
(* calls, so it reaches a deadline up to MaxLate ticks late.                 *)
(*                                                                         *)
(* A behaviour is the life of one PaneScheduler: watch_pane makes a fresh    *)
(* one, with an empty history, for every watch.                              *)
(***************************************************************************)
EXTENDS Integers, Sequences

CONSTANTS Window,      \* R-10-029, the coalescing window
          Poll,        \* R-10-070, the poll period
          Offsets,     \* R-10-071, the input-read offsets
          MaxPerSec,   \* R-10-030, the cap on reads per second
          Second,      \* ticks in one second
          MaxLate,     \* how late the thread may serve a deadline
          MaxFails,    \* bound: pane.read calls Herdr fails
          Horizon      \* bound: the last instant of the clock

ASSUME SchedulerAssumption ==
    /\ Window \in Nat \ {0} /\ Poll \in Nat \ {0} /\ Second \in Nat \ {0}
    /\ Offsets \subseteq Nat
    /\ MaxPerSec \in Nat \ {0}
    /\ MaxLate \in Nat /\ Horizon \in Nat
    /\ MaxFails \in Nat /\ MaxFails < MaxPerSec

NoInstant == -1     \* Option::None, for an Instant

VARIABLES
    now,                 \* Instant::now()
    pending_due,         \* the armed revision trigger, or NoInstant
    window_open_until,   \* the end of the last window, or NoInstant
    next_poll,           \* the armed poll
    input_due,           \* the armed input reads
    read_history,        \* the instants of the counted reads, oldest first
    text,                \* what the pane shows (external: the terminal)
    last_frame,          \* what the last sent frame shows (last_frame_hash)
    reads,               \* history: every read issued, oldest first
    moved_at,            \* history: the oldest revision no read has answered
    stale_at,            \* history: since when last_frame differs from text
    fails                \* history: pane.read calls that failed

timers == <<pending_due, window_open_until, next_poll, input_due>>
schedulerVars == <<now, timers, read_history, text, last_frame, reads, moved_at,
                   stale_at, fails>>

Instant == 0..Horizon
Due     == Nat                       \* a deadline may lie past the horizon
Texts   == {"a", "b"}                \* a repaint toggles what the pane shows

\* Each variable holds what its field of PaneScheduler can hold.
SchedulerTypeOK ==
    /\ now \in Instant
    /\ pending_due \in Due \cup {NoInstant}
    /\ window_open_until \in Due \cup {NoInstant}
    /\ next_poll \in Due
    /\ input_due \subseteq Due
    /\ read_history \in Seq(Instant)
    /\ text \in Texts /\ last_frame \in Texts
    /\ reads \in Seq(Instant)
    /\ moved_at \in Instant \cup {NoInstant}
    /\ stale_at \in Instant \cup {NoInstant}
    /\ fails \in 0..MaxFails

(***************************************************************************)
(* watch_pane has just sent the attach frame and called PaneScheduler::new.  *)
(***************************************************************************)
SchedulerInit ==
    /\ now = 0
    /\ pending_due = NoInstant
    /\ window_open_until = NoInstant
    /\ next_poll = Poll
    /\ input_due = {}
    /\ read_history = <<>>
    /\ text = "a" /\ last_frame = "a"
    /\ reads = <<>>
    /\ moved_at = NoInstant /\ stale_at = NoInstant
    /\ fails = 0

-----------------------------------------------------------------------------
Deadlines == {next_poll} \cup input_due
                \cup (IF pending_due = NoInstant THEN {} ELSE {pending_due})

(***************************************************************************)
(* The clock moves, but not past a deadline the thread is MaxLate behind on: *)
(* recv_timeout waits no longer than next_deadline() and every wake-up of    *)
(* the loop, an event's or a timer's, ends in poll_scheduler.                *)
(***************************************************************************)
Tick ==
    /\ now < Horizon
    /\ \A due \in Deadlines : now < due + MaxLate
    /\ now' = now + 1
    /\ UNCHANGED <<timers, read_history, text, last_frame, reads, moved_at,
                   stale_at, fails>>

(***************************************************************************)
(* The terminal repaints.  Nothing tells the bridge: R-02-026, a pane can     *)
(* repaint without its revision moving.                                      *)
(***************************************************************************)
Repaint ==
    /\ text' = IF text = "a" THEN "b" ELSE "a"
    /\ stale_at' = IF text' = last_frame THEN NoInstant ELSE now
    /\ UNCHANGED <<now, timers, read_history, last_frame, reads, moved_at, fails>>

OnRevisionExtendsWindow ==   \* slip: every event restarts the window
    /\ pending_due' = IF window_open_until = NoInstant THEN now ELSE now + Window
    /\ moved_at' = IF moved_at = NoInstant THEN now ELSE moved_at
    /\ UNCHANGED <<now, window_open_until, next_poll, input_due, read_history,
                   text, last_frame, reads, stale_at, fails>>

(***************************************************************************)
(* on_revision_changed: an event passed the revision gate.                   *)
(***************************************************************************)
OnRevisionChanged ==
    /\ pending_due' = IF pending_due # NoInstant THEN pending_due
                      ELSE IF window_open_until = NoInstant \/ window_open_until < now
                           THEN now ELSE window_open_until
    /\ moved_at' = IF moved_at = NoInstant THEN now ELSE moved_at
    /\ UNCHANGED <<now, window_open_until, next_poll, input_due, read_history,
                   text, last_frame, reads, stale_at, fails>>

(***************************************************************************)
(* on_input_sent: a send_input reached Herdr; its reads replace the armed    *)
(* ones.                                                                     *)
(***************************************************************************)
OnInputSent ==
    /\ input_due' = {now + o : o \in Offsets}
    /\ UNCHANGED <<now, pending_due, window_open_until, next_poll, read_history,
                   text, last_frame, reads, moved_at, stale_at, fails>>

-----------------------------------------------------------------------------
RevisionDue == pending_due # NoInstant /\ now >= pending_due
PollDue     == now >= next_poll
InputDue    == \E due \in input_due : now >= due

ExpiredEarly(k) ==   \* slip: a read leaves the history one tick too soon
    /\ \A i \in 1..k : now - read_history[i] >= Second - 1
    /\ k < Len(read_history) => now - read_history[k + 1] < Second - 1

\* The first k reads of the history are a second old, and the next is not.
Expired(k) ==
    /\ \A i \in 1..k : now - read_history[i] >= Second
    /\ k < Len(read_history) => now - read_history[k + 1] < Second

Kept(k) == SubSeq(read_history, k + 1, Len(read_history))

(***************************************************************************)
(* fire, up to the cap check: the poll is re-armed and the input deadlines   *)
(* served are consumed whether or not the cap lets the read through.         *)
(***************************************************************************)
Rearm ==
    /\ RevisionDue \/ PollDue \/ InputDue
    /\ next_poll' = IF PollDue THEN now + Poll ELSE next_poll
    /\ input_due' = IF InputDue THEN {due \in input_due : due > now} ELSE input_due

(***************************************************************************)
(* fire at the cap: a revision trigger waits for the oldest counted read to  *)
(* leave the second; a poll or an input read is skipped.                     *)
(***************************************************************************)
RateLimited ==
    /\ Rearm
    /\ \E k \in 0..Len(read_history) :
          /\ Expired(k)
          /\ Len(Kept(k)) >= MaxPerSec
          /\ read_history' = Kept(k)
          /\ pending_due' = IF RevisionDue THEN Kept(k)[1] + Second ELSE pending_due
    /\ UNCHANGED <<now, window_open_until, text, last_frame, reads, moved_at,
                   stale_at, fails>>

(***************************************************************************)
(* fire below the cap: the read is counted and the trigger it serves is      *)
(* consumed before Herdr is called.                                          *)
(***************************************************************************)
Count ==
    /\ Rearm
    /\ \E k \in 0..Len(read_history) :
          /\ Expired(k)
          /\ Len(Kept(k)) < MaxPerSec
          /\ read_history' = Append(Kept(k), now)
    /\ reads' = Append(reads, now)
    /\ pending_due' = IF RevisionDue THEN NoInstant ELSE pending_due
    /\ window_open_until' = IF RevisionDue THEN now + Window ELSE window_open_until
    /\ moved_at' = IF RevisionDue THEN NoInstant ELSE moved_at

ReadOnlyRevisions ==   \* slip: only a revision's read sends its frame
    /\ Count
    /\ last_frame' = IF RevisionDue THEN text ELSE last_frame
    /\ stale_at' = IF RevisionDue THEN NoInstant ELSE stale_at
    /\ UNCHANGED <<now, text, fails>>

\* poll_scheduler with an answer from Herdr: a revision read always sends its
\* frame, a poll or input read only one that differs from the last.  Either
\* way last_frame becomes what the pane showed.
Read ==
    /\ Count
    /\ last_frame' = text
    /\ stale_at' = NoInstant
    /\ UNCHANGED <<now, text, fails>>

\* poll_scheduler when pane.read fails or times out: no frame, and the trigger
\* stays consumed.
ReadFails ==
    /\ fails < MaxFails
    /\ Count
    /\ fails' = fails + 1
    /\ UNCHANGED <<now, text, last_frame, stale_at>>

SchedulerNext ==
    \/ Tick \/ Repaint
    \/ OnRevisionChanged \/ OnInputSent
    \/ RateLimited \/ Read \/ ReadFails

SchedulerSpec == SchedulerInit /\ [][SchedulerNext]_schedulerVars

-----------------------------------------------------------------------------
(***************************************************************************)
(* R-10-030.  No second ever holds more than MaxPerSec reads, whichever of   *)
(* the three triggers asked for them and however the second is cut: the read *)
(* MaxPerSec places earlier is always at least a second older.               *)
(***************************************************************************)
ReadsCapped ==
    \A i \in 1..Len(reads) :
        i > MaxPerSec => reads[i] - reads[i - MaxPerSec] >= Second

(***************************************************************************)
(* R-10-029 and R-10-031.  A revision that moved is read within one window,  *)
(* or, at the cap, within one more second: later revisions, polls and input  *)
(* reads never push the read further away.                                   *)
(***************************************************************************)
RevisionReadInTime ==
    moved_at # NoInstant => now - moved_at <= Window + Second + 2 * MaxLate

(***************************************************************************)
(* R-10-070.  What the Device was last sent is never older than the time the *)
(* cap can hold every read back plus one poll period, with one period more   *)
(* for each read Herdr failed: a repaint no event announces is not missed,   *)
(* and no burst of events or keystrokes starves it.                          *)
(***************************************************************************)
FrameFreshInTime ==
    stale_at # NoInstant =>
        now - stale_at <= Second + (1 + fails) * (Poll + MaxLate)

(***************************************************************************)
(* R-10-029.  Two reads that a revision caused are a whole window apart, the *)
(* ones the cap delayed too.                                                 *)
(***************************************************************************)
WindowsDoNotOverlap ==
    [][window_open_until' # window_open_until =>
           window_open_until = NoInstant \/ now >= window_open_until]_schedulerVars

=============================================================================
