---------------------------- MODULE WatchSession ----------------------------
(***************************************************************************)
(* One Device session on the Host: the blocking bridge_thread that owns the  *)
(* watched pane and the held submit (bridge.rs, watch/held_input.rs,         *)
(* watch/requests.rs, watch/incoming.rs), the serve_session task that feeds  *)
(* it requests and sends its replies, Herdr with its one events              *)
(* subscription, and the Device.                                             *)
(*                                                                         *)
(* A submit with defer "until_idle" is held while the pane's agent works and *)
(* typed when a status event says that it stopped.  The thread learns of the *)
(* agent in two ways that race: a snapshot it fetches, and the subscription's*)
(* stream, which covers only the panes known when it was opened and which is *)
(* replaced, with whatever it still holds, each time a pane is created.      *)
(*                                                                         *)
(* The pane's frames and their schedule are PaneScheduler's.                 *)
(***************************************************************************)
EXTENDS Naturals, Sequences

CONSTANTS Panes,       \* panes Herdr may have
          Submits,     \* correlation ids of until_idle requests
          MaxRequests, \* bound: requests queued for the thread
          MaxLines,    \* bound: lines unread on the subscription
          None

ASSUME SessionAssumption ==
    /\ None \notin Panes \cup Submits \cup [pane : Panes, corr : Submits]
    /\ MaxRequests \in Nat \ {0} /\ MaxLines \in Nat \ {0}

Kinds   == {"queued", "accepted", "refused"}     \* the three send_input_acks
Request == [do : {"watch", "unwatch", "cancel", "enter"}, pane : Panes]
             \cup [do : {"until_idle"}, pane : Panes, corr : Submits]
             \cup [do : {"cancel_pending"}]
Line    == [event : {"idle", "closed", "created"}, pane : Panes]
Reply   == [corr : Submits, kind : Kinds]

VARIABLES
    open,        \* external: the panes Herdr has
    known,       \* external: the panes Herdr ever had (ids are not reused)
    working,     \* external: the panes whose agent works
    lines,       \* the reader thread's channel of subscription lines
    covered,     \* panes whose status changes the subscription carries
    sub,         \* bridge_thread's subscription: "up", "broken" or "none"
    requests,    \* req_tx / req_rx
    at,          \* where bridge_thread is: "serve", "tick" or "ended"
    resubscribe, \* run_until saw a created pane
    watched,     \* Bridge.watched
    pending,     \* Bridge.pending_input: [pane, corr] or None
    replies,     \* Bridge.input_replies
    out,         \* out_tx / out_rx
    got,         \* the replies the Device was sent, in order
    session,     \* serve_session: "open", "closing", "closed" or "lost"
    asked,       \* history: until_idle requests the Device made
    typed,       \* history: submits Herdr typed, in order
    missed       \* history: the release of the held submit was not delivered

herdrVars  == <<open, known, working>>
streamVars == <<lines, covered, sub>>
bridgeVars == <<watched, pending, replies, typed>>
vars == <<herdrVars, streamVars, requests, at, resubscribe, bridgeVars, out, got,
          session, asked, missed>>

active == session \in {"open", "closing"}     \* the session_active flag

\* Each variable holds what its field in bridge.rs and watch/ can hold.
TypeOK ==
    /\ known \subseteq Panes /\ open \subseteq known /\ working \subseteq open
    /\ lines \in Seq(Line) /\ Len(lines) <= MaxLines + 1
    /\ covered \subseteq Panes
    /\ sub \in {"up", "broken", "none"}
    /\ requests \in Seq(Request) /\ Len(requests) <= MaxRequests + 1
    /\ at \in {"serve", "tick", "ended"}
    /\ resubscribe \in BOOLEAN
    /\ watched \in Panes \cup {None}
    /\ pending \in [pane : Panes, corr : Submits] \cup {None}
    /\ replies \in Seq(Reply)
    /\ out \in Seq(Reply)
    /\ got \in Seq(Reply)
    /\ session \in {"open", "closing", "closed", "lost"}
    /\ asked \subseteq Submits
    /\ typed \in Seq(Submits)
    /\ missed \in BOOLEAN

(***************************************************************************)
(* A session has just been registered; the startup open may have failed.     *)
(***************************************************************************)
Init ==
    /\ open \in SUBSET Panes /\ known = open /\ working \in SUBSET open
    /\ lines = <<>>
    /\ \/ sub = "up" /\ covered = open
       \/ sub = "none" /\ covered = {}
    /\ requests = <<>>
    /\ at = "serve" /\ resubscribe = FALSE
    /\ watched = None /\ pending = None /\ replies = <<>>
    /\ out = <<>> /\ got = <<>>
    /\ session = "open"
    /\ asked = {} /\ typed = <<>> /\ missed = FALSE

-----------------------------------------------------------------------------
HeldFor(p) == IF pending = None THEN FALSE ELSE pending.pane = p

\* The stream holds the line that will end the held submit.
ReleaseOnTheWay == \E i \in 1..Len(lines) :
    HeldFor(lines[i].pane) /\ lines[i].event \in {"idle", "closed"}

(***************************************************************************)
(* Herdr, as the code uses it (external).  A change puts a line on the live  *)
(* stream: a status change if the pane is covered, a pane's own opening and  *)
(* closing always.  A pane that goes with its tab has no line of its own,    *)
(* and lines that only become a tree_update are left out.                    *)
(***************************************************************************)
Heard(event, p) == sub = "up" /\ (event = "idle" => p \in covered)

Push(event, p) ==
    IF Heard(event, p)
    THEN /\ Len(lines) < MaxLines
         /\ lines' = Append(lines, [event |-> event, pane |-> p])
    ELSE lines' = lines

AgentStarts(p) ==
    /\ p \in open \ working
    /\ working' = working \cup {p}
    /\ missed' = (missed /\ ~HeldFor(p))
    /\ UNCHANGED <<open, known, streamVars, requests, at, resubscribe, bridgeVars, out,
                   got, session, asked>>

AgentStops(p) ==
    /\ p \in working
    /\ working' = working \ {p}
    /\ Push("idle", p)
    /\ missed' = (missed \/ (HeldFor(p) /\ ~Heard("idle", p)))
    /\ UNCHANGED <<open, known, covered, sub, requests, at, resubscribe, bridgeVars, out,
                   got, session, asked>>

PaneOpens(p) ==
    /\ p \notin known
    /\ open' = open \cup {p} /\ known' = known \cup {p}
    /\ Push("created", p)
    /\ UNCHANGED <<working, covered, sub, requests, at, resubscribe, bridgeVars, out,
                   got, session, asked, missed>>

PaneCloses(p) ==
    /\ p \in open
    /\ open' = open \ {p} /\ working' = working \ {p}
    /\ \/ /\ Push("closed", p)
          /\ missed' = (missed \/ (HeldFor(p) /\ ~Heard("closed", p)))
       \/ /\ lines' = lines                              \* with its tab
          /\ missed' = (missed \/ HeldFor(p))
    /\ UNCHANGED <<known, covered, sub, requests, at, resubscribe, bridgeVars, out,
                   got, session, asked>>

\* Herdr restarts or drops the connection; the lines already read remain.
SubscriptionBreaks ==
    /\ sub = "up"
    /\ sub' = "broken"
    /\ UNCHANGED <<herdrVars, lines, covered, requests, at, resubscribe, bridgeVars,
                   out, got, session, asked, missed>>

-----------------------------------------------------------------------------
(***************************************************************************)
(* The Device, and serve_session.                                            *)
(***************************************************************************)

\* dispatch_incoming: a frame of the Device becomes a request of the thread.
DispatchIncoming ==
    /\ session = "open"
    /\ Len(requests) < MaxRequests
    /\ \E p \in Panes :
          \/ /\ \E do \in {"watch", "unwatch", "cancel", "enter"} :
                   requests' = Append(requests, [do |-> do, pane |-> p])
             /\ asked' = asked
          \/ \E c \in Submits \ asked :
                /\ requests' = Append(requests, [do |-> "until_idle", pane |-> p, corr |-> c])
                /\ asked' = asked \cup {c}
    /\ UNCHANGED <<herdrVars, streamVars, at, resubscribe, bridgeVars, out, got,
                   session, missed>>

\* The out_rx arm: one reply goes out, in the order of drain_outgoing.
SendReply ==
    /\ session = "open"
    /\ out # <<>>
    /\ got' = Append(got, Head(out))
    /\ out' = Tail(out)
    /\ UNCHANGED <<herdrVars, streamVars, requests, at, resubscribe, bridgeVars,
                   session, asked, missed>>

BeginCloseAtOnce ==   \* slip: the socket closes without asking the thread
    /\ session = "open"
    /\ at # "ended"
    /\ session' = "closing"
    /\ UNCHANGED <<herdrVars, streamVars, requests, at, resubscribe, bridgeVars, out,
                   got, asked, missed>>

\* A disconnect, a revocation or a stop: cancel_held_before_close queues its
\* request behind the Device's and waits for the thread.
BeginClose ==
    /\ session = "open"
    /\ at # "ended"
    /\ session' = "closing"
    /\ requests' = Append(requests, [do |-> "cancel_pending"])
    /\ UNCHANGED <<herdrVars, streamVars, at, resubscribe, bridgeVars, out, got,
                   asked, missed>>

\* The thread has answered: what it queued is drained and the socket closes.
FinishClose ==
    /\ session = "closing"
    /\ \A i \in 1..Len(requests) : requests[i].do # "cancel_pending"
    /\ got' = got \o out
    /\ out' = <<>>
    /\ session' = "closed"
    /\ UNCHANGED <<herdrVars, streamVars, requests, at, resubscribe, bridgeVars,
                   asked, missed>>

\* The socket fails: nothing is cancelled, nothing more is sent.
LoseSession ==
    /\ session \in {"open", "closing"}
    /\ session' = "lost"
    /\ out' = <<>>
    /\ UNCHANGED <<herdrVars, streamVars, requests, at, resubscribe, bridgeVars, got,
                   asked, missed>>

-----------------------------------------------------------------------------
(***************************************************************************)
(* The held submit (held_input.rs).                                          *)
(***************************************************************************)
Ack(c, kind) == [corr |-> c, kind |-> kind]

\* cancel_pending_inputs: the reply it pushes.
Cancelled == IF pending = None THEN <<>> ELSE <<Ack(pending.corr, "refused")>>

\* bridge_thread sends replies as it makes them; a session that is over takes none.
Emit(rs) == out' = IF active THEN out \o rs ELSE out

\* send_input for submit c: Herdr types the Enter, or fails.
Typed(c, ok) == typed' = IF ok THEN Append(typed, c) ELSE typed
Final(c, ok) == Ack(c, IF ok THEN "accepted" ELSE "refused")

UntilIdleReplaces(p, c) ==   \* slip: the replaced submit is not rejected
    \/ /\ watched # p
       /\ Emit(<<Ack(c, "refused")>>)
       /\ UNCHANGED <<pending, typed>>
    \/ /\ watched = p /\ p \in working
       /\ Emit(<<Ack(c, "queued")>>)
       /\ pending' = [pane |-> p, corr |-> c]
       /\ UNCHANGED typed
    \/ /\ watched = p /\ p \notin working
       /\ \E ok \in BOOLEAN :
             Typed(c, ok) /\ Emit(Append(Cancelled, Final(c, ok)))
       /\ pending' = None

UntilIdleAcksFirst(p, c) ==   \* slip: the new submit is acknowledged first
    \/ /\ watched # p
       /\ Emit(<<Ack(c, "refused")>>)
       /\ UNCHANGED <<pending, typed>>
    \/ /\ watched = p /\ p \in working
       /\ Emit(<<Ack(c, "queued")>> \o Cancelled)
       /\ pending' = [pane |-> p, corr |-> c]
       /\ UNCHANGED typed
    \/ /\ watched = p /\ p \notin working
       /\ \E ok \in BOOLEAN :
             Typed(c, ok) /\ Emit(Append(Cancelled, Final(c, ok)))
       /\ pending' = None

\* handle_deferred_input, the until_idle arm.
UntilIdle(p, c) ==
    \/ /\ watched # p                                  \* require_watched
       /\ Emit(<<Ack(c, "refused")>>)
       /\ UNCHANGED <<pending, typed>>
    \/ /\ watched = p                                  \* fetch_snapshot failed
       /\ Emit(<<Ack(c, "refused")>>)
       /\ UNCHANGED <<pending, typed>>
    \/ /\ watched = p /\ p \in working
       /\ Emit(Append(Cancelled, Ack(c, "queued")))
       /\ pending' = [pane |-> p, corr |-> c]
       /\ UNCHANGED typed
    \/ /\ watched = p /\ p \notin working
       /\ \E ok \in BOOLEAN :
             Typed(c, ok) /\ Emit(Append(Cancelled, Final(c, ok)))
       /\ pending' = None

\* A plain Enter or ctrl+c supersedes the held submit; a cancel of its pane
\* drops it.
DropPending(when) ==
    /\ Emit(IF when THEN Cancelled ELSE <<>>)
    /\ pending' = IF when THEN None ELSE pending
    /\ UNCHANGED typed

-----------------------------------------------------------------------------
(***************************************************************************)
(* bridge_thread: every queued request is served, then one subscription tick.*)
(***************************************************************************)

\* open_subscription: a fresh stream over the panes of a fresh snapshot, or
\* over none when the snapshot fails, or no stream at all.
OpenSubscription ==
    /\ lines' = <<>>
    /\ \/ sub' = "up" /\ covered' \in {open, {}}
       \/ sub' = "none" /\ covered' = {}

WatchPaneKeepsHeld(p) ==   \* slip: a switch leaves the held submit
    \/ /\ UNCHANGED <<streamVars, bridgeVars, out>>
    \/ /\ p \in open
       /\ watched' = p
       /\ DropPending(FALSE)
       /\ IF sub = "none" THEN OpenSubscription ELSE UNCHANGED streamVars
       /\ UNCHANGED replies

\* watch_pane succeeds on a pane of the snapshot, else it changes nothing.  A
\* subscription that is not there is opened again.
WatchPane(p) ==
    \/ /\ UNCHANGED <<streamVars, bridgeVars, out>>
    \/ /\ p \in open
       /\ watched' = p
       /\ DropPending(watched \notin {None, p})
       /\ IF sub = "none" THEN OpenSubscription ELSE UNCHANGED streamVars
       /\ UNCHANGED replies

Serve(r) ==
    \/ r.do = "watch" /\ WatchPane(r.pane)
    \/ /\ r.do = "unwatch"
       /\ DropPending(watched = r.pane)
       /\ watched' = IF watched = r.pane THEN None ELSE watched
       /\ UNCHANGED <<streamVars, replies>>
    \/ /\ r.do = "cancel"
       /\ DropPending(HeldFor(r.pane))
       /\ UNCHANGED <<streamVars, watched, replies>>
    \/ /\ r.do = "enter"
       /\ DropPending(watched = r.pane)
       /\ UNCHANGED <<streamVars, watched, replies>>
    \/ /\ r.do = "until_idle"
       /\ UntilIdle(r.pane, r.corr)
       /\ UNCHANGED <<streamVars, watched, replies>>
    \/ /\ r.do = "cancel_pending"
       /\ DropPending(TRUE)
       /\ UNCHANGED <<streamVars, watched, replies>>

ServeRequest ==
    /\ at = "serve"
    /\ requests # <<>>
    /\ Serve(Head(requests))
    /\ requests' = Tail(requests)
    /\ missed' = (missed /\ pending' = pending)
    /\ UNCHANGED <<herdrVars, at, resubscribe, got, session, asked>>

\* The queue is empty: req_tx dropped ends the thread, else the tick begins.
BeginTick ==
    /\ at = "serve"
    /\ requests = <<>>
    /\ at' = IF session \in {"closed", "lost"} THEN "ended"
             ELSE IF sub = "none" THEN "serve" ELSE "tick"
    /\ UNCHANGED <<herdrVars, streamVars, requests, resubscribe, bridgeVars, out, got,
                   session, asked, missed>>

ReleaseOnlyWhenInactive(p) ==   \* slip: the flag is read the wrong way round
    \/ /\ active
       /\ UNCHANGED <<pending, replies, typed>>
    \/ /\ ~active
       /\ replies' = replies \o Cancelled
       /\ pending' = None
       /\ UNCHANGED typed

\* release_pending_input, for a status event that is not "working".
ReleasePendingInput(p) ==
    \/ /\ ~active
       /\ replies' = replies \o Cancelled
       /\ pending' = None
       /\ UNCHANGED typed
    \/ /\ active
       /\ ~HeldFor(p)
       /\ UNCHANGED <<pending, replies, typed>>
    \/ /\ active
       /\ HeldFor(p)
       /\ \E ok \in BOOLEAN :
             /\ Typed(pending.corr, ok)
             /\ replies' = Append(replies, Final(pending.corr, ok))
       /\ pending' = None

\* handle_subscription_line, for the lines that reach the held submit.
HandleSubscriptionLine ==
    /\ at = "tick"
    /\ lines # <<>>
    /\ lines' = Tail(lines)
    /\ LET p == Head(lines).pane IN
       \/ /\ Head(lines).event = "idle"
          /\ ReleasePendingInput(p)
          /\ UNCHANGED <<watched, resubscribe>>
       \/ /\ Head(lines).event = "created"
          /\ resubscribe' = TRUE
          /\ UNCHANGED bridgeVars
       \/ /\ Head(lines).event = "closed"
          /\ replies' = IF watched = p THEN replies \o Cancelled ELSE replies
          /\ pending' = IF watched = p THEN None ELSE pending
          /\ watched' = IF watched = p THEN None ELSE watched
          /\ UNCHANGED <<resubscribe, typed>>
    /\ missed' = (missed /\ pending' = pending)
    /\ UNCHANGED <<herdrVars, covered, sub, requests, at, out, got, session, asked>>

\* run_until returns, on its deadline or on the stream's end.  Replies go out;
\* a dead stream is dropped, and a created pane replaces a live one together
\* with the lines it still held.
EndTick ==
    /\ at = "tick"
    /\ at' = "serve"
    /\ Emit(replies) /\ replies' = <<>>
    /\ resubscribe' = FALSE
    /\ \/ /\ sub = "broken" /\ lines = <<>>
          /\ sub' = "none" /\ covered' = {}
          /\ UNCHANGED <<lines, missed>>
       \/ /\ resubscribe
          /\ OpenSubscription
          /\ missed' = (missed \/ ReleaseOnTheWay)
       \/ /\ ~resubscribe
          /\ UNCHANGED <<streamVars, missed>>
    /\ UNCHANGED <<herdrVars, requests, watched, pending, typed, got, session, asked>>

Next ==
    \/ \E p \in Panes : AgentStarts(p) \/ AgentStops(p) \/ PaneOpens(p) \/ PaneCloses(p)
    \/ SubscriptionBreaks
    \/ DispatchIncoming \/ SendReply \/ BeginClose \/ FinishClose \/ LoseSession
    \/ ServeRequest \/ BeginTick \/ HandleSubscriptionLine \/ EndTick

Spec == Init /\ [][Next]_vars

-----------------------------------------------------------------------------
Queued(c) == \E i \in 1..Len(requests) :
                requests[i].do = "until_idle" /\ requests[i].corr = c

\* Everything said, or about to be said, to the Device.
Said == got \o out \o replies

\* What a log of replies says of submit c.
KindsIn(log, c) == {log[i].kind : i \in {j \in 1..Len(log) : log[j].corr = c}}

\* "queued" at most once and first, then one final answer at most.
InOrder(log) == \A i, j \in 1..Len(log) : i < j /\ log[i].corr = log[j].corr =>
                    log[i].kind = "queued" /\ log[j].kind # "queued"

(***************************************************************************)
(* R-11-253.  While the session lives, a submit the thread has taken is held *)
(* and nothing final was said of it, or it has exactly one final answer,     *)
(* "queued" coming before it or not at all.  The answer is accepted exactly  *)
(* when Herdr typed the Enter, and no submit is typed twice.                 *)
(***************************************************************************)
AnsweredOnceAndTruly ==
    /\ InOrder(got)
    /\ active =>
         /\ InOrder(Said)
         /\ \A c \in asked :
              IF Queued(c) THEN KindsIn(Said, c) = {}
              ELSE IF pending # None /\ pending.corr = c THEN KindsIn(Said, c) = {"queued"}
              ELSE IF \E i \in 1..Len(typed) : typed[i] = c
                   THEN "accepted" \in KindsIn(Said, c)
                   ELSE "refused" \in KindsIn(Said, c)
    /\ \A i, j \in 1..Len(typed) : typed[i] = typed[j] => i = j

(***************************************************************************)
(* R-10-078.  The Device never sees two held submits: a replacement's queued *)
(* acknowledgement is sent after the rejection of the one it replaced.       *)
(***************************************************************************)
OneHeldAtTheDevice ==
    \A c, d \in Submits :
        KindsIn(got, c) = {"queued"} /\ KindsIn(got, d) = {"queued"} => c = d

\* R-10-078, R-11-253: what the Device is told of its submits is complete and
\* true, at every moment and in the order it is told.
AnswersAreTrue == AnsweredOnceAndTruly /\ OneHeldAtTheDevice

(***************************************************************************)
(* R-10-078.  The held submit always belongs to the watched pane: a switch,  *)
(* an unwatch or a close leaves none behind for a pane that is not shown.    *)
(***************************************************************************)
HeldIsWatched == pending # None => pending.pane = watched

(***************************************************************************)
(* R-10-078.  A session that closes in good order has told the Device how    *)
(* each of its submits ended: nothing is lost between the thread's queue,    *)
(* the held submit and the outbound queue.                                   *)
(***************************************************************************)
CloseAnswersEverything ==
    session = "closed" => \A c \in asked :
        KindsIn(got, c) \cap {"accepted", "refused"} # {}

(***************************************************************************)
(* A submit is held for an agent that no longer works only while the event   *)
(* that releases it is on its way, or when the event was never delivered:    *)
(* the pane was not covered, its tab closed, the subscription was down or    *)
(* was replaced.                                                             *)
(***************************************************************************)
HeldHasAWakeup ==
    (\E p \in Panes \ working : HeldFor(p)) => missed \/ ReleaseOnTheWay

\* R-10-078: a submit that is held is the watched pane's, and something that
\* will come decides it.
HeldSubmitIsTended == HeldIsWatched /\ HeldHasAWakeup

(***************************************************************************)
(* docs/10-herdr-integration.md:1124, "When the agent leaves working, the    *)
(* Host MUST forward the held keys": the release event of a held submit is   *)
(* always on its way.                                                        *)
(***************************************************************************)
HeldIsReleased ==
    (\E p \in Panes \ working : HeldFor(p)) => ReleaseOnTheWay
=============================================================================
