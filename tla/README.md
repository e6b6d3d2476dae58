# herdr-mobile in TLA+

herdr-mobile lets a phone watch and drive the terminal panes of a Herdr session.
Three programs take part. The **Host** (`crates/herdr-relay`) runs beside Herdr.
The **Hub** (`crates/herdr-relay-hub`) is a byte relay on a public address. The
**Device** is the Flutter app (`app/`). Host and Device speak an end-to-end
encrypted protocol (`crates/herdr-relay-proto`, Noise) through the Hub, which sees
handles and opaque frames only.

This project models the parts in which several tasks, threads, connections, timers
or restarts meet, and the texts and encodings on which the protocol rests. TLC checks
every module on small instances. TLAPS proves, for every value of the constants, the
Hub's rooms and push store, the heartbeat and the Host's way back to the Hub, the Host
bridge with the promise it implements, its disk, its session thread and its read
scheduler.

- [1. The system](#1-the-system)
- [2. The modules and the code](#2-the-modules-and-the-code)
- [3. The runs](#3-the-runs)
- [4. What the code and its documents disagree on](#4-what-the-code-and-its-documents-disagree-on)
- [5. The proofs](#5-the-proofs)
- [6. What is not modelled](#6-what-is-not-modelled)
- [7. Plan](#7-plan)

Run a model with `tlc -config HubRooms.cfg MCHubRooms` and a proof with
`tlapm HubRoomsProofs.tla`.

## 1. The system

### Inventory

| Component | State | Operations | What is hard |
|---|---|---|---|
| Hub rooms (`session.rs`) | handle → room (Host slot, Device slot, pairing window) | register, peer_of, disconnect, close_peer | a registration that reclaims a room races the teardown of the same room |
| Hub relay (`relay.rs`) | one task per WebSocket, one bounded queue per task | read, forward, drain, ping, end | `forward` waits for the other task's queue while its own is not drained |
| Hub heartbeat (`heartbeat.rs`) | ticker, time of the unanswered ping | wait, note_ping_sent, note_pong | timers are polled only in the select; pong and deadline may be ready together |
| Hub push (`routes/push.rs`, `push/providers.rs`) | token store with generations, bounded; one cached bearer per platform behind an async lock | register, unregister, wake, bearer, send, verdict | a late refusal, a refresh between two wakes, eviction at capacity, a bearer that ages behind the lock |
| Hub limits, configuration, metrics | sliding windows, counters | – | little: verdicts and text |
| Host bridge (`bridge.rs`, `pairing.rs`, `store.rs`, `relay/registry.rs`) | one `HostState` behind a mutex: store, pairing, active guard, link, stop flag, registrations, registry | open/close pairing, revoke, stop; one registration loop per Device, one pairing loop, one session | aborts that land at any await, state read under one lock and used under the next |
| Host link (`registration_loop`, `relay/connection.rs`, `relay/backoff.rs`) | attempt count, time of the last registration, the socket | dial, register, wait, idle | the room may still be held by the Host's own older socket |
| Host session wire (`serve_session`, `frame_codec.rs`, `noise.rs`) | nonces, sequence numbers, the half-received record, the outgoing batch | send, receive, coalesce, close | the select drops a future in the middle of a record; batches race revocation |
| Host session thread (`bridge_thread`, `watch/`) | watched pane, held submit, subscription, reply queues | watch, unwatch, input, held submit, subscription lines | snapshot and event stream race; the stream is lossy in four ways |
| Host input and actions (`watch/input.rs`, `watch/plugin_actions.rs`, `ipc/client.rs`) | one line shadow per pane, shared by all sessions | send_input, host_action, plugin.invoke, one retry | a line is several calls, any of which may fail after it took effect |
| Host read scheduler (`watch/scheduler.rs`) | revision, poll and input timers, read history | on_revision_changed, on_input_sent, fire | three triggers compete for one sliding-second budget |
| Host disk (`store.rs`, `keys.rs`, `pairing/wordlist.rs`) | device list, key pair in a credential store or a file, word cache, state.json | load, save, rotate, start | a crash or a failure between any two system calls |
| Host control and pane (`control.rs`, `popup.rs`) | endpoint and token in state.json; the pane's snapshot, question, notice | commands, reload, draw, keys | the pane acts on a snapshot; the bridge restarts under it |
| Pairing text (`phrase.rs`, `handle.rs`, `pairing.rs`) | the live phrase and its attempts | generate, show, parse, spend | words with hyphens, escapes, fields in any order |
| App connection (`relay.dart`) | connection state, generation, reconnect timer | connect, lock, reconnect, dispose | callbacks of an earlier attempt fire after a newer one began |
| App services and screens | lists, terminal, notifications | – | mostly rendering and storage |

### How the parts interact

A Host registers `/host/<handle>` at the Hub once for each enrolled Device and once
for an open pairing. A Device opens `/device/<handle>` and joins the room. The Hub
puts each binary frame it reads on the queue of the room's other side. When one
side ends, the Hub closes the other.

On the Host every connection is a tokio task: `registration_loop` or
`pairing_loop`. After a handshake the task claims the single active session
(`claim_active`), registers it (`register_session`) and runs `serve_session`, which
feeds a blocking `bridge_thread`. That thread owns the watched pane. It alternates
between the Device's queued requests and a tick of Herdr's events subscription,
which also drives the read scheduler. Control commands change the same `HostState`
from other tasks: they abort loops, close sessions and drop entries.

### Properties that make the parts correct

- Hub: a room is taken apart only after one of its own connections has ended;
  nothing crosses between handles; frames of a room arrive in order, once; the loss
  of one side reaches the other; dead peers go and live ones stay; a push goes out
  with a bearer that lives long enough, and a refusal removes the token it is about.
- Host bridge: one session at a time, only under a credential in the list, ended in
  the step that revokes it; a phrase enrols one Device; the guard is never leaked;
  every enrolled Device has a loop that will serve it; the status line is true; a Host
  that knows of its loss is registered again in bounded time.
- Session: what either side reads is what the other sent, in order, without a gap, and
  the fatal error comes last; every submit gets exactly one final answer and it is
  true; a held submit belongs to the pane on the screen and is not forgotten; the line
  shadow is what the pane holds; every input is answered.
- Scheduler: the read cap holds in every second; nothing starves a moved revision or
  the poll.
- Disk and pane: memory and disk agree after every operation and every restart, a
  revoked enrolment does not return, pairings belong to the key pair in use; a key in
  the pane does what the pane showed.
- Texts: what is shown can be read back, and nothing is read as something else.

## 2. The modules and the code

`PROJECT.json` maps every definition to its lines. `MC*` modules add model values
and symmetry; `MCHubQueues` also bounds what its clients do.

A definition whose comment begins with *Mutant* or *slip* is not part of a
specification. Each is a plausible mistake in the definition it precedes; substituted
for it, TLC finds the property it aims at violated.

### HubRooms

Each connection of `Conns` is one task. `phase` is where it is: in the select
(`running`), waiting for a place in the peer's queue (`forwarding`), writing a
refusal (`refusing`), after the loop and before its teardown (`dropped`), between
the teardown's lock and the peer's close (`notifying`), `gone`. `hostOf`,
`deviceOf` and `window` are the map behind the mutex, and each of its critical
sections is one step. `queue` is the bounded outbound channel.

`RegisterHost` and `RegisterDevice` are `SessionMap::register`, reclaiming a room
whose member has ended included. `ReadBinary`/`Forward` split `forward` at its
await: the peer is looked up in one step, the send completes in a later one.
`EndLoop`, `PeerLost`, `ReadAppClose`, `Refuse` and `PingAfterClose` are the ways
out of the loop. `Disconnect`/`NotifyPeer` are the teardown with the lock released
in between. `WindowElapses` is the pairing window and `Stall` a client that stops
reading.

Frames are numbered by their sender; close frames keep the one distinction the
code makes (an application code, or 1001). The `session_joined` text is folded into
the registration. `Drain` takes a message from the queue and writes it in one step; how
long a write keeps a task away is Heartbeat's question. `mates` is the history of who has
joined whom.

### Heartbeat and HostLink

Heartbeat is the ticker, the pong deadline and the select loop they share with the
pump, in ticks. `GoAway`/`ComeBack` are the task's time in `forward` or a send, when
it polls nothing: up to `MaxBusy` ticks between two pings, which may be longer than the
pong's deadline, as one queued send alone may be in the code. Ready steps precede the next
tick (`Urgent`), and a pong and its deadline that are ready together are taken in either
order. `took` is how long the last answer was under way, `worst` the longest time away
so far, and `AbsencesFit` says that no absence was so long that a deadline and the next
ping come together.

HostLink composes it with the other end: the Host's `registration_loop`, which dials
(`DialAccepted`, `DialTaken`, `DialLimited`, `DialFails`, and the two ways a join and
its timeout can cross, `JoinTooLate` and `JoinUnheard`), waits on the ladder of
`backoff.rs`, idles and serves. The room is held until the Hub's task for the older
socket has ended. The network fails and recovers (`NetFails`, `NetRecovers`), telling
both ends, one or none; the Hub restarts.

### PushProviders and HubPush

PushProviders is one delivery at a provider: `TakeBearer`, and for FCM `AskOauth` and
`OauthAnswers` with the cache's lock held, the post, the deadline that drops the whole
future, and the verdicts. HubPush adds the token store with its generations and
capacity. `WakeCheck` and `TakeWake` are the two locks of a wake. A delivery is in
`flight` until `Delivered` or `TokenRefused`, and both may come after the entry has
changed.

### PairedAccess and HostBridge

PairedAccess is what the Host promises its owner, in two variables: the credentials in
the list and those being served. Enrolling, serving, hanging up and revoking are one
step each, and a revocation ends the session in that step.

HostBridge is how it is done. `HostState` field by field, and a set of tasks, each with
a `pc`. A step is what a task does between two awaits or between two locks. `Abort`
marks a task; the mark takes effect when the task is next at an await (`Die`), and runs
the destructor of its claim. `Init` allows any saved device list, so every behaviour is
also one after a restart. The commands are `OpenPairing`, `ClosePairing`, `Stop`,
`RevokeOne`, `RevokeAll` and, from a session's own thread, `WireRevokeOne` and
`WireRevokeAll`. Dialling, handshakes, phones and clocks are open choices. Saves may
fail (`EnrolFails`); the key rotation fails where `RotateFails` allows it (`"command"`:
the popup's revoke all, `"wire"`: a Device's). Handles and tasks are never reused
within their bounds, as random handles and tokio's tasks are not.

The refinement (`Access == INSTANCE PairedAccess WITH ...`) maps `enrolled` to the
stored pairs of device and handle, and `serving` to the sessions that are being served and
have not been told to close (`Served`). The property is `RefinesPairedAccess`. A pairing
handshake is awaited for any number of steps between the step that reads its key and
`Enrol`, whose guard `MayEnrol` is the recheck of `bridge.rs:1448`.

### PaneScheduler

One `PaneScheduler` and the `poll_scheduler` step that drives it. `Repaint` is the
terminal behind the pane, `OnRevisionChanged` and `OnInputSent` arm timers, and
`Tick` lets time pass, at most `MaxLate` beyond a deadline. `fire` at one instant
is `Read` or `ReadFails` when the budget allows a read (`Count`), and `RateLimited`
when it does not. A behaviour is the life of one scheduler: `watch_pane` makes a new
one.

### WatchSession

One Device session: Herdr with its panes, agents and event stream (external), the
`bridge_thread` (`at`), its request and reply queues, and `serve_session` as far as
it sends replies and closes. `ServeRequest` is one turn of the request loop,
`HandleSubscriptionLine` one line of the tick and `EndTick` the rest of it, where
replies go out and the stream is dropped or replaced. `UntilIdle` is the whole of
`handle_deferred_input`'s arm, the refusals included. `BeginClose`/`FinishClose` are
the three orderly ends (disconnect, revocation, stop), `LoseSession` any other.

`covered` is the set of panes the subscription was opened with; Herdr has no way to
add one. `missed` is a history variable: the line that would have ended the held
submit was not delivered.

### HerdrCalls, PaneInput and HostActions

HerdrCalls is the set of outcomes of one `HerdrClient::call`: what the caller is told,
and how often Herdr did what was asked, the client's one retry included. It also holds
the permitted keys of `key_map.rs`.

PaneInput is `send_input`: requests of several sessions (`asked`, `taken`), the merging
of waiting lines (`CoalesceInput`), validation, the lock over the shared shadows
(`LockInput`), and one step per Herdr call (`CallHerdr`), after which the shadow moves
to the last step that Herdr confirmed. `unsure` is the set of panes for which some call
has lied (done and reported failed, or done twice). HostActions adds `host_action`, with
a step for each call of `plugin.invoke` and a desktop that opens and closes panes.

### FrameCodec and WireSession

FrameCodec is `build_record`, `split_into_fragments` and the reassembler, over bytes
that are small numbers and limits that are scaled down; zlib is any compression that
can be undone (run lengths). WireSession is `serve_session`'s select loop over it: the
branches of the select (`Receive`, `Outgoing`, `Revoked`, `Stop`), the batch with its
coalescing (`DrainOutgoing`), one step per fragment written, and the peer: faithful,
behind a relay that loses, repeats or swaps frames (`Mangle`), or one that sends any
fragments (`Stray`). `Without` takes the older frames of a pane out of a batch, and the
limits of the codec are its constants. A frame opens only with the next nonce, which is all the models
use of Noise (external).

### HostDisk

The files, the credential store and the steps in which each is written: open (which
truncates), fill and restrict for a file written in place, stage and rename for the
device list. Each may fail, and `Crash` may come between any two. `Start` goes through
keys, words, list and endpoint in the code's order.

### Control, PopupLayout and Popup

Control is the bridge as its control socket shows it: the endpoint in `state.json`, its
token, `HostCore::handle` and `build_status`. PopupLayout is the geometry of `draw`:
which regions are drawn at a given size. Popup is the pane's `run_loop` (draw, reload,
key, calls), one step for reading the endpoint and one for the exchange, so that the
bridge may be replaced in between.

### PairingText

Phrases, handles and pairing URIs as sequences of characters, `normalize`,
`segment_words`, percent escapes, `parse_query`, and `PairingSession`: `Look` (what the
bridge reads of it), `FailedAttempt`, and `RecordEnrolled`, which asks nothing of the
session. Whether a phrase may still enrol is HostBridge's question. A copy is taken
from the screen and changed: in ways that must not matter (`TypedLoosely`, `Rearranged`)
or that must be refused or read as written (`Mistyped`, `Garbled`). A separator is retyped
between letters; blanks may stand around the text. Of the list the module assumes what
`phrase.rs:195` says of it: an entry is letters with at most one hyphen inside
(`ListHasWords`), and what is left of the hyphen is not an entry (`ListIsUnambiguous`).
Of an origin it assumes that the Host's own test accepts it (`HostAcceptsOrigins`), and of
a handle that base64url has no `?` and no `&` (`HandlesArePlain`). The escapes are those of
the characters that a query or an origin gives a meaning.

### How the modules fit

Four compositions are modules: HostLink is the Host's loop with the Hub's Heartbeat,
HubPush the store with PushProviders, Popup the pane with Control, HostActions the
actions with PaneInput; WireSession stands on FrameCodec. The others meet at narrow
interfaces and each leaves the other side open, so that what one shows holds for any
behaviour of the other. HostBridge's dial and session outcomes stand for anything
HubRooms and HostLink may do to a connection; HubRooms' clients stand for any Host and
Device. `Served` of HostBridge is the life of one WireSession and one WatchSession,
whose `BeginClose` is HostBridge's `SessionClosed`, `SessionStopped` and `SessionEnds`.
WatchSession's successful `WatchPane` starts a PaneScheduler. What HostBridge calls a
save or a rotation that fails, HostDisk takes apart.

## 3. The runs

| Run | Instance | Checks |
|---|---|---|
| `hub_rooms` | 2 Hosts, 2 Devices, 2 handles, cap 1, queue depth 1, 1 frame each, Hosts that may stall; 2.4 M states | `RoomSound` `CloseComesFromRoommate` `HandleIsolation` `RoomOnlyEndsByLoss` |
| `hub_queues` | 2 Hosts for one handle, 2 Devices, depth 2, 3 frames, two clients that may stall, fair; 129 k | `WireIsFaithful` `OrphanWasTold` `LossIsSymmetric` |
| `hub_push` | 3 handles in a store of 2, 2 tokens (one of each platform), 2 deliveries; 1.5 M | `EvictionIsFair` `WakesCollapse` `RefusalHitsItsToken` `BearerOutlivesItsPush` |
| `host_link` | the code's 30 s, 10 s and 10 s in ticks of 5 s, absences of up to 15 s, 2 failures; 1.1 M | `PromptPeerKept` `DropsInTime` `ReregistersInTime` |
| `host_bridge` | 2 Devices, 2 handles, 3 tasks, 2 commands, failing saves and rotations; 440 k | `GuardHasOwner` `LinkIsTrue` `EveryEntryHasLoop` `RefinesPairedAccess` `EnrolsOnlyWithTheLivePhrase` |
| `pane_scheduler` | window 2, poll 2, offsets {1, 3}, cap 3 per 4 ticks, lateness 1, 1 failing read, 9 ticks; 1.5 M | `ReadsCapped` `RevisionReadInTime` `FrameFreshInTime` |
| `watch_session` | 2 panes, 2 submits, 1 request and 1 line waiting; 3.5 M | `AnswersAreTrue` `HeldSubmitIsTended` `CloseAnswersEverything` |
| `pane_input` | 2 sessions, 3 panes of which 2 may be opened, 13 kinds of request, 2 requests, 2 faults; 942 k | `ShadowIsTheLine` `EveryRequestIsKept` `AcceptedLineIsShown` `InvocationIsAttributed` |
| `wire_session` | envelopes of at most 6 bytes in fragments of 4, 2 messages each way, 3 stray fragments, 1 fault of the relay; 2.1 M | `OutgoingIsFaithful` `FatalIsLast` `IncomingIsFaithful` |
| `host_disk` | 2 Devices, 3 key pairs, 3 enrolments, 3 starts, 1 time stamp, with and without a credential store; 768 k | `StoreMatchesDisk` `RevokedStaysRevoked` `HostKeyIsTheOne` |
| `popup_control` | 2 Devices, 2 starts, 1 pairing, 2 events or faults, a tall and a short terminal; 332 k | `KeysDoWhatTheyShow` `PaneConverges` |
| `pairing_text` | 3 words, one with a hyphen, phrases of 2, 2 origins, 2 slips; 95 k | `TypedPhrasesAreRead` `PairUrisAreRead` |

Every component also has a type invariant (`TypeOK`, `LinkTypeOK`, `SchedulerTypeOK`,
`TextTypeOK`, `PopupTypeOK`). All but `PopupTypeOK` are proved (section 5).

Why these bounds:

- **Hub rooms.** A cap of one room with two handles makes the cap bind. Two Hosts
  for one handle give the reclaim race, and a second Device gives rejection and
  takeover. Order and loss need a queue that fills while the sender has a frame in
  its hand: depth 2, three frames. In `hub_queues` a Host and a Device do as they like;
  a second Host may take the handle over while one of them is still there, and a second
  Device joins it. From then on nobody stalls, closes with a code or is refused, and of the
  old room only the Device sends one frame (`Few`). What a task does by itself is never
  held back.
- **Host bridge.** Every race found or excluded needs two tasks (an old loop and a new
  one) and at most two commands; the third task is the pairing loop beside them. The
  refinement needs two Devices: one served, one that comes.
- **Link.** In ticks of 5 s the interval is 6, deadline and send timeout are 2, and the
  task may be away for 3: longer than the deadline, and longer than what fits between two
  pings (`AbsencesFit` leaves 1), so that both sides of every bound occur. Two troubles are
  a loss and one more during recovery: a refusal by the limits, a lost answer or a Hub
  that restarts. The ladder reaches its cap in its second rung.
- **Push.** Three handles in a store of two force an eviction and leave a choice of
  victim; two pushes in flight give a late refusal and a wait for the bearer's lock.
- **Scheduler.** The cap (3 in 4 ticks) binds and releases within the horizon, and
  the last counted read expires before it ends; the proofs need no horizon.
- **Session.** Two submits give replacement, two panes a switch. A queue of one
  keeps every order of one request and one line against the thread's loop; the
  cancel of a close goes behind it.
- **Input.** Two requests with two faults cover a line that fails half way and the one
  that repairs it, by the same Device or by another. The start may hold a typed line,
  so that Backspaces go out in more than one call.
- **Wire.** A body of the largest legal length needs two fragments, a longer one is
  refused; two messages give coalescing, a batch, and a fatal error behind it. Three
  stray fragments reach every refusal of the reassembler.
- **Disk.** Three starts are a crash during recovery from a crash; three key pairs a
  rotation after a failed rotation.
- **Pane.** Two starts give the stale endpoint. At 9 rows the pane is too small for a
  pairing and not for a list, at 47 all regions are drawn.
- **Texts.** The hyphenated word's right half is a word as well, the case the greedy
  join must get right. One origin holds every character a query could be misread by.

Deadlock is not checked where a system may stop: connections end, command budgets
are spent, a session is over. HostLink, PaneScheduler and PairingText run with the
deadlock check on.

**Fairness.** `hub_queues` assumes weak fairness of each connection's task
(`FewSpec`): tokio polls every ready task, and no Hub task blocks its thread. Clients,
networks and clocks owe nothing. `popup_control` assumes weak fairness of the pane's
loop, which never stops by itself, and strong fairness of its reload: the poll's
interval elapses again and again in real time. Keys, the bridge and faults may stay
away. HostLink's specification adds that time passes, a network recovers and the tasks
run; only the refuted `RegistrationReturns` uses it. `DropsInTime`,
`ReregistersInTime`, `RevisionReadInTime` and `FrameFreshInTime` are bounded liveness,
stated as invariants over clocks, and need no fairness: the assumption in its place is
how late a task may be (`AbsencesFit`, `MaxLate`).

## 4. What the code and its documents disagree on

Each of these is a definition that TLC refutes; the configuration, run with the MC module
of its component (`tlc -config HubForward.cfg MCHubRooms`), reproduces it. Where it is the
configuration of a run (`HostLink.cfg`, `Wire.cfg`, `HostDisk.cfg`), the definition takes
the place of its properties.

- **Two forwarding tasks wait for each other** (`ForwardEnds`, `HubForward.cfg`,
  `relay.rs:162`). `forward` awaits the other side's queue with no timeout and polls
  nothing meanwhile. With both queues full the two tasks, their heartbeats included,
  wait for ever. The comment at `relay.rs:25`: "A send MUST NOT block the connection's
  task forever when a peer stalls". The two need not share a room: a Device whose Host has
  gone may wait on the queue of the next one, which waits on that of its own Device, and
  then never reads the close in its own queue. `LossIsSymmetric` therefore says of a
  survivor that it ends, or waits in `forward` for ever.
- **A stop the session does not see** (`StopReachesSession`, `HostStop.cfg`,
  `bridge.rs:1555`). The stop flag is checked under one lock and the stop channel
  subscribed under the next. `docs/10:1409`: "every relay connection is closed".
- **A revoked loop that survives** (`RevokedLoopDies`, `HostZombie.cfg`,
  `bridge.rs:1011`). The loop's own check compares device ids, which the next enrolment
  of the Device reuses.
- **A held submit nobody releases** (`HeldIsReleased`, `HeldInput.cfg`,
  `watch/incoming.rs:169`). The event that ends it is lost when the pane's tab closes,
  when the subscription breaks or is replaced, or when the pane is younger than the
  subscription. `HeldSubmitIsTended` shows that there is no further way.
- **A half-open socket is waited on for ever** (`RegistrationReturns`,
  `HostHalfOpen.cfg`, `bridge.rs:937`). `idle_handshake` has no timer, and
  `StaleDeviceDetector`, which would be one, is used nowhere. `docs/10:1470`: "The bridge
  MUST hold one relay registration".
- **Typed twice** (`OperationsAreNotRetried`, `RetriedInput.cfg`, `ipc/client.rs:125`).
  The client repeats any request whose answer timed out. `docs/11:894`: "The Host MUST
  NOT retry `text` or `keys` operations."
- **A bad word list is cached** (`CacheIsVerified`, `HostDisk.cfg`,
  `pairing/wordlist.rs:189`). Fetched bytes are written before their checksum is
  verified; every later start reads and rejects them.
- **A pong that came is overdue** (`OverdueIsUnanswered`, `HostLink.cfg`,
  `heartbeat.rs:58`). A task that was in `forward`, or in one send of 10 s, finds pong and
  deadline ready and may take the deadline. The comment at `heartbeat.rs:20`: "No pong
  arrived within `PONG_TIMEOUT` of the last ping". `PromptPeerKept` says that there is no
  other way: the task was away for all that the answer had left.
- **A message that is too large ends the session** (`OversizedIsNotFatal`,
  `Wire.cfg`, `bridge.rs:1798`). `codes.rs:120`: "Frame exceeds 1 MiB. Raised by
  both peers. Not fatal"; `docs/11:417`, R-11-036: "The sender MUST send an `error` frame
  with code `frame_too_large` instead". `send_message` returns the error and the loop ends;
  no such frame is sent.
- **A number is skipped** (`NumbersAreConsecutive`, `Wire.cfg`, `bridge.rs:1798`). The
  message that proved too large has taken its number; a revoked session goes on to its
  fatal error, with the next one. `docs/11:403`, R-11-033: "MUST increment by `1` on every
  frame a sender sends". `OutgoingIsFaithful` says that one is skipped at most, and only
  there (`SkipsOnlyBeforeFatal`).
- **A selection nobody sees** (`SelectionIsDrawn`, `PopupFlat.cfg`, `popup.rs:1275`). The
  height by which the regions are chosen counts the header of the phone table and none of
  its rows. On a terminal of 7 rows the header is drawn alone, and `d` asks about a phone
  that no row shows. `docs/31-mockups/16:522`, R-31-16-29: "The phone rows MUST scroll so
  the selected row is always drawn".
- **Late without being late** (`LateMeansLate`, `Wire.cfg`,
  `relay/connection.rs:342`). A fragment is timed when it is read, which the loop does
  not do while it sends.

The following are refuted too. Those with a module are definitions of it, or a property
of it with the constants named.

| What | Module | Code | Says otherwise |
|---|---|---|---|
| `SurvivorIsClosed`: a full queue drops the survivor's close | HubRooms | `session.rs:293` | `docs/12:277` |
| `AppCloseReachesSurvivor`: a reclaim before the disconnect closes with 1001 | HubRooms | `session.rs:160` | `docs/12:279` |
| `FramesStayInRoom`: frames of a Device whose Host has gone reach the next Host | HubRooms | `relay.rs:156` | `docs/12:25` |
| `PushOnlyWhenAway`: a Device that joins between the wake's two locks is pushed to | HubPush | `push.rs:134` | `docs/12:312` |
| one push in 30 s: unregistering and registering again forgets the last one | HubPush | `push.rs:37` | `docs/12:313` |
| `OpenPairingLeavesStopped`: a live pairing returns early | HostBridge | `bridge.rs:680` | `docs/10:1416` |
| `RevocationIsDelivered`: a second revocation aborts the closing session | HostBridge | `bridge.rs:790` | comment, `bridge.rs:738` |
| `RegisteredIsIdle`: the pairing loop never clears `offline` | HostBridge | `bridge.rs:1201` | `docs/10:1436` |
| `RefinesPairedAccess` with `"wire"` in `RotateFails`: the list is cleared before the rotation that fails, and the sessions stay | HostBridge | `watch/devices.rs:88` | `docs/13:426` |
| `KeysAreCurrent`: a pairing loop outlives its pairing with the old key | HostBridge | `bridge.rs:1164` | comment, `bridge.rs:766` |
| `NextStartRegenerates`: after a failed rotation the next start loads the old key pair | HostDisk | `bridge.rs:803` | comment, `bridge.rs:808` |
| `HostKeyIsTheOne` with `KeyFaults` `"flaky"` (a credential store that comes back brings the old pair back) or `"restrict"` (a new pair on disk, the old one in memory) | HostDisk | `keys.rs:261` | R-13-056 |

Seen while reading or modelling, and not stated as properties:

- *Reads.* The cap is per watch, and neither the attach read nor a re-watch is counted
  (R-10-030). After a lost subscription the watched pane is neither polled nor
  resynchronised until the next `watch_pane`: `run_until` (`bridge.rs:2155`) needs a
  subscription, and `resynchronize` has no caller (R-10-070, R-10-035).
- *Held submit.* A status event that was unread when the submit was held releases it
  into an agent that works again (`watch/incoming.rs:74`, `docs/11:866`); no state of
  the code tells a stale event from a fresh one. A `Return` key clears the shadow and
  does not cancel the submit.
- *Input.* A close whose answer was lost is reported as failed after the retry; a
  retried create opens two panes; an invalid line merged into waiting lines refuses the
  valid older ones; `agent_prompt` frames are dropped without an answer (R-11-060); a
  bypass text that was confirmed before its keys failed restarts no read (R-10-071). Keys
  that put a character in the line (Space, shift with a letter) change no shadow.
- *Wire.* A refused record does not close with 4003 (R-11-237); nothing times a stalled
  record (R-11-238); statuses drained by a stop or a disconnect send no wake.
- *Texts.* `percent_decode` slices the text at byte offsets (`handle.rs:270`); the slice is
  not at a character's end when a longer character follows a percent sign.
- *Disk.* A torn `host-keypair.json` or `state.json` fails every later start.
- *Pane.* `expiry_noticed` is never reset; a known phone that pairs again is announced
  as a spent phrase; a notice may be consumed by a draw that does not show it; y answers
  a question that a small terminal did not draw; the narrowest rows are a few cells wider
  than the document says.
- *Status.* The settle window is per bridge instance, so that two sessions may notify
  twice in 30 s (R-10-074); a blocked, working, done sequence within 30 s loses the last.
- *Link.* An idle registration that lived for hours does not reset the ladder; the pairing
  loop does not wait after a dropped idle socket, and counts a relay's close as a failed
  attempt (R-13-023).

## 5. The proofs

Each module of proofs first gives the inductive invariant, in named parts, then one
lemma for each action it can be disturbed by, then the theorems. 37 of the runs' 39
properties are stated by a theorem. A hypothesis other than the modules' own
assumptions on constants is named here, with what happens without it.

### HostBridgeProofs

    BridgeInv == Typed /\ Guarded /\ GuardHasOwner /\ LinkIsTrue /\ EveryEntryHasLoop

`Typed` says of each task what its place in the code implies of its handle and its
device. `Guarded` carries the argument: a handle belongs to one device for everybody
who remembers it (`HandlesOnce`), so that a claim on a handle in use is the only one on
it, and is the guard's (`GuardHeld`). `drop_claim` compares handles, and without this a
late drop of an old claim could release a guard that another task holds.

- `EnrolmentFaithful` (`EnrolsOnlyWithTheLivePhrase`): a Device comes into the list only in
  a step in which the phrase is live, of the same handle, and the guard is held by the
  session that enrols it. The recheck `MayEnrol` looks at phrase and stop flag; that the
  guard is still this session's and not freed for another is `GuardHeld`.
- `TypeCorrect`, `GuardIsOwned` (`GuardHasOwner`), `StatusIsTrue` (`LinkIsTrue`),
  `EntriesAreServed` (`EveryEntryHasLoop`): for every instance.
- `Refinement`: `Spec => RefinesPairedAccess`, each step a step of PairedAccess or a
  stutter. `OnlyListedIsServed` adds the lemma `AccessIsSafe`, that PairedAccess serves
  only listed credentials, one at a time, with one handle to a device: its invariant is
  inductive as it stands, for an enrolment drops the device's older credential, ends the
  session of it, and takes a handle nobody has. Both need `ServedOK`, that a session
  which was not told to close is registered and listed, and with it the hypothesis
  `"wire" \notin RotateFails`. A full revocation that a Device asks for clears the list
  before it rotates the keys, and returns when that fails: the sessions stay. TLC finds
  this as well (section 4); the pane's and the command line's revocation may fail freely.

### HubRoomsProofs

From `ConnsAssumption` (Hosts, Devices and `None` are distinct) and
`BoundsAssumption` (a queue depth of at least one). The inductive invariant is

    HubInv == Typed /\ QueuesOK /\ TargetsOK /\ SlotsSound

That a close came from a former roommate needs
what is in the queues (`QueuesOK`), and that needs what a task in `forward` or in the
tail of `disconnect` is about to put there (`TargetsOK`): `to` was looked up earlier,
possibly in a room that is gone.

- `TypeCorrect`: `Spec => []TypeOK`.
- `RoomsAreSound` (`RoomSound`): the slots by `HubInv`, and that a Host and a Device that
  have joined stay together while both are open by `MatesInv`, which says of each such pair
  that the room is still theirs. No takeover or reclaim replaces an open side.
- `HandlesIsolate` (`HandleIsolation`),
  `ClosesComeFromRoommates` (`CloseComesFromRoommate`).
- `RoomsEndByLoss`: `Spec => RoomOnlyEndsByLoss`. No step takes a room apart unless
  one of its own connections has ended; in particular the late `disconnect` of a
  replaced connection leaves the new room alone.
- `OrphansAreTold` (`OrphanWasTold`), which is inductive on top of `HubInv`.
- `WiresAreFaithful` (`WireIsFaithful`). `WireInv` counts, for each pair of connections,
  what was sent, what is in the sender's hand, in the queue and delivered; it must hold
  between connections that share no room, since a room is formed around a queue that
  exists (`FreshOK`, `LonelyOK`).

### HubPushProofs

- `TypeCorrect`; `BearersOutlive` (`BearerOutlivesItsPush`): a bearer that was taken
  from the cache or asked for has more life left than its delivery, whose deadline is
  no longer than the margin (`PushBounds`, `ProviderBounds`).
- `WakesDoCollapse` (`WakesCollapse`): the age the store keeps is the time since the
  last wake (`QuietIsAge`), for as long as the registration stands.
- `EvictionsAreFair` (`EvictionIsFair`): by `Stamped`, an entry carries the generation
  of its handle's last registration and no two handles the same; the newer handles of
  an evicted one are counted by cardinality.
- `RefusalsHitTheirToken` (`RefusalHitsItsToken`): a delivery whose generation is
  current carries that registration's token (`FlightsKnown`).

### LinkAndPairingProofs

Three components on the Host's way to its phones. The link first:

    LinkInv == HubInv /\ Flags /\ Ranges /\ OutOK

`HubInv` follows the Hub's task by the time since its last ping. A pong that is unread at
its deadline has waited while the task was away (`AnswerOK`). As long as the absences fit,
no ping goes out while a pong or a deadline of the one before is open (`PingOK`), so that
the silence of a dead peer is measured by the ping (`SilentOK`). `OutOK` measures the
Host against the task of its old socket: it is unregistered for no longer than one
dial's timeout more than that task's peer has been dead.

- `HeartbeatIsRight`: Heartbeat alone, with any peer, keeps `PromptPeerKept` and
  `DropsInTime`.
- `TypeCorrect`, `PromptPeersAreKept`, `DeadPeersAreDropped` (`DropsInTime`),
  `HostIsBackInTime` (`ReregistersInTime`): of HostLink.

No theorem limits how long a task is away. `PromptPeerKept` covers the race of a pong with
its deadline and says what a peer that answered is dropped for. `DropsInTime` and
`ReregistersInTime` measure time while `AbsencesFit` holds; beyond it a task may miss every
deadline, each time taking the next ping first, and keep a dead peer for as long as that
goes on.

The pairing pane, from `ControlAssumption`:

    PaneInv == Alone /\ Numbered /\ Missed /\ Recorded /\ Left /\ Asked /\ Work

`Dead(i)`, that pairing `i` is not one a phone could still use, is stable: pairings are
numbered by their opening (`Numbered`) and the bridge revives none (`Onward`). A running
bridge has published its endpoint, and one that is gone has no pairing (`Alone`); hence a
call that misses the bridge it was read for, because that one ended in between, meets no
pairing the pane drew (`Missed`). So the pane's snapshot names the pairing it drew for as
long as it lives (`Recorded`), through restarts, lost answers and other clients, and a q
that finds no pairing in the snapshot leaves none behind. `Work` ties the calls under way
to the question that was answered. TLC has checked `PaneInv` on two pairings.

- `KeysFaithful` (`KeysDoWhatTheyShow`).

The pairing session, from `TextBounds` (at least one attempt) and, for what is typed,
`ListHasWords`, `ListIsUnambiguous` and `DrawnFromTheList`; for URIs `HostAcceptsOrigins`
and `HandlesArePlain` besides:

    TextInv == TextTypeOK /\ TextShape

- `TextCorrect`: `TextSpec => []TextTypeOK`, that an ended session keeps nothing of its
  phrase included.
- `TypingFaithful` (`TypedPhrasesAreRead`), for texts, phrases and slips of any number: the
  parser accepts exactly the texts that spell a phrase of the list, finds the one phrase
  they spell, and reads what was typed loosely as the phrase that was shown.

- `UrisFaithful` (`PairUrisAreRead`), for origins, handles, lengths and slips of any number:
  a URI that is shown, and one whose fields were reordered or joined by unknown ones, is
  read as what it was made of; what is accepted of any other copy names each field once.

The last two stand on descriptions of a text. `Cut` says at which places of a text the
separators stand between given parts; splitting and joining are the same cut, seen from
either end (`SplitIsACut`, `JoinIsACut`), and a text has one. `segment_words` then reads
the cut part by part. What it took is the text so far (`Spelling`), and the first words of
any phrase that the text spells (`Following`): a turn that joins two parts could differ
from that phrase only if the phrase had the left part as a word, which `ListIsUnambiguous`
excludes. Without it the reading depends on the order in which the loop tries, and a
phrase may be read as another. `Reads` gives each typed character the place of the
canonical text it stands for, a separator for the same place as the one before it;
`normalize` keeps one character of each place (`SpelledIsNormalized`), and each loose
change keeps such a reading (`TypedInv`).

A URI's part of the invariant, `UriInv`, says that a live session's URI fits, that a copy
has one `?` at most (`OneQuery`), and that a faithful copy is within the length and has
fields that list the pairing in some order, each of the four once (`Faithful`, `Lists`).
Unescaping what was escaped gives it back (`DecodedIsEncoded`), as no escape contains a
percent sign and no two characters have the same one; what is escaped contains no `&`
(`EscapedIsPlain`), so the cut at the `&`s finds the fields again (`JoinedIsSplit`: of
whole parts there is one cut, `CutIsOne`). Swapping two fields keeps the length of the
whole, an unknown field adds its own and one, whatever the places (`SwapLength`,
`InsertLength`). That an accepted text can be read one way needs the place of every name,
not only the list of fields: a name after a `?` or an `&` begins a field
(`PlaceHasAField`), which needs `OneQuery`, a second `?` being a place where no field
begins. No slip makes one, the lost character least of all (`LostKeepsOneQuery`).

### HostDiskProofs

    DiskInv    == TypeOK /\ Numbered /\ StepOK /\ KeyKnown /\ ListKnown /\ NoneRevoked
    HostKeyInv == ListedKeys /\ KeyOnDisk /\ KeyIsLive

The list in memory and on disk differ only between a save's rename and its commit
(`ListKnown`), and what is being saved holds nothing revoked (`NoneRevoked`), so that a
revoked enrolment returns neither by a save nor by a crash. The host key needs
`Loads`, the key pair the next start would load, through torn files and two places.

- `TypeCorrect`, `StoreIsTheDisk` (`StoreMatchesDisk`), `RevocationIsFinal`
  (`RevokedStaysRevoked`): with any faults.
- `HostKeyIsOne` (`HostKeyIsTheOne`): with `KeyFaults = {}`, the faults under which the
  run checks it too. With a credential store that comes and goes, or a key file whose
  permissions cannot be set, it is false of the code (section 4).

### WatchSessionProofs

    HeldInv    == TypeOK /\ Room /\ NoneIsEmpty /\ HeldIsWatched /\ HeldHasAWakeup
    SessionInv == TypeOK /\ RepliesOfATick /\ Room /\ QueuedOnce /\ TypedOnce
                  /\ Apart(Waiting, Held, Done) /\ ClosingIsLast /\ Books
                  /\ CloseAnswersEverything

A book is kept of the submits. Some wait to be taken, one may be held, some were typed;
the log of all that was said or is about to be said has nothing of the first, "queued"
of the second, and one true end of all others (`Books`). Serving a request or a line
either leaves the book alone or makes entries by `Queue` and `Settle`; sending, and the
end of a tick, move replies along and leave the log as it is.

- `TypeCorrect`, `HeldSubmitsAreTended` (`HeldSubmitIsTended`), `AnswersStayTrue`
  (`AnswersAreTrue`), `ClosesAnswerEverything` (`CloseAnswersEverything`): the last
  because `cancel_pending` is the last request of a session that closes
  (`ClosingIsLast`).

The module also holds the proofs of the read scheduler of the watched pane,
from `SchedulerAssumption`: positive window, poll, second and cap, and fewer failing
reads than the cap.

    SchedulerInv == SchedulerTypeOK /\ HistoryIsTail /\ ReadsCapped /\ Punctual
                    /\ PendingIsBounded /\ PendingAfterWindow /\ StaleIsPolled

`HistoryIsTail` ties the pruned `read_history` to all reads ever issued: what was
pruned is at least a second old and the rest is the tail of `reads`. Without it the cap
says nothing of a second that spans a pruning. `Punctual` bounds how far a deadline
lies in the past, `PendingIsBounded` how far a revision's deadline lies ahead, and
`StaleIsPolled` counts the failing reads against the poll.

- `SchedulerTyped`, `CapHolds` (`ReadsCapped`), `RevisionsAreRead`
  (`RevisionReadInTime`), `FramesAreFresh` (`FrameFreshInTime`), `WindowsApart`
  (`WindowsDoNotOverlap`).

These hold for every window, poll period, set of offsets, cap, lateness and horizon.

### HostActionsProofs

From `InputAssumption` (finitely many devices and panes; a raw key sequence is no
grapheme) and `RequestAssumption` (what a Device asks is a `SendInput` or a `HostAction`).

    Inv == Typed /\ Locked /\ Sure /\ \A s \in Sessions : SessionOK(s)

`SessionOK` relates what a thread is at to what was asked, taken and answered (`Work`),
the calls it has left to the shadow (`Calling`: they are what `reconcile_line` would send
from the shadow of now), and the panes it compares to those Herdr ever had (`Invoking`).
`Calling` is stable because only the holder of the input lock is in its calls
(`Locked`); `Sure` needs it in turn, to know that a confirmed call moves shadow and line
alike.

Two facts about data carry it, for lines and key sequences of any length. `TypedAtOnce`:
`shadow_after_keys`, which looks for a clearing key and counts the Backspaces, is what
the pane makes of the keys one by one. `ReconcileIs`: after the first of the calls that
turn one line into another, the rest are those that turn the new shadow into it.
Both are proved by induction, with `SetInduction` instead of the library's theorems
(which take an operator): the values for which a claim holds are a set, whose complement
has no least member.

- `TypeCorrect`; `ShadowIsRight` (`ShadowIsTheLine`); `RequestsAreKept`
  (`EveryRequestIsKept`); `AcceptedIsShown` (`AcceptedLineIsShown`);
  `InvocationsAreAttributed` (`InvocationIsAttributed`).

### WireSessionProofs

From `CodecConstants` and `WireConstants`: positive sizes, and limits of the receiver
that a legal record fits in.

    WireInv == Typed /\ Numbers /\ Fresh /\ Outward /\ Inward

First the codec, for every limit and every envelope: what `zlib` compressed it
decompresses (`RoundTrip`), and the reassembler, given the fragments of an envelope in
order, says "more" until the last and then the envelope (`AcceptIs`). Whatever it is
given, it buffers no more than a record may have (`AcceptAnswers`). The recursions of the
codec are functions of a number, which `Recursion` shows to exist; sums and prefixes are
inductions by `SetInduction`.

`Carries` is one direction of a session: the envelopes encoded so far number the frames;
every frame on its way is one of them; the reader has read some of the envelopes and is at
some fragment of the next; the nonces of the frames follow the reader's, as long as the
way is in order. Each step of the session adds, moves, reads or loses frames of a
direction. `Outward` is the direction to the Device, behind an orderly socket; `Inward`
the direction to the Host, behind a relay that may lose, repeat or swap frames, where a
frame out of its turn does not open. `Numbers` has the sequence numbers, of which one is
used up in vain at most and only on the way out (`InStep`), and the place of the fatal
error, and `Fresh` accounts for each message that was queued and not sent: a
newer frame of its pane is behind it.

- `TypeCorrect`: what an unknown peer makes the Host hold is within the limits.
- `OutgoingFaithful` (`OutgoingIsFaithful`), `FatalLast` (`FatalIsLast`),
  `IncomingFaithful` (`IncomingIsFaithful`).

### Only model-checked

`LossIsSymmetric` and `PaneConverges`, which are liveness under fairness.
`PopupTypeOK`, which draws the device list with `SelectSeq`, a fold whose operator argument
the provers cannot instantiate in an induction.

## 6. What is not modelled

- **Hub**: limits (their verdicts are choices), configuration, metrics, logging, HTTP.
- **Host bridge**: `HostHandle::shutdown`; the idle agent observer and the settle window;
  the session thread after its loop was aborted, which runs on detached until its queue
  closes.
- **Host session**: scroll, tree, device list and theme requests. `release_pending_input`
  reads the session flag and types in one step: a session that ends in between behaves
  like one that ends just after. A malformed line, which ends the tick with an error, is
  a broken subscription. A call that Herdr carries out after its timeout is not told
  apart from one it carries out before.
- **Hub push**: an APNs token that is not hexadecimal, which `providers.rs:212` refuses
  before it asks for a bearer.
- **Input**: keys that move the cursor inside a line or put a character in it, and a person
  who types at the desktop; `mark_seen` and the projection of `action_list`.
- **Disk**: loss of power after a write returned (nothing calls fsync).
- **Configuration, theme, key bindings, discovery**: parsing without shared state.
- **Texts**: characters of more than one byte. A place of a text is a byte.
- **Pairing pane**: the columns of the table and the forms of the footer.
- **Wire messages**: serde types; the models use their values. Noise's handshake messages
  and ciphers, zlib and the QR code are external.
- **App**: the phone is the environment of the models above. Its own state machine is
  a Dart program of its own and is in the plan; screens are rendering.

## 7. Plan

Done, in order of importance: HubRooms, HostBridge with PairedAccess, Heartbeat and
HostLink, HubPush with PushProviders, PaneScheduler, WatchSession, WireSession with
FrameCodec, HostDisk, PaneInput and HostActions, Popup with Control, PairingText; the
proofs of section 5.

Next, to model: the app's connection (`relay.dart`: states, generations, reconnect timer
and lock), the settle window of `agent_status`.
