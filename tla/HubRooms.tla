------------------------------ MODULE HubRooms ------------------------------
(***************************************************************************)
(* The Hub relay: the in-memory handle map (session.rs) and one task per    *)
(* WebSocket connection (routes/connection.rs, relay.rs::run_peer).         *)
(*                                                                         *)
(* A connection registers under a handle as Host or Device, forwards the    *)
(* binary frames it reads to the queue of the other side, drains its own    *)
(* bounded queue to its socket, and tears its room down when it ends.       *)
(* Every lock of the map is one step; what happens between two locks, and   *)
(* every await that another task can overtake, is a step boundary.          *)
(*                                                                         *)
(* Frames are numbered by their sender: a frame is [from, n], never bytes.  *)
(* Close frames carry "app" for a code in 4000..4999, "going_away" for      *)
(* 1001.  The heartbeat is in module Heartbeat; here a peer may be lost at  *)
(* any time.  The session_joined text that announce_and_log_joined writes   *)
(* between the registration and the pump is part of the registration: until *)
(* it is written the task is one that has not been scheduled yet.           *)
(***************************************************************************)
EXTENDS Naturals, Sequences, FiniteSets

CONSTANTS
    Hosts,        \* connections that arrive on /host/<handle>
    Devices,      \* connections that arrive on /device/<handle>
    Handles,      \* routing handles
    None,         \* an empty slot
    Depth,        \* OUTBOUND_QUEUE_DEPTH
    MaxHandles,   \* the configured cap on registered handles
    MayStall,     \* connections whose client may stop reading
    MaxFrames     \* bound: binary frames one connection sends

Conns == Hosts \cup Devices

ASSUME ConnsAssumption  ==
    Hosts \cap Devices = {} /\ None \notin Conns /\ None \notin Handles /\ MayStall \subseteq Conns
ASSUME BoundsAssumption == Depth \in Nat \ {0} /\ MaxHandles \in Nat /\ MaxFrames \in Nat

VARIABLES
    hostOf,     \* the Host slot of each handle's room; None when there is no room
    deviceOf,   \* the Device slot
    window,     \* "none": paired registration; "open" or "expired": pairing window
    phase,      \* where each connection's task is
    handle,     \* the handle a connection presented
    queue,      \* the outbound queue of each connection
    to,         \* whom a task in forward, or in the tail of disconnect, sends to
    sent,       \* how many binary frames a task has read from its socket
    got,        \* number of the last frame of each sender written to this socket
    closeSent,  \* a close frame was written to this socket
    peerClose,  \* "app" when this peer closed with a code in 4000..4999
    stalled,    \* the client stopped reading its socket
    lost,       \* history: connections whose close found the queue full
    mates       \* history: <<host, device>> pairs that shared a room

slots == <<hostOf, deviceOf, window>>
vars  == <<hostOf, deviceOf, window, phase, handle, queue, to, sent, got,
           closeSent, peerClose, stalled, lost, mates>>

Phases == {"idle", "running", "forwarding", "refusing",
           "dropped", "notifying", "gone"}

Frame(c, n)      == [kind |-> "frame", from |-> c, n |-> n, code |-> "none"]
Close(c, code)   == [kind |-> "close", from |-> c, n |-> 0, code |-> code]
Messages == [kind : {"frame", "close"}, from : Conns, n : Nat,
             code : {"none", "app", "going_away"}]

Init ==
    /\ hostOf    = [h \in Handles |-> None]
    /\ deviceOf  = [h \in Handles |-> None]
    /\ window    = [h \in Handles |-> "none"]
    /\ phase     = [c \in Conns |-> "idle"]
    /\ handle    = [c \in Conns |-> None]
    /\ queue     = [c \in Conns |-> <<>>]
    /\ to        = [c \in Conns |-> None]
    /\ sent      = [c \in Conns |-> 0]
    /\ got       = [c \in Conns |-> [d \in Conns |-> 0]]
    /\ closeSent = [c \in Conns |-> FALSE]
    /\ peerClose = [c \in Conns |-> "none"]
    /\ stalled   = [c \in Conns |-> FALSE]
    /\ lost      = {}
    /\ mates     = {}

-----------------------------------------------------------------------------
(* The channel of a connection and the map, as the code reads them.         *)

\* tx.is_closed(): the task has dropped its receiver
Closed(c) == phase[c] \in {"dropped", "notifying", "gone"}

\* Mutant: the lookup takes any room that has the other side.
PeerOfAny(c) ==
    LET slot == IF c \in Hosts THEN deviceOf ELSE hostOf
        full == {h \in Handles : slot[h] # None}
    IN  IF full = {} THEN None ELSE slot[CHOOSE h \in full : TRUE]

\* the slot of role's peer: peer_of(handle, role)
PeerOf(c) == IF c \in Hosts THEN deviceOf[handle[c]] ELSE hostOf[handle[c]]

\* Mutant: every connection of the handle may tear the room down.
OwnsAnySlot(c) == hostOf[handle[c]] # None

\* the slot of the map still holds this very channel
OwnsSlot(c) == c = IF c \in Hosts THEN hostOf[handle[c]] ELSE deviceOf[handle[c]]

\* Room::closed_role: a connection of the room whose teardown is in flight
ClosedSlot(h) ==
    IF hostOf[h] # None /\ Closed(hostOf[h]) THEN hostOf[h]
    ELSE IF deviceOf[h] # None /\ Closed(deviceOf[h]) THEN deviceOf[h]
    ELSE None

\* the tasks that hold or wait for a place in the queue of c
Waiters(c) == {d \in Conns : phase[d] = "forwarding" /\ to[d] = c}

\* peer_tx.try_send(Close): dropped when the receiver is gone or the queue is
\* full.  A freed place belongs to a waiting sender once the channel has
\* handed it over, so with waiters the outcome is open.
TryClose(c, msg) ==
    IF c = None \/ Closed(c)
    THEN UNCHANGED <<queue, lost>>
    ELSE \/ /\ Len(queue[c]) < Depth
            /\ queue' = [queue EXCEPT ![c] = Append(@, msg)]
            /\ UNCHANGED lost
         \/ /\ Len(queue[c]) + Cardinality(Waiters(c)) >= Depth
            /\ lost' = lost \cup {c}
            /\ UNCHANGED queue

-----------------------------------------------------------------------------
(* routes/connection.rs: from the upgrade to the byte pump.                 *)

\* Connection rate, subprotocol, malformed handle, or no registration frame
\* within REGISTER_TIMEOUT: error frame and close before the map is touched.
RejectConnection(c) ==
    /\ phase[c] = "idle"
    /\ phase' = [phase EXCEPT ![c] = "gone"]
    /\ UNCHANGED <<slots, handle, queue, to, sent, got, closeSent, peerClose, stalled, lost, mates>>

\* SessionMap::register first finishes a teardown that is in flight: the room
\* goes and the survivor is closed with going_away, under the same lock.
Reclaim(h) ==
    LET gone     == ClosedSlot(h)
        survivor == IF gone = hostOf[h] THEN deviceOf[h] ELSE hostOf[h]
    IN  IF gone = None
        THEN UNCHANGED <<queue, lost>>
        ELSE TryClose(survivor, Close(gone, "going_away"))

HostAfter(h)   == IF ClosedSlot(h) = None THEN hostOf[h] ELSE None
DeviceAfter(h) == IF ClosedSlot(h) = None THEN deviceOf[h] ELSE None

Registered(h) == Cardinality({g \in Handles : g # h /\ hostOf[g] # None})

\* Role::Host: handle_taken, the handle rate limit (which the environment
\* decides), the cap, or a fresh room.
RegisterHost(c, h, pairing, allowed) ==
    LET accepted == /\ HostAfter(h) = None
                    /\ allowed
                    /\ Registered(h) < MaxHandles
    IN  /\ phase[c] = "idle"
        /\ c \in Hosts
        /\ Reclaim(h)
        /\ hostOf'   = [hostOf EXCEPT ![h] = IF accepted THEN c ELSE HostAfter(h)]
        /\ deviceOf' = [deviceOf EXCEPT ![h] = DeviceAfter(h)]
        /\ window'   = [window EXCEPT ![h] = IF ~accepted THEN @
                                             ELSE IF pairing THEN "open" ELSE "none"]
        /\ phase'    = [phase EXCEPT ![c] = IF accepted THEN "running" ELSE "gone"]
        /\ handle'   = [handle EXCEPT ![c] = h]
        /\ UNCHANGED <<to, sent, got, closeSent, peerClose, stalled, mates>>

\* Mutant: a second Device takes the slot over.
RegisterDeviceTakeover(c, h) ==
    LET accepted == HostAfter(h) # None /\ window[h] # "expired"
    IN  /\ phase[c] = "idle"
        /\ c \in Devices
        /\ Reclaim(h)
        /\ hostOf'   = [hostOf EXCEPT ![h] = HostAfter(h)]
        /\ deviceOf' = [deviceOf EXCEPT ![h] = IF accepted THEN c ELSE DeviceAfter(h)]
        /\ phase'    = [phase EXCEPT ![c] = IF accepted THEN "running" ELSE "gone"]
        /\ mates'    = IF accepted THEN mates \cup {<<hostOf[h], c>>} ELSE mates
        /\ got'      = IF accepted
                       THEN [got EXCEPT ![c] = [@ EXCEPT ![hostOf[h]] = sent[hostOf[h]]]]
                       ELSE got
        /\ handle'   = [handle EXCEPT ![c] = h]
        /\ UNCHANGED <<window, to, sent, closeSent, peerClose, stalled>>

\* Role::Device: handle_unknown, pairing_expired, host_in_use, or the slot.
\* The numbering of the Host's frames starts for this Device where it joins.
RegisterDevice(c, h) ==
    LET accepted == /\ HostAfter(h) # None
                    /\ window[h] # "expired"
                    /\ DeviceAfter(h) = None
    IN  /\ phase[c] = "idle"
        /\ c \in Devices
        /\ Reclaim(h)
        /\ hostOf'   = [hostOf EXCEPT ![h] = HostAfter(h)]
        /\ deviceOf' = [deviceOf EXCEPT ![h] = IF accepted THEN c ELSE DeviceAfter(h)]
        /\ phase'    = [phase EXCEPT ![c] = IF accepted THEN "running" ELSE "gone"]
        /\ mates'    = IF accepted THEN mates \cup {<<hostOf[h], c>>} ELSE mates
        /\ got'      = IF accepted
                       THEN [got EXCEPT ![c] = [@ EXCEPT ![hostOf[h]] = sent[hostOf[h]]]]
                       ELSE got
        /\ handle'   = [handle EXCEPT ![c] = h]
        /\ UNCHANGED <<window, to, sent, closeSent, peerClose, stalled>>

\* 600 seconds pass after a pairing registration.
WindowElapses(h) ==
    /\ hostOf[h] # None
    /\ window[h] = "open"
    /\ window' = [window EXCEPT ![h] = "expired"]
    /\ UNCHANGED <<hostOf, deviceOf, phase, handle, queue, to, sent, got,
                   closeSent, peerClose, stalled, lost, mates>>

-----------------------------------------------------------------------------
(* relay.rs::run_peer, one arm of the select loop per action.               *)

\* The loop breaks: the receiver is dropped with what is left in the queue,
\* and the task's locals die with it.
EndLoop(c) ==
    /\ phase'     = [phase EXCEPT ![c] = "dropped"]
    /\ queue'     = [queue EXCEPT ![c] = <<>>]
    /\ sent'      = [sent EXCEPT ![c] = 0]
    /\ got'       = [got EXCEPT ![c] = [d \in Conns |-> 0]]
    /\ closeSent' = [closeSent EXCEPT ![c] = FALSE]
    /\ stalled'   = [stalled EXCEPT ![c] = FALSE]

\* A binary frame passes the size and rate checks; forward looks the peer up
\* by handle and drops the frame when the slot is empty.
ReadBinary(c) ==
    /\ phase[c] = "running"
    /\ sent[c] < MaxFrames
    /\ sent' = [sent EXCEPT ![c] = @ + 1]
    /\ to'   = [to EXCEPT ![c] = PeerOf(c)]
    /\ phase' = [phase EXCEPT ![c] = IF PeerOf(c) = None THEN "running" ELSE "forwarding"]
    /\ UNCHANGED <<slots, handle, queue, got, closeSent, peerClose, stalled, lost, mates>>

\* Mutant: a full queue drops the frame.
ForwardOrDrop(c) ==
    /\ phase[c] = "forwarding"
    /\ queue' = IF Closed(to[c]) \/ Len(queue[to[c]]) >= Depth THEN queue
                ELSE [queue EXCEPT ![to[c]] = Append(@, Frame(c, sent[c]))]
    /\ phase' = [phase EXCEPT ![c] = "running"]
    /\ to'    = [to EXCEPT ![c] = None]
    /\ UNCHANGED <<slots, handle, sent, got, closeSent, peerClose, stalled, lost, mates>>

\* peer_tx.send(frame).await completes: the queue has room, or its receiver is
\* gone and the frame is dropped.  Nothing bounds the wait, and the task polls
\* neither its own queue, nor its socket, nor its heartbeat meanwhile.
Forward(c) ==
    /\ phase[c] = "forwarding"
    /\ \/ Closed(to[c]) /\ UNCHANGED queue
       \/ /\ ~Closed(to[c])
          /\ Len(queue[to[c]]) < Depth
          /\ queue' = [queue EXCEPT ![to[c]] = Append(@, Frame(c, sent[c]))]
    /\ phase' = [phase EXCEPT ![c] = "running"]
    /\ to'    = [to EXCEPT ![c] = None]
    /\ UNCHANGED <<slots, handle, sent, got, closeSent, peerClose, stalled, lost, mates>>

\* The queue yields a message and the socket takes it, or refuses it after
\* SEND_TIMEOUT; that the task is away meanwhile is Heartbeat's.  After a close frame
\* the WebSocket layer refuses every further send, which ends the loop.
Drain(c) ==
    /\ phase[c] = "running"
    /\ queue[c] # <<>>
    /\ LET m == Head(queue[c]) IN
       IF closeSent[c] \/ stalled[c]
       THEN EndLoop(c)
       ELSE /\ queue' = [queue EXCEPT ![c] = Tail(@)]
            /\ closeSent' = [closeSent EXCEPT ![c] = m.kind = "close"]
            /\ got' = IF m.kind = "frame"
                      THEN [got EXCEPT ![c] = [@ EXCEPT ![m.from] = m.n]]
                      ELSE got
            /\ UNCHANGED <<phase, sent, stalled>>
    /\ UNCHANGED <<slots, handle, to, peerClose, lost, mates>>

\* A frame above 1 MiB or above the frame rate: send_close, without a timeout.
Refuse(c) ==
    /\ phase[c] = "running"
    /\ phase' = [phase EXCEPT ![c] = "refusing"]
    /\ UNCHANGED <<slots, handle, queue, to, sent, got, closeSent, peerClose, stalled, lost, mates>>

RefuseSent(c) ==
    /\ phase[c] = "refusing"
    /\ ~stalled[c]
    /\ EndLoop(c)
    /\ UNCHANGED <<slots, handle, to, peerClose, lost, mates>>

\* The client closes with an application code, kept for the survivor.
ReadAppClose(c) ==
    /\ phase[c] = "running"
    /\ peerClose' = [peerClose EXCEPT ![c] = "app"]
    /\ EndLoop(c)
    /\ UNCHANGED <<slots, handle, to, lost, mates>>

\* Any other end: the client closes with another code or none, the socket ends
\* or fails, or the pong is overdue.
PeerLost(c) ==
    /\ phase[c] = "running"
    /\ EndLoop(c)
    /\ UNCHANGED <<slots, handle, to, peerClose, lost, mates>>

\* Mutant: the result of the ping's send is ignored.
PingIgnored(c) ==
    /\ phase[c] = "running"
    /\ closeSent[c]
    /\ UNCHANGED vars

\* A ping is due on a socket that already carries a close frame: the send
\* fails.
PingAfterClose(c) ==
    /\ phase[c] = "running"
    /\ closeSent[c]
    /\ EndLoop(c)
    /\ UNCHANGED <<slots, handle, to, peerClose, lost, mates>>

\* The client stops reading its socket.
Stall(c) ==
    /\ phase[c] \in {"running", "forwarding", "refusing"}
    /\ c \in MayStall
    /\ ~stalled[c]
    /\ stalled' = [stalled EXCEPT ![c] = TRUE]
    /\ UNCHANGED <<slots, phase, handle, queue, to, sent, got, closeSent, peerClose, lost, mates>>

\* SessionMap::disconnect under the lock: a no-op unless the slot still holds
\* this channel; otherwise the room goes and the peer is kept for the close.
Disconnect(c) ==
    /\ phase[c] = "dropped"
    /\ IF OwnsSlot(c)
       THEN /\ to'       = [to EXCEPT ![c] = PeerOf(c)]
            /\ hostOf'   = [hostOf EXCEPT ![handle[c]] = None]
            /\ deviceOf' = [deviceOf EXCEPT ![handle[c]] = None]
            /\ phase'    = [phase EXCEPT ![c] = "notifying"]
       ELSE /\ phase'    = [phase EXCEPT ![c] = "gone"]
            /\ UNCHANGED <<hostOf, deviceOf, to>>
    /\ UNCHANGED <<window, handle, queue, sent, got, closeSent, peerClose, stalled, lost, mates>>

\* Mutants: every loss is reported as an application close; the survivor is
\* not told.
NotifyApp(c) ==
    /\ phase[c] = "notifying"
    /\ TryClose(to[c], Close(c, "app"))
    /\ phase' = [phase EXCEPT ![c] = "gone"]
    /\ to'    = [to EXCEPT ![c] = None]
    /\ UNCHANGED <<slots, handle, sent, got, closeSent, peerClose, stalled, mates>>
NotifyNobody(c) ==
    /\ phase[c] = "notifying"
    /\ phase' = [phase EXCEPT ![c] = "gone"]
    /\ to'    = [to EXCEPT ![c] = None]
    /\ UNCHANGED <<slots, handle, queue, sent, got, closeSent, peerClose, stalled, lost, mates>>

\* The tail of disconnect, after the unlock: an application code reaches the
\* survivor as it came, every other end becomes going_away.
NotifyPeer(c) ==
    /\ phase[c] = "notifying"
    /\ TryClose(to[c], Close(c, IF peerClose[c] = "app" THEN "app" ELSE "going_away"))
    /\ phase' = [phase EXCEPT ![c] = "gone"]
    /\ to'    = [to EXCEPT ![c] = None]
    /\ UNCHANGED <<slots, handle, sent, got, closeSent, peerClose, stalled, mates>>

-----------------------------------------------------------------------------
\* What a connection's task does by itself once it is scheduled.
Task(c) ==
    \/ Forward(c)
    \/ Drain(c)
    \/ RefuseSent(c)
    \/ PingAfterClose(c)
    \/ Disconnect(c)
    \/ NotifyPeer(c)

\* What a client, its network or the clock does.
Client(c) ==
    \/ RejectConnection(c)
    \/ \E h \in Handles, pairing, allowed \in BOOLEAN : RegisterHost(c, h, pairing, allowed)
    \/ \E h \in Handles : RegisterDevice(c, h)
    \/ ReadBinary(c)
    \/ Refuse(c)
    \/ ReadAppClose(c)
    \/ PeerLost(c)
    \/ Stall(c)

Next ==
    \/ \E c \in Conns : Task(c) \/ Client(c)
    \/ \E h \in Handles : WindowElapses(h)

Spec == Init /\ [][Next]_vars

\* The runtime polls every ready task; clients and networks owe nothing.
FairSpec == Spec /\ \A c \in Conns : WF_vars(Task(c))

-----------------------------------------------------------------------------
\* Every variable has its type: slots hold connections of their own role, queues
\* hold frames and closes, and the phases are those of run_peer.
TypeOK ==
    /\ hostOf    \in [Handles -> Hosts \cup {None}]
    /\ deviceOf  \in [Handles -> Devices \cup {None}]
    /\ window    \in [Handles -> {"none", "open", "expired"}]
    /\ phase     \in [Conns -> Phases]
    /\ handle    \in [Conns -> Handles \cup {None}]
    /\ queue     \in [Conns -> Seq(Messages)]
    /\ to        \in [Conns -> Conns \cup {None}]
    /\ sent      \in [Conns -> Nat]
    /\ got       \in [Conns -> [Conns -> Nat]]
    /\ closeSent \in [Conns -> BOOLEAN]
    /\ peerClose \in [Conns -> {"none", "app"}]
    /\ stalled   \in [Conns -> BOOLEAN]
    /\ lost      \subseteq Conns
    /\ mates     \subseteq Hosts \X Devices

-----------------------------------------------------------------------------
(* Safety.                                                                  *)

Open(c) == phase[c] \in {"running", "forwarding", "refusing"}

Pair(c, d) == IF c \in Hosts THEN <<c, d>> ELSE <<d, c>>

\* peer_of and forward: whatever waits in a queue, and whatever a task is
\* about to put there, was sent under the same handle by the opposite role.
HandleIsolation ==
    /\ \A c \in Conns : \A i \in DOMAIN queue[c] :
          LET d == queue[c][i].from IN
          handle[d] = handle[c] /\ (d \in Hosts <=> c \in Devices)
    /\ \A c \in Conns : to[c] # None =>
          handle[to[c]] = handle[c] /\ (c \in Hosts <=> to[c] \in Devices)

\* Both slots of a room belong to its handle, are held by tasks that have not
\* left the map, and hold a Device only beside the Host it joined.
SlotsSound ==
    \A h \in Handles :
        /\ hostOf[h] # None => /\ handle[hostOf[h]] = h
                               /\ Open(hostOf[h]) \/ phase[hostOf[h]] = "dropped"
        /\ deviceOf[h] # None => /\ handle[deviceOf[h]] = h
                                 /\ Open(deviceOf[h]) \/ phase[deviceOf[h]] = "dropped"
                                 /\ <<hostOf[h], deviceOf[h]>> \in mates

\* Two connections that shared a room share it for as long as both are open:
\* no reclaim, late disconnect or newcomer comes between them.
MatesTogether ==
    \A h \in Hosts, d \in Devices : <<h, d>> \in mates /\ Open(h) /\ Open(d) =>
        hostOf[handle[h]] = h /\ deviceOf[handle[h]] = d

\* Room (R-12-037): at most one Host and one Device a room, each in a slot of
\* its own handle, and neither replaced while both are connected.
RoomSound == SlotsSound /\ MatesTogether

\* The frames of d that the socket of c has not yet taken, by their place.
FramesOf(c, d) == {i \in DOMAIN queue[c] : queue[c][i].kind = "frame" /\ queue[c][i].from = d}

\* The last frame of d that has left its task's hand.
LastSent(d) == IF phase[d] = "forwarding" THEN sent[d] - 1 ELSE sent[d]

\* relay.rs is a wire (R-11-026): while two peers share a room, the frames of
\* one that the other has not yet been sent are exactly the next ones in
\* order, with no loss, no duplicate and at most one in the sender's hand.
WireIsFaithful ==
    \A h \in Handles : hostOf[h] # None /\ deviceOf[h] # None =>
        \A c, d \in {hostOf[h], deviceOf[h]} :
            c # d /\ Open(c) /\ Open(d) =>
                /\ {queue[c][i].n : i \in FramesOf(c, d)} = (got[c][d] + 1)..LastSent(d)
                /\ \A i, j \in FramesOf(c, d) : i < j => queue[c][i].n < queue[c][j].n

\* close_peer and disconnect: a close frame reaches a connection only from a
\* former roommate that has ended, and carries an application code only if
\* that roommate sent one.
CloseComesFromRoommate ==
    \A c \in Conns : \A i \in DOMAIN queue[c] :
        LET m == queue[c][i] IN m.kind = "close" =>
            /\ Pair(c, m.from) \in mates
            /\ Closed(m.from)
            /\ m.code = "app" => peerClose[m.from] = "app"

\* R-12-038 as far as the code keeps it: a connection whose room is gone has a
\* close in its queue, or had one written, or is about to be notified, or is
\* one of those whose close found the queue full.
OrphanWasTold ==
    \A c \in Conns : Open(c) /\ ~OwnsSlot(c) =>
        \/ \E i \in DOMAIN queue[c] : queue[c][i].kind = "close"
        \/ closeSent[c]
        \/ \E d \in Conns : phase[d] = "notifying" /\ to[d] = c
        \/ c \in lost

\* R-12-037: a room is only taken apart after one of its own two connections
\* has ended; the end of a rejected or replaced connection never does it.
RoomStep ==
    \A h \in Handles :
        LET changed == \/ hostOf'[h] # hostOf[h]
                       \/ deviceOf[h] # None /\ deviceOf'[h] # deviceOf[h]
        IN  hostOf[h] # None /\ changed => ClosedSlot(h) # None
RoomOnlyEndsByLoss == [][RoomStep]_vars

-----------------------------------------------------------------------------
(* What the documents say and the code does not keep: TLC refutes each.      *)

\* "The relay MUST close the surviving peer at once" (R-12-038): a connection
\* whose room is gone has been, or is being, closed.
SurvivorIsClosed ==
    \A c \in Conns : Open(c) /\ ~OwnsSlot(c) =>
        \/ \E i \in DOMAIN queue[c] : queue[c][i].kind = "close"
        \/ closeSent[c]
        \/ \E d \in Conns : phase[d] = "notifying" /\ to[d] = c

\* "The relay MUST forward that frame to the survivor verbatim" (R-12-038).
AppCloseReachesSurvivor ==
    \A c \in Conns : \A i \in DOMAIN queue[c] :
        LET m == queue[c][i] IN
        m.kind = "close" /\ peerClose[m.from] = "app" => m.code = "app"

\* "The relay MUST forward opaque binary frames between one Host and one
\* Device" (R-12-003): a queued frame was sent by the roommate.
FramesStayInRoom ==
    \A c \in Conns : \A i \in DOMAIN queue[c] :
        queue[c][i].kind = "frame" => Pair(c, queue[c][i].from) \in mates

\* "A send MUST NOT block the connection's task forever when a peer stalls"
\* (relay.rs, R-41-131).
ForwardEnds == \A c \in Conns : phase[c] = "forwarding" ~> phase[c] # "forwarding"

-----------------------------------------------------------------------------
(* Liveness.                                                                *)

\* forward waits for a place in a queue that stays full.
Blocked(c) == phase[c] = "forwarding" /\ Len(queue[to[c]]) = Depth

\* R-11-125: when one side of a room has ended, the other side ends too, by
\* the close frame it is sent, unless its client never lets it be written, or
\* the frame found the queue full, or its task waits for ever in forward.  The
\* last happens without any stalled client: when the handle has been taken by
\* a new Host whose queue a new Device keeps full, a late frame of the old
\* Device is forwarded there, and its own close stays unread.
Survives(d) == ~(Closed(d) \/ stalled[d] \/ d \in lost)

LossIsSymmetric ==
    \A h \in Hosts, d \in Devices :
        /\ (<<h, d>> \in mates /\ Closed(h)) ~> (~Survives(d) \/ []Blocked(d))
        /\ (<<h, d>> \in mates /\ Closed(d)) ~> (~Survives(h) \/ []Blocked(h))
=============================================================================
