--------------------------- MODULE HubRoomsProofs ---------------------------
(***************************************************************************)
(* Proofs about HubRooms, for any sets of connections and handles, any      *)
(* queue depth and any number of frames: type correctness, and from it the  *)
(* inductive invariant that gives handle isolation, sound rooms and closes  *)
(* that only come from a roommate (HubInv); that who loses a room is told   *)
(* (OrphanWasTold is inductive on top of it); and that a room's wires carry *)
(* what was sent, in order and once (WireInv).                              *)
(***************************************************************************)
EXTENDS HubRooms, TLAPS

-----------------------------------------------------------------------------
(* Sequences: where the elements of a longer or a shorter queue come from.  *)

\* What Append adds to a queue, and that nothing else appears in it.
LEMMA AppendElements ==
    ASSUME NEW S, NEW s \in Seq(S), NEW e \in S
    PROVE  /\ Append(s, e) \in Seq(S)
           /\ \A i \in DOMAIN Append(s, e) :
                 Append(s, e)[i] = e \/ \E j \in DOMAIN s : Append(s, e)[i] = s[j]
OBVIOUS

\* What is left of a queue after its head was taken.
LEMMA TailElements ==
    ASSUME NEW S, NEW s \in Seq(S), s # <<>>
    PROVE  /\ Tail(s) \in Seq(S)
           /\ Head(s) \in S
           /\ \A i \in DOMAIN Tail(s) : \E j \in DOMAIN s : Tail(s)[i] = s[j]
OBVIOUS

-----------------------------------------------------------------------------
(* Type correctness.                                                        *)

\* The break of run_peer's loop keeps its variables typed.
LEMMA EndLoopType ==
    ASSUME TypeOK, NEW c \in Conns, EndLoop(c)
    PROVE  /\ phase' \in [Conns -> Phases]
           /\ queue' \in [Conns -> Seq(Messages)]
           /\ sent' \in [Conns -> Nat]
           /\ got' \in [Conns -> [Conns -> Nat]]
           /\ closeSent' \in [Conns -> BOOLEAN]
           /\ stalled' \in [Conns -> BOOLEAN]
BY DEF EndLoop, TypeOK, Phases

\* try_send of a close keeps the queues and the lost set typed.
LEMMA TryCloseType ==
    ASSUME TypeOK, NEW c \in Conns \cup {None}, NEW msg \in Messages, TryClose(c, msg)
    PROVE  queue' \in [Conns -> Seq(Messages)] /\ lost' \subseteq Conns
<1>1. CASE c = None \/ Closed(c)
  BY <1>1 DEF TryClose, TypeOK
<1>2. CASE ~(c = None \/ Closed(c))
  <2>1. c \in Conns
    BY <1>2
  <2>2. Append(queue[c], msg) \in Seq(Messages)
    BY <2>1, AppendElements DEF TypeOK
  <2>. QED
    BY ZenonT(30), <1>2, <2>1, <2>2 DEF TryClose, TypeOK
<1>. QED
  BY <1>1, <1>2

\* The teardown a registration finishes first keeps them typed.
LEMMA ReclaimType ==
    ASSUME TypeOK, NEW h \in Handles, Reclaim(h)
    PROVE  /\ queue' \in [Conns -> Seq(Messages)]
           /\ lost' \subseteq Conns
           /\ HostAfter(h) \in Hosts \cup {None}
           /\ DeviceAfter(h) \in Devices \cup {None}
<1>1. hostOf[h] \in Hosts \cup {None} /\ deviceOf[h] \in Devices \cup {None}
  BY DEF TypeOK
<1>2. ClosedSlot(h) \in Conns \cup {None}
  BY <1>1 DEF ClosedSlot, Conns
<1>3. CASE ClosedSlot(h) = None
  BY <1>1, <1>3 DEF Reclaim, TypeOK, HostAfter, DeviceAfter
<1>4. CASE ClosedSlot(h) # None
  <2>1. Close(ClosedSlot(h), "going_away") \in Messages
    BY <1>2, <1>4 DEF Close, Messages
  <2>2. (IF ClosedSlot(h) = hostOf[h] THEN deviceOf[h] ELSE hostOf[h]) \in Conns \cup {None}
    BY <1>1 DEF Conns
  <2>. QED
    BY <1>1, <1>4, <2>1, <2>2, TryCloseType DEF Reclaim, HostAfter, DeviceAfter
<1>. QED
  BY <1>3, <1>4

\* A task that has registered knows its handle.
Named == \A c \in Conns :
    phase[c] \notin {"idle", "gone"} => handle[c] \in Handles

Typed == TypeOK /\ Named

\* peer_of yields a connection or an empty slot.
LEMMA PeerOfType ==
    ASSUME Typed, NEW c \in Conns, phase[c] \notin {"idle", "gone"}
    PROVE  PeerOf(c) \in Conns \cup {None} /\ handle[c] \in Handles
<1>1. handle[c] \in Handles
  BY DEF Typed, Named
<1>. QED
  BY <1>1 DEF PeerOf, Typed, TypeOK, Conns

\* Steps that end a loop: a registered task becomes a dropped one.
LEMMA EndLoopTyped ==
    ASSUME Typed, NEW c \in Conns, EndLoop(c), phase[c] \notin {"idle", "gone"},
           UNCHANGED <<slots, handle, to, lost, mates>>,
           peerClose' \in [Conns -> {"none", "app"}]
    PROVE  Typed'
<1>1. TypeOK'
  BY EndLoopType DEF Typed, TypeOK, slots
<1>2. Named'
  BY DEF Named, EndLoop, Typed, TypeOK
<1>. QED
  BY <1>1, <1>2 DEF Typed

\* forward's completed send keeps the state typed.
LEMMA ForwardTyped ==
    ASSUME Typed, NEW c \in Conns, Forward(c)
    PROVE  Typed'
<1>1. queue' \in [Conns -> Seq(Messages)]
  <2>1. CASE UNCHANGED queue
    BY <2>1 DEF Typed, TypeOK
  <2>2. CASE queue' = [queue EXCEPT ![to[c]] = Append(@, Frame(c, sent[c]))]
    <3>1. CASE to[c] \in Conns
      <4>1. Frame(c, sent[c]) \in Messages
        BY DEF Frame, Messages, Typed, TypeOK
      <4>2. Append(queue[to[c]], Frame(c, sent[c])) \in Seq(Messages)
        BY <3>1, <4>1, AppendElements DEF Typed, TypeOK
      <4>. QED
        BY <2>2, <3>1, <4>2 DEF Typed, TypeOK
    <3>2. CASE to[c] \notin Conns
      BY <2>2, <3>2 DEF Typed, TypeOK
    <3>. QED
      BY <3>1, <3>2
  <2>. QED
    BY <2>1, <2>2 DEF Forward
<1>2. TypeOK'
  BY <1>1 DEF Forward, Typed, TypeOK, slots, Phases
<1>3. Named'
  BY DEF Forward, Named, Typed, TypeOK
<1>. QED
  BY <1>2, <1>3 DEF Typed

\* Writing a queued message to the socket keeps the state typed.
LEMMA DrainTyped ==
    ASSUME Typed, NEW c \in Conns, Drain(c)
    PROVE  Typed'
<1>1. CASE closeSent[c] \/ stalled[c]
  <2>1. EndLoop(c)
    BY <1>1 DEF Drain
  <2>2. peerClose' \in [Conns -> {"none", "app"}]
    BY DEF Drain, Typed, TypeOK
  <2>. QED
    BY <2>1, <2>2, EndLoopTyped DEF Drain
<1>2. CASE ~(closeSent[c] \/ stalled[c])
  <2>1. Head(queue[c]) \in Messages /\ Tail(queue[c]) \in Seq(Messages)
    BY TailElements DEF Drain, Typed, TypeOK
  <2>2. queue' \in [Conns -> Seq(Messages)]
    BY <1>2, <2>1 DEF Drain, Typed, TypeOK
  <2>3. got' \in [Conns -> [Conns -> Nat]]
    <3>1. Head(queue[c]).from \in Conns /\ Head(queue[c]).n \in Nat
      BY <2>1 DEF Messages
    <3>2. [got[c] EXCEPT ![Head(queue[c]).from] = Head(queue[c]).n] \in [Conns -> Nat]
      BY <3>1 DEF Typed, TypeOK
    <3>. QED
      BY <1>2, <3>2 DEF Drain, Typed, TypeOK
  <2>4. closeSent' \in [Conns -> BOOLEAN]
    BY <1>2 DEF Drain, Typed, TypeOK
  <2>5. TypeOK'
    BY <1>2, <2>2, <2>3, <2>4 DEF Drain, Typed, TypeOK, slots
  <2>6. Named'
    BY <1>2 DEF Drain, Named, Typed
  <2>. QED
    BY <2>5, <2>6 DEF Typed
<1>. QED
  BY <1>1, <1>2

\* disconnect's locked half keeps the state typed.
LEMMA DisconnectTyped ==
    ASSUME Typed, NEW c \in Conns, Disconnect(c)
    PROVE  Typed'
<1>1. PeerOf(c) \in Conns \cup {None} /\ handle[c] \in Handles
  BY PeerOfType DEF Disconnect
<1>2. TypeOK'
  <2>1. CASE OwnsSlot(c)
    BY ZenonT(30), <1>1, <2>1 DEF Disconnect, Typed, TypeOK, Phases
  <2>2. CASE ~OwnsSlot(c)
    BY <2>2 DEF Disconnect, Typed, TypeOK, Phases
  <2>. QED
    BY <2>1, <2>2
<1>3. Named'
  BY <1>1 DEF Disconnect, Named, Typed, TypeOK
<1>. QED
  BY <1>2, <1>3 DEF Typed

\* disconnect's tail keeps the state typed.
LEMMA NotifyPeerTyped ==
    ASSUME Typed, NEW c \in Conns, NotifyPeer(c)
    PROVE  Typed'
<1>1. Close(c, IF peerClose[c] = "app" THEN "app" ELSE "going_away") \in Messages
  BY DEF Close, Messages
<1>2. queue' \in [Conns -> Seq(Messages)] /\ lost' \subseteq Conns
  <2>1. to[c] \in Conns \cup {None}
    BY DEF Typed, TypeOK
  <2>. QED
    BY <1>1, <2>1, TryCloseType DEF NotifyPeer, Typed
<1>3. TypeOK'
  BY <1>2 DEF NotifyPeer, Typed, TypeOK, slots, Phases
<1>4. Named'
  BY DEF NotifyPeer, Named, Typed, TypeOK
<1>. QED
  BY <1>3, <1>4 DEF Typed

\* Both registrations keep the state typed.
LEMMA RegisterTyped ==
    ASSUME Typed, NEW c \in Conns, NEW h \in Handles,
           \/ \E pairing, allowed \in BOOLEAN : RegisterHost(c, h, pairing, allowed)
           \/ RegisterDevice(c, h)
    PROVE  Typed'
<1>1. /\ queue' \in [Conns -> Seq(Messages)]
      /\ lost' \subseteq Conns
      /\ HostAfter(h) \in Hosts \cup {None}
      /\ DeviceAfter(h) \in Devices \cup {None}
  BY ReclaimType DEF RegisterHost, RegisterDevice, Typed
<1>2. CASE \E pairing, allowed \in BOOLEAN : RegisterHost(c, h, pairing, allowed)
  <2>1. PICK pairing, allowed \in BOOLEAN : RegisterHost(c, h, pairing, allowed)
    BY <1>2
  <2>2. TypeOK'
    BY <1>1, <2>1 DEF RegisterHost, Typed, TypeOK, Phases
  <2>3. Named'
    BY <2>1 DEF RegisterHost, Named, Typed, TypeOK
  <2>. QED
    BY <2>2, <2>3 DEF Typed
<1>3. CASE RegisterDevice(c, h)
  <2>1. got' \in [Conns -> [Conns -> Nat]]
    <3>1. CASE got' = got
      BY <3>1 DEF Typed, TypeOK
    <3>2. CASE got' # got
      <4>1. HostAfter(h) # None
        BY <1>3, <3>2 DEF RegisterDevice
      <4>2. hostOf[h] \in Conns
        BY <1>1, <4>1 DEF HostAfter, Conns
      <4>3. [got[c] EXCEPT ![hostOf[h]] = sent[hostOf[h]]] \in [Conns -> Nat]
        BY <4>2 DEF Typed, TypeOK
      <4>. QED
        BY <1>3, <3>2, <4>3 DEF RegisterDevice, Typed, TypeOK
    <3>. QED
      BY <3>1, <3>2
  <2>2. mates' \subseteq Hosts \X Devices
    <3>1. HostAfter(h) # None => hostOf[h] \in Hosts
      BY <1>1 DEF HostAfter
    <3>. QED
      BY <1>3, <3>1 DEF RegisterDevice, Typed, TypeOK
  <2>3. TypeOK'
    BY <1>1, <1>3, <2>1, <2>2 DEF RegisterDevice, Typed, TypeOK, Phases
  <2>4. Named'
    BY <1>3 DEF RegisterDevice, Named, Typed, TypeOK
  <2>. QED
    BY <2>3, <2>4 DEF Typed
<1>. QED
  BY <1>2, <1>3

\* Every step keeps the state typed.
LEMMA TypedStep == Typed /\ [Next]_vars => Typed'
<1> SUFFICES ASSUME Typed, [Next]_vars PROVE Typed'
  OBVIOUS
<1>1. ASSUME NEW c \in Conns, Task(c) PROVE Typed'
  <2>1. CASE Forward(c)        BY <2>1, ForwardTyped
  <2>2. CASE Drain(c)          BY <2>2, DrainTyped
  <2>3. CASE RefuseSent(c)
    BY <2>3, EndLoopTyped DEF RefuseSent, Typed, TypeOK
  <2>4. CASE PingAfterClose(c)
    BY <2>4, EndLoopTyped DEF PingAfterClose, Typed, TypeOK
  <2>5. CASE Disconnect(c)     BY <2>5, DisconnectTyped
  <2>6. CASE NotifyPeer(c)     BY <2>6, NotifyPeerTyped
  <2>. QED
    BY <1>1, <2>1, <2>2, <2>3, <2>4, <2>5, <2>6 DEF Task
<1>2. ASSUME NEW c \in Conns, Client(c) PROVE Typed'
  <2>1. CASE RejectConnection(c)
    BY <2>1 DEF RejectConnection, Typed, TypeOK, Named, slots, Phases
  <2>2. ASSUME NEW h \in Handles, NEW pairing \in BOOLEAN, NEW allowed \in BOOLEAN,
               RegisterHost(c, h, pairing, allowed)
        PROVE  Typed'
    BY <2>2, RegisterTyped
  <2>3. ASSUME NEW h \in Handles, RegisterDevice(c, h) PROVE Typed'
    BY <2>3, RegisterTyped
  <2>4. CASE ReadBinary(c)
    <3>1. PeerOf(c) \in Conns \cup {None}
      BY <2>4, PeerOfType DEF ReadBinary
    <3>. QED
      BY <2>4, <3>1 DEF ReadBinary, Typed, TypeOK, Named, slots, Phases
  <2>5. CASE Refuse(c)
    BY <2>5 DEF Refuse, Typed, TypeOK, Named, slots, Phases
  <2>6. CASE ReadAppClose(c)
    <3>1. peerClose' \in [Conns -> {"none", "app"}]
      BY <2>6 DEF ReadAppClose, Typed, TypeOK
    <3>. QED
      BY <2>6, <3>1, EndLoopTyped DEF ReadAppClose
  <2>7. CASE PeerLost(c)
    BY <2>7, EndLoopTyped DEF PeerLost, Typed, TypeOK
  <2>8. CASE Stall(c)
    BY <2>8 DEF Stall, Typed, TypeOK, Named, slots
  <2>. QED
    BY <1>2, <2>1, <2>2, <2>3, <2>4, <2>5, <2>6, <2>7, <2>8 DEF Client
<1>3. ASSUME NEW h \in Handles, WindowElapses(h) PROVE Typed'
  BY <1>3 DEF WindowElapses, Typed, TypeOK, Named
<1>4. CASE UNCHANGED vars
  BY <1>4 DEF vars, Typed, TypeOK, Named
<1>. QED
  BY <1>1, <1>2, <1>3, <1>4 DEF Next

\* The empty map is typed.
LEMMA TypedInit == Init => Typed
BY ConnsAssumption DEF Init, Typed, TypeOK, Named, Phases, Conns

\* Every variable keeps its type through every step of a connection's task, a
\* client and the clock.
THEOREM TypeCorrect == Spec => []TypeOK
<1>1. Typed => TypeOK
  BY DEF Typed
<1>. QED
  BY <1>1, TypedInit, TypedStep, PTL DEF Spec

-----------------------------------------------------------------------------
(* The inductive invariant.                                                 *)

\* What holds of a message m in the queue of c.
MsgOK(m, c) ==
    /\ phase[m.from] # "idle" /\ phase[c] # "idle"
    /\ handle[m.from] = handle[c]
    /\ m.from \in Hosts <=> c \in Devices
    /\ m.kind = "close" => /\ Pair(c, m.from) \in mates
                           /\ Closed(m.from)
                           /\ m.code = "app" => peerClose[m.from] = "app"

QueuesOK == \A c \in Conns : \A i \in DOMAIN queue[c] : MsgOK(queue[c][i], c)

\* What holds of the target a task sends to.
TargetOK(c) ==
    /\ phase[c] = "forwarding" => to[c] # None
    /\ to[c] # None =>
          /\ phase[c] \in {"forwarding", "notifying"} /\ phase[to[c]] # "idle"
          /\ handle[to[c]] = handle[c]
          /\ c \in Hosts <=> to[c] \in Devices
          /\ phase[c] = "notifying" => Pair(to[c], c) \in mates

TargetsOK == \A c \in Conns : TargetOK(c)

HubInv == Typed /\ QueuesOK /\ TargetsOK /\ SlotsSound

\* The inductive invariant implies the three properties the runs check.
LEMMA HubInvImplies ==
    HubInv => HandleIsolation /\ SlotsSound /\ CloseComesFromRoommate
BY DEF HubInv, QueuesOK, TargetsOK, TargetOK, MsgOK, HandleIsolation, CloseComesFromRoommate

\* A step that moves no connection out of "idle", reopens none and forgets no
\* mate keeps what is known of a message.
Forwardly ==
    /\ \A c \in Conns : phase[c] # "idle" => phase'[c] # "idle" /\ handle'[c] = handle[c]
    /\ \A c \in Conns : Closed(c) => Closed(c)'
    /\ \A c \in Conns : peerClose[c] = "app" => peerClose'[c] = "app"
    /\ mates \subseteq mates'

\* What makes a queued message legitimate survives a step that moves no phase back.
LEMMA MsgKept ==
    ASSUME Forwardly, NEW m \in Messages, NEW c \in Conns, MsgOK(m, c)
    PROVE  MsgOK(m, c)'
<1>1. m.from \in Conns
  BY DEF Messages
<1>. QED
  BY <1>1 DEF Forwardly, MsgOK, Pair

\* Queues that gain at most one good message stay good.
LEMMA QueuesKept ==
    ASSUME Typed, QueuesOK, Forwardly,
           \A c \in Conns : \A i \in DOMAIN queue'[c] :
              \/ \E j \in DOMAIN queue[c] : queue'[c][i] = queue[c][j]
              \/ \E m \in Messages : queue'[c][i] = m /\ MsgOK(m, c)'
    PROVE  QueuesOK'
<1> SUFFICES ASSUME NEW c \in Conns, NEW i \in DOMAIN queue'[c],
                    NEW m, m = queue'[c][i]
             PROVE  MsgOK(m, c)'
  BY DEF QueuesOK, MsgOK
<1>1. CASE \E j \in DOMAIN queue[c] : queue'[c][i] = queue[c][j]
  <2>1. PICK j \in DOMAIN queue[c] : queue'[c][i] = queue[c][j]
    BY <1>1
  <2>2. queue[c][j] \in Messages
    BY DEF Typed, TypeOK
  <2>3. MsgOK(queue[c][j], c)
    BY DEF QueuesOK
  <2>4. m \in Messages /\ MsgOK(m, c)
    BY <2>1, <2>2, <2>3
  <2>. QED
    BY <2>1, <2>4, MsgKept
<1>. QED
  BY <1>1

\* try_send of a good close keeps the queues good.
LEMMA TryCloseKeeps ==
    ASSUME Typed, QueuesOK, Forwardly, NEW d \in Conns \cup {None}, NEW msg \in Messages,
           TryClose(d, msg), d # None => MsgOK(msg, d)'
    PROVE  QueuesOK'
<1>1. ASSUME NEW c \in Conns, NEW i \in DOMAIN queue'[c]
      PROVE  \/ \E j \in DOMAIN queue[c] : queue'[c][i] = queue[c][j]
             \/ \E m \in Messages : queue'[c][i] = m /\ MsgOK(m, c)'
  <2>1. CASE queue' = queue
    BY <2>1, <1>1
  <2>2. CASE queue' # queue
    <3>1. d \in Conns /\ queue' = [queue EXCEPT ![d] = Append(@, msg)]
      BY <2>2 DEF TryClose
    <3>2. CASE c = d
      <4>1. queue'[c] = Append(queue[c], msg)
        BY <3>1, <3>2 DEF Typed, TypeOK
      <4>2. queue[c] \in Seq(Messages)
        BY DEF Typed, TypeOK
      <4>3. queue'[c][i] = msg \/ \E j \in DOMAIN queue[c] : queue'[c][i] = queue[c][j]
        BY <1>1, <4>1, <4>2, AppendElements
      <4>4. d # None
        BY <3>1, ConnsAssumption
      <4>. QED
        BY <3>2, <4>3, <4>4
    <3>3. CASE c # d
      BY <3>1, <3>3, <1>1 DEF Typed, TypeOK
    <3>. QED
      BY <3>2, <3>3
  <2>. QED
    BY <2>1, <2>2
<1>. QED
  BY <1>1, QueuesKept

\* A step that changes the phase and the target of one task alone, or lets an
\* idle connection register, keeps the other targets good.
LEMMA TargetsKept ==
    ASSUME Typed, TargetsOK, Forwardly, NEW c \in Conns, TargetOK(c)',
           \A d \in Conns : d # c => phase'[d] = phase[d] /\ to'[d] = to[d]
    PROVE  TargetsOK'
<1> SUFFICES ASSUME NEW d \in Conns, d # c PROVE TargetOK(d)'
  BY DEF TargetsOK
<1>1. to[d] \in Conns \cup {None}
  BY DEF Typed, TypeOK
<1>. QED
  BY <1>1 DEF TargetsOK, TargetOK, Forwardly, Pair

\* Rooms that stand unchanged stay sound when none of their connections moves.
LEMMA RoomsKept ==
    ASSUME Typed, SlotsSound, mates \subseteq mates', NEW c \in Conns,
           \A d \in Conns : d # c => phase'[d] = phase[d] /\ handle'[d] = handle[d],
           \A h \in Handles :
              /\ hostOf'[h] # None => hostOf'[h] = hostOf[h] /\ hostOf[h] # c
              /\ deviceOf'[h] # None => /\ hostOf'[h] = hostOf[h]
                                        /\ deviceOf'[h] = deviceOf[h]
                                        /\ deviceOf[h] # c
    PROVE  SlotsSound'
<1> SUFFICES ASSUME NEW h \in Handles
             PROVE  /\ hostOf'[h] # None =>
                          /\ handle'[hostOf'[h]] = h
                          /\ phase'[hostOf'[h]] \in {"running", "forwarding", "refusing", "dropped"}
                    /\ deviceOf'[h] # None =>
                          /\ handle'[deviceOf'[h]] = h
                          /\ phase'[deviceOf'[h]] \in {"running", "forwarding", "refusing", "dropped"}
                          /\ <<hostOf'[h], deviceOf'[h]>> \in mates'
  BY DEF SlotsSound, Open
<1>1. hostOf[h] \in Conns \cup {None} /\ deviceOf[h] \in Conns \cup {None}
  BY DEF Typed, TypeOK, Conns
<1>2. ASSUME hostOf'[h] # None
      PROVE  /\ handle'[hostOf'[h]] = h
             /\ phase'[hostOf'[h]] \in {"running", "forwarding", "refusing", "dropped"}
  <2>1. hostOf'[h] = hostOf[h] /\ hostOf[h] # c /\ hostOf[h] \in Conns
    BY <1>1, <1>2
  <2>2. handle[hostOf[h]] = h /\ (Open(hostOf[h]) \/ phase[hostOf[h]] = "dropped")
    BY <1>2, <2>1 DEF SlotsSound
  <2>. QED
    BY <2>1, <2>2 DEF Open
<1>3. ASSUME deviceOf'[h] # None
      PROVE  /\ handle'[deviceOf'[h]] = h
             /\ phase'[deviceOf'[h]] \in {"running", "forwarding", "refusing", "dropped"}
             /\ <<hostOf'[h], deviceOf'[h]>> \in mates'
  <2>1. /\ deviceOf'[h] = deviceOf[h] /\ deviceOf[h] # c /\ deviceOf[h] \in Conns
        /\ hostOf'[h] = hostOf[h]
    BY <1>1, <1>3
  <2>2. /\ handle[deviceOf[h]] = h /\ (Open(deviceOf[h]) \/ phase[deviceOf[h]] = "dropped")
        /\ <<hostOf[h], deviceOf[h]>> \in mates
    BY <1>3, <2>1 DEF SlotsSound
  <2>. QED
    BY <2>1, <2>2 DEF Open
<1>. QED
  BY <1>2, <1>3

\* SlotsSound, one room at a time.
RoomIs(h) ==
    /\ hostOf[h] # None =>
          /\ handle[hostOf[h]] = h
          /\ phase[hostOf[h]] \in {"running", "forwarding", "refusing", "dropped"}
    /\ deviceOf[h] # None =>
          /\ handle[deviceOf[h]] = h
          /\ phase[deviceOf[h]] \in {"running", "forwarding", "refusing", "dropped"}
          /\ <<hostOf[h], deviceOf[h]>> \in mates

\* SlotsSound, one room at a time.
LEMMA SlotsSoundIs == (\A h \in Handles : RoomIs(h)) <=> SlotsSound
BY DEF RoomIs, SlotsSound, Open

\* A room a step does not touch stays sound.
LEMMA OtherRoom ==
    ASSUME HubInv, mates \subseteq mates', NEW c \in Conns, NEW h \in Handles,
           \A d \in Conns : d # c => phase'[d] = phase[d] /\ handle'[d] = handle[d],
           hostOf'[h] = hostOf[h], deviceOf'[h] = deviceOf[h],
           hostOf[h] # c, deviceOf[h] # c
    PROVE  RoomIs(h)'
<1>1. RoomIs(h)
  BY SlotsSoundIs DEF HubInv
<1>2. hostOf[h] \in Conns \cup {None} /\ deviceOf[h] \in Conns \cup {None}
  BY DEF HubInv, Typed, TypeOK, Conns
<1>. QED
  BY <1>1, <1>2 DEF RoomIs

\* A loop that ends leaves the other three parts of the invariant alone.
LEMMA EndLoopKeeps ==
    ASSUME HubInv, NEW c \in Conns, EndLoop(c), phase[c] \in {"running", "refusing"},
           UNCHANGED <<slots, handle, to, lost, mates>>,
           \A d \in Conns : peerClose[d] = "app" => peerClose'[d] = "app",
           Typed'
    PROVE  HubInv'
<1>1. Forwardly
  BY DEF Forwardly, EndLoop, Closed, HubInv, Typed, TypeOK
<1>2. QueuesOK'
  <2>1. ASSUME NEW d \in Conns, NEW i \in DOMAIN queue'[d]
        PROVE  \E j \in DOMAIN queue[d] : queue'[d][i] = queue[d][j]
    BY <2>1 DEF EndLoop, HubInv, Typed, TypeOK
  <2>. QED
    BY <1>1, <2>1, QueuesKept DEF HubInv
<1>3. TargetsOK'
  BY SMTT(30) DEF HubInv, TargetsOK, TargetOK, EndLoop, Typed, TypeOK, Pair
<1>4. SlotsSound'
  BY ConnsAssumption DEF HubInv, SlotsSound, EndLoop, Typed, TypeOK, Open, slots, Conns
<1>. QED
  BY <1>2, <1>3, <1>4 DEF HubInv

\* forward's completed send keeps the invariant.
LEMMA ForwardKeeps ==
    ASSUME HubInv, NEW c \in Conns, Forward(c), Typed'
    PROVE  HubInv'
<1>1. Forwardly
  BY DEF Forwardly, Forward, Closed, HubInv, Typed, TypeOK
<1>2. to[c] \in Conns /\ to[c] # None
  BY DEF Forward, HubInv, TargetsOK, TargetOK, Typed, TypeOK
<1>3. QueuesOK'
  <2>1. ASSUME NEW d \in Conns, NEW i \in DOMAIN queue'[d]
        PROVE  \/ \E j \in DOMAIN queue[d] : queue'[d][i] = queue[d][j]
               \/ \E m \in Messages : queue'[d][i] = m /\ MsgOK(m, d)'
    <3>1. CASE queue'[d] = queue[d]
      BY <2>1, <3>1
    <3>2. CASE queue'[d] # queue[d]
      <4>0. queue' = [queue EXCEPT ![to[c]] = Append(@, Frame(c, sent[c]))]
        BY <3>2 DEF Forward
      <4>1. d = to[c] /\ queue'[d] = Append(queue[d], Frame(c, sent[c]))
        BY <1>2, <3>2, <4>0 DEF HubInv, Typed, TypeOK
      <4>2. Frame(c, sent[c]) \in Messages /\ queue[d] \in Seq(Messages)
        BY DEF Frame, Messages, HubInv, Typed, TypeOK
      <4>3. \/ queue'[d][i] = Frame(c, sent[c])
            \/ \E j \in DOMAIN queue[d] : queue'[d][i] = queue[d][j]
        BY <2>1, <4>1, <4>2, AppendElements
      <4>4. PICK m \in Messages : m = Frame(c, sent[c])
        BY <4>2
      <4>5. MsgOK(m, d)'
        BY <1>1, <1>2, <4>1, <4>4 DEF MsgOK, Frame, Forward, HubInv, TargetsOK, TargetOK, Typed, TypeOK, Forwardly
      <4>. QED
        BY <4>3, <4>4, <4>5
    <3>. QED
      BY <3>1, <3>2
  <2>. QED
    BY <1>1, <2>1, QueuesKept DEF HubInv
<1>4. TargetsOK'
  <2>1. \A d \in Conns : d # c => phase'[d] = phase[d] /\ to'[d] = to[d]
    BY DEF Forward, HubInv, Typed, TypeOK
  <2>2. TargetOK(c)'
    BY DEF TargetOK, Forward, HubInv, Typed, TypeOK
  <2>. QED
    BY <1>1, <2>1, <2>2, TargetsKept DEF HubInv
<1>5. SlotsSound'
  BY ConnsAssumption DEF HubInv, SlotsSound, Forward, Typed, TypeOK, Open, slots, Conns
<1>. QED
  BY <1>3, <1>4, <1>5 DEF HubInv

\* Writing a queued message to the socket keeps the invariant.
LEMMA DrainKeeps ==
    ASSUME HubInv, NEW c \in Conns, Drain(c), Typed'
    PROVE  HubInv'
<1>1. CASE closeSent[c] \/ stalled[c]
  BY <1>1, EndLoopKeeps DEF Drain
<1>2. CASE ~(closeSent[c] \/ stalled[c])
  <2>1. Forwardly
    BY <1>2 DEF Forwardly, Drain, Closed
  <2>2. ASSUME NEW d \in Conns, NEW i \in DOMAIN queue'[d]
        PROVE  \E j \in DOMAIN queue[d] : queue'[d][i] = queue[d][j]
    <3>1. queue[c] \in Seq(Messages)
      BY DEF HubInv, Typed, TypeOK
    <3>2. queue'[d] = IF d = c THEN Tail(queue[c]) ELSE queue[d]
      BY <1>2 DEF Drain, HubInv, Typed, TypeOK
    <3>. QED
      BY <2>2, <3>1, <3>2, TailElements DEF Drain
  <2>3. QueuesOK'
    BY <2>1, <2>2, QueuesKept DEF HubInv
  <2>4. TargetsOK' /\ SlotsSound'
    BY <1>2 DEF Drain, HubInv, TargetsOK, TargetOK, SlotsSound, Pair, Open, slots
  <2>. QED
    BY <2>3, <2>4 DEF HubInv
<1>. QED
  BY <1>1, <1>2

\* The two connections of a room, when it has both, have been mates, have the
\* same handle and opposite roles, and have left "idle".
LEMMA Roommates ==
    ASSUME HubInv, NEW h \in Handles, deviceOf[h] # None
    PROVE  /\ hostOf[h] \in Hosts /\ deviceOf[h] \in Devices
           /\ <<hostOf[h], deviceOf[h]>> \in mates
           /\ handle[hostOf[h]] = h /\ handle[deviceOf[h]] = h
           /\ phase[hostOf[h]] # "idle" /\ phase[deviceOf[h]] # "idle"
           /\ hostOf[h] \notin Devices /\ deviceOf[h] \notin Hosts
<1>1. deviceOf[h] \in Devices /\ <<hostOf[h], deviceOf[h]>> \in mates
  BY DEF HubInv, SlotsSound, Typed, TypeOK
<1>2. hostOf[h] \in Hosts
  BY <1>1 DEF HubInv, Typed, TypeOK
<1>3. hostOf[h] # None
  BY <1>2, ConnsAssumption DEF Conns
<1>. QED
  BY <1>1, <1>2, <1>3, ConnsAssumption DEF HubInv, SlotsSound, Open

\* disconnect's locked half keeps the invariant.
LEMMA DisconnectKeeps ==
    ASSUME HubInv, NEW c \in Conns, Disconnect(c), Typed'
    PROVE  HubInv'
<1>1. Forwardly
  BY DEF Forwardly, Disconnect, Closed, HubInv, Typed, TypeOK
<1>2. handle[c] \in Handles
  BY PeerOfType DEF Disconnect, HubInv
<1>3. QueuesOK'
  BY <1>1, QueuesKept DEF HubInv, Disconnect
<1>4. TargetsOK'
  <2>1. \A d \in Conns : d # c => phase'[d] = phase[d] /\ to'[d] = to[d]
    BY DEF Disconnect, HubInv, Typed, TypeOK
  <2>2. TargetOK(c)'
    <3>1. CASE ~OwnsSlot(c)
      BY ZenonT(30), <3>1 DEF Disconnect, HubInv, Typed, TypeOK, TargetsOK, TargetOK
    <3>2. CASE OwnsSlot(c) /\ PeerOf(c) = None
      BY <3>2 DEF Disconnect, HubInv, Typed, TypeOK, TargetOK
    <3>3. CASE OwnsSlot(c) /\ PeerOf(c) # None
      <4>1. deviceOf[handle[c]] # None
        BY <3>3, <1>2, ConnsAssumption DEF OwnsSlot, PeerOf, Conns
      <4>2. c \in {hostOf[handle[c]], deviceOf[handle[c]]}
        BY <3>3 DEF OwnsSlot
      <4>3. /\ hostOf[handle[c]] \in Hosts /\ deviceOf[handle[c]] \in Devices
            /\ <<hostOf[handle[c]], deviceOf[handle[c]]>> \in mates
            /\ handle[hostOf[handle[c]]] = handle[c] /\ handle[deviceOf[handle[c]]] = handle[c]
            /\ phase[hostOf[handle[c]]] # "idle" /\ phase[deviceOf[handle[c]]] # "idle"
            /\ hostOf[handle[c]] \notin Devices /\ deviceOf[handle[c]] \notin Hosts
        BY <1>2, <4>1, Roommates
      <4>4. /\ to'[c] = PeerOf(c) /\ phase'[c] = "notifying"
            /\ UNCHANGED <<handle, mates>>
        BY <3>3 DEF Disconnect, HubInv, Typed, TypeOK
      <4>5. PeerOf(c) \in Conns /\ phase'[PeerOf(c)] # "idle"
        BY <1>1, <4>3 DEF PeerOf, Conns, Forwardly
      <4>. QED
        BY <3>3, <4>2, <4>3, <4>4, <4>5 DEF TargetOK, PeerOf, Pair
    <3>. QED
      BY <3>1, <3>2, <3>3
  <2>. QED
    BY <1>1, <2>1, <2>2, TargetsKept DEF HubInv
<1>5. SlotsSound'
  <2>1. ASSUME NEW h \in Handles
        PROVE  /\ hostOf'[h] # None => hostOf'[h] = hostOf[h] /\ hostOf[h] # c
               /\ deviceOf'[h] # None => /\ hostOf'[h] = hostOf[h]
                                         /\ deviceOf'[h] = deviceOf[h]
                                         /\ deviceOf[h] # c
    <3>1. CASE OwnsSlot(c)
      <4>0. /\ hostOf' = [hostOf EXCEPT ![handle[c]] = None]
            /\ deviceOf' = [deviceOf EXCEPT ![handle[c]] = None]
        BY <3>1 DEF Disconnect
      <4>1. /\ hostOf'[h] = IF h = handle[c] THEN None ELSE hostOf[h]
            /\ deviceOf'[h] = IF h = handle[c] THEN None ELSE deviceOf[h]
        BY <1>2, <4>0 DEF HubInv, Typed, TypeOK
      <4>2. h # handle[c] => hostOf[h] # c /\ deviceOf[h] # c
        BY ConnsAssumption DEF HubInv, SlotsSound
      <4>. QED
        BY <4>1, <4>2
    <3>2. CASE ~OwnsSlot(c)
      <4>0. c # None
        BY ConnsAssumption
      <4>1. hostOf[h] # c /\ deviceOf[h] # c
        <5>1. ASSUME hostOf[h] = c PROVE FALSE
          <6>1. c \in Hosts
            BY <4>0, <5>1 DEF HubInv, Typed, TypeOK
          <6>2. handle[c] = h
            BY <4>0, <5>1 DEF HubInv, SlotsSound
          <6>. QED
            BY <3>2, <5>1, <6>1, <6>2 DEF OwnsSlot
        <5>2. ASSUME deviceOf[h] = c PROVE FALSE
          <6>1. c \notin Hosts
            BY <4>0, <5>2, ConnsAssumption DEF HubInv, Typed, TypeOK
          <6>2. handle[c] = h
            BY <4>0, <5>2 DEF HubInv, SlotsSound
          <6>. QED
            BY <3>2, <5>2, <6>1, <6>2 DEF OwnsSlot
        <5>. QED
          BY <5>1, <5>2
      <4>. QED
        BY <3>2, <4>1 DEF Disconnect
    <3>. QED
      BY <3>1, <3>2
  <2>2. \A d \in Conns : d # c => phase'[d] = phase[d]
    BY DEF Disconnect, HubInv, Typed, TypeOK
  <2>3. UNCHANGED <<handle, mates>>
    BY DEF Disconnect
  <2>. QED
    BY <2>1, <2>2, <2>3, RoomsKept DEF HubInv
<1>. QED
  BY <1>3, <1>4, <1>5 DEF HubInv

\* disconnect's tail keeps the invariant.
LEMMA NotifyPeerKeeps ==
    ASSUME HubInv, NEW c \in Conns, NotifyPeer(c), Typed'
    PROVE  HubInv'
<1>1. Forwardly
  BY DEF Forwardly, NotifyPeer, Closed, HubInv, Typed, TypeOK
<1>2. PICK msg \in Messages :
         msg = Close(c, IF peerClose[c] = "app" THEN "app" ELSE "going_away")
  <2>1. Close(c, IF peerClose[c] = "app" THEN "app" ELSE "going_away") \in Messages
    BY DEF Close, Messages
  <2>. QED
    BY <2>1
<1>3. to[c] \in Conns \cup {None}
  BY DEF HubInv, Typed, TypeOK
<1>4. ASSUME to[c] # None PROVE MsgOK(msg, to[c])
  <2>1. Closed(c) /\ TargetOK(c)
    BY DEF NotifyPeer, Closed, HubInv, TargetsOK
  <2>2. phase[c] = "notifying"
    BY DEF NotifyPeer
  <2>. QED
    BY <1>2, <1>3, <1>4, <2>1, <2>2, ConnsAssumption DEF MsgOK, Close, TargetOK, Conns
<1>5. QueuesOK'
  <2>1. PICK d \in Conns \cup {None} : d = to[c]
    BY <1>3
  <2>2. d # None => MsgOK(msg, d)'
    <3>1. d # None => d \in Conns /\ MsgOK(msg, d)
      BY <1>4, <2>1
    <3>. QED
      BY <1>1, <1>2, <3>1, MsgKept
  <2>3. TryClose(d, msg)
    BY <1>2, <2>1 DEF NotifyPeer
  <2>. QED
    BY <1>1, <2>2, <2>3, TryCloseKeeps DEF HubInv
<1>6. TargetsOK'
  <2>1. \A d \in Conns : d # c => phase'[d] = phase[d] /\ to'[d] = to[d]
    BY DEF NotifyPeer, HubInv, Typed, TypeOK
  <2>2. TargetOK(c)'
    BY DEF TargetOK, NotifyPeer, HubInv, Typed, TypeOK
  <2>. QED
    BY <1>1, <2>1, <2>2, TargetsKept DEF HubInv
<1>7. SlotsSound'
  <2>1. ASSUME NEW h \in Handles PROVE hostOf[h] # c /\ deviceOf[h] # c
    <3>1. RoomIs(h)
      BY SlotsSoundIs DEF HubInv
    <3>. QED
      BY <3>1, ConnsAssumption DEF RoomIs, NotifyPeer
  <2>2. /\ \A d \in Conns : d # c => phase'[d] = phase[d] /\ handle'[d] = handle[d]
        /\ UNCHANGED <<slots, mates>>
    BY DEF NotifyPeer, HubInv, Typed, TypeOK
  <2>. QED
    BY <2>1, <2>2, RoomsKept DEF HubInv, slots
<1>. QED
  BY <1>5, <1>6, <1>7 DEF HubInv

\* What the two registrations have in common: an idle connection takes a
\* handle, a room in teardown is finished, and the connection is refused, or
\* becomes the Host of an empty room, or the Device of a room that has none.
LEMMA RegisterKeeps ==
    ASSUME HubInv, Typed', NEW c \in Conns, NEW h \in Handles, phase[c] = "idle", Reclaim(h),
           handle' = [handle EXCEPT ![c] = h],
           \A d \in Conns : d # c => phase'[d] = phase[d],
           phase'[c] \in {"running", "gone"},
           UNCHANGED <<to, peerClose>>, mates \subseteq mates',
           \A g \in Handles : g # h => hostOf'[g] = hostOf[g] /\ deviceOf'[g] = deviceOf[g],
           \/ hostOf'[h] = HostAfter(h) /\ deviceOf'[h] = DeviceAfter(h)
           \/ /\ hostOf'[h] = c /\ phase'[c] = "running"
              /\ HostAfter(h) = None /\ deviceOf'[h] = DeviceAfter(h)
           \/ /\ deviceOf'[h] = c /\ phase'[c] = "running"
              /\ HostAfter(h) # None /\ hostOf'[h] = HostAfter(h)
              /\ <<hostOf[h], c>> \in mates'
    PROVE  HubInv'
<1>1. Forwardly
  BY DEF Forwardly, Closed, HubInv, Typed, TypeOK
<1>2. c # None
  BY ConnsAssumption
<1>3. QueuesOK'
  <2>1. CASE ClosedSlot(h) = None
    BY <1>1, <2>1, QueuesKept DEF Reclaim, HubInv
  <2>2. CASE ClosedSlot(h) # None
    <3>1. PICK gone : gone = ClosedSlot(h)
      OBVIOUS
    <3>2. PICK survivor : survivor = IF gone = hostOf[h] THEN deviceOf[h] ELSE hostOf[h]
      OBVIOUS
    <3>3. gone \in Conns /\ Closed(gone) /\ gone \in {hostOf[h], deviceOf[h]}
      <4>1. hostOf[h] \in Conns \cup {None} /\ deviceOf[h] \in Conns \cup {None}
        BY DEF HubInv, Typed, TypeOK, Conns
      <4>. QED
        BY <2>2, <3>1, <4>1 DEF ClosedSlot
    <3>4. survivor \in Conns \cup {None}
      BY <3>2 DEF HubInv, Typed, TypeOK, Conns
    <3>5. PICK msg \in Messages : msg = Close(gone, "going_away")
      BY <3>3 DEF Close, Messages
    <3>6. TryClose(survivor, msg)
      BY <2>2, <3>1, <3>2, <3>5 DEF Reclaim
    <3>7. ASSUME survivor # None PROVE MsgOK(msg, survivor)
      <4>1. deviceOf[h] # None
        BY <3>2, <3>3, <3>7, ConnsAssumption
      <4>2. /\ hostOf[h] \in Hosts /\ deviceOf[h] \in Devices
            /\ <<hostOf[h], deviceOf[h]>> \in mates
            /\ handle[hostOf[h]] = h /\ handle[deviceOf[h]] = h
            /\ phase[hostOf[h]] # "idle" /\ phase[deviceOf[h]] # "idle"
            /\ hostOf[h] \notin Devices /\ deviceOf[h] \notin Hosts
        BY <4>1, Roommates
      <4>. QED
        BY <3>2, <3>3, <3>5, <4>2 DEF MsgOK, Close, Pair
    <3>8. survivor # None => MsgOK(msg, survivor)'
      BY <1>1, <3>4, <3>7, MsgKept
    <3>. QED
      BY <1>1, <3>4, <3>6, <3>8, TryCloseKeeps DEF HubInv
  <2>. QED
    BY <2>1, <2>2
<1>4. TargetsOK'
  <2>1. to[c] = None
    BY DEF HubInv, TargetsOK, TargetOK
  <2>2. TargetOK(c)'
    BY <2>1 DEF TargetOK
  <2>. QED
    BY <1>1, <2>2, TargetsKept DEF HubInv
<1>5. SlotsSound'
  <2>1. \A g \in Handles : hostOf[g] # c /\ deviceOf[g] # c
    <3>. SUFFICES ASSUME NEW g \in Handles PROVE hostOf[g] # c /\ deviceOf[g] # c
      OBVIOUS
    <3>1. /\ hostOf[g] # None => Open(hostOf[g]) \/ phase[hostOf[g]] = "dropped"
          /\ deviceOf[g] # None => Open(deviceOf[g]) \/ phase[deviceOf[g]] = "dropped"
      BY DEF HubInv, SlotsSound
    <3>2. phase[c] = "idle"
      OBVIOUS
    <3>. QED
      BY <1>2, <3>1, <3>2 DEF Open
  <2>2. \A d \in Conns : d # c => phase'[d] = phase[d] /\ handle'[d] = handle[d]
    BY DEF HubInv, Typed, TypeOK
  <2>3. HostAfter(h) = None => DeviceAfter(h) = None
    <3>1. ASSUME deviceOf[h] # None PROVE hostOf[h] # None
      <4>1. hostOf[h] \in Hosts
        BY <3>1, Roommates
      <4>. QED
        BY <4>1, ConnsAssumption DEF Conns
    <3>. QED
      BY <3>1 DEF HostAfter, DeviceAfter
  <2>4. /\ HostAfter(h) # None => HostAfter(h) = hostOf[h]
        /\ DeviceAfter(h) # None => DeviceAfter(h) = deviceOf[h] /\ HostAfter(h) = hostOf[h]
    BY DEF HostAfter, DeviceAfter
  <2>5. CASE hostOf'[h] = HostAfter(h) /\ deviceOf'[h] = DeviceAfter(h)
    BY <2>1, <2>2, <2>4, <2>5, RoomsKept DEF HubInv
  <2>6. CASE hostOf'[h] = c /\ phase'[c] = "running" /\ HostAfter(h) = None
              /\ deviceOf'[h] = DeviceAfter(h)
    <3>1. deviceOf'[h] = None
      BY <2>3, <2>6
    <3>2. handle'[c] = h
      BY DEF HubInv, Typed, TypeOK
    <3>3. ASSUME NEW g \in Handles, g # h PROVE RoomIs(g)'
      BY <2>1, <2>2, <3>3, OtherRoom
    <3>. QED
      <4>1. RoomIs(h)'
        BY <2>6, <3>1, <3>2 DEF RoomIs
      <4>2. \A g \in Handles : RoomIs(g)'
        BY <3>3, <4>1
      <4>. QED
        BY <4>2 DEF RoomIs, SlotsSound, Open
  <2>7. CASE /\ deviceOf'[h] = c /\ phase'[c] = "running" /\ HostAfter(h) # None
             /\ hostOf'[h] = HostAfter(h) /\ <<hostOf[h], c>> \in mates'
    <3>1. hostOf'[h] = hostOf[h] /\ hostOf[h] # c /\ hostOf[h] \in Conns /\ hostOf[h] # None
      BY <2>1, <2>4, <2>7 DEF HubInv, Typed, TypeOK, Conns
    <3>2. handle'[c] = h
      BY DEF HubInv, Typed, TypeOK
    <3>3. ASSUME NEW g \in Handles, g # h PROVE RoomIs(g)'
      BY <2>1, <2>2, <3>3, OtherRoom
    <3>4. handle[hostOf[h]] = h /\ (Open(hostOf[h]) \/ phase[hostOf[h]] = "dropped")
      BY <3>1 DEF HubInv, SlotsSound
    <3>. QED
      <4>1. RoomIs(h)'
        BY <2>2, <2>7, <3>1, <3>2, <3>4 DEF RoomIs, Open
      <4>2. \A g \in Handles : RoomIs(g)'
        BY <3>3, <4>1
      <4>. QED
        BY <4>2 DEF RoomIs, SlotsSound, Open
  <2>. QED
    BY <2>5, <2>6, <2>7
<1>. QED
  BY <1>3, <1>4, <1>5 DEF HubInv

\* Looking the peer up for a frame keeps the invariant.
LEMMA ReadBinaryKeeps ==
    ASSUME HubInv, NEW c \in Conns, ReadBinary(c), Typed'
    PROVE  HubInv'
<1>1. Forwardly
  BY DEF Forwardly, ReadBinary, Closed, HubInv, Typed, TypeOK
<1>2. PeerOf(c) \in Conns \cup {None} /\ handle[c] \in Handles
  BY PeerOfType DEF ReadBinary, HubInv
<1>3. QueuesOK'
  BY <1>1, QueuesKept DEF HubInv, ReadBinary
<1>4. TargetsOK'
  <2>1. \A d \in Conns : d # c => phase'[d] = phase[d] /\ to'[d] = to[d]
    BY DEF ReadBinary, HubInv, Typed, TypeOK
  <2>2. /\ to'[c] = PeerOf(c)
        /\ phase'[c] = IF PeerOf(c) = None THEN "running" ELSE "forwarding"
        /\ UNCHANGED handle
    BY DEF ReadBinary, HubInv, Typed, TypeOK
  <2>3. ASSUME PeerOf(c) # None
        PROVE  /\ phase[PeerOf(c)] # "idle" /\ handle[PeerOf(c)] = handle[c]
               /\ c \in Hosts <=> PeerOf(c) \in Devices
    <3>1. RoomIs(handle[c])
      BY <1>2, SlotsSoundIs DEF HubInv
    <3>2. /\ deviceOf[handle[c]] \in Devices \cup {None}
          /\ hostOf[handle[c]] \in Hosts \cup {None}
      BY <1>2 DEF HubInv, Typed, TypeOK
    <3>. QED
      BY <2>3, <3>1, <3>2, ConnsAssumption DEF PeerOf, RoomIs, Conns
  <2>4. TargetOK(c)'
    BY <1>1, <1>2, <2>2, <2>3 DEF TargetOK, Forwardly
  <2>. QED
    BY <1>1, <2>1, <2>4, TargetsKept DEF HubInv
<1>5. SlotsSound'
  BY DEF ReadBinary, slots, HubInv, Typed, TypeOK, SlotsSound, Open
<1>. QED
  BY <1>3, <1>4, <1>5 DEF HubInv

\* A step that leaves the variables the invariant reads alone keeps it.
LEMMA NothingMoved ==
    ASSUME HubInv, Typed',
           UNCHANGED <<hostOf, deviceOf, phase, handle, queue, to, peerClose, mates>>
    PROVE  HubInv'
<1>1. QueuesOK'
  BY DEF HubInv, QueuesOK, MsgOK, Closed, Pair
<1>2. TargetsOK' /\ SlotsSound'
  BY DEF HubInv, TargetsOK, TargetOK, SlotsSound, Open, Pair
<1>. QED
  BY <1>1, <1>2 DEF HubInv

\* The invariant holds of the empty map.
LEMMA HubInvInit == Init => HubInv
<1> SUFFICES ASSUME Init PROVE HubInv
  OBVIOUS
<1>1. Typed
  BY TypedInit
<1>2. QueuesOK /\ TargetsOK /\ SlotsSound
  BY DEF Init, QueuesOK, TargetsOK, TargetOK, SlotsSound
<1>. QED
  BY <1>1, <1>2 DEF HubInv

\* Every step keeps the invariant.
LEMMA HubInvStep == HubInv /\ [Next]_vars => HubInv'
<1> SUFFICES ASSUME HubInv, [Next]_vars PROVE HubInv'
  OBVIOUS
<1>0. Typed'
  BY TypedStep DEF HubInv
<1>1. ASSUME NEW c \in Conns, Task(c) PROVE HubInv'
  <2>1. CASE Forward(c)         BY <1>0, <2>1, ForwardKeeps
  <2>2. CASE Drain(c)           BY <1>0, <2>2, DrainKeeps
  <2>3. CASE RefuseSent(c)
    BY <1>0, <2>3, EndLoopKeeps DEF RefuseSent
  <2>4. CASE PingAfterClose(c)
    BY <1>0, <2>4, EndLoopKeeps DEF PingAfterClose
  <2>5. CASE Disconnect(c)      BY <1>0, <2>5, DisconnectKeeps
  <2>6. CASE NotifyPeer(c)      BY <1>0, <2>6, NotifyPeerKeeps
  <2>. QED
    BY <1>1, <2>1, <2>2, <2>3, <2>4, <2>5, <2>6 DEF Task
<1>2. ASSUME NEW c \in Conns, Client(c) PROVE HubInv'
  <2>1. CASE RejectConnection(c)
    <3>1. Forwardly /\ to[c] = None
      BY <2>1 DEF RejectConnection, Forwardly, Closed, HubInv, Typed, TypeOK, TargetsOK, TargetOK
    <3>2. QueuesOK'
      BY <2>1, <3>1, QueuesKept DEF HubInv, RejectConnection
    <3>3. TargetsOK'
      BY <2>1, <3>1, TargetsKept DEF RejectConnection, HubInv, Typed, TypeOK, TargetOK
    <3>4. ASSUME NEW h \in Handles PROVE hostOf[h] # c /\ deviceOf[h] # c
      <4>1. RoomIs(h)
        BY SlotsSoundIs DEF HubInv
      <4>. QED
        BY <2>1, <4>1, ConnsAssumption DEF RoomIs, RejectConnection
    <3>5. SlotsSound'
      BY <2>1, <3>4, RoomsKept DEF RejectConnection, slots, HubInv, Typed, TypeOK
    <3>. QED
      BY <1>0, <3>2, <3>3, <3>5 DEF HubInv
  <2>2. ASSUME NEW h \in Handles, NEW pairing \in BOOLEAN, NEW allowed \in BOOLEAN,
               RegisterHost(c, h, pairing, allowed)
        PROVE  HubInv'
    BY ZenonT(30), <1>0, <2>2, RegisterKeeps DEF RegisterHost, HubInv, Typed, TypeOK
  <2>3. ASSUME NEW h \in Handles, RegisterDevice(c, h) PROVE HubInv'
    BY <1>0, <2>3, RegisterKeeps DEF RegisterDevice, HubInv, Typed, TypeOK
  <2>4. CASE ReadBinary(c)
    BY <1>0, <2>4, ReadBinaryKeeps
  <2>5. CASE Refuse(c)
    <3>1. Forwardly
      BY <2>5 DEF Refuse, Forwardly, Closed, HubInv, Typed, TypeOK
    <3>2. QueuesOK'
      BY <2>5, <3>1, QueuesKept DEF HubInv, Refuse
    <3>3. TargetsOK'
      BY SMTT(30), <2>5, <3>1 DEF Refuse, HubInv, Typed, TypeOK, TargetsOK, TargetOK, Forwardly, Pair
    <3>4. SlotsSound'
      BY <2>5 DEF Refuse, slots, HubInv, Typed, TypeOK, SlotsSound, Open
    <3>. QED
      BY <1>0, <3>2, <3>3, <3>4 DEF HubInv
  <2>6. CASE ReadAppClose(c)
    BY <1>0, <2>6, EndLoopKeeps DEF ReadAppClose, HubInv, Typed, TypeOK
  <2>7. CASE PeerLost(c)
    BY <1>0, <2>7, EndLoopKeeps DEF PeerLost
  <2>8. CASE Stall(c)
    <3>1. UNCHANGED <<hostOf, deviceOf, phase, handle, queue, to, peerClose, mates>>
      BY <2>8 DEF Stall, slots
    <3>. QED
      BY <1>0, <3>1, NothingMoved
  <2>. QED
    BY <1>2, <2>1, <2>2, <2>3, <2>4, <2>5, <2>6, <2>7, <2>8 DEF Client
<1>3. ASSUME NEW h \in Handles, WindowElapses(h) PROVE HubInv'
  <2>1. UNCHANGED <<hostOf, deviceOf, phase, handle, queue, to, peerClose, mates>>
    BY <1>3 DEF WindowElapses
  <2>. QED
    BY <1>0, <2>1, NothingMoved
<1>4. CASE UNCHANGED vars
  <2>1. UNCHANGED <<hostOf, deviceOf, phase, handle, queue, to, peerClose, mates>>
    BY <1>4 DEF vars
  <2>. QED
    BY <1>0, <2>1, NothingMoved
<1>. QED
  BY <1>1, <1>2, <1>3, <1>4 DEF Next

\* R-12-004: whatever waits in a queue, or is about to, was sent under the same
\* handle by the opposite role, for any number of connections and handles.
THEOREM HandlesIsolate == Spec => []HandleIsolation
BY HubInvInit, HubInvStep, HubInvImplies, PTL DEF Spec

\* R-12-038: a close reaches a connection only from a former roommate that has
\* ended, and with an application code only if that roommate sent one.
THEOREM ClosesComeFromRoommates == Spec => []CloseComesFromRoommate
BY HubInvInit, HubInvStep, HubInvImplies, PTL DEF Spec

\* disconnect and register take a room apart only after one of its own two
\* connections has dropped its receiver.
LEMMA RoomsStand == HubInv /\ Next => RoomStep
<1> SUFFICES ASSUME HubInv, Next PROVE RoomStep
  OBVIOUS
<1> SUFFICES ASSUME NEW h \in Handles, hostOf[h] # None, ClosedSlot(h) = None
             PROVE  /\ hostOf'[h] = hostOf[h]
                    /\ deviceOf[h] # None => deviceOf'[h] = deviceOf[h]
  BY DEF RoomStep
<1>1. ASSUME NEW c \in Conns, Disconnect(c)
      PROVE  hostOf'[h] = hostOf[h] /\ deviceOf'[h] = deviceOf[h]
  <2>1. handle[c] \in Handles /\ Closed(c)
    BY <1>1, PeerOfType DEF Disconnect, HubInv, Closed
  <2>2. OwnsSlot(c) => handle[c] # h
    BY <2>1, ConnsAssumption DEF OwnsSlot, ClosedSlot
  <2>. QED
    BY <1>1, <2>1, <2>2 DEF Disconnect, HubInv, Typed, TypeOK
<1>2. HostAfter(h) = hostOf[h] /\ DeviceAfter(h) = deviceOf[h]
  BY DEF HostAfter, DeviceAfter
<1>3. ASSUME NEW c \in Conns, NEW g \in Handles, NEW pairing \in BOOLEAN,
             NEW allowed \in BOOLEAN, RegisterHost(c, g, pairing, allowed)
      PROVE  hostOf'[h] = hostOf[h] /\ deviceOf'[h] = deviceOf[h]
  BY <1>2, <1>3 DEF RegisterHost, HubInv, Typed, TypeOK
<1>4. ASSUME NEW c \in Conns, NEW g \in Handles, RegisterDevice(c, g)
      PROVE  hostOf'[h] = hostOf[h] /\ (deviceOf[h] # None => deviceOf'[h] = deviceOf[h])
  BY <1>2, <1>4 DEF RegisterDevice, HubInv, Typed, TypeOK
<1>. QED
  BY <1>1, <1>3, <1>4 DEF Next, Task, Client, Forward, Drain, RefuseSent, PingAfterClose,
     NotifyPeer, RejectConnection, ReadBinary, Refuse, ReadAppClose, PeerLost, Stall,
     WindowElapses, slots

\* R-12-037: a room stands until one of its own two connections has ended; the
\* late disconnect of a replaced connection leaves the new room alone.
THEOREM RoomsEndByLoss == Spec => RoomOnlyEndsByLoss
<1>1. HubInv /\ [Next]_vars => [RoomStep]_vars
  BY RoomsStand
<1>. QED
  BY <1>1, HubInvInit, HubInvStep, PTL DEF Spec, RoomOnlyEndsByLoss

\* Who was in a room has registered, and is still beside its mate while both
\* are open.
MateOK(x, d) == <<x, d>> \in mates =>
    /\ phase[x] # "idle" /\ phase[d] # "idle"
    /\ Open(x) /\ Open(d) => hostOf[handle[x]] = x /\ deviceOf[handle[x]] = d

MatesInv == \A x \in Hosts, d \in Devices : MateOK(x, d)

\* A task that has ended does not open again, and keeps its handle.
LEMMA NoneReopens ==
    ASSUME HubInv, Next, NEW c \in Conns, phase[c] # "idle"
    PROVE  phase'[c] # "idle" /\ handle'[c] = handle[c] /\ (Open(c)' => Open(c))
BY DEF HubInv, Typed, TypeOK, Next, Task, Client, Forward, Drain, EndLoop, RefuseSent,
   PingAfterClose, Disconnect, NotifyPeer, RejectConnection, RegisterHost, RegisterDevice,
   ReadBinary, Refuse, ReadAppClose, PeerLost, Stall, WindowElapses, Open

\* Only a Device that joins makes mates, and it is then in the Host's room.
LEMMA NewMates ==
    ASSUME HubInv, Next, NEW x \in Hosts, NEW d \in Devices,
           <<x, d>> \in mates', <<x, d>> \notin mates
    PROVE  MateOK(x, d)'
<1>1. PICK h \in Handles : RegisterDevice(d, h) /\ x = hostOf[h] /\ HostAfter(h) # None
                          /\ DeviceAfter(h) = None /\ window[h] # "expired"
  BY DEF Next, Task, Client, Forward, Drain, RefuseSent, PingAfterClose, Disconnect,
     NotifyPeer, RejectConnection, RegisterHost, RegisterDevice, ReadBinary, Refuse,
     ReadAppClose, PeerLost, Stall, WindowElapses
<1>2. x \in Conns /\ d \in Conns /\ x # d /\ HostAfter(h) = x
  BY <1>1, ConnsAssumption DEF Conns, HostAfter
<1>3. handle[x] = h /\ phase[x] # "idle"
  BY <1>1, <1>2, ConnsAssumption DEF HubInv, SlotsSound, Open
<1>4. /\ hostOf'[h] = x /\ deviceOf'[h] = d
      /\ handle'[x] = h /\ phase'[x] = phase[x] /\ phase'[d] = "running"
  BY <1>1, <1>2, <1>3 DEF RegisterDevice, HubInv, Typed, TypeOK
<1>. QED
  BY <1>3, <1>4 DEF MateOK

\* Every step keeps open mates in their room.
LEMMA MatesStep == HubInv /\ MatesInv /\ [Next]_vars => MatesInv'
<1> SUFFICES ASSUME HubInv, MatesInv, [Next]_vars, NEW x \in Hosts, NEW d \in Devices
             PROVE  MateOK(x, d)'
  BY DEF MatesInv
<1>1. MateOK(x, d) /\ x \in Conns /\ d \in Conns
  BY DEF MatesInv, Conns
<1>2. CASE UNCHANGED vars
  BY <1>1, <1>2 DEF vars, MateOK, Open
<1>3. CASE Next /\ <<x, d>> \in mates
  <2>1. /\ phase[x] # "idle" /\ phase[d] # "idle"
        /\ phase'[x] # "idle" /\ phase'[d] # "idle" /\ handle'[x] = handle[x]
        /\ Open(x)' => Open(x)
        /\ Open(d)' => Open(d)
    BY <1>1, <1>3, NoneReopens DEF MateOK
  <2>2. ASSUME Open(x)', Open(d)'
        PROVE  hostOf'[handle[x]] = x /\ deviceOf'[handle[x]] = d
    <3>1. Open(x) /\ Open(d) /\ hostOf[handle[x]] = x /\ deviceOf[handle[x]] = d
      BY <1>1, <1>3, <2>1, <2>2 DEF MateOK
    <3>2. x # None /\ d # None /\ handle[x] \in Handles
      BY <1>1, <3>1, ConnsAssumption DEF HubInv, Typed, Named, Open
    <3>3. ClosedSlot(handle[x]) = None
      BY <3>1 DEF ClosedSlot, Closed, Open
    <3>. QED
      BY <1>3, <3>1, <3>2, <3>3, RoomsStand DEF RoomStep
  <2>. QED
    BY <2>1, <2>2 DEF MateOK
<1>4. CASE Next /\ <<x, d>> \notin mates
  BY <1>4, NewMates DEF MateOK
<1>. QED
  BY <1>2, <1>3, <1>4

\* R-11-123, R-12-037: a room's slots belong to its handle and to tasks that have
\* not left the map, a Device sits beside the Host it joined, and neither is
\* replaced while both are connected.
THEOREM RoomsAreSound == Spec => []RoomSound
<1>1. Init => MatesInv
  BY DEF Init, MatesInv, MateOK
<1>2. HubInv /\ MatesInv => RoomSound
  BY DEF HubInv, MatesInv, MateOK, RoomSound, MatesTogether
<1>. QED
  BY <1>1, <1>2, MatesStep, HubInvInit, HubInvStep, PTL DEF Spec

-----------------------------------------------------------------------------
(* Nobody is left in the dark: OrphanWasTold.                               *)

Orphan(c) == Open(c) /\ ~OwnsSlot(c)

Told(c) ==
    \/ \E i \in DOMAIN queue[c] : queue[c][i].kind = "close"
    \/ closeSent[c]
    \/ \E d \in Conns : phase[d] = "notifying" /\ to[d] = c
    \/ c \in lost

\* OrphanWasTold, one connection at a time.
LEMMA OrphansAre == OrphanWasTold <=> \A c \in Conns : Orphan(c) => Told(c)
BY DEF OrphanWasTold, Orphan, Told

\* What a connection was told stays told while its queue, its socket and those
\* about to notify it keep what they have.
LEMMA StillTold ==
    ASSUME NEW u \in Conns, Told(u),
           \A i \in DOMAIN queue[u] : \E j \in DOMAIN queue'[u] : queue'[u][j] = queue[u][i],
           closeSent[u] => closeSent'[u],
           \A d \in Conns : phase[d] = "notifying" /\ to[d] = u =>
                               phase'[d] = "notifying" /\ to'[d] = u,
           lost \subseteq lost'
    PROVE  Told(u)'
BY DEF Told

\* An appended message leaves the others in the queue.
LEMMA AppendKeeps ==
    ASSUME NEW S, NEW s \in Seq(S), NEW e \in S
    PROVE  /\ \A i \in DOMAIN s : i \in DOMAIN Append(s, e) /\ Append(s, e)[i] = s[i]
           /\ \E i \in DOMAIN Append(s, e) : Append(s, e)[i] = e
OBVIOUS

\* try_send of a close leaves an open connection told, and takes nothing from
\* any queue.
LEMMA TryCloseTells ==
    ASSUME Typed, NEW c \in Conns \cup {None}, NEW msg \in Messages, msg.kind = "close",
           TryClose(c, msg)
    PROVE  /\ c # None /\ ~Closed(c) =>
                 \/ \E i \in DOMAIN queue'[c] : queue'[c][i].kind = "close"
                 \/ c \in lost'
           /\ \A u \in Conns : \A i \in DOMAIN queue[u] :
                 \E j \in DOMAIN queue'[u] : queue'[u][j] = queue[u][i]
           /\ lost \subseteq lost'
<1>1. CASE c = None \/ Closed(c)
  BY <1>1 DEF TryClose
<1>2. CASE queue' = [queue EXCEPT ![c] = Append(@, msg)] /\ lost' = lost /\ c # None
  <2>1. c \in Conns
    BY <1>2
  <2>2. queue[c] \in Seq(Messages)
    BY <2>1 DEF Typed, TypeOK
  <2>3. queue'[c] = Append(queue[c], msg) /\ \A u \in Conns : u # c => queue'[u] = queue[u]
    BY <1>2, <2>1 DEF Typed, TypeOK
  <2>. QED
    BY <1>2, <2>1, <2>2, <2>3, AppendKeeps
<1>3. CASE lost' = lost \cup {c} /\ queue' = queue
  BY <1>3
<1>. QED
  BY <1>1, <1>2, <1>3 DEF TryClose

\* A loop that ends orphans nobody by itself.
LEMMA EndLoopTells ==
    ASSUME HubInv, OrphanWasTold, NEW c \in Conns, EndLoop(c), phase[c] \in {"running", "refusing"},
           UNCHANGED <<slots, handle, to, lost, mates>>
    PROVE  OrphanWasTold'
<1> SUFFICES ASSUME NEW u \in Conns, Orphan(u)' PROVE Told(u)'
  BY OrphansAre DEF OrphanWasTold, Orphan, Told
<1>1. u # c
  BY DEF Orphan, Open, EndLoop, HubInv, Typed, TypeOK
<1>2. queue'[u] = queue[u] /\ closeSent'[u] = closeSent[u] /\ phase'[u] = phase[u]
  BY <1>1 DEF EndLoop, HubInv, Typed, TypeOK
<1>3. \A d \in Conns : phase[d] = "notifying" => phase'[d] = "notifying"
  BY DEF EndLoop, HubInv, Typed, TypeOK
<1>4. Orphan(u)
  BY <1>2 DEF Orphan, Open, OwnsSlot, slots
<1>5. Told(u)
  BY <1>4, OrphansAre
<1>. QED
  BY <1>2, <1>3, <1>5, StillTold

\* forward's completed send orphans nobody.
LEMMA ForwardTells ==
    ASSUME HubInv, OrphanWasTold, NEW c \in Conns, Forward(c)
    PROVE  OrphanWasTold'
<1> SUFFICES ASSUME NEW u \in Conns, Orphan(u)' PROVE Told(u)'
  BY OrphansAre DEF OrphanWasTold, Orphan, Told
<1>1. Orphan(u)
  BY DEF Forward, Orphan, Open, OwnsSlot, slots, HubInv, Typed, TypeOK
<1>2. Told(u)
  BY <1>1, OrphansAre
<1>3. to[c] \in Conns /\ Frame(c, sent[c]) \in Messages
  BY DEF Forward, HubInv, TargetsOK, TargetOK, Typed, TypeOK, Frame, Messages
<1>4. \A i \in DOMAIN queue[u] : \E j \in DOMAIN queue'[u] : queue'[u][j] = queue[u][i]
  <2>1. queue'[u] = queue[u] \/ queue'[u] = Append(queue[u], Frame(c, sent[c]))
    BY SMTT(30), <1>3 DEF Forward, HubInv, Typed, TypeOK
  <2>2. queue[u] \in Seq(Messages)
    BY DEF HubInv, Typed, TypeOK
  <2>. QED
    BY <1>3, <2>1, <2>2, AppendKeeps
<1>5. \A d \in Conns : phase[d] = "notifying" => phase'[d] = "notifying" /\ to'[d] = to[d]
  BY DEF Forward, HubInv, Typed, TypeOK
<1>. QED
  BY <1>2, <1>4, <1>5, StillTold DEF Forward

\* A close that leaves the queue has been written to the socket.
LEMMA DrainTells ==
    ASSUME HubInv, OrphanWasTold, NEW c \in Conns, Drain(c)
    PROVE  OrphanWasTold'
<1>1. CASE closeSent[c] \/ stalled[c]
  BY <1>1, EndLoopTells DEF Drain
<1>2. CASE ~(closeSent[c] \/ stalled[c])
  <2> SUFFICES ASSUME NEW u \in Conns, Orphan(u)' PROVE Told(u)'
    BY OrphansAre DEF OrphanWasTold, Orphan, Told
  <2>0. /\ UNCHANGED <<slots, handle, to, lost, phase>>
        /\ queue' = [queue EXCEPT ![c] = Tail(@)]
        /\ closeSent' = [closeSent EXCEPT ![c] = Head(queue[c]).kind = "close"]
    BY <1>2 DEF Drain
  <2>1. Told(u)
    BY <2>0, OrphansAre DEF Orphan, Open, OwnsSlot, slots
  <2>2. CASE u # c
    BY <2>0, <2>1, <2>2, StillTold DEF HubInv, Typed, TypeOK
  <2>3. CASE u = c
    <3>1. queue[c] \in Seq(Messages) /\ queue[c] # <<>> /\ queue'[c] = Tail(queue[c])
      BY <2>0 DEF Drain, HubInv, Typed, TypeOK
    <3>2. CASE \E i \in DOMAIN queue[c] : queue[c][i].kind = "close"
      <4>1. PICK i \in DOMAIN queue[c] : queue[c][i].kind = "close"
        BY <3>2
      <4>2. CASE i = 1
        <5>0. Head(queue[c]).kind = "close"
          BY <3>1, <4>1, <4>2
        <5>1. closeSent'[c]
          BY <2>0, <5>0 DEF HubInv, Typed, TypeOK
        <5>. QED
          BY <2>3, <5>1 DEF Told
      <4>3. CASE i # 1
        <5>1. i - 1 \in DOMAIN Tail(queue[c]) /\ Tail(queue[c])[i - 1] = queue[c][i]
          BY <3>1, <4>1, <4>3
        <5>. QED
          BY <2>3, <3>1, <4>1, <5>1 DEF Told
      <4>. QED
        BY <4>2, <4>3
    <3>3. CASE ~ \E i \in DOMAIN queue[c] : queue[c][i].kind = "close"
      BY <1>2, <2>0, <2>1, <2>3, <3>3 DEF Told
    <3>. QED
      BY <3>2, <3>3
  <2>. QED
    BY <2>2, <2>3
<1>. QED
  BY <1>1, <1>2

\* Whom disconnect's locked half takes out of the map, it is about to notify.
LEMMA DisconnectTells ==
    ASSUME HubInv, OrphanWasTold, NEW c \in Conns, Disconnect(c)
    PROVE  OrphanWasTold'
<1> SUFFICES ASSUME NEW u \in Conns, Orphan(u)' PROVE Told(u)'
  BY OrphansAre DEF OrphanWasTold, Orphan, Told
<1>0. u # c /\ Open(u) /\ handle[u] \in Handles /\ handle[c] \in Handles /\ c # None
  <2>1. u # c
    BY DEF Disconnect, Orphan, Open, HubInv, Typed, TypeOK
  <2>2. phase'[u] = phase[u]
    BY <2>1 DEF Disconnect, HubInv, Typed, TypeOK
  <2>. QED
    BY <2>1, <2>2, ConnsAssumption DEF Disconnect, Orphan, Open, HubInv, Typed, Named
<1>1. CASE Orphan(u)
  <2>1. Told(u)
    BY <1>1, OrphansAre
  <2>2. \A d \in Conns : phase[d] = "notifying" => phase'[d] = "notifying" /\ to'[d] = to[d]
    BY DEF Disconnect, HubInv, Typed, TypeOK
  <2>. QED
    BY <2>1, <2>2, StillTold DEF Disconnect
<1>2. CASE ~Orphan(u)
  <2>1. OwnsSlot(u) /\ ~OwnsSlot(u)' /\ UNCHANGED handle
    BY <1>0, <1>2 DEF Orphan, Disconnect
  <2>2. OwnsSlot(c) /\ handle[u] = handle[c]
    BY <1>0, <2>1 DEF Disconnect, OwnsSlot, HubInv, Typed, TypeOK
  <2>3. PeerOf(c) = u
    BY <1>0, <2>1, <2>2, ConnsAssumption DEF OwnsSlot, PeerOf, Conns
  <2>4. to'[c] = u /\ phase'[c] = "notifying"
    BY <2>2, <2>3 DEF Disconnect, HubInv, Typed, TypeOK
  <2>. QED
    BY <2>4 DEF Told
<1>. QED
  BY <1>1, <1>2

\* disconnect's tail closes the survivor, or finds its queue full.
LEMMA NotifyPeerTells ==
    ASSUME HubInv, OrphanWasTold, NEW c \in Conns, NotifyPeer(c)
    PROVE  OrphanWasTold'
<1> SUFFICES ASSUME NEW u \in Conns, Orphan(u)' PROVE Told(u)'
  BY OrphansAre DEF OrphanWasTold, Orphan, Told
<1>1. Orphan(u) /\ u # c
  BY DEF NotifyPeer, Orphan, Open, OwnsSlot, slots, HubInv, Typed, TypeOK
<1>2. Told(u)
  BY <1>1, OrphansAre
<1>3. PICK msg \in Messages :
         msg = Close(c, IF peerClose[c] = "app" THEN "app" ELSE "going_away")
  <2>1. Close(c, IF peerClose[c] = "app" THEN "app" ELSE "going_away") \in Messages
    BY DEF Close, Messages
  <2>. QED
    BY <2>1
<1>4. msg.kind = "close" /\ to[c] \in Conns \cup {None} /\ TryClose(to[c], msg)
  BY <1>3 DEF Close, NotifyPeer, HubInv, Typed, TypeOK
<1>5. PICK d \in Conns \cup {None} : d = to[c]
  BY <1>4
<1>6. /\ d # None /\ ~Closed(d) =>
             \/ \E i \in DOMAIN queue'[d] : queue'[d][i].kind = "close"
             \/ d \in lost'
      /\ \A v \in Conns : \A i \in DOMAIN queue[v] :
             \E j \in DOMAIN queue'[v] : queue'[v][j] = queue[v][i]
      /\ lost \subseteq lost'
  BY <1>4, <1>5, TryCloseTells DEF HubInv
<1>7. CASE d = u
  <2>1. u # None /\ ~Closed(u)
    BY <1>1, ConnsAssumption DEF Orphan, Open, Closed
  <2>. QED
    BY <1>6, <1>7, <2>1 DEF Told
<1>8. CASE d # u
  <2>1. \A v \in Conns : phase[v] = "notifying" /\ to[v] = u =>
                            phase'[v] = "notifying" /\ to'[v] = u
    BY <1>5, <1>8 DEF NotifyPeer, HubInv, Typed, TypeOK
  <2>. QED
    BY <1>2, <1>6, <2>1, StillTold DEF NotifyPeer
<1>. QED
  BY <1>7, <1>8

\* A registration that finds a room in teardown closes its survivor.
LEMMA RegisterTells ==
    ASSUME HubInv, OrphanWasTold, NEW c \in Conns, NEW h \in Handles, phase[c] = "idle", Reclaim(h),
           handle' = [handle EXCEPT ![c] = h],
           \A d \in Conns : d # c => phase'[d] = phase[d],
           phase'[c] = "running" => (IF c \in Hosts THEN hostOf'[h] ELSE deviceOf'[h]) = c,
           phase'[c] \in {"running", "gone"},
           UNCHANGED <<to, closeSent>>,
           \A g \in Handles : g # h => hostOf'[g] = hostOf[g] /\ deviceOf'[g] = deviceOf[g],
           HostAfter(h) # None => hostOf'[h] = HostAfter(h),
           DeviceAfter(h) # None => deviceOf'[h] = DeviceAfter(h)
    PROVE  OrphanWasTold'
<1> SUFFICES ASSUME NEW u \in Conns, Orphan(u)' PROVE Told(u)'
  BY OrphansAre DEF OrphanWasTold, Orphan, Told
<1>1. u # c
  BY DEF Orphan, Open, OwnsSlot, HubInv, Typed, TypeOK
<1>2. Open(u) /\ handle'[u] = handle[u] /\ handle[u] \in Handles /\ u # None
  BY <1>1, ConnsAssumption DEF Orphan, Open, HubInv, Typed, TypeOK, Named
<1>3. \A d \in Conns : phase[d] = "notifying" => phase'[d] = "notifying"
  OBVIOUS
<1>4. /\ hostOf[h] \in Conns \cup {None} /\ deviceOf[h] \in Conns \cup {None}
      /\ ClosedSlot(h) \in Conns \cup {None}
  BY DEF HubInv, Typed, TypeOK, Conns, ClosedSlot
<1>5. CASE ClosedSlot(h) = None
  <2>1. UNCHANGED <<queue, lost>> /\ HostAfter(h) = hostOf[h] /\ DeviceAfter(h) = deviceOf[h]
    BY <1>5 DEF Reclaim, HostAfter, DeviceAfter
  <2>2. OwnsSlot(u) => OwnsSlot(u)'
    BY <1>2, <2>1 DEF OwnsSlot
  <2>3. Told(u)
    BY <1>2, <2>2, OrphansAre DEF Orphan
  <2>. QED
    BY <1>3, <2>1, <2>3, StillTold
<1>6. CASE ClosedSlot(h) # None
  <2>1. PICK gone \in Conns : gone = ClosedSlot(h)
    BY <1>4, <1>6
  <2>2. PICK s \in Conns \cup {None} : s = IF gone = hostOf[h] THEN deviceOf[h] ELSE hostOf[h]
    BY <1>4
  <2>3. PICK msg \in Messages : msg = Close(gone, "going_away")
    BY DEF Close, Messages
  <2>4. msg.kind = "close" /\ TryClose(s, msg)
    BY <1>6, <2>1, <2>2, <2>3 DEF Close, Reclaim
  <2>5. /\ s # None /\ ~Closed(s) =>
               \/ \E i \in DOMAIN queue'[s] : queue'[s][i].kind = "close"
               \/ s \in lost'
        /\ \A v \in Conns : \A i \in DOMAIN queue[v] :
               \E j \in DOMAIN queue'[v] : queue'[v][j] = queue[v][i]
        /\ lost \subseteq lost'
    BY <2>4, TryCloseTells DEF HubInv
  <2>6. CASE Orphan(u)
    BY <1>3, <2>5, <2>6, StillTold, OrphansAre
  <2>7. CASE ~Orphan(u)
    <3>1. OwnsSlot(u) /\ ~OwnsSlot(u)'
      BY <1>2, <2>7 DEF Orphan
    <3>2. handle[u] = h
      BY <1>2, <3>1 DEF OwnsSlot
    <3>3. u \in {hostOf[h], deviceOf[h]}
      BY <3>1, <3>2 DEF OwnsSlot
    <3>4. Closed(gone) /\ ~Closed(u)
      BY <1>2, <2>1, <1>6 DEF ClosedSlot, Open, Closed
    <3>5. gone \in {hostOf[h], deviceOf[h]} /\ gone # u
      BY <1>6, <2>1, <3>4 DEF ClosedSlot
    <3>6. s = u
      BY <2>2, <3>3, <3>5
    <3>. QED
      BY <1>2, <2>5, <3>4, <3>6 DEF Told
  <2>. QED
    BY <2>6, <2>7
<1>. QED
  BY <1>5, <1>6

\* A step that changes no slot, no queue and no target orphans nobody.
LEMMA NobodyOrphaned ==
    ASSUME HubInv, OrphanWasTold, UNCHANGED <<slots, handle, queue, closeSent, lost>>,
           \A d \in Conns : phase[d] = "notifying" => phase'[d] = "notifying" /\ to'[d] = to[d],
           \A u \in Conns : Open(u)' => Open(u)
    PROVE  OrphanWasTold'
<1> SUFFICES ASSUME NEW u \in Conns, Orphan(u)' PROVE Told(u)'
  BY OrphansAre DEF OrphanWasTold, Orphan, Told
<1>1. Orphan(u)
  BY DEF Orphan, OwnsSlot, slots
<1>. QED
  BY <1>1, OrphansAre, StillTold

\* Every step keeps it.
LEMMA OrphanStep == HubInv /\ OrphanWasTold /\ [Next]_vars => OrphanWasTold'
<1> SUFFICES ASSUME HubInv, OrphanWasTold, [Next]_vars PROVE OrphanWasTold'
  OBVIOUS
<1>1. ASSUME NEW c \in Conns, Task(c) PROVE OrphanWasTold'
  <2>1. CASE Forward(c)         BY <2>1, ForwardTells
  <2>2. CASE Drain(c)           BY <2>2, DrainTells
  <2>3. CASE RefuseSent(c)      BY <2>3, EndLoopTells DEF RefuseSent
  <2>4. CASE PingAfterClose(c)  BY <2>4, EndLoopTells DEF PingAfterClose
  <2>5. CASE Disconnect(c)      BY <2>5, DisconnectTells
  <2>6. CASE NotifyPeer(c)      BY <2>6, NotifyPeerTells
  <2>. QED
    BY <1>1, <2>1, <2>2, <2>3, <2>4, <2>5, <2>6 DEF Task
<1>2. ASSUME NEW c \in Conns, Client(c) PROVE OrphanWasTold'
  <2>1. CASE RejectConnection(c)
    BY <2>1, NobodyOrphaned DEF RejectConnection, Open, HubInv, Typed, TypeOK
  <2>2. ASSUME NEW h \in Handles, NEW pairing \in BOOLEAN, NEW allowed \in BOOLEAN,
               RegisterHost(c, h, pairing, allowed)
        PROVE  OrphanWasTold'
    BY <2>2, RegisterTells DEF RegisterHost, HubInv, Typed, TypeOK
  <2>3. ASSUME NEW h \in Handles, RegisterDevice(c, h) PROVE OrphanWasTold'
    <3>1. c \notin Hosts
      BY <2>3, ConnsAssumption DEF RegisterDevice
    <3>. QED
      BY <2>3, <3>1, RegisterTells DEF RegisterDevice, HubInv, Typed, TypeOK
  <2>4. CASE ReadBinary(c)
    BY <2>4, NobodyOrphaned DEF ReadBinary, Open, HubInv, Typed, TypeOK
  <2>5. CASE Refuse(c)
    BY <2>5, NobodyOrphaned DEF Refuse, Open, HubInv, Typed, TypeOK
  <2>6. CASE ReadAppClose(c)    BY <2>6, EndLoopTells DEF ReadAppClose
  <2>7. CASE PeerLost(c)        BY <2>7, EndLoopTells DEF PeerLost
  <2>8. CASE Stall(c)
    BY <2>8, NobodyOrphaned DEF Stall, Open
  <2>. QED
    BY <1>2, <2>1, <2>2, <2>3, <2>4, <2>5, <2>6, <2>7, <2>8 DEF Client
<1>3. ASSUME NEW h \in Handles, WindowElapses(h) PROVE OrphanWasTold'
  BY <1>3 DEF WindowElapses, OrphanWasTold, Open, OwnsSlot
<1>4. CASE UNCHANGED vars
  BY <1>4 DEF vars, OrphanWasTold, Open, OwnsSlot
<1>. QED
  BY <1>1, <1>2, <1>3, <1>4 DEF Next

\* R-12-038 as far as relay.rs keeps it: whoever is left without a room has a
\* close in its queue or on its socket, or is about to be notified, or is one
\* of those whose queue had no place for the close.
THEOREM OrphansAreTold == Spec => []OrphanWasTold
<1>1. Init => OrphanWasTold
  BY DEF Init, OrphanWasTold, Open
<1>. QED
  BY <1>1, OrphanStep, HubInvInit, HubInvStep, PTL DEF Spec

-----------------------------------------------------------------------------
(* The wire: WireIsFaithful.                                                *)

IsFrame(m, d) == m.kind = "frame" /\ m.from = d

\* The queue q carries the frames of d numbered above lo and up to hi, in order.
Carries(q, d, lo, hi) ==
    /\ lo \in Nat /\ hi \in Nat /\ lo <= hi
    /\ \A i \in DOMAIN q : IsFrame(q[i], d) => lo < q[i].n /\ q[i].n <= hi
    /\ \A i, j \in DOMAIN q : IsFrame(q[i], d) /\ IsFrame(q[j], d) /\ i < j => q[i].n < q[j].n
    /\ \A n \in Nat : lo < n /\ n <= hi => \E i \in DOMAIN q : IsFrame(q[i], d) /\ q[i].n = n

\* Every queued message has a number.
LEMMA QueuedNumbers ==
    ASSUME NEW q \in Seq(Messages)
    PROVE  \A i \in DOMAIN q : q[i].n \in Nat
<1>1. \A i \in DOMAIN q : q[i] \in Messages
  OBVIOUS
<1>. QED
  BY <1>1 DEF Messages

\* A message that is no frame of d may join.
LEMMA CarriesAppendOther ==
    ASSUME NEW q \in Seq(Messages), NEW d, NEW lo, NEW hi, Carries(q, d, lo, hi),
           NEW m \in Messages, ~IsFrame(m, d)
    PROVE  Carries(Append(q, m), d, lo, hi)
<1>1. /\ DOMAIN Append(q, m) = 1..(Len(q) + 1) /\ DOMAIN q = 1..Len(q) /\ Len(q) \in Nat
      /\ Append(q, m)[Len(q) + 1] = m /\ \A i \in 1..Len(q) : Append(q, m)[i] = q[i]
  OBVIOUS
<1>2. \A i \in DOMAIN Append(q, m) : IsFrame(Append(q, m)[i], d) =>
         i \in DOMAIN q /\ Append(q, m)[i] = q[i]
  BY <1>1
<1>3. \A i \in DOMAIN q : i \in DOMAIN Append(q, m) /\ Append(q, m)[i] = q[i]
  BY <1>1
<1>. QED
  BY <1>2, <1>3 DEF Carries

\* The next frame of d may join.
LEMMA CarriesAppendNext ==
    ASSUME NEW q \in Seq(Messages), NEW d, NEW lo, NEW hi, Carries(q, d, lo, hi),
           NEW m \in Messages, IsFrame(m, d), m.n = hi + 1
    PROVE  Carries(Append(q, m), d, lo, hi + 1)
<1> DEFINE r == Append(q, m)
<1>1. /\ DOMAIN r = 1..(Len(q) + 1) /\ DOMAIN q = 1..Len(q) /\ Len(q) \in Nat
      /\ r[Len(q) + 1] = m /\ \A i \in 1..Len(q) : r[i] = q[i]
  OBVIOUS
<1>2. lo \in Nat /\ hi \in Nat /\ lo <= hi
  BY DEF Carries
<1>0. \A i \in DOMAIN q : q[i].n \in Nat
  BY QueuedNumbers
<1>3. \A i \in DOMAIN q : i \in DOMAIN r /\ r[i] = q[i] /\ q[i].n \in Nat
  BY <1>0, <1>1
<1> HIDE DEF r
<1>4. \A i \in DOMAIN r : IsFrame(r[i], d) => lo < r[i].n /\ r[i].n <= hi + 1
  BY <1>1, <1>2, <1>3 DEF Carries
<1>5. \A i, j \in DOMAIN r : IsFrame(r[i], d) /\ IsFrame(r[j], d) /\ i < j => r[i].n < r[j].n
  <2> SUFFICES ASSUME NEW i \in DOMAIN r, NEW j \in DOMAIN r, IsFrame(r[i], d), IsFrame(r[j], d),
                      i < j
               PROVE  r[i].n < r[j].n
    OBVIOUS
  <2>1. i \in DOMAIN q /\ r[i] = q[i]
    BY <1>1
  <2>2. CASE j \in DOMAIN q
    BY <1>3, <2>1, <2>2 DEF Carries
  <2>3. CASE j = Len(q) + 1
    <3>1. r[j].n = hi + 1 /\ r[i].n <= hi /\ r[i].n \in Nat
      BY <1>1, <1>3, <2>1, <2>3 DEF Carries
    <3>. QED
      BY <1>2, <3>1
  <2>. QED
    BY <1>1, <2>2, <2>3
<1>6. ASSUME NEW n \in Nat, lo < n, n <= hi + 1
      PROVE  \E i \in DOMAIN r : IsFrame(r[i], d) /\ r[i].n = n
  <2>1. CASE n <= hi
    BY <1>3, <1>6, <2>1 DEF Carries
  <2>2. CASE n = hi + 1
    BY <1>1, <2>2
  <2>. QED
    BY <1>2, <1>6, <2>1, <2>2
<1>. QED
  BY <1>2, <1>4, <1>5, <1>6 DEF Carries, r

\* What the tail of a queue has, its elements one place earlier.
LEMMA TailPlaces ==
    ASSUME NEW S, NEW q \in Seq(S), q # <<>>
    PROVE  /\ \A i \in DOMAIN Tail(q) : i + 1 \in DOMAIN q /\ Tail(q)[i] = q[i + 1] /\ i \in Nat \ {0}
           /\ \A i \in DOMAIN q : i # 1 => i - 1 \in DOMAIN Tail(q) /\ Tail(q)[i - 1] = q[i]
           /\ \A i \in DOMAIN q : i \in Nat \ {0}
           /\ 1 \in DOMAIN q /\ Head(q) = q[1]
OBVIOUS

\* A message that is no frame of d may leave.
LEMMA CarriesTailOther ==
    ASSUME NEW q \in Seq(Messages), q # <<>>, NEW d, NEW lo, NEW hi, Carries(q, d, lo, hi),
           ~IsFrame(Head(q), d)
    PROVE  Carries(Tail(q), d, lo, hi)
<1> DEFINE r == Tail(q)
<1>1. /\ \A i \in DOMAIN r : i + 1 \in DOMAIN q /\ r[i] = q[i + 1] /\ i \in Nat
      /\ \A i \in DOMAIN q : i # 1 => i - 1 \in DOMAIN r /\ r[i - 1] = q[i]
      /\ \A i \in DOMAIN q : i \in Nat \ {0}
      /\ Head(q) = q[1]
  BY TailPlaces
<1> HIDE DEF r
<1>2. \A i, j \in DOMAIN r : IsFrame(r[i], d) /\ IsFrame(r[j], d) /\ i < j => r[i].n < r[j].n
  <2> SUFFICES ASSUME NEW i \in DOMAIN r, NEW j \in DOMAIN r, IsFrame(r[i], d), IsFrame(r[j], d),
                      i < j
               PROVE  r[i].n < r[j].n
    OBVIOUS
  <2>1. i + 1 \in DOMAIN q /\ j + 1 \in DOMAIN q /\ i + 1 < j + 1
    BY <1>1
  <2>. QED
    BY <1>1, <2>1 DEF Carries
<1>3. ASSUME NEW n \in Nat, lo < n, n <= hi
      PROVE  \E i \in DOMAIN r : IsFrame(r[i], d) /\ r[i].n = n
  <2>1. PICK i \in DOMAIN q : IsFrame(q[i], d) /\ q[i].n = n
    BY <1>3 DEF Carries
  <2>2. i # 1
    BY <1>1, <2>1
  <2>. QED
    BY <1>1, <2>1, <2>2
<1>4. \A i \in DOMAIN r : IsFrame(r[i], d) => lo < r[i].n /\ r[i].n <= hi
  BY <1>1 DEF Carries
<1>. QED
  BY <1>2, <1>3, <1>4 DEF Carries, r

\* A frame of d at the head of the queue is the next one, and may leave.
LEMMA CarriesTailNext ==
    ASSUME NEW q \in Seq(Messages), q # <<>>, NEW d, NEW lo, NEW hi, Carries(q, d, lo, hi),
           IsFrame(Head(q), d)
    PROVE  Head(q).n = lo + 1 /\ Carries(Tail(q), d, lo + 1, hi)
<1> DEFINE r == Tail(q)
<1>0. \A i \in DOMAIN q : q[i].n \in Nat
  BY QueuedNumbers
<1>1. /\ \A i \in DOMAIN r : i + 1 \in DOMAIN q /\ r[i] = q[i + 1] /\ i \in Nat \ {0} /\ r[i].n \in Nat
      /\ \A i \in DOMAIN q : i # 1 => i - 1 \in DOMAIN r /\ r[i - 1] = q[i]
      /\ \A i \in DOMAIN q : i \in Nat \ {0} /\ q[i].n \in Nat
      /\ 1 \in DOMAIN q /\ Head(q) = q[1]
  BY <1>0, TailPlaces
<1>2. lo \in Nat /\ hi \in Nat /\ lo <= hi
  BY DEF Carries
<1>3. lo < q[1].n /\ q[1].n <= hi
  BY <1>1 DEF Carries
<1>4. q[1].n = lo + 1
  <2>1. PICK i \in DOMAIN q : IsFrame(q[i], d) /\ q[i].n = lo + 1
    BY <1>1, <1>2, <1>3 DEF Carries
  <2>2. CASE i = 1
    BY <2>1, <2>2
  <2>3. CASE i # 1
    <3>1. 1 < i
      BY <1>1, <2>3
    <3>2. q[1].n < q[i].n
      BY <1>1, <2>1, <3>1 DEF Carries
    <3>. QED
      BY <1>1, <1>2, <1>3, <2>1, <3>2
  <2>. QED
    BY <2>2, <2>3
<1> HIDE DEF r
<1>5. \A i \in DOMAIN r : IsFrame(r[i], d) => lo + 1 < r[i].n /\ r[i].n <= hi
  <2> SUFFICES ASSUME NEW i \in DOMAIN r, IsFrame(r[i], d)
               PROVE  lo + 1 < r[i].n /\ r[i].n <= hi
    OBVIOUS
  <2>1. i + 1 \in DOMAIN q /\ 1 < i + 1 /\ r[i] = q[i + 1]
    BY <1>1
  <2>2. q[1].n < q[i + 1].n
    BY <1>1, <2>1 DEF Carries
  <2>. QED
    BY <1>4, <2>1, <2>2 DEF Carries
<1>6. \A i, j \in DOMAIN r : IsFrame(r[i], d) /\ IsFrame(r[j], d) /\ i < j => r[i].n < r[j].n
  <2> SUFFICES ASSUME NEW i \in DOMAIN r, NEW j \in DOMAIN r, IsFrame(r[i], d), IsFrame(r[j], d),
                      i < j
               PROVE  r[i].n < r[j].n
    OBVIOUS
  <2>1. i + 1 \in DOMAIN q /\ j + 1 \in DOMAIN q /\ i + 1 < j + 1
    BY <1>1
  <2>. QED
    BY <1>1, <2>1 DEF Carries
<1>7. ASSUME NEW n \in Nat, lo + 1 < n, n <= hi
      PROVE  \E i \in DOMAIN r : IsFrame(r[i], d) /\ r[i].n = n
  <2>1. PICK i \in DOMAIN q : IsFrame(q[i], d) /\ q[i].n = n
    BY <1>2, <1>7 DEF Carries
  <2>2. i # 1
    BY <1>2, <1>4, <1>7, <2>1
  <2>. QED
    BY <1>1, <2>1, <2>2
<1>8. lo + 1 \in Nat /\ lo + 1 <= hi
  BY <1>1, <1>2, <1>3
<1>. QED
  BY <1>1, <1>2, <1>4, <1>5, <1>6, <1>7, <1>8 DEF Carries, r


\* Two connections in the slots of one room.
Sharing(c, d) ==
    \E h \in Handles : \/ hostOf[h] = c /\ deviceOf[h] = d
                       \/ hostOf[h] = d /\ deviceOf[h] = c

\* The wire from d to its roommate c.
WireOK(c, d) ==
    Sharing(c, d) /\ Open(c) /\ Open(d) =>
        /\ Carries(queue[c], d, got[c][d], LastSent(d))
        /\ phase[d] = "forwarding" => to[d] = c

WiresOK == \A c, d \in Conns : WireOK(c, d)

\* A connection that has not registered has sent nothing, and nobody has
\* anything of it.
FreshOK == \A c \in Conns : phase[c] = "idle" => sent[c] = 0 /\ \A x \in Conns : got[x][c] = 0

\* A Host without a Device has nothing in its hand.
LonelyOK == \A h \in Handles :
    hostOf[h] # None /\ deviceOf[h] = None => phase[hostOf[h]] # "forwarding"

WireInv == WiresOK /\ FreshOK /\ LonelyOK

\* What the wires carry is what WireIsFaithful says.
LEMMA WireInvImplies == HubInv /\ WireInv => WireIsFaithful
<1> HAVE HubInv /\ WireInv
<1> USE DEF WireIsFaithful
<1> TAKE h \in Handles
<1> HAVE hostOf[h] # None /\ deviceOf[h] # None
<1> TAKE c, d \in {hostOf[h], deviceOf[h]}
<1> HAVE c # d /\ Open(c) /\ Open(d)
<1>1. c \in Conns /\ d \in Conns /\ Sharing(c, d)
  BY DEF HubInv, Typed, TypeOK, Conns, Sharing
<1>2. PICK q, lo, hi : q \in Seq(Messages) /\ q = queue[c] /\ lo = got[c][d] /\ hi = LastSent(d)
  BY <1>1 DEF HubInv, Typed, TypeOK
<1>3. Carries(q, d, lo, hi)
  BY <1>1, <1>2 DEF WireInv, WiresOK, WireOK
<1>4. /\ lo \in Nat /\ hi \in Nat
      /\ \A i \in DOMAIN q : q[i].n \in Nat
  BY <1>2, <1>3, QueuedNumbers DEF Carries
<1>5. FramesOf(c, d) = {i \in DOMAIN q : IsFrame(q[i], d)}
  BY <1>2 DEF FramesOf, IsFrame
<1>6. {q[i].n : i \in FramesOf(c, d)} = (lo + 1)..hi
  <2>1. ASSUME NEW i \in FramesOf(c, d) PROVE q[i].n \in (lo + 1)..hi
    BY <1>3, <1>4, <1>5 DEF Carries
  <2>2. ASSUME NEW n \in (lo + 1)..hi PROVE \E i \in FramesOf(c, d) : n = q[i].n
    <3>1. n \in Nat /\ lo < n /\ n <= hi
      BY <1>4
    <3>. QED
      BY <1>3, <1>5, <3>1 DEF Carries
  <2>. QED
    BY <2>1, <2>2
<1>7. \A i, j \in FramesOf(c, d) : i < j => q[i].n < q[j].n
  BY <1>3, <1>5 DEF Carries
<1>. QED
  BY <1>2, <1>6, <1>7

\* Roommates are two registered connections of one handle.
LEMMA SharingIs ==
    ASSUME HubInv, NEW c \in Conns, NEW d \in Conns, Sharing(c, d)
    PROVE  /\ c # d /\ phase[c] # "idle" /\ phase[d] # "idle"
           /\ PeerOf(d) = c
           /\ Sharing(d, c)
<1>1. PICK h \in Handles : \/ hostOf[h] = c /\ deviceOf[h] = d
                           \/ hostOf[h] = d /\ deviceOf[h] = c
  BY DEF Sharing
<1>2. /\ hostOf[h] # None /\ deviceOf[h] # None /\ hostOf[h] \in Hosts /\ deviceOf[h] \in Devices
  BY <1>1, ConnsAssumption DEF HubInv, Typed, TypeOK
<1>3. handle[hostOf[h]] = h /\ handle[deviceOf[h]] = h
  BY <1>2 DEF HubInv, SlotsSound
<1>4. phase[hostOf[h]] # "idle" /\ phase[deviceOf[h]] # "idle"
  BY <1>2 DEF HubInv, SlotsSound, Open
<1>. QED
  BY <1>1, <1>2, <1>3, <1>4, ConnsAssumption DEF PeerOf, Sharing

\* A wire nobody touches.
LEMMA WireKept ==
    ASSUME NEW c \in Conns, NEW d \in Conns, WireOK(c, d),
           Sharing(c, d)' => Sharing(c, d), Open(c)' => Open(c), Open(d)' => Open(d),
           queue'[c] = queue[c], got'[c][d] = got[c][d],
           phase'[d] = phase[d], sent'[d] = sent[d], to'[d] = to[d]
    PROVE  WireOK(c, d)'
<1>1. LastSent(d)' = LastSent(d)
  BY DEF LastSent
<1>. QED
  BY <1>1 DEF WireOK

\* A wire whose queue is given another's message.
LEMMA WireGiven ==
    ASSUME HubInv, NEW c \in Conns, NEW d \in Conns, WireOK(c, d), NEW m \in Messages, ~IsFrame(m, d),
           Sharing(c, d)' => Sharing(c, d), Open(c)' => Open(c), Open(d)' => Open(d),
           queue'[c] = queue[c] \/ queue'[c] = Append(queue[c], m), got'[c][d] = got[c][d],
           phase'[d] = phase[d], sent'[d] = sent[d], to'[d] = to[d]
    PROVE  WireOK(c, d)'
<1> SUFFICES ASSUME Sharing(c, d)', Open(c)', Open(d)'
             PROVE  WireOK(c, d)'
  BY DEF WireOK
<1>1. LastSent(d)' = LastSent(d)
  BY DEF LastSent
<1>2. PICK q, lo, hi : q \in Seq(Messages) /\ q = queue[c] /\ lo = got[c][d] /\ hi = LastSent(d)
  BY DEF HubInv, Typed, TypeOK
<1>3. Carries(q, d, lo, hi) /\ (phase[d] = "forwarding" => to[d] = c)
  BY <1>2 DEF WireOK
<1>4. Carries(Append(q, m), d, lo, hi)
  BY <1>2, <1>3, CarriesAppendOther
<1>5. Carries(queue'[c], d, got'[c][d], LastSent(d)')
  BY <1>1, <1>2, <1>3, <1>4
<1>. QED
  BY <1>3, <1>5 DEF WireOK

\* The end of a loop takes the wires of its connection away.
LEMMA EndLoopWire ==
    ASSUME HubInv, WireInv, NEW x \in Conns, EndLoop(x), phase[x] \in {"running", "refusing"},
           UNCHANGED <<slots, handle, to, lost, mates>>
    PROVE  WireInv'
<1>1. WiresOK'
  <2> SUFFICES ASSUME NEW c \in Conns, NEW d \in Conns PROVE WireOK(c, d)'
    BY DEF WiresOK, WireOK
  <2>0. Sharing(c, d)' => Sharing(c, d)
    BY DEF Sharing, slots
  <2>1. CASE c = x \/ d = x
    <3>1. ~Open(x)'
      BY DEF EndLoop, Open, HubInv, Typed, TypeOK
    <3>. QED
      BY <2>1, <3>1 DEF WireOK
  <2>2. CASE c # x /\ d # x
    <3>1. /\ queue'[c] = queue[c] /\ got'[c] = got[c] /\ phase'[c] = phase[c]
          /\ phase'[d] = phase[d] /\ sent'[d] = sent[d] /\ to'[d] = to[d]
      BY <2>2 DEF EndLoop, HubInv, Typed, TypeOK
    <3>. QED
      BY <2>0, <3>1, WireKept DEF Open, WireInv, WiresOK
  <2>. QED
    BY <2>1, <2>2
<1>2. FreshOK'
  BY DEF FreshOK, WireInv, EndLoop, HubInv, Typed, TypeOK
<1>3. LonelyOK'
  BY DEF LonelyOK, WireInv, EndLoop, slots, HubInv, Typed, TypeOK, Conns
<1>. QED
  BY <1>1, <1>2, <1>3 DEF WireInv

\* The completed send puts the next frame on the wire.
LEMMA ForwardWire ==
    ASSUME HubInv, WireInv, NEW x \in Conns, Forward(x)
    PROVE  WireInv'
<1>0. /\ UNCHANGED <<slots, handle, sent, got>>
      /\ phase[x] = "forwarding" /\ phase'[x] = "running" /\ to[x] \in Conns
      /\ \A d \in Conns : d # x => phase'[d] = phase[d] /\ to'[d] = to[d]
      /\ \A d \in Conns : Open(d)' <=> Open(d)
  BY DEF Forward, Open, slots, HubInv, Typed, TypeOK, TargetsOK, TargetOK
<1>1. PICK m \in Messages : m = Frame(x, sent[x])
  BY DEF Frame, Messages, HubInv, Typed, TypeOK
<1>2. m.kind = "frame" /\ m.from = x /\ m.n = sent[x]
  BY <1>1 DEF Frame
<1>3. ASSUME NEW c \in Conns, NEW d \in Conns PROVE WireOK(c, d)'
  <2> SUFFICES ASSUME Sharing(c, d)', Open(c)', Open(d)' PROVE WireOK(c, d)'
    BY DEF WireOK
  <2>0. Sharing(c, d)
    BY <1>0 DEF Sharing, slots
  <2>1. WireOK(c, d)
    BY DEF WireInv, WiresOK
  <2>2. queue'[c] = queue[c] \/ queue'[c] = Append(queue[c], m)
    <3>1. queue' = queue \/ queue' = [queue EXCEPT ![to[x]] = Append(@, m)]
      BY <1>1 DEF Forward
    <3>2. queue \in [Conns -> Seq(Messages)]
      BY DEF HubInv, Typed, TypeOK
    <3>. QED
      BY <3>1, <3>2
  <2>3. CASE d # x
    <3>1. ~IsFrame(m, d)
      BY <1>2, <2>3 DEF IsFrame
    <3>. QED
      BY <1>0, <2>0, <2>1, <2>2, <2>3, <3>1, WireGiven
  <2>4. CASE d = x
    <3>1. PICK q, lo, hi : q \in Seq(Messages) /\ q = queue[c] /\ lo = got[c][d] /\ hi = LastSent(d)
      BY DEF HubInv, Typed, TypeOK
    <3>2. Carries(q, d, lo, hi) /\ to[x] = c
      BY <1>0, <2>0, <2>1, <2>4, <3>1 DEF WireOK
    <3>3. queue'[c] = Append(q, m)
      BY SMTT(30), <1>0, <1>1, <3>1, <3>2 DEF Forward, Open, Closed, HubInv, Typed, TypeOK
    <3>4. hi = sent[x] - 1 /\ LastSent(d)' = sent[x]
      BY <1>0, <2>4, <3>1 DEF LastSent
    <3>5. sent[x] \in Nat
      BY DEF HubInv, Typed, TypeOK
    <3>6. m.n = hi + 1 /\ LastSent(d)' = hi + 1
      BY <1>2, <3>4, <3>5
    <3>7. Carries(Append(q, m), d, lo, hi + 1)
      BY <1>2, <2>4, <3>1, <3>2, <3>6, CarriesAppendNext DEF IsFrame
    <3>8. Carries(queue'[c], d, got'[c][d], LastSent(d)')
      BY <1>0, <3>1, <3>3, <3>6, <3>7
    <3>. QED
      BY <1>0, <2>4, <3>8 DEF WireOK
  <2>. QED
    BY <2>3, <2>4
<1>4. FreshOK'
  BY <1>0 DEF FreshOK, WireInv
<1>5. LonelyOK'
  BY ZenonT(30), <1>0 DEF LonelyOK, WireInv, slots, HubInv, Typed, TypeOK, Conns
<1>. QED
  BY <1>3, <1>4, <1>5 DEF WireInv, WiresOK

\* The socket takes the next frame off the wire.
LEMMA DrainWire ==
    ASSUME HubInv, WireInv, NEW x \in Conns, Drain(x)
    PROVE  WireInv'
<1>1. CASE closeSent[x] \/ stalled[x]
  BY <1>1, EndLoopWire DEF Drain
<1>2. CASE ~(closeSent[x] \/ stalled[x])
  <2> DEFINE m == Head(queue[x])
  <2>0. /\ UNCHANGED <<slots, handle, to, phase, sent>>
        /\ queue[x] # <<>> /\ queue[x] \in Seq(Messages)
        /\ queue' = [queue EXCEPT ![x] = Tail(@)]
        /\ got' = IF m.kind = "frame" THEN [got EXCEPT ![x] = [@ EXCEPT ![m.from] = m.n]] ELSE got
    BY <1>2 DEF Drain, HubInv, Typed, TypeOK
  <2>1. m \in Messages /\ m = queue[x][1] /\ 1 \in DOMAIN queue[x]
    BY <2>0, TailElements, TailPlaces
  <2>2. m.from \in Conns /\ m.n \in Nat /\ phase[m.from] # "idle"
    BY <2>1 DEF Messages, HubInv, QueuesOK, MsgOK
  <2> HIDE DEF m
  <2>3. /\ queue'[x] = Tail(queue[x])
        /\ \A c \in Conns : c # x => queue'[c] = queue[c] /\ got'[c] = got[c]
        /\ \A d \in Conns : ~IsFrame(m, d) => got'[x][d] = got[x][d]
        /\ \A d \in Conns : IsFrame(m, d) => got'[x][d] = m.n
    BY <2>0, <2>2 DEF IsFrame, HubInv, Typed, TypeOK
  <2>4. ASSUME NEW c \in Conns, NEW d \in Conns PROVE WireOK(c, d)'
    <3> SUFFICES ASSUME Sharing(c, d)', Open(c)', Open(d)' PROVE WireOK(c, d)'
      BY DEF WireOK
    <3>0. Sharing(c, d) /\ Open(c) /\ Open(d) /\ LastSent(d)' = LastSent(d)
      BY <2>0 DEF Sharing, slots, Open, LastSent
    <3>1. WireOK(c, d)
      BY DEF WireInv, WiresOK
    <3>2. CASE c # x
      BY <2>0, <2>3, <3>0, <3>1, <3>2, WireKept
    <3>3. CASE c = x
      <4>1. PICK q, lo, hi : q \in Seq(Messages) /\ q = queue[c] /\ lo = got[c][d] /\ hi = LastSent(d)
        BY DEF HubInv, Typed, TypeOK
      <4>2. Carries(q, d, lo, hi) /\ (phase[d] = "forwarding" => to[d] = c)
        BY <3>0, <3>1, <4>1 DEF WireOK
      <4>3. q # <<>> /\ Head(q) = m /\ queue'[c] = Tail(q)
        BY <2>0, <2>3, <3>3, <4>1 DEF m
      <4>4. Carries(queue'[c], d, got'[c][d], LastSent(d)')
        <5>1. CASE IsFrame(m, d)
          <6>1. m.n = lo + 1 /\ Carries(Tail(q), d, lo + 1, hi)
            BY <4>1, <4>2, <4>3, <5>1, CarriesTailNext
          <6>. QED
            BY <2>3, <3>0, <3>3, <4>1, <4>3, <5>1, <6>1
        <5>2. CASE ~IsFrame(m, d)
          <6>1. Carries(Tail(q), d, lo, hi)
            BY <4>1, <4>2, <4>3, <5>2, CarriesTailOther
          <6>. QED
            BY <2>3, <3>0, <3>3, <4>1, <4>3, <5>2, <6>1
        <5>. QED
          BY <5>1, <5>2
      <4>. QED
        BY <2>0, <4>2, <4>4 DEF WireOK
    <3>. QED
      BY <3>2, <3>3
  <2>5. FreshOK'
    <3>1. \A c \in Conns : phase[c] = "idle" => ~IsFrame(m, c)
      BY <2>2 DEF IsFrame
    <3>. QED
      BY <2>0, <2>3, <3>1 DEF FreshOK, WireInv
  <2>6. LonelyOK'
    BY <2>0 DEF LonelyOK, WireInv, slots
  <2>. QED
    BY <2>4, <2>5, <2>6 DEF WireInv, WiresOK
<1>. QED
  BY <1>1, <1>2

\* disconnect's locked half takes a room away and touches no wire.
LEMMA DisconnectWire ==
    ASSUME HubInv, WireInv, NEW x \in Conns, Disconnect(x)
    PROVE  WireInv'
<1>0. /\ UNCHANGED <<queue, sent, got>>
      /\ ~Open(x)' /\ phase'[x] # "idle"
      /\ \A d \in Conns : d # x => phase'[d] = phase[d] /\ to'[d] = to[d]
      /\ \A h \in Handles : /\ hostOf'[h] # None => hostOf'[h] = hostOf[h] /\ deviceOf'[h] = deviceOf[h]
                            /\ deviceOf'[h] # None => hostOf'[h] = hostOf[h] /\ deviceOf'[h] = deviceOf[h]
  BY DEF Disconnect, Open, HubInv, Typed, TypeOK
<1>1. ASSUME NEW c \in Conns, NEW d \in Conns PROVE WireOK(c, d)'
  <2> SUFFICES ASSUME Sharing(c, d)', Open(c)', Open(d)' PROVE WireOK(c, d)'
    BY DEF WireOK
  <2>1. c # x /\ d # x /\ c # None /\ d # None
    BY <1>0, ConnsAssumption
  <2>2. Sharing(c, d)
    BY <1>0, <2>1 DEF Sharing
  <2>3. Open(c) /\ Open(d)
    BY <1>0, <2>1 DEF Open
  <2>. QED
    BY <1>0, <2>1, <2>2, <2>3, WireKept DEF WireInv, WiresOK
<1>2. FreshOK'
  BY <1>0 DEF FreshOK, WireInv
<1>3. LonelyOK'
  <2> SUFFICES ASSUME NEW h \in Handles, hostOf'[h] # None, deviceOf'[h] = None
               PROVE  phase'[hostOf'[h]] # "forwarding"
    BY DEF LonelyOK
  <2>1. hostOf'[h] = hostOf[h] /\ deviceOf[h] = None /\ hostOf[h] \in Conns
    BY <1>0 DEF HubInv, Typed, TypeOK, Conns
  <2>2. CASE hostOf[h] = x
    BY <1>0, <2>1, <2>2 DEF Open
  <2>3. CASE hostOf[h] # x
    BY <1>0, <2>1, <2>3 DEF LonelyOK, WireInv
  <2>. QED
    BY <2>2, <2>3
<1>. QED
  BY <1>1, <1>2, <1>3 DEF WireInv, WiresOK

\* try_send of a close leaves a queue as it is or puts the close at its end.
LEMMA TryCloseGives ==
    ASSUME HubInv, NEW s \in Conns \cup {None}, NEW m, TryClose(s, m)
    PROVE  \A c \in Conns : queue'[c] = queue[c] \/ queue'[c] = Append(queue[c], m)
<1>1. CASE s = None \/ Closed(s)
  BY <1>1 DEF TryClose
<1>2. CASE ~(s = None \/ Closed(s))
  <2>1. s \in Conns
    BY <1>2
  <2>. QED
    BY <1>2, <2>1 DEF TryClose, HubInv, Typed, TypeOK
<1>. QED
  BY <1>1, <1>2

\* The survivor's close joins its queue behind the frames.
LEMMA NotifyPeerWire ==
    ASSUME HubInv, WireInv, NEW x \in Conns, NotifyPeer(x)
    PROVE  WireInv'
<1>0. /\ UNCHANGED <<slots, handle, sent, got>>
      /\ ~Open(x)' /\ phase'[x] # "idle"
      /\ \A d \in Conns : d # x => phase'[d] = phase[d] /\ to'[d] = to[d]
  BY DEF NotifyPeer, Open, slots, HubInv, Typed, TypeOK
<1>1. PICK m \in Messages : m = Close(x, IF peerClose[x] = "app" THEN "app" ELSE "going_away")
  <2>1. Close(x, IF peerClose[x] = "app" THEN "app" ELSE "going_away") \in Messages
    BY DEF Close, Messages
  <2>. QED
    BY <2>1
<1>2. m.kind = "close" /\ to[x] \in Conns \cup {None} /\ TryClose(to[x], m)
  BY <1>1 DEF Close, NotifyPeer, HubInv, Typed, TypeOK
<1>3. \A c \in Conns : queue'[c] = queue[c] \/ queue'[c] = Append(queue[c], m)
  BY <1>2, TryCloseGives
<1>4. ASSUME NEW c \in Conns, NEW d \in Conns PROVE WireOK(c, d)'
  <2> SUFFICES ASSUME Sharing(c, d)', Open(c)', Open(d)' PROVE WireOK(c, d)'
    BY DEF WireOK
  <2>1. c # x /\ d # x /\ ~IsFrame(m, d)
    BY <1>0, <1>2 DEF IsFrame
  <2>2. Sharing(c, d) /\ Open(c) /\ Open(d) /\ WireOK(c, d)
    BY <1>0, <2>1 DEF Sharing, slots, Open, WireInv, WiresOK
  <2>. QED
    BY <1>0, <1>3, <2>1, <2>2, WireGiven
<1>5. FreshOK'
  BY <1>0 DEF FreshOK, WireInv
<1>6. LonelyOK'
  <2>1. \A d \in Conns : phase'[d] = "forwarding" => phase[d] = "forwarding"
    BY <1>0 DEF Open
  <2>. QED
    BY <1>0, <2>1 DEF LonelyOK, WireInv, slots, HubInv, Typed, TypeOK, Conns
<1>. QED
  BY <1>4, <1>5, <1>6 DEF WireInv, WiresOK

\* A registration's teardown gives a queue at most a close.
LEMMA ReclaimGives ==
    ASSUME HubInv, NEW x \in Conns, NEW h \in Handles, Reclaim(h)
    PROVE  \E m \in Messages :
              /\ m.kind = "close"
              /\ \A c \in Conns : queue'[c] = queue[c] \/ queue'[c] = Append(queue[c], m)
<1>1. /\ hostOf[h] \in Conns \cup {None} /\ deviceOf[h] \in Conns \cup {None}
      /\ ClosedSlot(h) \in Conns \cup {None}
  BY DEF HubInv, Typed, TypeOK, Conns, ClosedSlot
<1>2. \A c \in Conns : Close(c, "going_away") \in Messages /\ Close(c, "going_away").kind = "close"
  BY DEF Close, Messages
<1>3. CASE ClosedSlot(h) = None
  BY <1>2, <1>3 DEF Reclaim
<1>4. CASE ClosedSlot(h) # None
  <2>1. PICK gone \in Conns : gone = ClosedSlot(h)
    BY <1>1, <1>4
  <2>2. PICK s \in Conns \cup {None} : s = IF gone = hostOf[h] THEN deviceOf[h] ELSE hostOf[h]
    BY <1>1
  <2>3. PICK m \in Messages : m = Close(gone, "going_away")
    BY <1>2
  <2>4. TryClose(s, m)
    BY <1>4, <2>1, <2>2, <2>3 DEF Reclaim
  <2>5. \A c \in Conns : queue'[c] = queue[c] \/ queue'[c] = Append(queue[c], m)
    BY <2>4, TryCloseGives
  <2>. QED
    BY <1>2, <2>3, <2>5
<1>. QED
  BY <1>3, <1>4

\* A registration leaves the wires between others as they are.
LEMMA RegisterOthers ==
    ASSUME HubInv, WireInv, NEW x \in Conns, NEW h \in Handles, Reclaim(h), phase[x] = "idle",
           UNCHANGED <<sent, to>>,
           \A d \in Conns : d # x => phase'[d] = phase[d] /\ got'[d] = got[d],
           NEW c \in Conns, NEW d \in Conns, Sharing(c, d)' => Sharing(c, d)
    PROVE  WireOK(c, d)'
<1> SUFFICES ASSUME Sharing(c, d)', Open(c)', Open(d)' PROVE WireOK(c, d)'
  BY DEF WireOK
<1>1. Sharing(c, d) /\ c # x /\ d # x
  BY SharingIs
<1>2. PICK m \in Messages :
              /\ m.kind = "close"
              /\ \A y \in Conns : queue'[y] = queue[y] \/ queue'[y] = Append(queue[y], m)
  BY ReclaimGives
<1>3. ~IsFrame(m, d)
  BY <1>2 DEF IsFrame
<1>4. Open(c) /\ Open(d) /\ WireOK(c, d)
  BY <1>1 DEF Open, WireInv, WiresOK
<1>. QED
  BY <1>1, <1>2, <1>3, <1>4, WireGiven

\* The slots hold no connection that has not registered, and a room with a
\* Device has a Host.
LEMMA SlotsAre ==
    ASSUME HubInv, NEW g \in Handles
    PROVE  /\ hostOf[g] # None => hostOf[g] \in Conns /\ phase[hostOf[g]] # "idle"
           /\ deviceOf[g] # None => /\ deviceOf[g] \in Conns /\ phase[deviceOf[g]] # "idle"
                                    /\ hostOf[g] # None
<1>1. hostOf[g] \in Hosts \cup {None} /\ deviceOf[g] \in Devices \cup {None}
  BY DEF HubInv, Typed, TypeOK
<1>2. deviceOf[g] # None => <<hostOf[g], deviceOf[g]>> \in Hosts \X Devices
  BY DEF HubInv, SlotsSound, Typed, TypeOK
<1>3. deviceOf[g] # None => hostOf[g] # None
  BY <1>2, ConnsAssumption DEF Conns
<1>. QED
  BY <1>1, <1>3 DEF HubInv, SlotsSound, Open, Conns

\* A Host that registers has no wire yet.
LEMMA RegisterHostWire ==
    ASSUME HubInv, WireInv, NEW x \in Conns, NEW h \in Handles, NEW pairing \in BOOLEAN,
           NEW allowed \in BOOLEAN, RegisterHost(x, h, pairing, allowed)
    PROVE  WireInv'
<1>0. /\ UNCHANGED <<sent, got, to>> /\ Reclaim(h) /\ phase[x] = "idle"
      /\ phase'[x] \in {"running", "gone"}
      /\ \A d \in Conns : d # x => phase'[d] = phase[d]
      /\ \A g \in Handles : g # h => hostOf'[g] = hostOf[g] /\ deviceOf'[g] = deviceOf[g]
      /\ deviceOf'[h] = DeviceAfter(h)
      /\ hostOf'[h] = HostAfter(h) \/ (hostOf'[h] = x /\ HostAfter(h) = None)
  BY DEF RegisterHost, HubInv, Typed, TypeOK
<1>1. DeviceAfter(h) # None => /\ DeviceAfter(h) = deviceOf[h] /\ HostAfter(h) = hostOf[h]
                               /\ HostAfter(h) # None
  BY SlotsAre DEF DeviceAfter, HostAfter
<1>2. ASSUME NEW c \in Conns, NEW d \in Conns PROVE WireOK(c, d)'
  <2>1. Sharing(c, d)' => Sharing(c, d)
    BY <1>0, <1>1, ConnsAssumption DEF Sharing
  <2>. QED
    BY <1>0, <2>1, RegisterOthers
<1>3. FreshOK'
  BY <1>0 DEF FreshOK, WireInv
<1>4. LonelyOK'
  <2> SUFFICES ASSUME NEW g \in Handles, hostOf'[g] # None, deviceOf'[g] = None
               PROVE  phase'[hostOf'[g]] # "forwarding"
    BY DEF LonelyOK
  <2>1. CASE hostOf'[g] = x
    BY <1>0, <2>1
  <2>2. CASE hostOf'[g] # x
    <3>1. hostOf'[g] = hostOf[g] /\ deviceOf[g] = None
      BY <1>0, <2>2 DEF HostAfter, DeviceAfter
    <3>2. hostOf[g] \in Conns
      BY <3>1, SlotsAre
    <3>. QED
      BY <1>0, <2>2, <3>1, <3>2 DEF LonelyOK, WireInv
  <2>. QED
    BY <2>1, <2>2
<1>. QED
  BY <1>2, <1>3, <1>4 DEF WireInv, WiresOK

\* An empty queue carries nothing.
LEMMA CarriesNothing ==
    ASSUME NEW q \in Seq(Messages), NEW d, NEW n \in Nat,
           \A i \in DOMAIN q : ~IsFrame(q[i], d)
    PROVE  Carries(q, d, n, n)
BY DEF Carries

\* A Device that joins finds its Host's hand empty; both wires start there.
LEMMA RegisterDeviceWire ==
    ASSUME HubInv, WireInv, NEW x \in Conns, NEW h \in Handles, RegisterDevice(x, h)
    PROVE  WireInv'
<1> DEFINE accepted == /\ HostAfter(h) # None
                       /\ window[h] # "expired"
                       /\ DeviceAfter(h) = None
<1>0. /\ UNCHANGED <<sent, to>> /\ Reclaim(h) /\ phase[x] = "idle"
      /\ phase'[x] = IF accepted THEN "running" ELSE "gone"
      /\ \A d \in Conns : d # x => phase'[d] = phase[d] /\ got'[d] = got[d]
      /\ \A g \in Handles : g # h => hostOf'[g] = hostOf[g] /\ deviceOf'[g] = deviceOf[g]
      /\ hostOf'[h] = HostAfter(h)
      /\ deviceOf'[h] = IF accepted THEN x ELSE DeviceAfter(h)
      /\ got' = IF accepted
                THEN [got EXCEPT ![x] = [@ EXCEPT ![hostOf[h]] = sent[hostOf[h]]]]
                ELSE got
  BY DEF RegisterDevice, HubInv, Typed, TypeOK
<1> HIDE DEF accepted
<1>1. accepted => /\ hostOf[h] # None /\ deviceOf[h] = None /\ HostAfter(h) = hostOf[h]
                  /\ UNCHANGED queue
                  /\ hostOf[h] \in Conns /\ phase[hostOf[h]] \notin {"idle", "forwarding"}
  BY <1>0, SlotsAre DEF accepted, HostAfter, DeviceAfter, Reclaim, LonelyOK, WireInv
<1>2. DeviceAfter(h) # None => DeviceAfter(h) = deviceOf[h] /\ HostAfter(h) = hostOf[h]
  BY DEF DeviceAfter, HostAfter
<1>3. accepted => \A d \in Conns : got'[x][d] = IF d = hostOf[h] THEN sent[hostOf[h]] ELSE got[x][d]
  BY <1>0, <1>1 DEF HubInv, Typed, TypeOK
<1>4. ASSUME NEW c \in Conns, NEW d \in Conns PROVE WireOK(c, d)'
  <2>1. CASE accepted /\ c = x /\ d = hostOf[h]
    <3>1. queue'[x] \in Seq(Messages) /\ \A i \in DOMAIN queue'[x] : ~IsFrame(queue'[x][i], d)
      BY <1>0, <1>1, <2>1 DEF HubInv, Typed, TypeOK, QueuesOK, MsgOK
    <3>2. x # d /\ phase'[d] = phase[d] /\ phase[d] # "forwarding"
      BY <1>0, <1>1, <2>1
    <3>3. LastSent(d)' = sent[d] /\ got'[x][d] = sent[d] /\ sent[d] \in Nat
      BY <1>0, <1>3, <2>1, <3>2 DEF LastSent, HubInv, Typed, TypeOK
    <3>4. Carries(queue'[x], d, sent[d], sent[d])
      BY <3>1, <3>3, CarriesNothing
    <3>. QED
      BY <2>1, <3>2, <3>3, <3>4 DEF WireOK
  <2>2. CASE accepted /\ d = x /\ c = hostOf[h]
    <3>1. queue'[c] \in Seq(Messages) /\ \A i \in DOMAIN queue'[c] : ~IsFrame(queue'[c][i], x)
      BY <1>0, <1>1, <2>2 DEF HubInv, Typed, TypeOK, QueuesOK, MsgOK, IsFrame
    <3>2. c # x /\ phase'[x] = "running" /\ got'[c] = got[c]
      BY <1>0, <1>1, <2>2
    <3>3. LastSent(x)' = 0 /\ got'[c][x] = 0
      BY <1>0, <3>2 DEF LastSent, FreshOK, WireInv
    <3>4. Carries(queue'[c], x, 0, 0)
      BY <3>1, CarriesNothing
    <3>. QED
      BY <2>2, <3>2, <3>3, <3>4 DEF WireOK
  <2>3. CASE ~(accepted /\ c = x /\ d = hostOf[h]) /\ ~(accepted /\ d = x /\ c = hostOf[h])
    <3>1. Sharing(c, d)' => Sharing(c, d)
      BY <1>0, <1>1, <1>2, <2>3, ConnsAssumption DEF Sharing
    <3>. QED
      BY <1>0, <3>1, RegisterOthers
  <2>. QED
    BY <2>1, <2>2, <2>3
<1>5. FreshOK'
  <2> SUFFICES ASSUME NEW c \in Conns, phase'[c] = "idle", NEW y \in Conns
               PROVE  sent'[c] = 0 /\ got'[y][c] = 0
    BY DEF FreshOK
  <2>1. c # x /\ phase[c] = "idle"
    BY <1>0
  <2>2. got'[y][c] = got[y][c]
    <3>1. CASE y # x
      BY <1>0, <3>1
    <3>2. CASE y = x /\ accepted
      BY <1>1, <1>3, <2>1, <3>2
    <3>3. CASE ~accepted
      BY <1>0, <3>3
    <3>. QED
      BY <3>1, <3>2, <3>3
  <2>. QED
    BY <1>0, <2>1, <2>2 DEF FreshOK, WireInv
<1>6. LonelyOK'
  <2> SUFFICES ASSUME NEW g \in Handles, hostOf'[g] # None, deviceOf'[g] = None
               PROVE  phase'[hostOf'[g]] # "forwarding"
    BY DEF LonelyOK
  <2>1. hostOf'[g] = hostOf[g] /\ deviceOf[g] = None
    BY <1>0, ConnsAssumption DEF HostAfter, DeviceAfter
  <2>2. hostOf[g] \in Conns /\ hostOf[g] # x
    BY <1>0, <2>1, SlotsAre
  <2>. QED
    BY <1>0, <2>1, <2>2 DEF LonelyOK, WireInv
<1>. QED
  BY <1>4, <1>5, <1>6 DEF WireInv, WiresOK

\* The frame forward takes in hand is the next one, and is for the roommate.
LEMMA ReadBinaryWire ==
    ASSUME HubInv, WireInv, NEW x \in Conns, ReadBinary(x)
    PROVE  WireInv'
<1>0. /\ UNCHANGED <<slots, handle, queue, got>> /\ phase[x] = "running"
      /\ sent'[x] = sent[x] + 1 /\ to'[x] = PeerOf(x) /\ sent[x] \in Nat
      /\ phase'[x] = IF PeerOf(x) = None THEN "running" ELSE "forwarding"
      /\ \A d \in Conns : d # x => phase'[d] = phase[d] /\ to'[d] = to[d] /\ sent'[d] = sent[d]
      /\ \A d \in Conns : Open(d)' <=> Open(d)
  BY DEF ReadBinary, Open, slots, HubInv, Typed, TypeOK
<1>1. ASSUME NEW c \in Conns, NEW d \in Conns PROVE WireOK(c, d)'
  <2> SUFFICES ASSUME Sharing(c, d)', Open(c)', Open(d)' PROVE WireOK(c, d)'
    BY DEF WireOK
  <2>1. Sharing(c, d) /\ WireOK(c, d)
    BY <1>0 DEF Sharing, slots, WireInv, WiresOK
  <2>2. CASE d # x
    BY <1>0, <2>1, <2>2, WireKept
  <2>3. CASE d = x
    <3>1. PeerOf(x) = c /\ c # None
      BY <2>1, <2>3, SharingIs, ConnsAssumption
    <3>2. phase'[x] = "forwarding" /\ to'[x] = c
      BY <1>0, <3>1
    <3>3. LastSent(x)' = LastSent(x)
      BY <1>0, <3>2 DEF LastSent
    <3>. QED
      BY <1>0, <2>1, <2>3, <3>2, <3>3 DEF WireOK
  <2>. QED
    BY <2>2, <2>3
<1>2. FreshOK'
  BY <1>0 DEF FreshOK, WireInv
<1>3. LonelyOK'
  <2> SUFFICES ASSUME NEW h \in Handles, hostOf[h] # None, deviceOf[h] = None
               PROVE  phase'[hostOf[h]] # "forwarding"
    BY <1>0 DEF LonelyOK, slots
  <2>0. hostOf[h] \in Hosts /\ hostOf[h] \in Conns
    BY DEF HubInv, Typed, TypeOK, Conns
  <2>1. handle[hostOf[h]] = h /\ hostOf[h] \in Hosts /\ hostOf[h] \in Conns
    BY <2>0 DEF HubInv, SlotsSound
  <2>2. CASE hostOf[h] = x
    BY <1>0, <2>1, <2>2 DEF PeerOf
  <2>3. CASE hostOf[h] # x
    BY <1>0, <2>1, <2>3 DEF LonelyOK, WireInv
  <2>. QED
    BY <2>2, <2>3
<1>. QED
  BY <1>1, <1>2, <1>3 DEF WireInv, WiresOK

\* A step that moves no frame, no slot and no task into or out of forward.
LEMMA WiresUntouched ==
    ASSUME WireInv, UNCHANGED <<hostOf, deviceOf, queue, to, sent, got>>,
           \A c \in Conns : /\ Open(c)' => Open(c)
                            /\ phase'[c] = "idle" => phase[c] = "idle"
                            /\ (phase'[c] = "forwarding") <=> (phase[c] = "forwarding"),
           \A h \in Handles : hostOf[h] # None => hostOf[h] \in Conns
    PROVE  WireInv'
<1>1. ASSUME NEW c \in Conns, NEW d \in Conns PROVE WireOK(c, d)'
  <2>1. (Sharing(c, d)' => Sharing(c, d)) /\ LastSent(d)' = LastSent(d) /\ WireOK(c, d)
    BY DEF Sharing, LastSent, WireInv, WiresOK
  <2>. QED
    BY <2>1 DEF WireOK
<1>2. FreshOK'
  BY DEF FreshOK, WireInv
<1>3. LonelyOK'
  BY DEF LonelyOK, WireInv
<1>. QED
  BY <1>1, <1>2, <1>3 DEF WireInv, WiresOK

\* Every step keeps the wires.
LEMMA WireInvStep == HubInv /\ WireInv /\ [Next]_vars => WireInv'
<1> SUFFICES ASSUME HubInv, WireInv, [Next]_vars PROVE WireInv'
  OBVIOUS
<1>0. \A h \in Handles : hostOf[h] # None => hostOf[h] \in Conns
  BY SlotsAre
<1>1. ASSUME NEW c \in Conns, Task(c) PROVE WireInv'
  <2>1. CASE Forward(c)         BY <2>1, ForwardWire
  <2>2. CASE Drain(c)           BY <2>2, DrainWire
  <2>3. CASE RefuseSent(c)      BY <2>3, EndLoopWire DEF RefuseSent
  <2>4. CASE PingAfterClose(c)  BY <2>4, EndLoopWire DEF PingAfterClose
  <2>5. CASE Disconnect(c)      BY <2>5, DisconnectWire
  <2>6. CASE NotifyPeer(c)      BY <2>6, NotifyPeerWire
  <2>. QED
    BY <1>1, <2>1, <2>2, <2>3, <2>4, <2>5, <2>6 DEF Task
<1>2. ASSUME NEW c \in Conns, Client(c) PROVE WireInv'
  <2>1. CASE RejectConnection(c)
    BY <1>0, <2>1, WiresUntouched DEF RejectConnection, slots, Open, HubInv, Typed, TypeOK
  <2>2. ASSUME NEW h \in Handles, NEW pairing \in BOOLEAN, NEW allowed \in BOOLEAN,
               RegisterHost(c, h, pairing, allowed)
        PROVE  WireInv'
    BY <2>2, RegisterHostWire
  <2>3. ASSUME NEW h \in Handles, RegisterDevice(c, h) PROVE WireInv'
    BY <2>3, RegisterDeviceWire
  <2>4. CASE ReadBinary(c)      BY <2>4, ReadBinaryWire
  <2>5. CASE Refuse(c)
    BY <1>0, <2>5, WiresUntouched DEF Refuse, slots, Open, HubInv, Typed, TypeOK
  <2>6. CASE ReadAppClose(c)    BY <2>6, EndLoopWire DEF ReadAppClose
  <2>7. CASE PeerLost(c)        BY <2>7, EndLoopWire DEF PeerLost
  <2>8. CASE Stall(c)
    BY <1>0, <2>8, WiresUntouched DEF Stall, slots, Open
  <2>. QED
    BY <1>2, <2>1, <2>2, <2>3, <2>4, <2>5, <2>6, <2>7, <2>8 DEF Client
<1>3. ASSUME NEW h \in Handles, WindowElapses(h) PROVE WireInv'
  BY <1>0, <1>3, WiresUntouched DEF WindowElapses, Open
<1>4. CASE UNCHANGED vars
  BY <1>0, <1>4, WiresUntouched DEF vars, Open
<1>. QED
  BY <1>1, <1>2, <1>3, <1>4 DEF Next

\* The empty map has no wires.
LEMMA WireInvInit == Init => WireInv
BY ConnsAssumption DEF Init, WireInv, WiresOK, WireOK, FreshOK, LonelyOK, Open

\* R-11-026: however many frames two roommates exchange and whatever the depth
\* of their queues, what one has sent and the other's socket has not yet taken
\* is exactly the next frames in order, none lost and none twice.
THEOREM WiresAreFaithful == Spec => []WireIsFaithful
BY WireInvImplies, WireInvInit, WireInvStep, HubInvInit, HubInvStep, PTL DEF Spec
=============================================================================
