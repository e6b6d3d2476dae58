------------------------------ MODULE Control ------------------------------
(***************************************************************************)
(* The Host's loopback control transport                                    *)
(* (crates/herdr-relay/src/control.rs) and what the bridge answers over it  *)
(* (HostCore::handle and build_status of bridge.rs).                        *)
(*                                                                         *)
(* A running bridge is the number of its start, which stands for its port    *)
(* and its token: both are new on every start.  state.json names the start   *)
(* whose endpoint was published last; a crash leaves it there, a clean exit  *)
(* removes it.  The paired-device list survives both, the open pairing and   *)
(* the link state do not.                                                   *)
(*                                                                         *)
(* HostBridge models the loops behind the handler; here they are the events  *)
(* a client can observe.                                                    *)
(***************************************************************************)
EXTENDS Integers, Sequences, SequencesExt

CONSTANTS
    Devices,
    None,
    Lifetime,       \* PHRASE_LIFETIME in ticks
    MaxStarts,      \* bound: starts of the bridge
    MaxOpens,       \* bound: pairings opened
    MaxEvents       \* bound: what happens at the bridge unasked, and faults

ASSUME ControlAssumption ==
    /\ None \notin Devices
    /\ {Lifetime, MaxStarts, MaxOpens, MaxEvents} \subseteq Nat

VARIABLES
    bridge,         \* the running bridge's start, or 0
    endpoint,       \* the `control` key of state.json, or 0
    starts, opens, events,
    devs,           \* the paired-device list, in enrolment order
    pair,           \* open_pairing
    link            \* "idle", "offline", "stopped", or the connected Device

bridgeVars == <<bridge, endpoint, starts, opens, events, devs, pair, link>>

Status   == [cmd |-> "status", dev |-> None]
Open     == [cmd |-> "open_pairing", dev |-> None]
Close    == [cmd |-> "close_pairing", dev |-> None]
All      == [cmd |-> "revoke_all", dev |-> None]
StopIt   == [cmd |-> "stop", dev |-> None]
One(d)   == [cmd |-> "revoke", dev |-> d]
Commands == {Status, Open, Close, All, StopIt} \cup {One(d) : d \in Devices}

NoPair == [id |-> 0, registered |-> FALSE, age |-> 0, spent |-> FALSE]
Live(p) == p.id # 0 /\ ~p.spent /\ p.age <= Lifetime

\* The bridge's part of Popup's type invariant.
ControlTypeOK ==
    /\ {bridge, endpoint, starts} \subseteq 0..MaxStarts
    /\ opens \in 0..MaxOpens /\ events \in 0..MaxEvents
    /\ devs \in Seq(Devices)
    /\ pair \in [id : 0..MaxOpens, registered : BOOLEAN, age : 0..(Lifetime + 1), spent : BOOLEAN]
    /\ link \in {"idle", "offline", "stopped"} \cup Devices

ControlInit ==
    /\ bridge = 1 /\ endpoint = 1 /\ starts = 1
    /\ opens = 0 /\ events = 0
    /\ devs = <<CHOOSE d \in Devices : TRUE>>
    /\ pair = NoPair /\ link = "idle"

(* --------------------------------------------------------------- handler *)

\* build_status takes a pairing that is over before it reports.
Reaped(s) == [s EXCEPT !.pair = IF Live(@) THEN @ ELSE NoPair]

\* open_pairing: a live pairing is kept, whatever the link's state is.
OpenPairing(s) ==
    IF Live(s.pair) THEN s
    ELSE [s EXCEPT !.pair = [NoPair EXCEPT !.id = s.opens + 1], !.opens = @ + 1,
                   !.link = IF @ = "stopped" THEN "idle" ELSE @]

RevokeOne(s, d) ==
    [s EXCEPT !.devs = SelectSeq(@, LAMBDA e : e # d),
              !.link = IF @ = d THEN "idle" ELSE @]

RevokeAll(s) ==
    [s EXCEPT !.devs = <<>>, !.pair = NoPair, !.link = IF @ = "stopped" THEN @ ELSE "idle"]

\* HostCore::handle: the state after a command.  An unknown id is not_found.
Handle(s, c) ==
    IF c.cmd = "status" THEN Reaped(s)
    ELSE IF c.cmd = "open_pairing" THEN Reaped(OpenPairing(s))
    ELSE IF c.cmd = "close_pairing" THEN [s EXCEPT !.pair = NoPair]
    ELSE IF c.cmd = "revoke" THEN RevokeOne(s, c.dev)
    ELSE IF c.cmd = "revoke_all" THEN RevokeAll(s)
    ELSE [s EXCEPT !.link = "stopped"]

Accepts(s, c) == c.cmd = "revoke" => Contains(s.devs, c.dev)

Core == [devs |-> devs, pair |-> pair, link |-> link, opens |-> opens]

SetCore(s) ==
    /\ devs' = s.devs /\ pair' = s.pair /\ link' = s.link /\ opens' = s.opens

\* classify: the token of the request against the token of this bridge.
Authorized(token) == token = bridge

\* handle_connection for one well-formed request.  Opens are bounded.
Served(token, c) ==
    IF Authorized(token) THEN Handle(Core, c) ELSE Core

(* ---------------------------------------------- what the bridge does unasked *)

Event == events < MaxEvents /\ events' = events + 1

lifeVars == <<bridge, endpoint, starts>>
coreVars == <<devs, pair, link, opens>>

\* The relay accepted the pairing's registration.
Register ==
    /\ bridge # 0 /\ Live(pair) /\ ~pair.registered /\ link # "stopped"
    /\ pair' = [pair EXCEPT !.registered = TRUE]
    /\ UNCHANGED <<lifeVars, events, devs, link, opens>>

\* The third failed handshake spends the phrase.
Spend ==
    /\ Event /\ bridge # 0 /\ Live(pair) /\ pair.registered
    /\ pair' = [pair EXCEPT !.spent = TRUE]
    /\ UNCHANGED <<lifeVars, devs, link, opens>>

\* The pairing loop finds its phrase over and takes the pairing.
EndPairing ==
    /\ bridge # 0 /\ pair.id # 0 /\ ~Live(pair)
    /\ pair' = NoPair
    /\ UNCHANGED <<lifeVars, events, devs, link, opens>>

\* A phone pairs: DeviceStore::add moves a known device id to the end.
Enrol(d) ==
    /\ Event /\ bridge # 0 /\ Live(pair) /\ pair.registered /\ link # "stopped"
    /\ devs' = Append(SelectSeq(devs, LAMBDA e : e # d), d)
    /\ pair' = NoPair
    /\ link' = d
    /\ UNCHANGED <<lifeVars, opens>>

\* A session begins or ends, or the relay is lost.
Relink(l) ==
    /\ Event /\ bridge # 0 /\ link # "stopped" /\ l # link
    /\ l \in {"idle", "offline"} \cup ToSet(devs)
    /\ link' = l
    /\ UNCHANGED <<lifeVars, devs, pair, opens>>

\* Another client: herdr-relay ctl, or a Device's revoke_device.
OtherClient(c) ==
    /\ Event /\ bridge # 0 /\ endpoint = bridge
    /\ c \in Commands \ {Open, Close} /\ Accepts(Core, c)
    /\ SetCore(Handle(Core, c))
    /\ UNCHANGED lifeVars

Fresh == pair' = NoPair /\ link' = "idle" /\ UNCHANGED <<devs, opens>>

Crash ==
    /\ Event /\ bridge # 0
    /\ bridge' = 0 /\ Fresh
    /\ UNCHANGED <<endpoint, starts>>

\* shutdown ends with clear_endpoint.
Shutdown ==
    /\ Event /\ bridge # 0
    /\ bridge' = 0 /\ endpoint' = 0 /\ Fresh
    /\ UNCHANGED starts

\* start: bind, new token, write_endpoint, serve.
StartBridge ==
    /\ bridge = 0 /\ starts < MaxStarts
    /\ starts' = starts + 1 /\ bridge' = starts + 1 /\ endpoint' = starts + 1
    /\ UNCHANGED <<events, coreVars>>

BridgeStep ==
    \/ Register \/ Spend \/ EndPairing \/ Crash \/ Shutdown \/ StartBridge
    \/ \E d \in Devices : Enrol(d)
    \/ \E l \in {"idle", "offline"} \cup Devices : Relink(l)
    \/ \E c \in Commands : OtherClient(c)

=============================================================================
