------------------------------- MODULE Popup -------------------------------
(***************************************************************************)
(* The Host's pairing pane (crates/herdr-relay/src/popup.rs) as a client of  *)
(* the control transport.  run_loop draws, reloads when its cadence has      *)
(* elapsed, waits for a key and handles it; every call to the bridge is      *)
(* blocking, first reads state.json and then exchanges one line, and the     *)
(* bridge goes on meanwhile.                                                *)
(*                                                                         *)
(* Time is counted in ticks: a tick ages the bridge's phrase and runs the    *)
(* pane's own countdown, which starts at the answer's expires_in_s.          *)
(***************************************************************************)
EXTENDS Control, PopupLayout

CONSTANTS Sizes     \* terminal sizes a draw may find, <<columns, rows>>

VARIABLES
    pc,             \* "draw", "poll", "key", "call" or "quit"
    back,           \* where the loop goes on after its calls
    todo,           \* calls still to make
    token,          \* what read_endpoint returned for the call, or Unread
    snap,           \* App::status
    down,           \* App::bridge_down
    noticed,        \* App::expiry_noticed
    sel, confirm, notice, shown,
    table,          \* App::table_visible
    screen,         \* the pairing whose credential the last draw showed, or 0
    answered,       \* history: the question whose calls are being made
    closeLost       \* history: the close sent by q was not answered

paneVars == <<pc, back, todo, token, snap, down, noticed, sel, confirm, notice, shown,
              table, screen, answered, closeLost>>
popupVars == <<bridgeVars, paneVars>>

Unread == -1
NoSnap == [none |-> TRUE]
NoQuestion == [ask |-> "none", dev |-> None]

Call(c)     == [c |-> c, must |-> FALSE, note |-> FALSE]
Must(c)     == [c |-> c, must |-> TRUE, note |-> FALSE]
Reload      == Call(Status)
ReloadNoted == [c |-> Status, must |-> FALSE, note |-> TRUE]

\* The pane's and the bridge's state; the selection is a row of the list
\* (clamp_selection, popup.rs:496-503).
PopupTypeOK ==
    /\ ControlTypeOK
    /\ pc \in {"draw", "poll", "key", "call", "quit"} /\ back \in {"draw", "key", "quit"}
    /\ todo \in Seq([c : Commands, must : BOOLEAN, note : BOOLEAN])
    /\ (pc = "call") = (todo # <<>>)
    /\ token \in Unread..MaxStarts
    /\ snap = NoSnap \/
         /\ snap.devs \in Seq(Devices)
         /\ snap.id \in 0..MaxOpens /\ snap.left \in -1..Lifetime
         /\ sel = 0 \/ sel < Len(snap.devs)
    /\ notice \in {"none", "spent", "expired", "other"}
    /\ shown => notice # "none"

(* ------------------------------------------------------------------ view *)

SnapDevs == IF snap = NoSnap THEN <<>> ELSE snap.devs

Stopped == snap # NoSnap /\ snap.link = "stopped"

\* pairing_open, and pairing_view: its countdown may have run out.
PairingOpen == snap # NoSnap /\ snap.id # 0
PairingView ==
    IF ~PairingOpen \/ snap.left < 0 THEN "none"
    ELSE IF snap.registered THEN "credential" ELSE "registering"

\* Mutant: an answer without a pairing leaves the pane the one it had.
SnapOfKeepsPairing(s) ==
    LET kept == s.pair.id = 0 /\ PairingOpen IN
    [devs |-> s.devs, link |-> s.link,
     id |-> IF kept THEN snap.id ELSE s.pair.id,
     registered |-> IF kept THEN snap.registered ELSE s.pair.registered,
     left |-> IF kept THEN snap.left ELSE IF s.pair.id = 0 THEN 0 ELSE Max({Lifetime - s.pair.age, 0})]

\* The bridge's status as the pane keeps it; expires_in_s starts the countdown.
SnapOf(s) ==
    [devs |-> s.devs, id |-> s.pair.id, registered |-> s.pair.registered,
     left |-> IF s.pair.id = 0 THEN 0 ELSE Max({Lifetime - s.pair.age, 0}),
     link |-> s.link]

\* refresh_at: an answer without the pairing while the countdown still ran,
\* and with as many phones as before, is read as a spent phrase.
LooksSpent(new) ==
    /\ PairingOpen /\ PairingView # "none"
    /\ new.id = 0 /\ Len(new.devs) = Len(snap.devs)

ClampSelection(s, i) ==
    IF s.devs = <<>> THEN 0 ELSE Min({i, Len(s.devs) - 1})

(* ----------------------------------------------------------------- calls *)

\* refresh_at and send_command: what an answer does to the pane.
Digest(call, outcome, s) ==
    LET new == SnapOf(s) IN
    /\ IF outcome = "ok" /\ call.c = Status
       THEN /\ snap' = new /\ down' = FALSE
            /\ sel' = ClampSelection(new, sel)
       ELSE IF outcome = "down"
       THEN snap' = NoSnap /\ down' = TRUE /\ UNCHANGED sel
       ELSE IF call.c = Close /\ snap # NoSnap
       THEN snap' = [snap EXCEPT !.id = 0] /\ UNCHANGED <<down, sel>>
       ELSE UNCHANGED <<snap, down, sel>>
    /\ LET other == call.note \/ outcome \in {"error", "rejected"}
           spent == outcome = "ok" /\ call.c = Status /\ LooksSpent(new)
       IN  /\ notice' = IF other THEN "other" ELSE IF spent THEN "spent" ELSE notice
           /\ shown' = (shown /\ ~other /\ ~spent)     \* set_notice
    /\ todo' = IF outcome # "ok" /\ call.must THEN <<>> ELSE Tail(todo)
    /\ pc' = IF todo' = <<>> THEN back ELSE "call"
    /\ token' = Unread
    /\ closeLost' = (closeLost \/ (call.c = Close /\ outcome # "ok"))
    /\ answered' = IF todo' = <<>> THEN NoQuestion ELSE answered
    /\ UNCHANGED <<back, noticed, confirm, table, screen>>

\* request: read_endpoint, on its own.
ReadEndpoint ==
    /\ pc = "call" /\ token = Unread
    /\ token' = endpoint
    /\ UNCHANGED <<bridgeVars, pc, back, todo, snap, down, noticed, sel, confirm, notice,
                   shown, table, screen, answered, closeLost>>

\* request and read_reply against a bridge that listens at that port: the one
\* that published the endpoint, or a later one that was given the same port.
Exchange ==
    /\ pc = "call" /\ token > 0 /\ bridge # 0
    /\ LET call == Head(todo)
           s    == Served(token, call.c)
       IN  /\ SetCore(s)
           /\ Digest(call, IF token # bridge THEN "down"
                           ELSE IF Accepts(Core, call.c) THEN "ok" ELSE "rejected", s)
    /\ UNCHANGED <<lifeVars, events>>

\* No endpoint, or nobody listens there.
Refused ==
    /\ pc = "call" /\ token # Unread /\ (token = 0 \/ token # bridge)
    /\ Digest(Head(todo), "down", Core)
    /\ UNCHANGED bridgeVars

\* The connection fails or times out, before or after the command was handled;
\* or a stranger listens at a dead bridge's port.
Fault ==
    /\ Event /\ pc = "call" /\ token > 0
    /\ \/ UNCHANGED coreVars
       \/ /\ token = bridge
          /\ SetCore(Handle(Core, Head(todo).c))
    /\ Digest(Head(todo), "error", Core)
    /\ UNCHANGED lifeVars

(* ------------------------------------------------------------------ draw *)

Frame(size) ==
    [w |-> size[1], h |-> size[2], open |-> PairingOpen, view |-> PairingView,
     qr |-> 49, n |-> Len(SnapDevs), sel |-> sel,
     link |-> IF snap = NoSnap THEN "offline"
              ELSE IF snap.link \in Devices THEN "connected" ELSE snap.link,
     notice |-> FALSE, relay |-> <<25>>, phrase |-> <<6, 8, 6, 9, 8, 7>>]

Expiring == PairingOpen /\ PairingView = "none" /\ ~noticed

Draw(size) ==
    /\ pc = "draw"
    /\ LET old == IF shown THEN "none" ELSE notice
           new == IF Expiring THEN "expired" ELSE old
           f   == [Frame(size) EXCEPT !.notice = (new # "none")]
           normal == ~TooSmall(f) /\ confirm = NoQuestion /\ ~down /\ snap # NoSnap
       IN  /\ notice' = IF normal THEN new ELSE old
           /\ noticed' = (noticed \/ (normal /\ Expiring))
           /\ table' = IF normal THEN Regions(f).table
                       ELSE IF ~TooSmall(f) /\ confirm # NoQuestion THEN table ELSE FALSE
           /\ screen' = IF normal /\ PairingView = "credential" THEN snap.id ELSE 0
           /\ shown' = (notice' # "none")
    /\ pc' = "poll"
    /\ UNCHANGED <<bridgeVars, back, todo, token, snap, down, sel, confirm, answered,
                   closeLost>>

Begin(calls, then) == todo' = calls /\ back' = then /\ pc' = "call"

\* The reload of 500 ms or 2 s is due, or not yet.
PollDue ==
    /\ pc = "poll"
    /\ Begin(<<Reload>>, "key")
    /\ UNCHANGED <<bridgeVars, token, snap, down, noticed, sel, confirm, notice, shown, table,
                   screen, answered, closeLost>>

PollEarly ==
    /\ pc = "poll" /\ pc' = "key"
    /\ UNCHANGED <<bridgeVars, back, todo, token, snap, down, noticed, sel, confirm, notice,
                   shown, table, screen, answered, closeLost>>

(* ------------------------------------------------------------------ keys *)

\* Mutant: the confirmed removal takes the selected row.
ConfirmSelected(q) ==
    IF q.ask = "one"
    THEN <<Must(One(IF sel < Len(SnapDevs) THEN SnapDevs[sel + 1] ELSE q.dev)), ReloadNoted>>
    ELSE IF q.ask = "all" THEN <<Must(All), ReloadNoted>>
    ELSE <<Call(StopIt), Reload>>

\* confirm_action: the calls the answered question stands for.
ConfirmAction(q) ==
    IF q.ask = "one" THEN <<Must(One(q.dev)), ReloadNoted>>
    ELSE IF q.ask = "all" THEN <<Must(All), ReloadNoted>>
    ELSE <<Call(StopIt), Reload>>

AnswerQuestion ==
    /\ pc = "key" /\ confirm # NoQuestion
    /\ confirm' = NoQuestion
    /\ \/ Begin(ConfirmAction(confirm), "draw") /\ answered' = confirm
       \/ pc' = "draw" /\ UNCHANGED <<todo, back, answered>>
    /\ UNCHANGED <<bridgeVars, token, snap, down, noticed, sel, notice, shown, table,
                   screen, closeLost>>

MoveSelection(delta) ==
    IF ~table \/ SnapDevs = <<>> THEN sel
    ELSE Max({0, Min({sel + delta, Len(SnapDevs) - 1})})

\* d, r and s each ask; up, down and a key without a meaning do not call.
Ask ==
    \/ /\ table /\ sel < Len(SnapDevs)
       /\ confirm' = [ask |-> "one", dev |-> SnapDevs[sel + 1]]
    \/ /\ SnapDevs # <<>>
       /\ confirm' = [ask |-> "all", dev |-> None]
    \/ /\ ~Stopped
       /\ confirm' = [ask |-> "stop", dev |-> None]

LocalKey ==
    /\ pc = "key" /\ confirm = NoQuestion
    /\ pc' = "draw"
    /\ \/ \E delta \in {-1, 0, 1} : sel' = MoveSelection(delta) /\ UNCHANGED <<confirm, notice, shown>>
       \/ Ask /\ UNCHANGED <<sel, notice, shown>>
       \/ notice' = "other" /\ shown' = FALSE /\ UNCHANGED <<sel, confirm>>     \* c
    /\ UNCHANGED <<bridgeVars, back, todo, token, snap, down, noticed, table, screen, answered, closeLost>>

\* p, f, and q or esc while a pairing is open.
CallingKey ==
    /\ pc = "key" /\ confirm = NoQuestion
    /\ \/ opens < MaxOpens /\ Begin(<<Call(Open), Reload>>, "draw")
       \/ Begin(<<Reload>>, "draw")
       \/ PairingOpen /\ Begin(<<Call(Close)>>, "quit")
    /\ UNCHANGED <<bridgeVars, token, snap, down, noticed, sel, confirm, notice, shown, table,
                   screen, answered, closeLost>>

\* Mutant: q leaves without closing the pairing.
QuitAtOnce ==
    /\ pc = "key" /\ confirm = NoQuestion
    /\ pc' = "quit"
    /\ UNCHANGED <<bridgeVars, back, todo, token, snap, down, noticed, sel, confirm, notice,
                   shown, table, screen, answered, closeLost>>

Quit ==
    /\ pc = "key" /\ confirm = NoQuestion /\ ~PairingOpen
    /\ pc' = "quit"
    /\ UNCHANGED <<bridgeVars, back, todo, token, snap, down, noticed, sel, confirm, notice,
                   shown, table, screen, answered, closeLost>>

NoKey ==
    /\ pc = "key" /\ pc' = "draw"
    /\ UNCHANGED <<bridgeVars, back, todo, token, snap, down, noticed, sel, confirm, notice,
                   shown, table, screen, answered, closeLost>>

(* ------------------------------------------------------------------ time *)

\* One tick for the bridge's phrase and for the pane's countdown.
PopupTick ==
    /\ (bridge # 0 /\ pair.id # 0 /\ pair.age <= Lifetime) \/ (PairingOpen /\ snap.left >= 0)
    /\ pair' = IF pair.id # 0 THEN [pair EXCEPT !.age = Min({@ + 1, Lifetime + 1})] ELSE pair
    /\ snap' = IF PairingOpen THEN [snap EXCEPT !.left = Max({@ - 1, -1})] ELSE snap
    /\ UNCHANGED <<lifeVars, events, devs, link, opens, pc, back, todo, token, down,
                   noticed, sel, confirm, notice, shown, table, screen, answered,
                   closeLost>>

PopupInit ==
    /\ ControlInit
    /\ pc = "call" /\ back = "draw" /\ todo = <<Reload>> /\ token = Unread
    /\ snap = NoSnap /\ down = FALSE /\ noticed = FALSE /\ sel = 0
    /\ confirm = NoQuestion /\ notice = "none" /\ shown = FALSE /\ table = FALSE
    /\ screen = 0 /\ answered = NoQuestion /\ closeLost = FALSE

PaneStep ==
    \/ ReadEndpoint \/ Exchange \/ Refused \/ Fault
    \/ \E size \in Sizes : Draw(size)
    \/ PollDue \/ PollEarly \/ NoKey

KeyStep == AnswerQuestion \/ LocalKey \/ CallingKey \/ Quit

PopupNext ==
    \/ PaneStep \/ KeyStep \/ PopupTick
    \/ BridgeStep /\ UNCHANGED paneVars

\* The loop never stops by itself, and real time makes the reload due again
\* and again.  Keys, the bridge and faults are free to stay away.
Fairness == WF_popupVars(PaneStep) /\ SF_popupVars(PollDue)

PopupSpec == PopupInit /\ [][PopupNext]_popupVars /\ Fairness

(* ------------------------------------------------------------ properties *)

\* d then y removes the phone the question named, though the list may have
\* been reloaded and the selection moved while the question was up
\* (popup.rs:525-533, 580-605).
RemovesWhatItAsked ==
    pc = "call" /\ Head(todo).c.cmd = "revoke" =>
        answered = [ask |-> "one", dev |-> Head(todo).c.dev]

\* q ends the pairing whose credential the pane drew last, unless the bridge
\* did not answer the close (popup.rs:551-567).
QuitEndsShownPairing ==
    pc = "quit" /\ ~closeLost => screen = 0 \/ pair.id # screen \/ ~Live(pair)

\* What a key does is about what the pane shows: y removes the phone that was
\* asked about, q ends the pairing that was drawn.
KeysDoWhatTheyShow == RemovesWhatItAsked /\ QuitEndsShownPairing

\* When the bridge has settled, the pane ends up saying what is true: that it
\* is not running, or its link, its devices and its pairing; and a credential it
\* goes on drawing is the one of the pairing that is open (popup.rs:389-418,
\* 1208-1217, 1562-1596).
PaneConverges ==
    <>[](pc # "quit" =>
            /\ down = (bridge = 0)
            /\ bridge # 0 =>
                  /\ snap # NoSnap /\ snap.devs = devs /\ snap.link = link
                  /\ snap.id = pair.id /\ snap.registered = pair.registered
            /\ screen \in {0, pair.id})

(* What the document says and the code does not keep.                       *)

\* R-31-16-29, "The phone rows MUST scroll so the selected row is always drawn
\* [...] When the pane draws no phone row, [...] `d` MUST do nothing": refuted on a
\* terminal that has room for the table's header and for no row of it, since the
\* height the regions are chosen by counts none (popup.rs:1275-1306, 1425-1429).
SelectionIsDrawn ==
    [][pc = "draw" /\ confirm = NoQuestion /\ table' =>
          \E size \in Sizes :
              Draw(size) /\ RowDrawn([Frame(size) EXCEPT !.notice = (notice' # "none")], sel)]_popupVars

=============================================================================
