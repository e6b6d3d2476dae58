---------------------------- MODULE MCHubQueues ----------------------------
(* HubRooms with a Host and a Device that do as they like, until a second     *)
(* Host takes the handle over, and a second Device joins it, while one of    *)
(* the old connections is still open.  From then on the instance is small:   *)
(* nobody stalls, closes with a code or is refused, and of the old room only *)
(* the Device sends a frame.  The bounds are on what clients do (Few); what  *)
(* a task does by itself is never held back.                                *)
EXTENDS HubRooms

CONSTANT Later   \* bound: connections that arrive after all others

Arrives(c) == phase[c] = "idle" /\ phase'[c] # "idle"

Came == \E h \in Hosts \cap Later : phase[h] # "idle"

InTurn ==
    \A c \in Later : Arrives(c) =>
        /\ phase'[c] = "running"
        /\ c \in Devices => Came
        /\ \A d \in Conns \ Later : phase[d] # "idle"

Plain ==
    /\ \A c \in Conns : peerClose[c] = "none" /\ ~stalled[c] /\ phase[c] # "refusing"
    /\ \A c \in Hosts \ Later : sent[c] = 0
    /\ \A c \in Devices \ Later : sent[c] <= 1

Few ==
    /\ \A h \in Handles : window'[h] = "none"
    /\ InTurn
    /\ Came' => Plain'
    /\ Came' /\ ~Came => lost = {} /\ \E c \in Conns : Open(c)
    /\ Came => /\ \A c \in Conns : ~RejectConnection(c)
               /\ \A c \in Later \cap Devices : ~PeerLost(c)

FewNext ==
    \/ \E c \in Conns : Task(c)
    \/ \E c \in Conns : Client(c) /\ Few

FewSpec == Init /\ [][FewNext]_vars /\ \A c \in Conns : WF_vars(Task(c))
=============================================================================
