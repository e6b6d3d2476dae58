---------------------------- MODULE WireSession -----------------------------
(***************************************************************************)
(* One established session between the Host and a Device: serve_session's  *)
(* select loop, send_message, send_frame and receive_frame over the codec  *)
(* and the Noise transport.                                                *)
(*                                                                         *)
(* The loop does one thing at a time: while it sends a batch it does not   *)
(* read, and a record may then be half received.  The bridge thread queues *)
(* messages at any time.  The Device is faithful, or sits behind a relay   *)
(* that loses, repeats or swaps frames, or sends any fragments at all; the *)
(* Host's own messages are considered with the first.                      *)
(*                                                                         *)
(* An envelope is its sequence number followed by its body; the first byte *)
(* of a body is its kind.                                                  *)
(***************************************************************************)
EXTENDS FrameCodec, SequencesExt

CONSTANTS
    OutKinds,    \* kinds of the messages the bridge thread queues
    Fillers,     \* what may follow a message's kind and number
    InBodies,    \* bodies a Device sends
    StrayChunks, \* chunks of the fragments an arbitrary peer sends
    Peers,       \* kinds of peer to consider
    WireCap,     \* frames a socket buffers
    MaxOut, MaxIn, MaxStrays, MaxFaults

PaneA      == 1
PaneB      == 2
Answer     == 3
Status     == 4
Pong       == 5
Fatal      == 6
Request    == 7
Ping       == 8
Disconnect == 9
Malformed  == 0
Panes == {PaneA, PaneB}

\* Bytes are numbers, and a Device sends no envelope above the limit.
ASSUME WireConstants ==
    /\ OutKinds \subseteq {PaneA, PaneB, Answer, Status}
    /\ Fillers \subseteq Seq(Nat) /\ StrayChunks \subseteq Seq(Nat) /\ InBodies \subseteq Seq(Nat)
    /\ \A b \in InBodies : Len(b) > 0 /\ Len(b) < MaxLen
    /\ WireCap \in Nat /\ MaxOut \in Nat /\ MaxIn \in Nat /\ MaxStrays \in Nat /\ MaxFaults \in Nat
    /\ Peers \subseteq {"faithful", "relay", "any"}

VARIABLES
    (* the Host's loop *)
    pc,        \* "select", "send" or "closed"
    after,     \* what follows the batch
    outq,      \* out_rx
    batch,     \* messages of the batch not yet encoded
    pending,   \* ciphertexts of the message being sent
    seq,       \* SequenceCounter
    sendNonce, recvNonce,
    partial,   \* Reassembler
    quiet,     \* time since the last fragment was read
    why,       \* why a fragment was refused
    (* the two directions *)
    down, up,
    (* the Device *)
    peer, devPending, devNonce, devReadNonce, devPartial, devQuiet, devWhy,
    (* history *)
    made,      \* messages queued by the bridge thread
    sent,      \* envelopes the Host encoded
    got,       \* envelopes the Host read
    said,      \* envelopes the Device encoded
    read,      \* envelopes the Device read
    tardy,     \* the Device let more than Timeout pass within a record
    strays, faults

loop    == <<pc, after, outq, batch, pending, seq, sendNonce>>
reader  == <<recvNonce, partial, quiet, why, got>>
devOut  == <<devPending, devNonce, devQuiet, said, tardy, strays>>
devIn   == <<devReadNonce, devPartial, devWhy, read>>
vars    == <<loop, reader, devOut, devIn, down, up, peer, made, sent, faults>>

Init ==
    /\ pc = "select" /\ after = "select" /\ outq = <<>> /\ batch = <<>> /\ pending = <<>>
    /\ seq = 0 /\ sendNonce = 0 /\ recvNonce = 0
    /\ partial = NoPartial /\ quiet = 0 /\ why = "ok"
    /\ down = <<>> /\ up = <<>>
    /\ peer \in Peers
    /\ devPending = <<>> /\ devNonce = 0 /\ devReadNonce = 0
    /\ devPartial = NoPartial /\ devQuiet = 0 /\ devWhy = "ok"
    /\ made = <<>> /\ sent = <<>> /\ got = <<>> /\ said = <<>> /\ read = <<>>
    /\ tardy = FALSE /\ strays = 0 /\ faults = 0

\* Frame::wrap, with the number SequenceCounter::advance returns
Envelope(n, body) == <<n>> \o body
TooLarge(envelope) == Len(envelope) > MaxLen

\* Frame::message
Kind(body) == body[1]
Body(envelope) == Tail(envelope)
Parses(envelope) == Len(envelope) > 1 /\ ~TooLarge(envelope)

(***************************************************************************)
(* Noise: a ciphertext is its nonce and its plaintext; one whose nonce is  *)
(* not the next does not decrypt.                                          *)
(***************************************************************************)
Encrypt(nonce, fragments) ==
    [i \in 1..Len(fragments) |-> [nonce |-> nonce + i, plain |-> fragments[i]]]

\* Mutant: any ciphertext of the session decrypts.
DecryptsAlways(nonce, frame) == TRUE

Decrypts(nonce, frame) == frame.nonce = nonce + 1

\* decode_fragment
DecodeFragment(state, nonce, frame, age) ==
    IF Decrypts(nonce, frame) THEN AcceptFragment(state, frame.plain, age) ELSE Refuse("noise")

(***************************************************************************)
(* The bridge thread                                                       *)
(***************************************************************************)
Produce ==
    /\ peer = "faithful" /\ pc # "closed" /\ Len(made) < MaxOut
    /\ \E kind \in OutKinds, fill \in Fillers :
        LET m == <<kind, Len(made) + 1>> \o fill
        IN made' = Append(made, m) /\ outq' = Append(outq, m)
    /\ UNCHANGED <<pc, after, batch, pending, seq, sendNonce, reader, devOut, devIn, down, up, peer, sent, faults>>

(***************************************************************************)
(* The Host sends                                                          *)
(***************************************************************************)
Coalesced(queue, i) == Kind(queue[i]) \in Panes /\ \E j \in (i + 1)..Len(queue) : Kind(queue[j]) = Kind(queue[i])

\* The messages of a queue but those at some of its places.
Without(queue, places) ==
    LET upTo[i \in 0..Len(queue)] ==
            IF i = 0 THEN <<>>
            ELSE IF i \in places THEN upTo[i - 1] ELSE Append(upTo[i - 1], queue[i])
    IN upTo[Len(queue)]

\* Mutant: the oldest frame of a pane is kept, not the newest.
DrainOldest(queue) ==
    Without(queue, {i \in 1..Len(queue) :
                        Kind(queue[i]) \in Panes /\ \E j \in 1..(i - 1) : Kind(queue[j]) = Kind(queue[i])})

\* drain_outgoing: of the queued frames of a pane only the newest is sent
DrainOutgoing(queue) == Without(queue, {i \in 1..Len(queue) : Coalesced(queue, i)})

SendBatch(messages, next) ==
    /\ batch' = messages /\ after' = next
    /\ pc' = "send"

\* The batch is abandoned: within the loop that ends the session, on the way
\* out the close goes ahead.
Abandon ==
    /\ batch' = <<>>
    /\ pc' = IF after = "select" THEN "closed" ELSE "send"

\* Mutant: every fragment takes a number.
EncodeCountingFragments ==
    /\ pc = "send" /\ pending = <<>> /\ batch # <<>>
    /\ LET envelope == Envelope(seq + 1, Head(batch))
           frames   == Encrypt(sendNonce, SplitIntoFragments(BuildRecord(envelope)))
       IN /\ seq' = seq + Len(frames)
          /\ IF TooLarge(envelope)
             THEN Abandon /\ UNCHANGED <<pending, sendNonce, sent>>
             ELSE /\ batch' = Tail(batch) /\ pc' = pc
                  /\ pending' = frames /\ sendNonce' = sendNonce + Len(frames)
                  /\ sent' = Append(sent, envelope)
    /\ UNCHANGED <<after, outq, reader, devOut, devIn, down, up, peer, made, faults>>

\* send_message, up to the first await: the number is taken, the size checked,
\* and every fragment encrypted.
Encode ==
    /\ pc = "send" /\ pending = <<>> /\ batch # <<>>
    /\ seq' = seq + 1
    /\ LET envelope == Envelope(seq + 1, Head(batch))
           frames   == Encrypt(sendNonce, SplitIntoFragments(BuildRecord(envelope)))
       IN IF TooLarge(envelope)
          THEN Abandon /\ UNCHANGED <<pending, sendNonce, sent>>
          ELSE /\ batch' = Tail(batch) /\ pc' = pc
               /\ pending' = frames /\ sendNonce' = sendNonce + Len(frames)
               /\ sent' = Append(sent, envelope)
    /\ UNCHANGED <<after, outq, reader, devOut, devIn, down, up, peer, made, faults>>

\* Mutant: a socket that is full ends the message, not the session.
SendFragmentOrDrop ==
    /\ pc = "send" /\ pending # <<>>
    /\ \/ Len(down) < WireCap /\ down' = Append(down, Head(pending)) /\ pending' = Tail(pending)
       \/ Len(down) = WireCap /\ down' = down /\ pending' = <<>>
    /\ UNCHANGED <<pc, after, outq, batch, seq, sendNonce, reader, devOut, devIn, up, peer, made, sent, faults>>

\* send_frame: the next fragment, once the socket takes it
SendFragment ==
    /\ pc = "send" /\ pending # <<>> /\ Len(down) < WireCap
    /\ down' = Append(down, Head(pending))
    /\ pending' = Tail(pending)
    /\ UNCHANGED <<pc, after, outq, batch, seq, sendNonce, reader, devOut, devIn, up, peer, made, sent, faults>>

\* The batch is out: back to the select, the fatal error of a revoked session,
\* or the close.
BatchSent ==
    /\ pc = "send" /\ pending = <<>> /\ batch = <<>>
    /\ \/ after = "select" /\ pc' = "select" /\ UNCHANGED <<after, batch>>
       \/ after = "fatal" /\ SendBatch(<< <<Fatal, 0>> >>, "close")
       \/ after = "close" /\ pc' = "closed" /\ UNCHANGED <<after, batch>>
    /\ UNCHANGED <<outq, pending, seq, sendNonce, reader, devOut, devIn, down, up, peer, made, sent, faults>>

(***************************************************************************)
(* The branches of the select                                              *)
(***************************************************************************)
\* receive_frame with one fragment, and the dispatch of the envelope it
\* completes.  Nothing else of the loop touches the reassembler.
Receive ==
    /\ pc = "select" /\ up # <<>>
    /\ LET r == DecodeFragment(partial, recvNonce, Head(up), quiet)
       IN /\ partial' = r.partial /\ why' = r.why
          /\ got' = got \o r.out
          /\ IF r.why # "ok" THEN pc' = "closed" /\ UNCHANGED <<after, batch, outq>>
             ELSE IF r.out = <<>> THEN UNCHANGED <<pc, after, batch, outq>>
             ELSE LET kind == IF Parses(r.out[1]) THEN Kind(Body(r.out[1])) ELSE Malformed
                  IN \/ kind = Ping /\ SendBatch(<< <<Pong, 0>> >>, "select") /\ UNCHANGED outq
                     \/ kind = Disconnect /\ SendBatch(DrainOutgoing(outq), "close") /\ outq' = <<>>
                     \/ kind = Malformed /\ pc' = "closed" /\ UNCHANGED <<after, batch, outq>>
                     \/ kind \notin {Ping, Disconnect, Malformed} /\ UNCHANGED <<pc, after, batch, outq>>
    /\ up' = Tail(up) /\ recvNonce' = recvNonce + 1 /\ quiet' = 0
    /\ UNCHANGED <<pending, seq, sendNonce, devOut, devIn, down, peer, made, sent, faults>>

\* Mutant: the reassembler belongs to the future that the other branch drops.
OutgoingDropsPartial ==
    /\ pc = "select" /\ outq # <<>>
    /\ SendBatch(DrainOutgoing(outq), "select") /\ outq' = <<>>
    /\ partial' = NoPartial
    /\ UNCHANGED <<pending, seq, sendNonce, recvNonce, quiet, why, got, devOut, devIn, down, up, peer, made, sent, faults>>

\* out_rx.recv
Outgoing ==
    /\ pc = "select" /\ outq # <<>>
    /\ SendBatch(DrainOutgoing(outq), "select") /\ outq' = <<>>
    /\ UNCHANGED <<pending, seq, sendNonce, reader, devOut, devIn, down, up, peer, made, sent, faults>>

\* Mutant: the fatal error goes first.
RevokedFirst ==
    /\ peer = "faithful" /\ pc = "select"
    /\ SendBatch(<< <<Fatal, 0>> >> \o DrainOutgoing(outq), "close") /\ outq' = <<>>
    /\ UNCHANGED <<pending, seq, sendNonce, reader, devOut, devIn, down, up, peer, made, sent, faults>>

\* close_rx of a revocation: what is queued, then the fatal error, then 4004
Revoked ==
    /\ peer = "faithful" /\ pc = "select"
    /\ SendBatch(DrainOutgoing(outq), "fatal") /\ outq' = <<>>
    /\ UNCHANGED <<pending, seq, sendNonce, reader, devOut, devIn, down, up, peer, made, sent, faults>>

\* stop_rx.changed
Stop ==
    /\ peer = "faithful" /\ pc = "select"
    /\ SendBatch(DrainOutgoing(outq), "close") /\ outq' = <<>>
    /\ UNCHANGED <<pending, seq, sendNonce, reader, devOut, devIn, down, up, peer, made, sent, faults>>

(***************************************************************************)
(* The Device, the relay and time                                          *)
(***************************************************************************)
\* The Device encodes an envelope ...
DeviceEncode ==
    /\ peer # "any" /\ pc # "closed" /\ devPending = <<>> /\ Len(said) < MaxIn
    /\ \E body \in InBodies :
        LET envelope == Envelope(Len(said) + 1, body)
            frames   == Encrypt(devNonce, SplitIntoFragments(BuildRecord(envelope)))
        IN /\ said' = Append(said, envelope)
           /\ devPending' = frames /\ devNonce' = devNonce + Len(frames)
    /\ devQuiet' = 0
    /\ UNCHANGED <<tardy, strays, loop, reader, devIn, down, up, peer, made, sent, faults>>

\* ... and its fragments arrive at the Host one by one.
DevicePut ==
    /\ devPending # <<>> /\ pc # "closed" /\ Len(up) < WireCap
    /\ up' = Append(up, Head(devPending)) /\ devPending' = Tail(devPending)
    /\ tardy' = (tardy \/ devQuiet > Timeout)
    /\ devQuiet' = 0
    /\ UNCHANGED <<devNonce, said, strays, loop, reader, devIn, down, peer, made, sent, faults>>

\* A peer that sends any fragment.
Stray ==
    /\ peer = "any" /\ pc # "closed" /\ strays < MaxStrays /\ Len(up) < WireCap
    /\ \E index, count \in 0..(FragCap + 1), chunk \in StrayChunks :
        \E plain \in {<<index>>, <<index, count>> \o chunk} :
            up' = Append(up, [nonce |-> devNonce + 1, plain |-> plain])
    /\ devNonce' = devNonce + 1 /\ strays' = strays + 1
    /\ UNCHANGED <<devPending, devQuiet, said, tardy, loop, reader, devIn, down, peer, made, sent, faults>>

\* A relay that loses, repeats or swaps frames.
Mangle ==
    /\ peer = "relay" /\ faults < MaxFaults /\ up # <<>>
    /\ \/ up' = Tail(up)
       \/ up' = <<Head(up)>> \o up
       \/ Len(up) > 1 /\ up' = [up EXCEPT ![1] = up[2], ![2] = up[1]]
    /\ faults' = faults + 1
    /\ UNCHANGED <<loop, reader, devOut, devIn, down, peer, made, sent>>

\* The Device reads a frame; it stops at the first one it cannot use.
DeviceReceive ==
    /\ devWhy = "ok" /\ down # <<>>
    /\ LET r == DecodeFragment(devPartial, devReadNonce, Head(down), 0)
       IN devPartial' = r.partial /\ devWhy' = r.why /\ read' = read \o r.out
    /\ down' = Tail(down) /\ devReadNonce' = devReadNonce + 1
    /\ UNCHANGED <<loop, reader, devOut, up, peer, made, sent, faults>>

\* The connection is lost, with what the Device has not read yet.
Lost ==
    /\ pc # "closed"
    /\ pc' = "closed" /\ down' = <<>>
    /\ UNCHANGED <<after, outq, batch, pending, seq, sendNonce, reader, devOut, devIn, up, peer, made, sent, faults>>

Later(t) == IF t > Timeout THEN t ELSE t + 1

\* Time passes while the loop waits for a frame, or for the socket to take one.
Tick ==
    /\ \/ pc = "select" /\ up = <<>>
       \/ pc = "send" /\ pending # <<>> /\ Len(down) = WireCap
    /\ quiet' = IF partial = NoPartial THEN 0 ELSE Later(quiet)
    /\ devQuiet' = IF devPending = <<>> THEN 0 ELSE Later(devQuiet)
    /\ UNCHANGED <<loop, recvNonce, partial, why, got, devPending, devNonce, said, tardy, strays,
                   devIn, down, up, peer, made, sent, faults>>

Next ==
    \/ Produce \/ Encode \/ SendFragment \/ BatchSent
    \/ Receive \/ Outgoing \/ Revoked \/ Stop
    \/ DeviceEncode \/ DevicePut \/ Stray \/ Mangle \/ DeviceReceive
    \/ Lost \/ Tick

Spec == Init /\ [][Next]_vars

-----------------------------------------------------------------------------
\* Every variable holds a value of its kind, and what is half received is part
\* of a record that is not complete.
TypeOK ==
    /\ pc \in {"select", "send", "closed"} /\ after \in {"select", "fatal", "close"}
    /\ partial # NoPartial => partial.next \in 1..(partial.count - 1) /\ partial.count \in 2..FragCap
    /\ quiet \in 0..(Timeout + 1) /\ devQuiet \in 0..(Timeout + 1)
    /\ Len(down) <= WireCap /\ Len(up) <= WireCap + MaxFaults
    /\ seq \in Nat /\ sendNonce \in Nat /\ recvNonce \in Nat
    /\ tardy \in BOOLEAN

\* What the Device reads is what the Host sent: whole envelopes, in order, and
\* none that the Device cannot put together, whatever the sizes of the
\* messages and wherever the session ended (connection.rs:304-316,
\* frame_codec.rs:195-230, R-11-237).
DeviceReadsWhatWasSent == devWhy = "ok" /\ IsPrefix(read, sent)

\* The numbers the Device sees rise by one while the session goes on; a message
\* that proves too large has taken its number and ends the session, so the fatal
\* error that a revoked session is still sent may be one number further
\* (bridge.rs:1798-1813, 1655-1680).
SkipsOnlyBeforeFatal ==
    \A i \in 1..Len(sent) :
        \/ sent[i][1] = i
        \/ sent[i][1] = i + 1 /\ Kind(Body(sent[i])) = Fatal /\ i = Len(sent)

\* A frame is left out only for a newer one of its pane: an answer or a status
\* is never left out, and when nothing is queued the Device is being sent the
\* newest frame of every pane (bridge.rs:1879-1895).
NothingStale ==
    LET out == {Body(sent[i]) : i \in 1..Len(sent)}
    IN pc = "select" /\ outq = <<>> =>
        \A i \in 1..Len(made) :
            made[i] \in out \/ \E j \in (i + 1)..Len(made) : Kind(made[i]) \in Panes /\ Kind(made[j]) = Kind(made[i])

\* R-11-237: towards the Device, nothing is lost, cut or left out for something
\* older, and the numbers tell what was sent.
OutgoingIsFaithful == DeviceReadsWhatWasSent /\ SkipsOnlyBeforeFatal /\ NothingStale

\* The fatal error of a revoked session is the last frame the Device reads
\* (bridge.rs:1646-1680: "the fatal error MUST be the last frame", R-11-065).
FatalIsLast == \A i \in 1..Len(read) : Kind(Body(read[i])) = Fatal => i = Len(sent)

\* The Host acts only on envelopes the Device sent, whole and in order, even
\* behind a relay that loses, repeats or swaps frames (frame_codec.rs:357-365,
\* noise.rs:150-156).
HostReadsWhatWasSaid == peer # "any" => IsPrefix(got, said)

\* A faithful Device's fragments are refused for no reason but the time that
\* passed, although the loop leaves the half-received record for other work
\* (bridge.rs:1582-1645, connection.rs:323-347).
FaithfulPeerKept == peer = "faithful" => why \in {"ok", "late"}

\* Whatever is sent, the Host buffers no more than the largest record and takes
\* no envelope above the limit (frame_codec.rs:265-350, R-11-234, R-11-236).
BufferBounded ==
    /\ Len(partial.buffer) <= RecordCap
    /\ \A i \in 1..Len(got) : Len(got[i]) <= MaxLen

\* R-11-234 to R-11-238: from the Device, whatever the relay between them does,
\* the Host takes what was said and no more than it may buffer, and it refuses
\* nothing of a faithful Device but what came too late.
IncomingIsFaithful == HostReadsWhatWasSaid /\ FaithfulPeerKept /\ BufferBounded

\* A record is refused as late only when its next fragment did not arrive in
\* time (frame_codec.rs:275: "no fragment arrived within 10 seconds of the
\* previous one", R-11-238).
LateMeansLate == peer = "faithful" /\ why = "late" => tardy

\* R-11-033, "MUST increment by `1` on every frame a sender sends": refuted by the
\* fatal error behind a message that proved too large.
NumbersAreConsecutive == \A i \in 1..Len(sent) : sent[i][1] = i

\* R-11-036 and codes.rs:120, "Frame exceeds 1 MiB. Raised by both peers. Not
\* fatal": refuted, since the Host's loop ends with the send that fails.
OversizedIsNotFatal ==
    [][seq' = seq + 1 /\ TooLarge(Envelope(seq', Head(batch))) => pc' # "closed"]_vars

=============================================================================
