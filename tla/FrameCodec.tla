----------------------------- MODULE FrameCodec -----------------------------
(***************************************************************************)
(* frame_codec.rs: an envelope is compressed into a record, the record is  *)
(* cut into fragments, and the receiver puts it together again.  Bytes are *)
(* small numbers and the limits are scaled down; the header of a record is *)
(* its codec and one length byte (five bytes in the code), that of a       *)
(* fragment its index and the number of fragments.                         *)
(***************************************************************************)
EXTENDS Integers, Sequences

CONSTANTS
    MaxLen,      \* MAX_UNCOMPRESSED_LEN and MAX_FRAME_SIZE
    ChunkLen,    \* MAX_CHUNK_LEN
    FragCap,     \* MAX_FRAG_COUNT
    RecordCap,   \* MAX_COMPRESSED_RECORD_LEN
    Timeout      \* INTER_FRAGMENT_TIMEOUT

RecordHeader   == 2
FragmentHeader == 2

\* The record of a legal envelope fits the receiver's two limits, and more
\* fragments than that are accepted before the record's own limit is reached.
ASSUME CodecConstants ==
    /\ MaxLen \in Nat /\ ChunkLen \in Nat \ {0} /\ FragCap \in Nat /\ RecordCap \in Nat
    /\ Timeout \in Nat
    /\ MaxLen + RecordHeader <= RecordCap
    /\ RecordCap <= FragCap * ChunkLen

(***************************************************************************)
(* zlib stands for any compression that can be undone: here a sequence of  *)
(* runs, (byte, length) each.                                              *)
(***************************************************************************)
AddToRuns(runs, b) ==
    LET n == Len(runs)
    IN IF n > 0 /\ runs[n - 1] = b THEN [runs EXCEPT ![n] = @ + 1] ELSE runs \o <<b, 1>>

ZlibCompress(bytes) ==
    LET upTo[i \in 0..Len(bytes)] == IF i = 0 THEN <<>> ELSE AddToRuns(upTo[i - 1], bytes[i])
    IN upTo[Len(bytes)]

IsZlib(body) == Len(body) % 2 = 0

Unrun(out, i, body) == out \o [j \in 1..body[2*i] |-> body[2*i - 1]]

ZlibDecompress(body) ==
    LET upTo[i \in 0..(Len(body) \div 2)] == IF i = 0 THEN <<>> ELSE Unrun(upTo[i - 1], i, body)
    IN upTo[Len(body) \div 2]

(***************************************************************************)
(* Sending                                                                 *)
(***************************************************************************)
\* build_record, of an envelope that is not too large
BuildRecord(envelope) ==
    LET z == ZlibCompress(envelope)
    IN IF Len(z) < Len(envelope) THEN <<1, Len(envelope)>> \o z
                                 ELSE <<0, Len(envelope)>> \o envelope

Least(a, b) == IF a < b THEN a ELSE b

\* split_into_fragments
SplitIntoFragments(record) ==
    LET count == (Len(record) + ChunkLen - 1) \div ChunkLen
    IN [i \in 1..count |-> <<i - 1, count>> \o SubSeq(record, (i - 1) * ChunkLen + 1,
                                                       Least(i * ChunkLen, Len(record)))]

(***************************************************************************)
(* Receiving                                                               *)
(***************************************************************************)
NoPartial == [count |-> 0, next |-> 0, buffer |-> <<>>]

More(partial)  == [partial |-> partial,   out |-> <<>>,         why |-> "ok"]
Done(envelope) == [partial |-> NoPartial, out |-> <<envelope>>, why |-> "ok"]
Refuse(why)    == [partial |-> NoPartial, out |-> <<>>,         why |-> why]

\* bounded_zlib_decompress: the output is bounded, not only its declared length
BoundedDecompress(body) ==
    IF ~IsZlib(body) THEN Refuse("zlib")
    ELSE IF Len(ZlibDecompress(body)) > MaxLen THEN Refuse("bomb")
    ELSE Done(ZlibDecompress(body))

\* Mutant: the declared length is the only bound on the output.
DecodeTrusting(record) ==
    IF Len(record) < RecordHeader THEN Refuse("record")
    ELSE LET body == SubSeq(record, RecordHeader + 1, Len(record))
         IN IF record[2] > MaxLen THEN Refuse("declared")
            ELSE IF record[1] = 0 /\ Len(body) = record[2] THEN Done(body)
            ELSE IF record[1] = 1 /\ IsZlib(body) THEN Done(ZlibDecompress(body))
            ELSE Refuse("codec")

\* decode_record
DecodeRecord(record) ==
    IF Len(record) < RecordHeader THEN Refuse("record")
    ELSE LET body == SubSeq(record, RecordHeader + 1, Len(record))
         IN IF record[2] > MaxLen THEN Refuse("declared")
            ELSE IF record[1] = 0 THEN IF Len(body) = record[2] THEN Done(body) ELSE Refuse("length")
            ELSE IF record[1] = 1 THEN BoundedDecompress(body)
            ELSE Refuse("codec")

\* accept_fragment, when no record is in progress
FirstFragment(index, count, chunk) ==
    IF index # 0 THEN Refuse("index")
    ELSE IF count = 0 \/ count > FragCap THEN Refuse("count")
    ELSE IF Len(chunk) > RecordCap THEN Refuse("size")
    ELSE IF count = 1 THEN DecodeRecord(chunk)
    ELSE More([count |-> count, next |-> 1, buffer |-> chunk])

\* accept_fragment, when one is
NextFragment(partial, index, count, chunk) ==
    LET buffer == partial.buffer \o chunk
    IN IF count # partial.count THEN Refuse("count")
       ELSE IF index # partial.next THEN Refuse("index")
       ELSE IF Len(buffer) > RecordCap THEN Refuse("size")
       ELSE IF index = count - 1 THEN DecodeRecord(buffer)
       ELSE More([partial EXCEPT !.next = @ + 1, !.buffer = buffer])

\* Reassembler::accept_fragment; `quiet` is the time since the last fragment
AcceptFragment(partial, fragment, quiet) ==
    IF partial # NoPartial /\ quiet > Timeout THEN Refuse("late")
    ELSE IF Len(fragment) < FragmentHeader THEN Refuse("header")
    ELSE LET chunk == SubSeq(fragment, FragmentHeader + 1, Len(fragment))
         IN IF partial = NoPartial
            THEN FirstFragment(fragment[1], fragment[2], chunk)
            ELSE NextFragment(partial, fragment[1], fragment[2], chunk)
=============================================================================
