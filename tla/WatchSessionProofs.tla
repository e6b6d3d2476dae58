------------------------- MODULE WatchSessionProofs -------------------------
(***************************************************************************)
(* Proofs about the thread's watch.                                          *)
(*                                                                         *)
(* WatchSession, for any panes, submits and bounds: a held                   *)
(* submit is the watched pane's and something that will come decides it; the *)
(* Device is answered completely, truly and in order; a session that closes  *)
(* in good order has answered everything.                                    *)
(*                                                                         *)
(* The answers are proved with a book kept of the submits: those waiting to  *)
(* be taken, the one held, and those typed, against the log of everything    *)
(* said or about to be said.  Each step of the thread either leaves the book *)
(* alone or makes one or two entries in it (Queue, Settle).                  *)
(*                                                                         *)
(* PaneScheduler, the schedule of the reads of one watched pane, for every   *)
(* window, poll period, set of input offsets, cap, lateness and clock.       *)
(***************************************************************************)
EXTENDS WatchSession, PaneScheduler, SequenceTheorems, TLAPS

-----------------------------------------------------------------------------
(* Logs of replies.                                                         *)

\* Between two "queued" of a log, the first is decided.
OneAtATime(log) ==
    \A i, j \in 1..Len(log) :
        i < j /\ log[i].kind = "queued" /\ log[j].kind = "queued" =>
            \E k \in 1..Len(log) : i < k /\ k < j /\ log[k].corr = log[i].corr

\* A log the Device can follow.
Readable(log) == InOrder(log) /\ OneAtATime(log)

\* What an entry adds to what is said of its submit, and of the others.
LEMMA KindsAppend ==
    ASSUME NEW L \in Seq(Reply), NEW r \in Reply, NEW c
    PROVE  KindsIn(Append(L, r), c)
             = IF r.corr = c THEN KindsIn(L, c) \cup {r.kind} ELSE KindsIn(L, c)
<1>1. /\ Len(Append(L, r)) = Len(L) + 1
      /\ Len(L) \in Nat
      /\ \A i \in 1..Len(L) : Append(L, r)[i] = L[i]
      /\ Append(L, r)[Len(L) + 1] = r
  OBVIOUS
<1>2. \A k : k \in KindsIn(Append(L, r), c)
               <=> \E i \in 1..Len(L) + 1 : /\ Append(L, r)[i].corr = c
                                            /\ Append(L, r)[i].kind = k
  BY <1>1 DEF KindsIn
<1>3. \A k : k \in KindsIn(L, c)
               <=> \E i \in 1..Len(L) : L[i].corr = c /\ L[i].kind = k
  BY DEF KindsIn
<1>4. \A k : k \in KindsIn(Append(L, r), c)
               <=> k \in KindsIn(L, c) \/ (r.corr = c /\ r.kind = k)
  BY <1>1, <1>2, <1>3
<1>. QED
  BY <1>4

\* An entry keeps a log readable if it is the first said of its submit and no
\* other submit is held, or if its submit was at most said to be queued.
LEMMA ReadableAppend ==
    ASSUME NEW L \in Seq(Reply), NEW r \in Reply, Readable(L),
           r.kind = "queued" => /\ KindsIn(L, r.corr) = {}
                                /\ \A c \in Submits : KindsIn(L, c) # {"queued"},
           r.kind # "queued" => KindsIn(L, r.corr) \subseteq {"queued"}
    PROVE  Readable(Append(L, r))
<1>. DEFINE M == Append(L, r)
<1>1. /\ Len(M) = Len(L) + 1 /\ Len(L) \in Nat
      /\ \A i \in 1..Len(L) : M[i] = L[i] /\ L[i] \in Reply
      /\ M[Len(L) + 1] = r
  OBVIOUS
<1>2. \A i \in 1..Len(L) : L[i].kind \in KindsIn(L, L[i].corr)
  BY DEF KindsIn
<1>. HIDE DEF M
<1>3. InOrder(M)
  <2>. SUFFICES ASSUME NEW i \in 1..Len(M), NEW j \in 1..Len(M), i < j,
                       M[i].corr = M[j].corr
                PROVE  M[i].kind = "queued" /\ M[j].kind # "queued"
    BY DEF InOrder
  <2>1. CASE j \in 1..Len(L)
    BY <1>1, <2>1 DEF Readable, InOrder
  <2>2. CASE j = Len(L) + 1
    <3>1. i \in 1..Len(L) /\ M[i] = L[i] /\ L[i].corr = r.corr /\ M[j] = r
      BY <1>1, <2>2
    <3>. QED
      BY <1>2, <3>1
  <2>. QED
    BY <1>1, <2>1, <2>2
<1>4. OneAtATime(M)
  <2>. SUFFICES ASSUME NEW i \in 1..Len(M), NEW j \in 1..Len(M), i < j,
                       M[i].kind = "queued", M[j].kind = "queued"
                PROVE  \E k \in 1..Len(M) : i < k /\ k < j /\ M[k].corr = M[i].corr
    BY DEF OneAtATime
  <2>1. CASE j \in 1..Len(L)
    <3>1. i \in 1..Len(L) /\ L[i].kind = "queued" /\ L[j].kind = "queued"
      BY <1>1, <2>1
    <3>2. PICK k \in 1..Len(L) : i < k /\ k < j /\ L[k].corr = L[i].corr
      BY <2>1, <3>1 DEF Readable, OneAtATime
    <3>. QED
      BY <1>1, <3>1, <3>2
  <2>2. CASE j = Len(L) + 1
    <3>1. i \in 1..Len(L) /\ M[i] = L[i] /\ r.kind = "queued" /\ L[i] \in Reply
      BY <1>1, <2>2
    <3>2. L[i].corr \in Submits /\ KindsIn(L, L[i].corr) # {"queued"}
      BY <3>1 DEF Reply
    <3>3. "queued" \in KindsIn(L, L[i].corr)
      BY <1>2, <3>1
    <3>4. PICK k \in 1..Len(L) : L[k].corr = L[i].corr /\ L[k].kind # "queued"
      BY <3>2, <3>3 DEF KindsIn
    <3>5. i < k
      <4>1. i # k
        BY <3>1, <3>4
      <4>2. ~(k < i)
        BY <1>1, <3>1, <3>4 DEF Readable, InOrder
      <4>. QED
        BY <1>1, <3>1, <4>1, <4>2
    <3>. QED
      BY <1>1, <2>2, <3>1, <3>4, <3>5
  <2>. QED
    BY <1>1, <2>1, <2>2
<1>. QED
  BY <1>3, <1>4 DEF Readable, M

\* What was sent of a readable log is readable.
LEMMA ReadablePrefix ==
    ASSUME NEW L \in Seq(Reply), NEW N \in Seq(Reply), Readable(L \o N)
    PROVE  Readable(L)
<1>1. /\ Len(L \o N) = Len(L) + Len(N) /\ Len(L) \in Nat /\ Len(N) \in Nat
      /\ \A i \in 1..Len(L) : i \in 1..Len(L \o N) /\ (L \o N)[i] = L[i]
  BY ConcatProperties
<1>2. InOrder(L)
  BY <1>1 DEF Readable, InOrder
<1>3. OneAtATime(L)
  <2>. SUFFICES ASSUME NEW i \in 1..Len(L), NEW j \in 1..Len(L), i < j,
                       L[i].kind = "queued", L[j].kind = "queued"
                PROVE  \E k \in 1..Len(L) : i < k /\ k < j /\ L[k].corr = L[i].corr
    BY DEF OneAtATime
  <2>1. PICK k \in 1..Len(L \o N) : i < k /\ k < j /\ (L \o N)[k].corr = (L \o N)[i].corr
    BY <1>1 DEF Readable, OneAtATime
  <2>. QED
    BY <1>1, <2>1
<1>. QED
  BY <1>2, <1>3 DEF Readable

\* In a readable log at most one submit is queued and not decided.
LEMMA ReadableHoldsOne ==
    ASSUME NEW L \in Seq(Reply), Readable(L), NEW c, NEW d,
           KindsIn(L, c) = {"queued"}, KindsIn(L, d) = {"queued"}
    PROVE  c = d
<1>1. PICK i \in 1..Len(L) : L[i].corr = c /\ L[i].kind = "queued"
  BY DEF KindsIn
<1>2. PICK j \in 1..Len(L) : L[j].corr = d /\ L[j].kind = "queued"
  BY DEF KindsIn
<1>3. \A k \in 1..Len(L) : L[k].kind \in KindsIn(L, L[k].corr)
  BY DEF KindsIn
<1>4. ASSUME NEW x \in 1..Len(L), NEW y \in 1..Len(L), x < y,
             L[x].kind = "queued", L[y].kind = "queued",
             KindsIn(L, L[x].corr) = {"queued"}
      PROVE  FALSE
  <2>1. PICK k \in 1..Len(L) : x < k /\ k < y /\ L[k].corr = L[x].corr
    BY <1>4 DEF Readable, OneAtATime
  <2>2. L[k].kind # "queued"
    BY <1>4, <2>1 DEF Readable, InOrder
  <2>. QED
    BY <1>3, <1>4, <2>1, <2>2
<1>5. Len(L) \in Nat
  OBVIOUS
<1>6. i = j
  BY <1>1, <1>2, <1>4, <1>5
<1>. QED
  BY <1>1, <1>2, <1>6

-----------------------------------------------------------------------------
(* The book: a submit of W waits to be taken, one of H is held, one of D was *)
(* typed; the log L says nothing of the first, "queued" of the second, and   *)
(* of every other how it ended.                                              *)

Apart(W, H, D) == W \cap H = {} /\ W \cap D = {} /\ H \cap D = {}

Says(L, W, H, D) == \A c \in Submits :
    /\ c \in W => KindsIn(L, c) = {}
    /\ c \in H => KindsIn(L, c) = {"queued"}
    /\ c \notin W \cup H => KindsIn(L, c) \cap {"accepted", "refused"} # {}
    /\ c \notin W \cup H => (c \in D <=> "accepted" \in KindsIn(L, c))

Book(L, W, H, D) == Readable(L) /\ Says(L, W, H, D)

\* Logs one after another.
LEMMA Chained ==
    ASSUME NEW L \in Seq(Reply), NEW N \in Seq(Reply), NEW O \in Seq(Reply)
    PROVE  (L \o N) \o O = L \o (N \o O)
  BY ConcatAssociative

\* Entries one after another.
LEMMA Entries ==
    ASSUME NEW L \in Seq(Reply), NEW N \in Seq(Reply), NEW e \in Reply
    PROVE  /\ L \o <<e>> = Append(L, e) /\ L \o <<e>> \in Seq(Reply)
           /\ L \o Append(N, e) = Append(L \o N, e)
           /\ L \o Append(N, e) \in Seq(Reply)
<1>1. L \o <<e>> = Append(L, e) /\ L \o <<e>> \in Seq(Reply)
  OBVIOUS
<1>2. L \o Append(N, e) = Append(L \o N, e) /\ L \o Append(N, e) \in Seq(Reply)
  OBVIOUS
<1>. QED
  BY <1>1, <1>2

\* A final answer to a submit that waited or was held, true of what was typed.
LEMMA Settle ==
    ASSUME NEW L \in Seq(Reply), NEW W, NEW H, NEW D, NEW c \in Submits,
           NEW kind \in {"accepted", "refused"},
           Apart(W, H, D), Book(L, W, H, D), c \in W \cup H
    PROVE  /\ Ack(c, kind) \in Reply
           /\ Book(Append(L, Ack(c, kind)), W \ {c}, H \ {c}, IF kind = "accepted" THEN D \cup {c} ELSE D)
           /\ Apart(W \ {c}, H \ {c}, IF kind = "accepted" THEN D \cup {c} ELSE D)
<1>. DEFINE r == Ack(c, kind)
<1>1. /\ r \in Reply /\ r.corr = c /\ r.kind = kind
      /\ r.kind # "queued"
  BY DEF Ack, Reply, Kinds
<1>. HIDE DEF r
<1>2. KindsIn(L, c) \subseteq {"queued"}
  BY DEF Book, Says
<1>3. Readable(Append(L, r))
  BY <1>1, <1>2, ReadableAppend DEF Book
<1>4. \A d : KindsIn(Append(L, r), d)
               = IF d = c THEN KindsIn(L, c) \cup {r.kind} ELSE KindsIn(L, d)
  BY <1>1, KindsAppend
<1>5. Says(Append(L, r), W \ {c}, H \ {c}, IF kind = "accepted" THEN D \cup {c} ELSE D)
  <2>. SUFFICES ASSUME NEW d \in Submits
                PROVE  /\ d \in W \ {c} => KindsIn(Append(L, r), d) = {}
                       /\ d \in H \ {c} => KindsIn(Append(L, r), d) = {"queued"}
                       /\ d \notin (W \ {c}) \cup (H \ {c}) =>
                            /\ KindsIn(Append(L, r), d) \cap {"accepted", "refused"} # {}
                            /\ d \in (IF kind = "accepted" THEN D \cup {c} ELSE D)
                                 <=> "accepted" \in KindsIn(Append(L, r), d)
    BY DEF Says
  <2>1. CASE d = c
    <3>1. c \notin D
      BY DEF Apart
    <3>2. "accepted" \in KindsIn(Append(L, r), c) <=> kind = "accepted"
      BY <1>1, <1>2, <1>4
    <3>3. KindsIn(Append(L, r), c) \cap {"accepted", "refused"} # {}
      BY <1>1, <1>4
    <3>4. c \in (IF kind = "accepted" THEN D \cup {c} ELSE D) <=> kind = "accepted"
      BY <3>1
    <3>. QED
      BY <2>1, <3>2, <3>3, <3>4
  <2>2. CASE d # c
    BY <1>4, <2>2 DEF Book, Says
  <2>. QED
    BY <2>1, <2>2
<1>6. Apart(W \ {c}, H \ {c}, IF kind = "accepted" THEN D \cup {c} ELSE D)
  BY DEF Apart
<1>. QED
  BY <1>1, <1>3, <1>5, <1>6 DEF Book, r

\* The submit was typed.
LEMMA SettleAccepted ==
    ASSUME NEW L \in Seq(Reply), NEW W, NEW H, NEW D, NEW c \in Submits,
           Apart(W, H, D), Book(L, W, H, D), c \in W \cup H
    PROVE  /\ Ack(c, "accepted") \in Reply
           /\ Book(Append(L, Ack(c, "accepted")), W \ {c}, H \ {c}, D \cup {c})
<1>. DEFINE D2(kind) == IF kind = "accepted" THEN D \cup {c} ELSE D
<1>1. \A kind \in {"accepted", "refused"} :
        /\ Ack(c, kind) \in Reply
        /\ Book(Append(L, Ack(c, kind)), W \ {c}, H \ {c}, D2(kind))
  BY Settle
<1>2. D2("accepted") = D \cup {c}
  OBVIOUS
<1>. HIDE DEF D2
<1>. QED
  BY <1>1, <1>2

\* The submit was not typed.
LEMMA SettleRefused ==
    ASSUME NEW L \in Seq(Reply), NEW W, NEW H, NEW D, NEW c \in Submits,
           Apart(W, H, D), Book(L, W, H, D), c \in W \cup H
    PROVE  /\ Ack(c, "refused") \in Reply
           /\ Book(Append(L, Ack(c, "refused")), W \ {c}, H \ {c}, D)
<1>. DEFINE D2(kind) == IF kind = "accepted" THEN D \cup {c} ELSE D
<1>1. \A kind \in {"accepted", "refused"} :
        /\ Ack(c, kind) \in Reply
        /\ Book(Append(L, Ack(c, kind)), W \ {c}, H \ {c}, D2(kind))
  BY Settle
<1>2. D2("refused") = D
  OBVIOUS
<1>. HIDE DEF D2
<1>. QED
  BY <1>1, <1>2

\* A submit that waited is held, and no other is.
LEMMA Queue ==
    ASSUME NEW L \in Seq(Reply), NEW W, NEW D, NEW c \in Submits,
           Apart(W, {}, D), Book(L, W, {}, D), c \in W
    PROVE  /\ Ack(c, "queued") \in Reply
           /\ Book(Append(L, Ack(c, "queued")), W \ {c}, {c}, D)
           /\ Apart(W \ {c}, {c}, D)
<1>. DEFINE r == Ack(c, "queued")
<1>1. r \in Reply /\ r.corr = c /\ r.kind = "queued"
  BY DEF Ack, Reply, Kinds
<1>. HIDE DEF r
<1>2. KindsIn(L, c) = {} /\ \A d \in Submits : KindsIn(L, d) # {"queued"}
  BY DEF Book, Says
<1>3. Readable(Append(L, r))
  BY <1>1, <1>2, ReadableAppend DEF Book
<1>4. \A d : KindsIn(Append(L, r), d)
               = IF d = c THEN {"queued"} ELSE KindsIn(L, d)
  BY <1>1, <1>2, KindsAppend
<1>5. Says(Append(L, r), W \ {c}, {c}, D)
  BY <1>4 DEF Book, Says
<1>6. Apart(W \ {c}, {c}, D)
  BY DEF Apart
<1>. QED
  BY <1>1, <1>3, <1>5, <1>6 DEF Book, r

-----------------------------------------------------------------------------
(* The inductive invariant.                                                 *)

\* The submits not yet taken, the held one, and the typed ones.
Waiting == (Submits \ asked) \cup {c \in Submits : Queued(c)}
Held    == IF pending = None THEN {} ELSE {pending.corr}
Done    == {typed[i] : i \in 1..Len(typed)}

\* The thread's replies wait for the end of the tick that made them.
RepliesOfATick == at # "tick" => replies = <<>>

\* No stream, no lines.
NoneIsEmpty == sub = "none" => lines = <<>>

\* The queue has its bound while the session is open.
Room == session = "open" => Len(requests) <= MaxRequests

\* A request is queued once, and only after it was asked.
QueuedOnce == \A i \in 1..Len(requests) : requests[i].do = "until_idle" =>
    /\ requests[i].corr \in asked
    /\ \A j \in 1..Len(requests) :
         requests[j].do = "until_idle" /\ requests[j].corr = requests[i].corr => i = j

TypedOnce == \A i, j \in 1..Len(typed) : typed[i] = typed[j] => i = j

\* The last request of a session that closes is cancel_pending; once it is
\* served, nothing is held and nothing can be queued again.
ClosingIsLast == session = "closing" =>
    IF requests = <<>> THEN pending = None /\ replies = <<>>
    ELSE requests[Len(requests)].do = "cancel_pending"

\* The Device's books.
Books == IF active THEN Book(Said, Waiting, Held, Done) ELSE Readable(got)

\* The held submit.
HeldInv == TypeOK /\ Room /\ NoneIsEmpty /\ HeldIsWatched /\ HeldHasAWakeup

\* The session.
SessionInv ==
    /\ TypeOK /\ RepliesOfATick /\ Room /\ QueuedOnce /\ TypedOnce
    /\ Apart(Waiting, Held, Done) /\ ClosingIsLast /\ Books /\ CloseAnswersEverything

-----------------------------------------------------------------------------
(* Type correctness.                                                        *)

\* What an answer of the held submit is.
LEMMA RepliesAre ==
    ASSUME TypeOK
    PROVE  /\ Cancelled \in Seq(Reply)
           /\ \A c \in Submits : \A ok \in BOOLEAN : Final(c, ok) \in Reply
           /\ \A c \in Submits, kind \in Kinds : Ack(c, kind) \in Reply
           /\ \A rs \in Seq(Reply) : Emit(rs) => out' \in Seq(Reply)
<1>1. \A c \in Submits, kind \in Kinds : Ack(c, kind) \in Reply
  BY DEF Ack, Reply
<1>2. \A c \in Submits : \A ok \in BOOLEAN : Final(c, ok) \in Reply
  BY <1>1 DEF Final, Kinds
<1>3. pending # None => pending.corr \in Submits
  BY SMT DEF TypeOK
<1>4. Cancelled \in Seq(Reply)
  BY <1>1, <1>3 DEF Cancelled, Kinds
<1>5. \A rs \in Seq(Reply) : Emit(rs) => out' \in Seq(Reply)
  BY DEF Emit, TypeOK
<1>. QED
  BY <1>1, <1>2, <1>4, <1>5

\* Dropping the held submit, or not.
LEMMA DropTypes ==
    ASSUME TypeOK, NEW when, DropPending(when)
    PROVE  pending' \in {pending, None} /\ typed' = typed /\ out' \in Seq(Reply)
<1>1. pending' \in {pending, None} /\ typed' = typed
  BY DEF DropPending
<1>2. Cancelled \in Seq(Reply) /\ <<>> \in Seq(Reply)
  BY RepliesAre
<1>3. Emit(Cancelled) \/ Emit(<<>>)
  BY DEF DropPending
<1>. QED
  BY <1>1, <1>2, <1>3, RepliesAre

\* Serving a request keeps the types of what it changes.
LEMMA ServeTypes ==
    ASSUME TypeOK, NEW r \in Request, Serve(r)
    PROVE  /\ lines' \in Seq(Line) /\ Len(lines') <= MaxLines + 1
           /\ covered' \subseteq Panes /\ sub' \in {"up", "broken", "none"}
           /\ watched' \in Panes \cup {None}
           /\ pending' \in [pane : Panes, corr : Submits] \cup {None}
           /\ replies' = replies
           /\ out' \in Seq(Reply)
           /\ typed' \in Seq(Submits)
<1>. USE SessionAssumption DEF Serve
<1>1. CASE r.do = "watch" /\ WatchPane(r.pane)
  <2>1. CASE UNCHANGED <<streamVars, bridgeVars, out>>
    BY <2>1 DEF TypeOK, streamVars, bridgeVars
  <2>2. CASE /\ r.pane \in open
             /\ watched' = r.pane
             /\ DropPending(watched \notin {None, r.pane})
             /\ IF sub = "none" THEN OpenSubscription ELSE UNCHANGED streamVars
             /\ UNCHANGED replies
    <3>1. CASE OpenSubscription
      <4>1. lines' = <<>> /\ covered' \subseteq Panes /\ sub' \in {"up", "none"}
        BY <3>1 DEF TypeOK, OpenSubscription
      <4>2. <<>> \in Seq(Line) /\ Len(<<>>) <= MaxLines + 1
        OBVIOUS
      <4>. QED
        BY <2>2, <4>1, <4>2, DropTypes DEF TypeOK
    <3>2. CASE UNCHANGED streamVars
      BY <2>2, <3>2, DropTypes DEF TypeOK, streamVars
    <3>. QED
      BY <2>2, <3>1, <3>2
  <2>. QED
    BY <1>1, <2>1, <2>2 DEF WatchPane
<1>2. CASE r.do \in {"unwatch", "cancel", "enter", "cancel_pending"}
  <2>1. UNCHANGED <<streamVars, replies>> /\ watched' \in {watched, None}
    BY <1>2
  <2>2. \E when : DropPending(when)
    BY <1>2
  <2>3. pending' \in {pending, None} /\ typed' = typed /\ out' \in Seq(Reply)
    BY <2>2, DropTypes
  <2>. QED
    BY <2>1, <2>3 DEF TypeOK, streamVars
<1>3. CASE r.do = "until_idle" /\ UntilIdle(r.pane, r.corr)
                               /\ UNCHANGED <<streamVars, watched, replies>>
  <2>1. r.pane \in Panes /\ r.corr \in Submits
    BY <1>3 DEF Request
  <2>2. pending' \in {pending, None, [pane |-> r.pane, corr |-> r.corr]}
    BY <1>3 DEF UntilIdle
  <2>3. typed' = typed \/ typed' = Append(typed, r.corr)
    BY <1>3 DEF UntilIdle, Typed
  <2>4. \E rs \in Seq(Reply) : Emit(rs)
    <3>1. \A kind \in Kinds : /\ <<Ack(r.corr, kind)>> \in Seq(Reply)
                              /\ Append(Cancelled, Ack(r.corr, kind)) \in Seq(Reply)
      BY <2>1, RepliesAre
    <3>2. \A ok \in BOOLEAN : Append(Cancelled, Final(r.corr, ok)) \in Seq(Reply)
      BY <2>1, RepliesAre
    <3>. QED
      BY <1>3, <3>1, <3>2 DEF UntilIdle, Kinds
  <2>5. out' \in Seq(Reply)
    BY <2>4, RepliesAre
  <2>6. UNCHANGED <<lines, covered, sub, watched, replies>>
    BY <1>3 DEF streamVars
  <2>7. pending' \in [pane : Panes, corr : Submits] \cup {None}
    BY <2>1, <2>2 DEF TypeOK
  <2>8. typed' \in Seq(Submits)
    <3>1. typed \in Seq(Submits)
      BY DEF TypeOK
    <3>2. Append(typed, r.corr) \in Seq(Submits)
      BY <2>1, <3>1
    <3>. QED
      BY <2>3, <3>1, <3>2
  <2>. QED
    BY <2>5, <2>6, <2>7, <2>8 DEF TypeOK
<1>. QED
  BY <1>1, <1>2, <1>3

\* A session starts with the types and the bounds.
LEMMA InitTypes == Init => TypeOK /\ Room
<1>. SUFFICES ASSUME Init PROVE TypeOK /\ Room
  OBVIOUS
<1>1. /\ open \subseteq Panes /\ known = open /\ working \subseteq open
      /\ covered \subseteq Panes /\ sub \in {"up", "broken", "none"}
  BY DEF Init
<1>2. /\ lines = <<>> /\ requests = <<>> /\ replies = <<>> /\ out = <<>>
      /\ got = <<>> /\ typed = <<>>
      /\ at = "serve" /\ resubscribe = FALSE /\ watched = None /\ pending = None
      /\ session = "open" /\ asked = {} /\ missed = FALSE
  BY DEF Init
<1>3. \A S : <<>> \in Seq(S) /\ Len(<<>>) = 0
  OBVIOUS
<1>4. resubscribe \in BOOLEAN /\ missed \in BOOLEAN
  BY <1>2, Zenon
<1>. QED
  BY <1>1, <1>2, <1>3, <1>4, SessionAssumption DEF TypeOK, Room

\* Every step keeps the types and the bounds.
LEMMA TypeStep ==
    ASSUME TypeOK, Room, [Next]_vars
    PROVE  TypeOK' /\ Room'
<1>. USE SessionAssumption DEF herdrVars, streamVars, bridgeVars
<1>1. \A event \in {"idle", "closed", "created"}, p \in Panes :
        Push(event, p) => lines' \in Seq(Line) /\ Len(lines') <= MaxLines + 1
  <2>. SUFFICES ASSUME NEW event \in {"idle", "closed", "created"}, NEW p \in Panes,
                       Push(event, p)
                PROVE  lines' \in Seq(Line) /\ Len(lines') <= MaxLines + 1
    OBVIOUS
  <2>1. [event |-> event, pane |-> p] \in Line
    BY DEF Line
  <2>2. lines \in Seq(Line) /\ Len(lines) <= MaxLines + 1
    BY DEF TypeOK
  <2>3. CASE lines' = lines
    BY <2>2, <2>3
  <2>4. CASE /\ Len(lines) < MaxLines
             /\ lines' = Append(lines, [event |-> event, pane |-> p])
    <3>1. lines' \in Seq(Line) /\ Len(lines') = Len(lines) + 1
      BY <2>1, <2>2, <2>4
    <3>. QED
      BY <2>4, <3>1
  <2>. QED
    BY <2>3, <2>4 DEF Push
<1>2. missed' \in BOOLEAN /\ resubscribe' \in BOOLEAN
  <2>1. missed \in BOOLEAN /\ resubscribe \in BOOLEAN
    BY DEF TypeOK
  <2>. QED
    BY <2>1, Zenon DEF vars, Next, AgentStarts, AgentStops, PaneOpens, PaneCloses, SubscriptionBreaks,
       DispatchIncoming, SendReply, BeginClose, FinishClose, LoseSession, ServeRequest,
       BeginTick, HandleSubscriptionLine, EndTick
<1>3. CASE UNCHANGED vars
  BY <1>3 DEF TypeOK, Room, vars
<1>4. ASSUME NEW p \in Panes, AgentStarts(p) PROVE TypeOK' /\ Room'
  BY <1>2, <1>4 DEF TypeOK, Room, AgentStarts
<1>5. ASSUME NEW p \in Panes, AgentStops(p) PROVE TypeOK' /\ Room'
  BY <1>1, <1>2, <1>5 DEF TypeOK, Room, AgentStops
<1>6. ASSUME NEW p \in Panes, PaneOpens(p) PROVE TypeOK' /\ Room'
  BY <1>1, <1>2, <1>6 DEF TypeOK, Room, PaneOpens
<1>7. ASSUME NEW p \in Panes, PaneCloses(p) PROVE TypeOK' /\ Room'
  BY <1>1, <1>2, <1>7 DEF TypeOK, Room, PaneCloses
<1>8. CASE SubscriptionBreaks
  BY <1>2, <1>8 DEF TypeOK, Room, SubscriptionBreaks
<1>9. CASE DispatchIncoming
  <2>1. /\ session = "open" /\ Len(requests) < MaxRequests
        /\ \E r \in Request : requests' = Append(requests, r)
        /\ asked' \subseteq Submits
    BY <1>9 DEF TypeOK, DispatchIncoming, Request
  <2>2. requests' \in Seq(Request) /\ Len(requests') <= MaxRequests
    BY <2>1 DEF TypeOK
  <2>. QED
    BY <1>2, <1>9, <2>1, <2>2 DEF TypeOK, Room, DispatchIncoming
<1>10. CASE SendReply
  <2>1. got' \in Seq(Reply) /\ out' \in Seq(Reply)
    BY <1>10 DEF TypeOK, SendReply
  <2>. QED
    BY <1>2, <1>10, <2>1 DEF TypeOK, Room, SendReply
<1>11. CASE BeginClose
  <2>1. [do |-> "cancel_pending"] \in Request
    BY DEF Request
  <2>2. requests' \in Seq(Request) /\ Len(requests') <= MaxRequests + 1
    BY <1>11, <2>1 DEF TypeOK, Room, BeginClose
  <2>. QED
    BY <1>2, <1>11, <2>2 DEF TypeOK, Room, BeginClose
<1>12. CASE FinishClose
  <2>1. got' \in Seq(Reply)
    BY <1>12 DEF TypeOK, FinishClose
  <2>. QED
    BY <1>2, <1>12, <2>1 DEF TypeOK, Room, FinishClose
<1>13. CASE LoseSession
  BY <1>2, <1>13 DEF TypeOK, Room, LoseSession
<1>14. CASE ServeRequest
  <2>1. /\ Head(requests) \in Request /\ requests' \in Seq(Request)
        /\ Len(requests') = Len(requests) - 1
    BY <1>14 DEF TypeOK, ServeRequest
  <2>2. Serve(Head(requests))
    BY <1>14 DEF ServeRequest
  <2>3. /\ lines' \in Seq(Line) /\ Len(lines') <= MaxLines + 1
        /\ covered' \subseteq Panes /\ sub' \in {"up", "broken", "none"}
        /\ watched' \in Panes \cup {None}
        /\ pending' \in [pane : Panes, corr : Submits] \cup {None}
        /\ replies' = replies
        /\ out' \in Seq(Reply)
        /\ typed' \in Seq(Submits)
    BY <2>1, <2>2, ServeTypes
  <2>. QED
    BY <1>2, <1>14, <2>1, <2>3 DEF TypeOK, Room, ServeRequest
<1>15. CASE BeginTick
  BY <1>2, <1>15 DEF TypeOK, Room, BeginTick
<1>16. CASE HandleSubscriptionLine
  <2>1. lines' \in Seq(Line) /\ Len(lines') <= MaxLines + 1 /\ Head(lines) \in Line
    BY <1>16 DEF TypeOK, HandleSubscriptionLine
  <2>2. pending # None => pending.corr \in Submits
    BY SMT DEF TypeOK
  <2>3. watched' \in {watched, None} /\ pending' \in {pending, None}
    BY <1>16 DEF HandleSubscriptionLine, ReleasePendingInput
  <2>4. typed' = typed \/ (pending # None /\ typed' = Append(typed, pending.corr))
    BY <1>16 DEF HandleSubscriptionLine, ReleasePendingInput, Typed, HeldFor
  <2>5. \/ replies' = replies \/ replies' = replies \o Cancelled
        \/ pending # None /\ \E ok \in BOOLEAN :
              replies' = Append(replies, Final(pending.corr, ok))
    BY <1>16 DEF HandleSubscriptionLine, ReleasePendingInput, HeldFor
  <2>6. replies' \in Seq(Reply)
    <3>1. replies \in Seq(Reply)
      BY DEF TypeOK
    <3>2. replies \o Cancelled \in Seq(Reply)
      BY <3>1, RepliesAre
    <3>3. ASSUME pending # None, NEW ok \in BOOLEAN,
                 replies' = Append(replies, Final(pending.corr, ok))
          PROVE  replies' \in Seq(Reply)
      <4>1. Final(pending.corr, ok) \in Reply
        BY <2>2, <3>3, RepliesAre
      <4>. QED
        BY <3>1, <3>3, <4>1
    <3>. QED
      BY <2>5, <3>1, <3>2, <3>3
  <2>7. typed' \in Seq(Submits)
    <3>1. typed \in Seq(Submits)
      BY DEF TypeOK
    <3>. QED
      BY <2>2, <2>4, <3>1
  <2>. QED
    BY <1>2, <1>16, <2>1, <2>3, <2>6, <2>7 DEF TypeOK, Room, HandleSubscriptionLine
<1>17. CASE EndTick
  <2>1. out' \in Seq(Reply) /\ replies' = <<>>
    BY <1>17, RepliesAre DEF TypeOK, EndTick
  <2>2. /\ lines' \in Seq(Line) /\ Len(lines') <= MaxLines + 1
        /\ covered' \subseteq Panes /\ sub' \in {"up", "broken", "none"}
    <3>1. CASE OpenSubscription
      <4>1. lines' = <<>> /\ covered' \subseteq Panes /\ sub' \in {"up", "none"}
        BY <3>1 DEF TypeOK, OpenSubscription
      <4>2. <<>> \in Seq(Line) /\ Len(<<>>) <= MaxLines + 1
        OBVIOUS
      <4>. QED
        BY <4>1, <4>2
    <3>2. CASE UNCHANGED streamVars
      BY <3>2 DEF TypeOK
    <3>3. CASE lines' = lines /\ sub' = "none" /\ covered' = {}
      BY <3>3 DEF TypeOK
    <3>. QED
      BY <1>17, <3>1, <3>2, <3>3 DEF EndTick
  <2>. QED
    BY <1>2, <1>17, <2>1, <2>2 DEF TypeOK, Room, EndTick
<1>. QED
  BY <1>3, <1>4, <1>5, <1>6, <1>7, <1>8, <1>9, <1>10, <1>11, <1>12, <1>13, <1>14, <1>15,
     <1>16, <1>17 DEF Next

\* The state's variables have their types, always.
THEOREM TypeCorrect == Spec => []TypeOK
<1>1. Init => TypeOK /\ Room
  BY InitTypes
<1>2. TypeOK /\ Room /\ [Next]_vars => (TypeOK /\ Room)'
  BY TypeStep
<1>. QED
  BY <1>1, <1>2, PTL DEF Spec

-----------------------------------------------------------------------------
(* The held submit.                                                         *)

\* Lines that come do not take the release away; a release that comes is there.
LEMMA PushKeepsRelease ==
    ASSUME TypeOK, NEW event \in {"idle", "closed", "created"}, NEW p \in Panes,
           Push(event, p), pending' = pending
    PROVE  /\ ReleaseOnTheWay => ReleaseOnTheWay'
           /\ Heard(event, p) /\ HeldFor(p) /\ event # "created" => ReleaseOnTheWay'
<1>1. lines \in Seq(Line)
  BY DEF TypeOK
<1>2. CASE Heard(event, p)
  <2>1. lines' = Append(lines, [event |-> event, pane |-> p])
    BY <1>2 DEF Push
  <2>2. /\ Len(lines') = Len(lines) + 1 /\ Len(lines) \in Nat
        /\ \A i \in 1..Len(lines) : lines'[i] = lines[i]
        /\ lines'[Len(lines) + 1] = [event |-> event, pane |-> p]
    BY <1>1, <2>1
  <2>3. \A q : HeldFor(q)' <=> HeldFor(q)
    BY DEF HeldFor
  <2>. QED
    BY <1>1, <2>2, <2>3 DEF ReleaseOnTheWay
<1>3. CASE ~Heard(event, p)
  BY <1>3 DEF Push, ReleaseOnTheWay, HeldFor
<1>. QED
  BY <1>2, <1>3

\* Nothing of the held submit changes with what these four leave alone.
LEMMA HeldUntouched ==
    ASSUME HeldInv, UNCHANGED <<working, lines, watched, pending, missed>>,
           sub' \in {sub, "broken"}
    PROVE  (NoneIsEmpty /\ HeldIsWatched /\ HeldHasAWakeup)'
<1>1. \A q : HeldFor(q)' <=> HeldFor(q)
  BY DEF HeldFor
<1>. QED
  BY <1>1 DEF HeldInv, NoneIsEmpty, HeldIsWatched, HeldHasAWakeup, ReleaseOnTheWay

\* Serving a request leaves the held submit as it was, or without any, or held
\* for the watched pane, whose agent works.
LEMMA ServeHeld ==
    ASSUME HeldInv, NEW r \in Request, Serve(r)
    PROVE  /\ sub' = "none" => lines' = <<>>
           /\ pending' = pending => lines' = lines \/ lines = <<>>
           /\ \/ pending' = None
              \/ pending' = pending /\ (pending # None => watched' = watched)
              \/ /\ pending' # None /\ watched' = pending'.pane
                 /\ pending'.pane \in working
<1>. USE SessionAssumption DEF Serve
<1>1. CASE r.do = "watch" /\ WatchPane(r.pane)
  <2>1. CASE UNCHANGED <<streamVars, bridgeVars, out>>
    BY <2>1 DEF HeldInv, NoneIsEmpty, streamVars, bridgeVars
  <2>2. CASE /\ r.pane \in open
             /\ watched' = r.pane
             /\ DropPending(watched \notin {None, r.pane})
             /\ IF sub = "none" THEN OpenSubscription ELSE UNCHANGED streamVars
             /\ UNCHANGED replies
    <3>1. /\ sub' = "none" => lines' = <<>>
          /\ lines' = lines \/ lines = <<>>
      BY <2>2 DEF HeldInv, NoneIsEmpty, OpenSubscription, streamVars
    <3>2. pending # None => pending.pane = watched /\ pending.pane \in Panes
      BY SMT DEF HeldInv, HeldIsWatched, TypeOK
    <3>3. \/ pending' = None
          \/ pending' = pending /\ (pending # None => watched' = watched)
      BY <2>2, <3>2 DEF DropPending
    <3>. QED
      BY <3>1, <3>3
  <2>. QED
    BY <1>1, <2>1, <2>2 DEF WatchPane
<1>2. CASE r.do = "unwatch"
  <2>1. UNCHANGED <<lines, sub>>
    BY <1>2 DEF streamVars
  <2>2. pending' = None \/ (pending' = pending /\ watched' = watched)
    BY <1>2 DEF DropPending
  <2>. QED
    BY <2>1, <2>2 DEF HeldInv, NoneIsEmpty
<1>3. CASE r.do \in {"cancel", "enter", "cancel_pending"}
  <2>1. UNCHANGED <<lines, sub, watched>>
    BY <1>3 DEF streamVars
  <2>2. pending' = None \/ pending' = pending
    BY <1>3 DEF DropPending
  <2>. QED
    BY <2>1, <2>2 DEF HeldInv, NoneIsEmpty
<1>4. CASE r.do = "until_idle" /\ UntilIdle(r.pane, r.corr)
                               /\ UNCHANGED <<streamVars, watched, replies>>
  <2>1. UNCHANGED <<lines, sub, watched>>
    BY <1>4 DEF streamVars
  <2>2. \/ pending' = None \/ pending' = pending
        \/ /\ pending' = [pane |-> r.pane, corr |-> r.corr]
           /\ watched = r.pane /\ r.pane \in working
    BY <1>4 DEF UntilIdle
  <2>3. pending' = [pane |-> r.pane, corr |-> r.corr] =>
            pending' # None /\ pending'.pane = r.pane
    BY <1>4 DEF Request
  <2>. QED
    BY <2>1, <2>2, <2>3 DEF HeldInv, NoneIsEmpty
<1>. QED
  BY <1>1, <1>2, <1>3, <1>4

\* The held submit stays the watched pane's, with something that decides it.
LEMMA HeldStep ==
    ASSUME HeldInv, [Next]_vars
    PROVE  HeldInv'
<1>. USE SessionAssumption DEF herdrVars, streamVars, bridgeVars
<1>. DEFINE Good == (NoneIsEmpty /\ HeldIsWatched /\ HeldHasAWakeup)'
<1>1. /\ TypeOK /\ Room /\ NoneIsEmpty /\ HeldIsWatched /\ HeldHasAWakeup
  BY DEF HeldInv
<1>. SUFFICES Good
  BY <1>1, TypeStep DEF HeldInv
<1>2. pending # None => pending.pane \in Panes /\ pending.corr \in Submits
  BY <1>1, SMT DEF TypeOK
<1>3. /\ pending' = pending => \A q : HeldFor(q)' <=> HeldFor(q)
      /\ \A q : HeldFor(q) <=> pending # None /\ q = pending.pane
      /\ \A q : HeldFor(q)' <=> pending' # None /\ q = pending'.pane
  BY DEF HeldFor
<1>. DEFINE Stuck == pending # None /\ pending.pane \in Panes \ working
<1>19. /\ HeldHasAWakeup <=> (Stuck => missed \/ ReleaseOnTheWay)
       /\ HeldHasAWakeup' <=> (Stuck' => missed' \/ ReleaseOnTheWay')
  BY <1>3 DEF HeldHasAWakeup
<1>. HIDE DEF Good, Stuck
<1>4. CASE UNCHANGED vars
  BY <1>4, HeldUntouched DEF vars, Good
<1>5. ASSUME NEW p \in Panes, AgentStarts(p) PROVE Good
  <2>1. /\ UNCHANGED <<pending, watched, sub, lines>>
        /\ working' = working \cup {p}
        /\ missed' = (missed /\ ~HeldFor(p))
    BY <1>5 DEF AgentStarts
  <2>2. ReleaseOnTheWay => ReleaseOnTheWay'
    BY <1>3, <2>1 DEF ReleaseOnTheWay
  <2>. QED
    <3>1. missed /\ ~HeldFor(p) => missed'
      BY <2>1, Zenon
    <3>2. Stuck' => Stuck /\ ~HeldFor(p)
      BY <1>3, <2>1 DEF Stuck
    <3>3. HeldHasAWakeup'
      BY <1>1, <1>19, <2>2, <3>1, <3>2, Zenon
    <3>4. HeldIsWatched' /\ NoneIsEmpty'
      BY <1>1, <2>1 DEF HeldIsWatched, NoneIsEmpty
    <3>. QED
      BY <3>3, <3>4 DEF Good
<1>6. ASSUME NEW p \in Panes, AgentStops(p) PROVE Good
  <2>1. /\ Push("idle", p) /\ UNCHANGED <<pending, watched, sub>>
        /\ working' = working \ {p}
        /\ missed' = (missed \/ (HeldFor(p) /\ ~Heard("idle", p)))
    BY <1>6 DEF AgentStops
  <2>2. /\ ReleaseOnTheWay => ReleaseOnTheWay'
        /\ Heard("idle", p) /\ HeldFor(p) => ReleaseOnTheWay'
    BY <1>1, <2>1, PushKeepsRelease
  <2>3. NoneIsEmpty'
    BY <1>1, <2>1 DEF NoneIsEmpty, Push, Heard
  <2>4. HeldHasAWakeup'
    <3>. SUFFICES ASSUME NEW q \in Panes, q \notin working', HeldFor(q)'
                  PROVE  missed' \/ ReleaseOnTheWay'
      BY DEF HeldHasAWakeup
    <3>1. HeldFor(q)
      BY <1>3, <2>1
    <3>2. CASE q \in working
      BY <2>1, <2>2, <3>1, <3>2
    <3>3. CASE q \notin working
      <4>1. missed \/ ReleaseOnTheWay
        BY <1>1, <3>1, <3>3 DEF HeldHasAWakeup
      <4>. QED
        BY <2>1, <2>2, <4>1
    <3>. QED
      BY <3>2, <3>3
  <2>. QED
    BY <1>1, <2>1, <2>3, <2>4 DEF Good, HeldIsWatched
<1>7. ASSUME NEW p \in Panes, PaneOpens(p) PROVE Good
  <2>1. Push("created", p) /\ UNCHANGED <<pending, watched, sub, working, missed>>
    BY <1>7 DEF PaneOpens
  <2>2. ReleaseOnTheWay => ReleaseOnTheWay'
    BY <1>1, <2>1, PushKeepsRelease
  <2>3. NoneIsEmpty'
    BY <1>1, <2>1 DEF NoneIsEmpty, Push, Heard
  <2>. QED
    BY <1>1, <1>3, <2>1, <2>2, <2>3 DEF Good, HeldIsWatched, HeldHasAWakeup
<1>8. ASSUME NEW p \in Panes, PaneCloses(p) PROVE Good
  <2>1. /\ UNCHANGED <<pending, watched, sub>>
        /\ working' = working \ {p}
        /\ \/ /\ Push("closed", p)
              /\ missed' = (missed \/ (HeldFor(p) /\ ~Heard("closed", p)))
           \/ lines' = lines /\ missed' = (missed \/ HeldFor(p))
    BY <1>8 DEF PaneCloses
  <2>2. /\ ReleaseOnTheWay => ReleaseOnTheWay'
        /\ HeldFor(p) => missed' \/ ReleaseOnTheWay'
    <3>1. CASE /\ Push("closed", p)
               /\ missed' = (missed \/ (HeldFor(p) /\ ~Heard("closed", p)))
      <4>1. /\ ReleaseOnTheWay => ReleaseOnTheWay'
            /\ Heard("closed", p) /\ HeldFor(p) => ReleaseOnTheWay'
        BY <1>1, <2>1, <3>1, PushKeepsRelease
      <4>. QED
        BY <3>1, <4>1
    <3>2. CASE lines' = lines /\ missed' = (missed \/ HeldFor(p))
      BY <1>3, <2>1, <3>2 DEF ReleaseOnTheWay
    <3>. QED
      BY <2>1, <3>1, <3>2
  <2>3. NoneIsEmpty'
    BY <1>1, <2>1 DEF NoneIsEmpty, Push, Heard
  <2>4. HeldHasAWakeup'
    <3>. SUFFICES ASSUME NEW q \in Panes, q \notin working', HeldFor(q)'
                  PROVE  missed' \/ ReleaseOnTheWay'
      BY DEF HeldHasAWakeup
    <3>1. HeldFor(q)
      BY <1>3, <2>1
    <3>2. CASE q \in working
      BY <2>1, <2>2, <3>1, <3>2
    <3>3. CASE q \notin working
      <4>1. missed \/ ReleaseOnTheWay
        BY <1>1, <3>1, <3>3 DEF HeldHasAWakeup
      <4>. QED
        BY <2>1, <2>2, <4>1
    <3>. QED
      BY <3>2, <3>3
  <2>. QED
    BY <1>1, <2>1, <2>3, <2>4 DEF Good, HeldIsWatched
<1>9. CASE SubscriptionBreaks
  BY <1>9, HeldUntouched DEF SubscriptionBreaks, Good
<1>10. CASE DispatchIncoming
  BY <1>10, HeldUntouched DEF DispatchIncoming, Good
<1>11. CASE SendReply
  BY <1>11, HeldUntouched DEF SendReply, Good
<1>12. CASE BeginClose
  BY <1>12, HeldUntouched DEF BeginClose, Good
<1>13. CASE FinishClose
  BY <1>13, HeldUntouched DEF FinishClose, Good
<1>14. CASE LoseSession
  BY <1>14, HeldUntouched DEF LoseSession, Good
<1>15. CASE ServeRequest
  <2>1. Head(requests) \in Request
    BY <1>1, <1>15 DEF TypeOK, ServeRequest
  <2>2. Serve(Head(requests)) /\ missed' = (missed /\ pending' = pending) /\ working' = working
    BY <1>15 DEF ServeRequest
  <2>3. /\ sub' = "none" => lines' = <<>>
        /\ pending' = pending => lines' = lines \/ lines = <<>>
        /\ \/ pending' = None
           \/ pending' = pending /\ (pending # None => watched' = watched)
           \/ /\ pending' # None /\ watched' = pending'.pane
              /\ pending'.pane \in working
    BY <2>1, <2>2, ServeHeld
  <2>4. CASE pending' = None \/ (/\ pending' # None /\ watched' = pending'.pane
                                 /\ pending'.pane \in working)
    BY <1>19, <2>2, <2>3, <2>4 DEF Good, NoneIsEmpty, HeldIsWatched, Stuck
  <2>5. CASE pending' = pending /\ (pending # None => watched' = watched)
    <3>1. ReleaseOnTheWay => ReleaseOnTheWay'
      BY <1>3, <2>3, <2>5 DEF ReleaseOnTheWay
    <3>. QED
      <4>1. missed => missed'
        BY <2>2, <2>5, Zenon
      <4>2. Stuck' => Stuck
        BY <2>2, <2>5 DEF Stuck
      <4>3. HeldHasAWakeup'
        BY <1>1, <1>19, <3>1, <4>1, <4>2, Zenon
      <4>4. HeldIsWatched' /\ NoneIsEmpty'
        BY <1>1, <2>3, <2>5 DEF HeldIsWatched, NoneIsEmpty
      <4>. QED
        BY <4>3, <4>4 DEF Good
  <2>. QED
    BY <2>3, <2>4, <2>5
<1>16. CASE BeginTick
  BY <1>16, HeldUntouched DEF BeginTick, Good
<1>17. CASE HandleSubscriptionLine
  <2>. DEFINE l == Head(lines)
  <2>1. /\ l \in Line /\ lines' = Tail(lines) /\ lines # <<>> /\ lines \in Seq(Line)
        /\ missed' = (missed /\ pending' = pending)
        /\ UNCHANGED <<working, sub>>
    BY <1>1, <1>17 DEF TypeOK, HandleSubscriptionLine
  <2>2. \/ pending' = None
        \/ /\ pending' = pending /\ watched' = watched
           /\ l.event \in {"idle", "closed"} => ~HeldFor(l.pane)
        \/ /\ pending' = pending /\ pending = None
    BY <1>1, <1>3, <1>17 DEF HandleSubscriptionLine, ReleasePendingInput, HeldIsWatched
  <2>3. NoneIsEmpty'
    BY <1>1, <2>1 DEF NoneIsEmpty
  <2>4. CASE pending' = None
    BY <1>19, <2>3, <2>4 DEF Good, HeldIsWatched, Stuck
  <2>5. CASE /\ pending' = pending /\ watched' = watched
             /\ l.event \in {"idle", "closed"} => ~HeldFor(l.pane)
    <3>1. ReleaseOnTheWay => ReleaseOnTheWay'
      <4>. SUFFICES ASSUME NEW i \in 1..Len(lines), HeldFor(lines[i].pane),
                           lines[i].event \in {"idle", "closed"}
                    PROVE  ReleaseOnTheWay'
        BY DEF ReleaseOnTheWay
      <4>1. Len(lines) \in Nat /\ l = lines[1]
        BY <2>1
      <4>2. i # 1
        BY <2>5, <4>1
      <4>3. i - 1 \in 1..Len(lines') /\ lines'[i - 1] = lines[i]
        BY <2>1, <4>1, <4>2
      <4>. QED
        BY <1>3, <2>5, <4>3 DEF ReleaseOnTheWay
    <3>. QED
      <4>1. missed => missed'
        BY <2>1, <2>5, Zenon
      <4>2. Stuck' => Stuck
        BY <2>1, <2>5 DEF Stuck
      <4>3. HeldHasAWakeup'
        BY <1>1, <1>19, <3>1, <4>1, <4>2, Zenon
      <4>4. HeldIsWatched'
        BY <1>1, <2>5 DEF HeldIsWatched
      <4>. QED
        BY <2>3, <4>3, <4>4 DEF Good
  <2>. QED
    BY <2>2, <2>4, <2>5
<1>18. CASE EndTick
  <2>1. UNCHANGED <<pending, watched, working>>
    BY <1>18 DEF EndTick
  <2>2. NoneIsEmpty'
    BY <1>1, <1>18 DEF EndTick, NoneIsEmpty, OpenSubscription
  <2>3. missed \/ ReleaseOnTheWay => missed' \/ ReleaseOnTheWay'
    BY <1>3, <1>18, <2>1 DEF EndTick, ReleaseOnTheWay
  <2>. QED
    <3>1. Stuck' => Stuck
      BY <2>1 DEF Stuck
    <3>2. HeldHasAWakeup'
      BY <1>1, <1>19, <2>3, <3>1, Zenon
    <3>3. HeldIsWatched'
      BY <1>1, <2>1 DEF HeldIsWatched
    <3>. QED
      BY <2>2, <3>2, <3>3 DEF Good
<1>. QED
  BY <1>4, <1>5, <1>6, <1>7, <1>8, <1>9, <1>10, <1>11, <1>12, <1>13, <1>14,
     <1>15, <1>16, <1>17, <1>18 DEF Next

\* R-10-078: a submit that is held is the watched pane's, and either the line
\* that ends it is on its way or Herdr never delivered one.
THEOREM HeldSubmitsAreTended == Spec => []HeldSubmitIsTended
<1>1. Init => HeldInv
  <2>. SUFFICES ASSUME Init PROVE HeldInv
    OBVIOUS
  <2>1. lines = <<>> /\ pending = None
    BY DEF Init
  <2>. QED
    BY <2>1, InitTypes DEF HeldInv, NoneIsEmpty, HeldIsWatched, HeldHasAWakeup, HeldFor
<1>2. HeldInv /\ [Next]_vars => HeldInv'
  BY HeldStep
<1>3. HeldInv => HeldSubmitIsTended
  BY DEF HeldInv, HeldSubmitIsTended
<1>. QED
  BY <1>1, <1>2, <1>3, PTL DEF Spec

-----------------------------------------------------------------------------
(* The books.                                                               *)

\* A step of the thread that says rs keeps the books: W2 wait after it.
Advances(rs, W2) ==
    /\ Apart(W2, Held', Done') /\ TypedOnce'
    /\ \A L \in Seq(Reply) : Book(L, Waiting, Held, Done) =>
         L \o rs \in Seq(Reply) /\ Book(L \o rs, W2, Held', Done')

\* Herdr types a submit it had not typed, or fails.
LEMMA TypedStep ==
    ASSUME TypeOK, TypedOnce, NEW c \in Submits, c \notin Done, NEW ok \in BOOLEAN,
           Typed(c, ok)
    PROVE  TypedOnce' /\ Done' = IF ok THEN Done \cup {c} ELSE Done
<1>1. typed \in Seq(Submits)
  BY DEF TypeOK
<1>2. CASE ok
  <2>1. typed' = Append(typed, c)
    BY <1>2 DEF Typed
  <2>2. /\ Len(typed') = Len(typed) + 1 /\ Len(typed) \in Nat
        /\ \A i \in 1..Len(typed) : typed'[i] = typed[i]
        /\ typed'[Len(typed) + 1] = c
    BY <1>1, <2>1
  <2>3. \A i \in 1..Len(typed) : typed[i] # c
    BY DEF Done
  <2>4. TypedOnce'
    BY <2>2, <2>3 DEF TypedOnce
  <2>5. \A x : x \in Done' <=> x \in Done \/ x = c
    BY <2>2 DEF Done
  <2>. QED
    BY <1>2, <2>4, <2>5
<1>3. CASE ~ok
  BY <1>3 DEF Typed, TypedOnce, Done
<1>. QED
  BY <1>2, <1>3

\* Dropping what is held keeps the books.
LEMMA DropBook ==
    ASSUME TypeOK, Apart(Waiting, Held, Done)
    PROVE  /\ Cancelled \in Seq(Reply)
           /\ Apart(Waiting, {}, Done)
           /\ \A L \in Seq(Reply) : Book(L, Waiting, Held, Done) =>
                L \o Cancelled \in Seq(Reply) /\ Book(L \o Cancelled, Waiting, {}, Done)
<1>1. Cancelled \in Seq(Reply)
  BY RepliesAre
<1>2. Apart(Waiting, {}, Done)
  BY DEF Apart
<1>3. ASSUME NEW L \in Seq(Reply), Book(L, Waiting, Held, Done)
      PROVE  L \o Cancelled \in Seq(Reply) /\ Book(L \o Cancelled, Waiting, {}, Done)
  <2>1. CASE pending = None
    <3>1. Held = {} /\ L \o Cancelled = L
      BY <2>1 DEF Held, Cancelled
    <3>. QED
      BY <1>3, <3>1
  <2>2. CASE pending # None
    <3>. DEFINE h == pending.corr
    <3>1. h \in Submits /\ Held = {h}
      BY <2>2, SMT DEF TypeOK, Held
    <3>2. h \notin Waiting /\ Held \ {h} = {} /\ Waiting \ {h} = Waiting
      BY <3>1 DEF Apart
    <3>3. Cancelled = <<Ack(h, "refused")>>
      BY <2>2 DEF Cancelled
    <3>. HIDE DEF h
    <3>4. /\ Ack(h, "refused") \in Reply
          /\ Book(Append(L, Ack(h, "refused")), Waiting, {}, Done)
      BY <1>3, <3>1, <3>2, SettleRefused
    <3>. QED
      BY <3>3, <3>4, Entries
  <2>. QED
    BY <2>1, <2>2
<1>. QED
  BY <1>1, <1>2, <1>3

\* Nothing happens to the held submit.
LEMMA AdvanceNone ==
    ASSUME TypedOnce, Apart(Waiting, Held, Done), UNCHANGED <<pending, typed>>
    PROVE  Advances(<<>>, Waiting)
<1>1. Held' = Held /\ Done' = Done /\ TypedOnce'
  BY DEF Held, Done, TypedOnce
<1>2. \A L \in Seq(Reply) : L \o <<>> = L
  OBVIOUS
<1>. QED
  BY <1>1, <1>2 DEF Advances

\* The held submit is dropped.
LEMMA AdvanceDrop ==
    ASSUME TypeOK, TypedOnce, Apart(Waiting, Held, Done), pending' = None, typed' = typed
    PROVE  Advances(Cancelled, Waiting)
<1>1. Held' = {} /\ Done' = Done /\ TypedOnce'
  BY DEF Held, Done, TypedOnce
<1>. QED
  BY <1>1, DropBook DEF Advances

\* A submit is refused at once; what is held stays.
LEMMA AdvanceRefuse ==
    ASSUME TypeOK, TypedOnce, Apart(Waiting, Held, Done), UNCHANGED <<pending, typed>>,
           NEW c \in Submits, c \in Waiting
    PROVE  Advances(<<Ack(c, "refused")>>, Waiting \ {c})
<1>1. Held' = Held /\ Done' = Done /\ TypedOnce'
  BY DEF Held, Done, TypedOnce
<1>2. Held \ {c} = Held
  BY DEF Apart
<1>3. Apart(Waiting \ {c}, Held, Done)
  BY DEF Apart
<1>4. ASSUME NEW L \in Seq(Reply), Book(L, Waiting, Held, Done)
      PROVE  /\ L \o <<Ack(c, "refused")>> \in Seq(Reply)
             /\ Book(L \o <<Ack(c, "refused")>>, Waiting \ {c}, Held, Done)
  <2>1. /\ Ack(c, "refused") \in Reply
        /\ Book(Append(L, Ack(c, "refused")), Waiting \ {c}, Held, Done)
    BY <1>2, <1>4, SettleRefused
  <2>. QED
    BY <2>1, Entries
<1>. QED
  BY <1>1, <1>3, <1>4 DEF Advances

\* A submit is held in the place of what was.
LEMMA AdvanceQueue ==
    ASSUME TypeOK, TypedOnce, Apart(Waiting, Held, Done), typed' = typed,
           NEW c \in Submits, c \in Waiting, NEW p \in Panes,
           pending' = [pane |-> p, corr |-> c]
    PROVE  Advances(Append(Cancelled, Ack(c, "queued")), Waiting \ {c})
<1>1. Held' = {c} /\ Done' = Done /\ TypedOnce'
  BY SessionAssumption DEF Held, Done, TypedOnce
<1>2. Apart(Waiting \ {c}, {c}, Done)
  BY DEF Apart
<1>3. ASSUME NEW L \in Seq(Reply), Book(L, Waiting, Held, Done)
      PROVE  /\ L \o Append(Cancelled, Ack(c, "queued")) \in Seq(Reply)
             /\ Book(L \o Append(Cancelled, Ack(c, "queued")), Waiting \ {c}, {c}, Done)
  <2>1. /\ Cancelled \in Seq(Reply) /\ L \o Cancelled \in Seq(Reply)
        /\ Apart(Waiting, {}, Done) /\ Book(L \o Cancelled, Waiting, {}, Done)
    BY <1>3, DropBook
  <2>2. /\ Ack(c, "queued") \in Reply
        /\ Book(Append(L \o Cancelled, Ack(c, "queued")), Waiting \ {c}, {c}, Done)
    BY <2>1, Queue
  <2>. QED
    BY <2>1, <2>2, Entries
<1>. QED
  BY <1>1, <1>2, <1>3 DEF Advances

\* A submit is typed at once, or Herdr fails; what was held is dropped.
LEMMA AdvanceType ==
    ASSUME TypeOK, TypedOnce, Apart(Waiting, Held, Done), pending' = None,
           NEW c \in Submits, c \in Waiting, NEW ok \in BOOLEAN, Typed(c, ok)
    PROVE  Advances(Append(Cancelled, Final(c, ok)), Waiting \ {c})
<1>. DEFINE D2 == IF ok THEN Done \cup {c} ELSE Done
<1>1. Held' = {}
  BY DEF Held
<1>2. c \notin Done
  BY DEF Apart
<1>3. TypedOnce' /\ Done' = D2
  BY <1>2, TypedStep
<1>4. Apart(Waiting \ {c}, {}, D2)
  BY DEF Apart
<1>5. ASSUME NEW L \in Seq(Reply), Book(L, Waiting, Held, Done)
      PROVE  /\ L \o Append(Cancelled, Final(c, ok)) \in Seq(Reply)
             /\ Book(L \o Append(Cancelled, Final(c, ok)), Waiting \ {c}, {}, D2)
  <2>1. /\ Cancelled \in Seq(Reply) /\ L \o Cancelled \in Seq(Reply)
        /\ Apart(Waiting, {}, Done) /\ Book(L \o Cancelled, Waiting, {}, Done)
    BY <1>5, DropBook
  <2>2. {} \ {c} = {}
    OBVIOUS
  <2>3. CASE ok
    <3>1. D2 = Done \cup {c} /\ Final(c, ok) = Ack(c, "accepted")
      BY <2>3 DEF Final
    <3>2. /\ Ack(c, "accepted") \in Reply
          /\ Book(Append(L \o Cancelled, Ack(c, "accepted")), Waiting \ {c}, {} \ {c}, Done \cup {c})
      BY <2>1, SettleAccepted
    <3>3. /\ L \o Append(Cancelled, Ack(c, "accepted")) = Append(L \o Cancelled, Ack(c, "accepted"))
          /\ L \o Append(Cancelled, Ack(c, "accepted")) \in Seq(Reply)
      BY <2>1, <3>2, Entries
    <3>. HIDE DEF D2
    <3>. QED
      BY <2>2, <3>1, <3>2, <3>3
  <2>4. CASE ~ok
    <3>1. D2 = Done /\ Final(c, ok) = Ack(c, "refused")
      BY <2>4 DEF Final
    <3>2. /\ Ack(c, "refused") \in Reply
          /\ Book(Append(L \o Cancelled, Ack(c, "refused")), Waiting \ {c}, {} \ {c}, Done)
      BY <2>1, SettleRefused
    <3>3. /\ L \o Append(Cancelled, Ack(c, "refused")) = Append(L \o Cancelled, Ack(c, "refused"))
          /\ L \o Append(Cancelled, Ack(c, "refused")) \in Seq(Reply)
      BY <2>1, <3>2, Entries
    <3>. HIDE DEF D2
    <3>. QED
      BY <2>2, <3>1, <3>2, <3>3
  <2>. QED
    BY <2>3, <2>4
<1>. QED
  BY <1>1, <1>3, <1>4, <1>5 DEF Advances

\* The held submit is released: typed, or Herdr fails.
LEMMA AdvanceRelease ==
    ASSUME TypeOK, TypedOnce, Apart(Waiting, Held, Done), pending # None, pending' = None,
           NEW ok \in BOOLEAN, Typed(pending.corr, ok)
    PROVE  Final(pending.corr, ok) \in Reply /\ Advances(<<Final(pending.corr, ok)>>, Waiting)
<1>. DEFINE c == pending.corr
            D2 == IF ok THEN Done \cup {c} ELSE Done
<1>1. c \in Submits /\ Held = {c} /\ Held' = {}
  BY SMT DEF TypeOK, Held
<1>. HIDE DEF c
<1>2. c \notin Done /\ Waiting \ {c} = Waiting /\ Held \ {c} = {}
  BY <1>1 DEF Apart
<1>3. TypedOnce' /\ Done' = D2
  BY <1>1, <1>2, TypedStep DEF c
<1>4. Apart(Waiting, {}, D2)
  BY <1>1 DEF Apart
<1>5. Final(c, ok) \in Reply
  BY <1>1, RepliesAre
<1>6. ASSUME NEW L \in Seq(Reply), Book(L, Waiting, Held, Done)
      PROVE  /\ L \o <<Final(c, ok)>> \in Seq(Reply)
             /\ Book(L \o <<Final(c, ok)>>, Waiting, {}, D2)
  <2>1. CASE ok
    <3>1. D2 = Done \cup {c} /\ Final(c, ok) = Ack(c, "accepted")
      BY <2>1 DEF Final
    <3>2. Book(Append(L, Ack(c, "accepted")), Waiting, {}, Done \cup {c})
      BY <1>1, <1>2, <1>6, SettleAccepted
    <3>. QED
      BY <1>5, <3>1, <3>2, Entries
  <2>2. CASE ~ok
    <3>1. D2 = Done /\ Final(c, ok) = Ack(c, "refused")
      BY <2>2 DEF Final
    <3>2. Book(Append(L, Ack(c, "refused")), Waiting, {}, Done)
      BY <1>1, <1>2, <1>6, SettleRefused
    <3>. QED
      BY <1>5, <3>1, <3>2, Entries
  <2>. QED
    BY <2>1, <2>2
<1>. QED
  BY <1>1, <1>3, <1>4, <1>5, <1>6 DEF Advances, c

\* What still waits once a request is served.
Left(r) == IF r.do = "until_idle" THEN Waiting \ {r.corr} ELSE Waiting

\* Dropping when asked to keeps the books.
LEMMA DropAdvances ==
    ASSUME TypeOK, TypedOnce, Apart(Waiting, Held, Done), NEW when, DropPending(when)
    PROVE  \E rs \in Seq(Reply) : Emit(rs) /\ Advances(rs, Waiting)
<1>1. CASE when
  <2>1. Emit(Cancelled) /\ pending' = None /\ typed' = typed
    BY <1>1 DEF DropPending
  <2>. QED
    BY <2>1, AdvanceDrop, RepliesAre
<1>2. CASE ~when
  <2>1. Emit(<<>>) /\ pending' = pending /\ typed' = typed
    BY <1>2 DEF DropPending
  <2>2. <<>> \in Seq(Reply)
    OBVIOUS
  <2>. QED
    BY <2>1, <2>2, AdvanceNone
<1>. QED
  BY <1>1, <1>2

\* Serving a request keeps the books.
LEMMA ServeAdvances ==
    ASSUME TypeOK, TypedOnce, Apart(Waiting, Held, Done), NEW r \in Request, Serve(r),
           r.do = "until_idle" => r.corr \in Waiting
    PROVE  \/ UNCHANGED <<pending, typed, out>> /\ r.do # "until_idle"
           \/ \E rs \in Seq(Reply) : Emit(rs) /\ Advances(rs, Left(r))
<1>1. CASE r.do = "watch" /\ WatchPane(r.pane)
  <2>1. CASE UNCHANGED <<streamVars, bridgeVars, out>>
    BY <1>1, <2>1 DEF bridgeVars
  <2>2. CASE \E when : DropPending(when)
    BY <1>1, <2>2, DropAdvances DEF Left
  <2>. QED
    BY <1>1, <2>1, <2>2 DEF WatchPane
<1>2. CASE r.do \in {"unwatch", "cancel", "enter", "cancel_pending"} /\ \E when : DropPending(when)
  BY <1>2, DropAdvances DEF Left
<1>3. CASE r.do = "until_idle" /\ UntilIdle(r.pane, r.corr)
  <2>. DEFINE c == r.corr
  <2>1. r.pane \in Panes /\ c \in Submits /\ c \in Waiting /\ Left(r) = Waiting \ {c}
    BY <1>3 DEF Request, Left
  <2>2. /\ Cancelled \in Seq(Reply) /\ <<Ack(c, "refused")>> \in Seq(Reply)
        /\ Append(Cancelled, Ack(c, "queued")) \in Seq(Reply)
    <3>1. Ack(c, "refused") \in Reply /\ Ack(c, "queued") \in Reply
      BY <2>1, RepliesAre DEF Kinds
    <3>. QED
      BY <3>1, RepliesAre
  <2>. HIDE DEF c
  <2>3. CASE Emit(<<Ack(c, "refused")>>) /\ UNCHANGED <<pending, typed>>
    BY <2>1, <2>2, <2>3, AdvanceRefuse
  <2>4. CASE /\ Emit(Append(Cancelled, Ack(c, "queued")))
             /\ pending' = [pane |-> r.pane, corr |-> c] /\ typed' = typed
    BY <2>1, <2>2, <2>4, AdvanceQueue
  <2>5. ASSUME NEW ok \in BOOLEAN, Typed(c, ok), Emit(Append(Cancelled, Final(c, ok))),
               pending' = None
        PROVE  \E rs \in Seq(Reply) : Emit(rs) /\ Advances(rs, Left(r))
    <3>1. Append(Cancelled, Final(c, ok)) \in Seq(Reply)
      <4>1. Final(c, ok) \in Reply
        BY <2>1, RepliesAre
      <4>. QED
        BY <2>2, <4>1
    <3>2. Advances(Append(Cancelled, Final(c, ok)), Left(r))
      BY <2>1, <2>5, AdvanceType
    <3>. QED
      BY <2>5, <3>1, <3>2
  <2>. QED
    BY <1>3, <2>3, <2>4, <2>5 DEF UntilIdle, c
<1>. QED
  BY <1>1, <1>2, <1>3 DEF Serve

\* A line of the subscription keeps the books.
LEMMA LineAdvances ==
    ASSUME TypeOK, TypedOnce, Apart(Waiting, Held, Done), HandleSubscriptionLine
    PROVE  \E rs \in Seq(Reply) : /\ replies' = replies \o rs /\ Advances(rs, Waiting)
                                  /\ pending = None => rs = <<>> /\ pending' = None
<1>1. <<>> \in Seq(Reply) /\ replies \o <<>> = replies /\ replies \in Seq(Reply)
  BY DEF TypeOK
<1>2. Cancelled \in Seq(Reply) /\ (pending = None => Cancelled = <<>>)
  BY RepliesAre DEF Cancelled
<1>3. CASE UNCHANGED <<pending, replies, typed>>
  BY <1>1, <1>3, AdvanceNone
<1>4. CASE replies' = replies \o Cancelled /\ pending' = None /\ typed' = typed
  BY <1>2, <1>4, AdvanceDrop
<1>5. ASSUME pending # None, pending' = None, NEW ok \in BOOLEAN, Typed(pending.corr, ok),
             replies' = Append(replies, Final(pending.corr, ok))
      PROVE  \E rs \in Seq(Reply) : /\ replies' = replies \o rs /\ Advances(rs, Waiting)
                                    /\ pending = None => rs = <<>> /\ pending' = None
  <2>1. /\ Final(pending.corr, ok) \in Reply
        /\ Advances(<<Final(pending.corr, ok)>>, Waiting)
    BY <1>5, AdvanceRelease
  <2>2. /\ replies \o <<Final(pending.corr, ok)>> = Append(replies, Final(pending.corr, ok))
        /\ <<Final(pending.corr, ok)>> \in Seq(Reply)
    BY <1>1, <2>1, Entries
  <2>. QED
    BY <1>5, <2>1, <2>2
<1>. QED
  BY <1>3, <1>4, <1>5 DEF HandleSubscriptionLine, ReleasePendingInput, HeldFor, bridgeVars

\* A request that leaves the queue no longer waits there.
LEMMA QueueMoves ==
    ASSUME TypeOK, QueuedOnce, requests # <<>>, requests' = Tail(requests), asked' = asked
    PROVE  /\ QueuedOnce' /\ Waiting' = Left(Head(requests))
           /\ Head(requests) \in Request
           /\ Head(requests).do = "until_idle" => Head(requests).corr \in Waiting
<1>1. /\ requests \in Seq(Request) /\ Len(requests) \in Nat /\ Len(requests) > 0
      /\ Len(requests') = Len(requests) - 1 /\ Head(requests) = requests[1]
      /\ \A i \in 1..Len(requests') : requests'[i] = requests[i + 1]
      /\ Head(requests) \in Request
  BY DEF TypeOK
<1>2. QueuedOnce'
  <2>. SUFFICES ASSUME NEW i \in 1..Len(requests'), requests'[i].do = "until_idle"
                PROVE  /\ requests'[i].corr \in asked
                       /\ \A j \in 1..Len(requests') :
                            requests'[j].do = "until_idle"
                            /\ requests'[j].corr = requests'[i].corr => i = j
    BY DEF QueuedOnce
  <2>1. i + 1 \in 1..Len(requests) /\ requests'[i] = requests[i + 1]
    BY <1>1
  <2>2. \A j \in 1..Len(requests') : j + 1 \in 1..Len(requests) /\ requests'[j] = requests[j + 1]
    BY <1>1
  <2>3. requests[i + 1].corr \in asked
    BY <2>1 DEF QueuedOnce
  <2>4. \A j \in 1..Len(requests') : requests[j + 1].do = "until_idle"
           /\ requests[j + 1].corr = requests[i + 1].corr => i + 1 = j + 1
    BY <2>1, <2>2 DEF QueuedOnce
  <2>. QED
    BY <1>1, <2>1, <2>2, <2>3, <2>4
<1>3. \A c : Queued(c) <=> Queued(c)' \/ (/\ Head(requests).do = "until_idle"
                                          /\ Head(requests).corr = c)
  <2>1. ASSUME NEW c, Queued(c)'
        PROVE  Queued(c)
    <3>1. PICK i \in 1..Len(requests') : requests'[i].do = "until_idle" /\ requests'[i].corr = c
      BY <2>1 DEF Queued
    <3>. QED
      BY <1>1, <3>1 DEF Queued
  <2>2. ASSUME NEW c, Queued(c), ~(Head(requests).do = "until_idle" /\ Head(requests).corr = c)
        PROVE  Queued(c)'
    <3>1. PICK i \in 1..Len(requests) : requests[i].do = "until_idle" /\ requests[i].corr = c
      BY <2>2 DEF Queued
    <3>2. i # 1
      BY <1>1, <2>2, <3>1
    <3>3. i - 1 \in 1..Len(requests') /\ requests'[i - 1] = requests[i]
      BY <1>1, <3>2
    <3>. QED
      BY <3>1, <3>3 DEF Queued
  <2>3. ASSUME NEW c, Head(requests).do = "until_idle", Head(requests).corr = c
        PROVE  Queued(c)
    BY <1>1, <2>3 DEF Queued
  <2>. QED
    BY <2>1, <2>2, <2>3
<1>4. \A c : Head(requests).do = "until_idle" /\ Head(requests).corr = c =>
                c \in asked /\ ~Queued(c)'
  <2>. SUFFICES ASSUME NEW c, Head(requests).do = "until_idle", Head(requests).corr = c
                PROVE  c \in asked /\ ~Queued(c)'
    OBVIOUS
  <2>1. 1 \in 1..Len(requests) /\ requests[1].do = "until_idle"
    BY <1>1
  <2>2. /\ requests[1].corr \in asked
        /\ \A j \in 1..Len(requests) : requests[j].do = "until_idle"
              /\ requests[j].corr = requests[1].corr => j = 1
    BY <2>1 DEF QueuedOnce
  <2>3. \A j \in 1..Len(requests') : j + 1 \in 1..Len(requests) /\ j + 1 # 1
           /\ requests'[j] = requests[j + 1]
    BY <1>1
  <2>. QED
    BY <1>1, <2>2, <2>3 DEF Queued
<1>5. asked \subseteq Submits
  BY DEF TypeOK
<1>6. Waiting' = Left(Head(requests))
  <2>1. \A c : c \in Waiting' <=> c \in Submits /\ (c \notin asked \/ Queued(c)')
    BY DEF Waiting, Queued
  <2>2. \A c : c \in Waiting <=> c \in Submits /\ (c \notin asked \/ Queued(c))
    BY DEF Waiting, Queued
  <2>3. CASE Head(requests).do = "until_idle"
    BY <1>3, <1>4, <2>1, <2>2, <2>3 DEF Left
  <2>4. CASE Head(requests).do # "until_idle"
    BY <1>3, <2>1, <2>2, <2>4 DEF Left
  <2>. QED
    BY <2>3, <2>4
<1>7. Head(requests).do = "until_idle" => Head(requests).corr \in Waiting
  BY <1>3, <1>4, <1>5 DEF Waiting, Queued
<1>. QED
  BY <1>1, <1>2, <1>6, <1>7

\* The books after a step of the thread.
LEMMA BooksAdvance ==
    ASSUME TypeOK, Books, NEW rs \in Seq(Reply), Advances(rs, Waiting'),
           session' = session, got' = got, active => Said' = Said \o rs
    PROVE  Books' /\ Apart(Waiting, Held, Done)' /\ TypedOnce'
<1>1. Apart(Waiting, Held, Done)' /\ TypedOnce'
  BY DEF Advances
<1>2. active' <=> active
  BY DEF active
<1>3. CASE active
  <2>1. Said \in Seq(Reply)
    BY DEF TypeOK, Said
  <2>2. Book(Said, Waiting, Held, Done)
    BY <1>3 DEF Books
  <2>3. Book(Said \o rs, Waiting', Held', Done')
    BY <2>1, <2>2 DEF Advances
  <2>. QED
    BY <1>1, <1>2, <1>3, <2>3 DEF Books
<1>4. CASE ~active
  BY <1>1, <1>2, <1>4 DEF Books, Readable, InOrder, OneAtATime
<1>. QED
  BY <1>3, <1>4

\* What is said grows by what the thread emits, or keeps for the end of a tick.
LEMMA SaidGrows ==
    ASSUME TypeOK, NEW rs \in Seq(Reply), got' = got
    PROVE  /\ replies = <<>> /\ replies' = <<>> /\ Emit(rs) /\ active => Said' = Said \o rs
           /\ replies' = replies \o rs /\ out' = out => Said' = Said \o rs
<1>1. got \in Seq(Reply) /\ out \in Seq(Reply) /\ replies \in Seq(Reply)
  BY DEF TypeOK
<1>2. ASSUME replies = <<>>, replies' = <<>>, Emit(rs), active
      PROVE  Said' = Said \o rs
  <2>1. out' = out \o rs
    BY <1>2 DEF Emit
  <2>2. /\ (got \o (out \o rs)) \o <<>> = got \o (out \o rs)
        /\ (got \o out) \o <<>> = got \o out
        /\ got \o (out \o rs) = (got \o out) \o rs
    <3>1. /\ out \o rs \in Seq(Reply) /\ got \o (out \o rs) \in Seq(Reply)
          /\ got \o out \in Seq(Reply)
      BY <1>1
    <3>2. got \o (out \o rs) = (got \o out) \o rs
      BY SMTT(30), <1>1, Chained
    <3>. QED
      BY <3>1, <3>2, ConcatEmptySeq
  <2>. QED
    BY <1>2, <2>1, <2>2 DEF Said
<1>3. ASSUME replies' = replies \o rs, out' = out
      PROVE  Said' = Said \o rs
  <2>1. (got \o out) \o (replies \o rs) = ((got \o out) \o replies) \o rs
    <3>1. got \o out \in Seq(Reply)
      BY <1>1
    <3>. QED
      BY <1>1, <3>1, Chained
  <2>. QED
    BY <1>3, <2>1 DEF Said
<1>. QED
  BY <1>2, <1>3

\* Nothing of the session changes with what these leave alone.
LEMMA SessionUntouched ==
    ASSUME SessionInv, TypeOK', Room', RepliesOfATick',
           UNCHANGED <<requests, asked, pending, typed, replies, out, got, session>>
    PROVE  SessionInv'
<1>1. Waiting' = Waiting /\ Held' = Held /\ Done' = Done /\ Said' = Said
  BY DEF Waiting, Queued, Held, Done, Said
<1>2. active' <=> active
  BY DEF active
<1>3. Books'
  BY <1>1, <1>2 DEF SessionInv, Books, Readable, InOrder, OneAtATime
<1>4. QueuedOnce' /\ TypedOnce' /\ ClosingIsLast' /\ CloseAnswersEverything'
  BY DEF SessionInv, QueuedOnce, TypedOnce, ClosingIsLast, CloseAnswersEverything
<1>. QED
  BY <1>1, <1>3, <1>4 DEF SessionInv

\* A step of the thread that keeps the books keeps the invariant.
LEMMA SessionAdvances ==
    ASSUME SessionInv, TypeOK', Room', RepliesOfATick', ClosingIsLast', QueuedOnce',
           NEW rs \in Seq(Reply), Advances(rs, Waiting'),
           UNCHANGED <<session, got, asked>>, active => Said' = Said \o rs
    PROVE  SessionInv'
<1>1. Books' /\ Apart(Waiting, Held, Done)' /\ TypedOnce'
  BY BooksAdvance DEF SessionInv
<1>2. CloseAnswersEverything'
  BY DEF SessionInv, CloseAnswersEverything
<1>. QED
  BY <1>1, <1>2 DEF SessionInv

\* The session's state stays right with every step.
LEMMA SessionStep ==
    ASSUME SessionInv, [Next]_vars
    PROVE  SessionInv'
<1>. USE DEF herdrVars, streamVars, bridgeVars
<1>1. /\ TypeOK /\ Room /\ RepliesOfATick /\ QueuedOnce /\ TypedOnce
      /\ Apart(Waiting, Held, Done) /\ ClosingIsLast /\ Books /\ CloseAnswersEverything
  BY DEF SessionInv
<1>2. TypeOK' /\ Room'
  BY <1>1, TypeStep
<1>3. CASE UNCHANGED vars
  BY <1>1, <1>2, <1>3, SessionUntouched DEF vars, RepliesOfATick
<1>4. CASE SubscriptionBreaks \/ BeginTick \/ \E p \in Panes :
             AgentStarts(p) \/ AgentStops(p) \/ PaneOpens(p) \/ PaneCloses(p)
  <2>1. /\ UNCHANGED <<requests, asked, pending, typed, replies, out, got, session>>
        /\ at' # "tick" => at # "tick"
    BY <1>4 DEF SubscriptionBreaks, BeginTick, AgentStarts, AgentStops, PaneOpens, PaneCloses
  <2>. QED
    BY <1>1, <1>2, <2>1, SessionUntouched DEF RepliesOfATick
<1>5. CASE DispatchIncoming
  <2>1. /\ session = "open"
        /\ \E p \in Panes :
             \/ /\ \E do \in {"watch", "unwatch", "cancel", "enter"} :
                     requests' = Append(requests, [do |-> do, pane |-> p])
                /\ asked' = asked
             \/ \E c \in Submits \ asked :
                   /\ requests' = Append(requests, [do |-> "until_idle", pane |-> p, corr |-> c])
                   /\ asked' = asked \cup {c}
        /\ UNCHANGED <<at, pending, typed, replies, out, got, session>>
    BY <1>5 DEF DispatchIncoming
  <2>2. PICK r : /\ requests' = Append(requests, r)
                 /\ \/ r.do # "until_idle" /\ asked' = asked
                    \/ /\ r.do = "until_idle" /\ r.corr \in Submits \ asked
                       /\ asked' = asked \cup {r.corr}
    <3>1. ASSUME NEW p \in Panes, NEW do \in {"watch", "unwatch", "cancel", "enter"},
                 requests' = Append(requests, [do |-> do, pane |-> p]), asked' = asked
          PROVE  \E r : requests' = Append(requests, r) /\ r.do # "until_idle" /\ asked' = asked
      <4>1. [do |-> do, pane |-> p].do # "until_idle"
        OBVIOUS
      <4>. QED
        BY <3>1, <4>1
    <3>2. ASSUME NEW p \in Panes, NEW c \in Submits \ asked,
                 requests' = Append(requests, [do |-> "until_idle", pane |-> p, corr |-> c]),
                 asked' = asked \cup {c}
          PROVE  \E r : /\ requests' = Append(requests, r)
                        /\ r.do = "until_idle" /\ r.corr \in Submits \ asked
                        /\ asked' = asked \cup {r.corr}
      <4>. DEFINE r == [do |-> "until_idle", pane |-> p, corr |-> c]
      <4>1. r.do = "until_idle" /\ r.corr = c
        OBVIOUS
      <4>. HIDE DEF r
      <4>2. requests' = Append(requests, r)
        BY <3>2 DEF r
      <4>. QED
        BY <3>2, <4>1, <4>2
    <3>. QED
      BY <2>1, <3>1, <3>2
  <2>3. /\ Len(requests') = Len(requests) + 1 /\ Len(requests) \in Nat
        /\ \A i \in 1..Len(requests) : requests'[i] = requests[i]
        /\ requests'[Len(requests) + 1] = r
        /\ asked \subseteq Submits
    BY <1>1, <2>2 DEF TypeOK
  <2>4. QueuedOnce'
    BY <1>1, <2>2, <2>3 DEF QueuedOnce
  <2>5. \A c : Queued(c)' <=> Queued(c) \/ (r.do = "until_idle" /\ r.corr = c)
    BY <2>3 DEF Queued
  <2>6. Waiting' = Waiting
    <3>1. \A c : c \in Waiting' <=> c \in Submits /\ (c \notin asked' \/ Queued(c)')
      BY DEF Waiting, Queued
    <3>2. \A c : c \in Waiting <=> c \in Submits /\ (c \notin asked \/ Queued(c))
      BY DEF Waiting, Queued
    <3>. QED
      BY <2>2, <2>3, <2>5, <3>1, <3>2
  <2>7. Held' = Held /\ Done' = Done /\ Said' = Said /\ (active' <=> active)
    BY <2>1 DEF Held, Done, Said, active
  <2>8. Books' /\ TypedOnce' /\ RepliesOfATick'
    BY <1>1, <2>1, <2>6, <2>7 DEF Books, Readable, InOrder, OneAtATime, TypedOnce, RepliesOfATick
  <2>9. ClosingIsLast' /\ CloseAnswersEverything'
    BY <2>1 DEF ClosingIsLast, CloseAnswersEverything
  <2>. QED
    BY <1>1, <1>2, <2>4, <2>6, <2>7, <2>8, <2>9 DEF SessionInv
<1>6. CASE SendReply
  <2>1. /\ session = "open" /\ out # <<>>
        /\ got' = Append(got, Head(out)) /\ out' = Tail(out)
        /\ UNCHANGED <<requests, asked, at, pending, typed, replies, session>>
    BY <1>6 DEF SendReply
  <2>2. Said' = Said
    <3>1. got \in Seq(Reply) /\ out \in Seq(Reply)
      BY <1>1 DEF TypeOK
    <3>2. Append(got, Head(out)) \o Tail(out) = got \o out
      BY <2>1, <3>1
    <3>. QED
      BY <2>1, <3>2 DEF Said
  <2>3. Waiting' = Waiting /\ Held' = Held /\ Done' = Done /\ (active' <=> active) /\ active
    BY <2>1 DEF Waiting, Queued, Held, Done, active
  <2>4. Books'
    BY <1>1, <2>2, <2>3 DEF Books
  <2>5. QueuedOnce' /\ TypedOnce' /\ RepliesOfATick' /\ ClosingIsLast' /\ CloseAnswersEverything'
    BY <1>1, <2>1
    DEF QueuedOnce, TypedOnce, RepliesOfATick, ClosingIsLast, CloseAnswersEverything
  <2>. QED
    BY <1>1, <1>2, <2>3, <2>4, <2>5 DEF SessionInv
<1>7. CASE BeginClose
  <2>. DEFINE r == [do |-> "cancel_pending"]
  <2>1. /\ session = "open" /\ session' = "closing" /\ requests' = Append(requests, r)
        /\ UNCHANGED <<asked, at, pending, typed, replies, out, got>>
    BY <1>7 DEF BeginClose
  <2>2. /\ Len(requests') = Len(requests) + 1 /\ Len(requests) \in Nat
        /\ \A i \in 1..Len(requests) : requests'[i] = requests[i]
        /\ requests'[Len(requests) + 1] = r /\ r.do = "cancel_pending"
    BY <1>1, <2>1 DEF TypeOK
  <2>. HIDE DEF r
  <2>3. QueuedOnce'
    BY <1>1, <2>1, <2>2 DEF QueuedOnce
  <2>4. \A c : Queued(c)' <=> Queued(c)
    BY <2>2 DEF Queued
  <2>5. Waiting' = Waiting /\ Held' = Held /\ Done' = Done /\ Said' = Said
    <3>1. \A c : c \in Waiting' <=> c \in Submits /\ (c \notin asked' \/ Queued(c)')
      BY DEF Waiting, Queued
    <3>2. \A c : c \in Waiting <=> c \in Submits /\ (c \notin asked \/ Queued(c))
      BY DEF Waiting, Queued
    <3>3. Waiting' = Waiting
      BY <2>1, <2>4, <3>1, <3>2
    <3>. QED
      BY <2>1, <3>3 DEF Held, Done, Said
  <2>6. active /\ active'
    BY <2>1 DEF active
  <2>7. Books' /\ TypedOnce' /\ RepliesOfATick'
    BY <1>1, <2>1, <2>5, <2>6 DEF Books, TypedOnce, RepliesOfATick
  <2>8. ClosingIsLast' /\ CloseAnswersEverything'
    BY <2>1, <2>2 DEF ClosingIsLast, CloseAnswersEverything
  <2>. QED
    BY <1>1, <1>2, <2>3, <2>5, <2>7, <2>8 DEF SessionInv
<1>8. CASE FinishClose
  <2>1. /\ session = "closing" /\ session' = "closed"
        /\ \A i \in 1..Len(requests) : requests[i].do # "cancel_pending"
        /\ got' = got \o out
        /\ UNCHANGED <<requests, asked, at, pending, typed, replies>>
    BY <1>8 DEF FinishClose
  <2>2. requests = <<>> /\ pending = None /\ replies = <<>>
    <3>1. requests # <<>> => Len(requests) \in 1..Len(requests)
      BY <1>1 DEF TypeOK
    <3>. QED
      BY <1>1, <2>1, <3>1 DEF ClosingIsLast
  <2>3. Said = got'
    BY <1>1, <2>1, <2>2 DEF TypeOK, Said
  <2>4. active /\ ~active'
    BY <2>1 DEF active
  <2>5. Book(got', Waiting, Held, Done)
    BY <1>1, <2>3, <2>4 DEF Books
  <2>6. Books'
    BY <2>4, <2>5 DEF Books, Book
  <2>7. Waiting = Submits \ asked /\ Held = {}
    BY <2>2 DEF Waiting, Queued, Held
  <2>8. CloseAnswersEverything'
    <3>1. asked \subseteq Submits
      BY <1>1 DEF TypeOK
    <3>2. \A c \in asked : KindsIn(got', c) \cap {"accepted", "refused"} # {}
      BY <2>5, <2>7, <3>1 DEF Book, Says
    <3>3. \A c : KindsIn(got, c)' = KindsIn(got', c)
      BY DEF KindsIn
    <3>. QED
      BY <2>1, <3>2, <3>3 DEF CloseAnswersEverything
  <2>9. Waiting' = Waiting /\ Held' = Held /\ Done' = Done
    BY <2>1 DEF Waiting, Queued, Held, Done
  <2>10. QueuedOnce' /\ TypedOnce' /\ RepliesOfATick' /\ ClosingIsLast'
    BY <1>1, <2>1 DEF QueuedOnce, TypedOnce, RepliesOfATick, ClosingIsLast
  <2>. QED
    BY <1>1, <1>2, <2>6, <2>8, <2>9, <2>10 DEF SessionInv
<1>9. CASE LoseSession
  <2>1. /\ session \in {"open", "closing"} /\ session' = "lost"
        /\ UNCHANGED <<requests, asked, at, pending, typed, replies, got>>
    BY <1>9 DEF LoseSession
  <2>2. Readable(got)
    <3>1. Book(Said, Waiting, Held, Done)
      BY <1>1, <2>1 DEF Books, active
    <3>2. got \in Seq(Reply) /\ out \o replies \in Seq(Reply) /\ Said = got \o (out \o replies)
      BY SMTT(30), <1>1, ConcatAssociative DEF TypeOK, Said
    <3>. QED
      BY <3>1, <3>2, ReadablePrefix DEF Book
  <2>3. Books'
    BY <2>1, <2>2 DEF Books, active, Readable, InOrder, OneAtATime
  <2>4. Waiting' = Waiting /\ Held' = Held /\ Done' = Done
    BY <2>1 DEF Waiting, Queued, Held, Done
  <2>5. QueuedOnce' /\ TypedOnce' /\ RepliesOfATick' /\ ClosingIsLast' /\ CloseAnswersEverything'
    BY <1>1, <2>1
    DEF QueuedOnce, TypedOnce, RepliesOfATick, ClosingIsLast, CloseAnswersEverything
  <2>. QED
    BY <1>1, <1>2, <2>3, <2>4, <2>5 DEF SessionInv
<1>10. CASE ServeRequest
  <2>. DEFINE r == Head(requests)
  <2>1. /\ at = "serve" /\ at' = at /\ requests # <<>> /\ requests' = Tail(requests)
        /\ Serve(r)
        /\ UNCHANGED <<asked, got, session>>
    BY <1>10 DEF ServeRequest
  <2>2. /\ QueuedOnce' /\ Waiting' = Left(r) /\ r \in Request
        /\ r.do = "until_idle" => r.corr \in Waiting
    BY <1>1, <2>1, QueueMoves
  <2>3. replies' = replies /\ replies = <<>> /\ RepliesOfATick'
    <3>1. replies' = replies
      BY <1>1, <2>1, <2>2, ServeTypes
    <3>. QED
      BY <1>1, <2>1, <3>1 DEF RepliesOfATick
  <2>4. ClosingIsLast'
    <3>. SUFFICES ASSUME session = "closing"
                  PROVE  IF requests' = <<>> THEN pending' = None /\ replies' = <<>>
                         ELSE requests'[Len(requests')].do = "cancel_pending"
      BY <2>1 DEF ClosingIsLast
    <3>1. /\ requests \in Seq(Request) /\ Len(requests) \in Nat /\ Len(requests) > 0
          /\ Len(requests') = Len(requests) - 1 /\ requests' \in Seq(Request)
          /\ \A i \in 1..Len(requests') : requests'[i] = requests[i + 1]
          /\ requests[Len(requests)].do = "cancel_pending" /\ r = requests[1]
      BY <1>1, <2>1 DEF TypeOK, ClosingIsLast
    <3>2. CASE requests' = <<>>
      <4>1. Len(requests) = 1
        BY <3>1, <3>2
      <4>2. r.do = "cancel_pending"
        BY <3>1, <4>1
      <4>. HIDE DEF r
      <4>3. pending' = None
        BY <2>1, <4>2 DEF Serve, DropPending
      <4>. QED
        BY <2>3, <3>2, <4>3
    <3>3. CASE requests' # <<>>
      <4>1. Len(requests') \in 1..Len(requests') /\ Len(requests') + 1 = Len(requests)
        BY <3>1, <3>3
      <4>. QED
        BY <3>1, <3>3, <4>1
    <3>. QED
      BY <3>2, <3>3
  <2>5. PICK rs \in Seq(Reply) : /\ Advances(rs, Waiting')
                                 /\ active => Said' = Said \o rs
    <3>. HIDE DEF r
    <3>1. CASE UNCHANGED <<pending, typed, out>> /\ r.do # "until_idle"
      <4>1. Advances(<<>>, Waiting') /\ <<>> \in Seq(Reply)
        BY <1>1, <2>2, <3>1, AdvanceNone DEF Left
      <4>2. Said' = Said /\ Said \in Seq(Reply)
        BY <1>1, <2>1, <2>3, <3>1 DEF Said, TypeOK
      <4>3. Said \o <<>> = Said
        BY <4>2, ConcatEmptySeq
      <4>. QED
        BY <4>1, <4>2, <4>3
    <3>2. ASSUME NEW rs \in Seq(Reply), Emit(rs), Advances(rs, Left(r))
          PROVE  Advances(rs, Waiting') /\ (active => Said' = Said \o rs)
      BY <1>1, <2>1, <2>2, <2>3, <3>2, SaidGrows
    <3>3. \/ UNCHANGED <<pending, typed, out>> /\ r.do # "until_idle"
          \/ \E rs \in Seq(Reply) : Emit(rs) /\ Advances(rs, Left(r))
      BY <1>1, <2>1, <2>2, ServeAdvances
    <3>. QED
      BY <3>1, <3>2, <3>3
  <2>. QED
    BY <1>2, <2>1, <2>2, <2>3, <2>4, <2>5, SessionAdvances
<1>11. CASE HandleSubscriptionLine
  <2>1. /\ at = "tick" /\ at' = at
        /\ UNCHANGED <<requests, asked, out, got, session>>
    BY <1>11 DEF HandleSubscriptionLine
  <2>2. PICK rs \in Seq(Reply) : /\ replies' = replies \o rs /\ Advances(rs, Waiting)
                                 /\ pending = None => rs = <<>> /\ pending' = None
    BY <1>1, <1>11, LineAdvances
  <2>3. Waiting' = Waiting /\ QueuedOnce' /\ RepliesOfATick'
    BY <1>1, <2>1 DEF Waiting, Queued, QueuedOnce, RepliesOfATick
  <2>4. Said' = Said \o rs
    BY <1>1, <2>1, <2>2, SaidGrows
  <2>5. ClosingIsLast'
    <3>1. replies = <<>> /\ rs = <<>> => replies \o rs = <<>>
      OBVIOUS
    <3>. QED
      BY <1>1, <2>1, <2>2, <3>1 DEF ClosingIsLast
  <2>. QED
    BY <1>2, <2>1, <2>2, <2>3, <2>4, <2>5, SessionAdvances
<1>12. CASE EndTick
  <2>1. /\ at = "tick" /\ at' = "serve" /\ Emit(replies) /\ replies' = <<>>
        /\ UNCHANGED <<requests, asked, pending, typed, got, session>>
    BY <1>12 DEF EndTick
  <2>2. Waiting' = Waiting /\ Held' = Held /\ Done' = Done /\ (active' <=> active)
    BY <2>1 DEF Waiting, Queued, Held, Done, active
  <2>3. active => Said' = Said
    <3>1. /\ got \in Seq(Reply) /\ out \in Seq(Reply) /\ replies \in Seq(Reply)
          /\ out \o replies \in Seq(Reply) /\ got \o (out \o replies) \in Seq(Reply)
      BY <1>1 DEF TypeOK
    <3>2. /\ (got \o out) \o replies = got \o (out \o replies)
          /\ (got \o (out \o replies)) \o <<>> = got \o (out \o replies)
      BY SMTT(30), <3>1, ConcatAssociative, ConcatEmptySeq
    <3>. QED
      BY <2>1, <3>2 DEF Said, Emit
  <2>4. Books'
    BY <1>1, <2>1, <2>2, <2>3 DEF Books, Readable, InOrder, OneAtATime
  <2>5. QueuedOnce' /\ TypedOnce' /\ RepliesOfATick' /\ ClosingIsLast' /\ CloseAnswersEverything'
    BY <1>1, <2>1
    DEF QueuedOnce, TypedOnce, RepliesOfATick, ClosingIsLast, CloseAnswersEverything
  <2>. QED
    BY <1>1, <1>2, <2>2, <2>4, <2>5 DEF SessionInv
<1>. QED
  BY <1>3, <1>4, <1>5, <1>6, <1>7, <1>8, <1>9, <1>10, <1>11, <1>12 DEF Next

\* A session starts with nothing asked.
LEMMA SessionStarts == Init => SessionInv
<1>. SUFFICES ASSUME Init PROVE SessionInv
  OBVIOUS
<1>1. /\ requests = <<>> /\ replies = <<>> /\ out = <<>> /\ got = <<>> /\ typed = <<>>
      /\ pending = None /\ session = "open" /\ asked = {} /\ at = "serve"
  BY DEF Init
<1>2. TypeOK /\ Room
  BY InitTypes
<1>3. RepliesOfATick /\ QueuedOnce /\ TypedOnce /\ ClosingIsLast /\ CloseAnswersEverything
  BY <1>1 DEF RepliesOfATick, QueuedOnce, TypedOnce, ClosingIsLast, CloseAnswersEverything
<1>4. Waiting = Submits /\ Held = {} /\ Done = {}
  BY <1>1 DEF Waiting, Queued, Held, Done
<1>5. Apart(Waiting, Held, Done)
  BY <1>4 DEF Apart
<1>6. Said = <<>>
  BY <1>1 DEF Said
<1>7. Book(<<>>, Submits, {}, {})
  BY DEF Book, Readable, InOrder, OneAtATime, Says, KindsIn
<1>. QED
  BY <1>1, <1>2, <1>3, <1>4, <1>5, <1>6, <1>7 DEF SessionInv, Books, active

\* R-10-078, R-11-253: each submit the thread took is held or has one true final
\* answer, in order, and the Device never sees two held.
THEOREM AnswersStayTrue == Spec => []AnswersAreTrue
<1>1. Init => SessionInv
  BY SessionStarts
<1>2. SessionInv /\ [Next]_vars => SessionInv'
  BY SessionStep
<1>3. SessionInv => AnswersAreTrue
  <2>. SUFFICES ASSUME SessionInv PROVE AnswersAreTrue
    OBVIOUS
  <2>1. /\ got \in Seq(Reply) /\ out \in Seq(Reply) /\ replies \in Seq(Reply)
        /\ out \o replies \in Seq(Reply) /\ asked \subseteq Submits
        /\ pending # None => pending.corr \in Submits
    BY SMT DEF SessionInv, TypeOK
  <2>2. Readable(got)
    <3>1. CASE active
      <4>1. Readable(Said)
        BY <3>1 DEF SessionInv, Books, Book
      <4>2. Said = got \o (out \o replies)
        BY <2>1, ConcatAssociative DEF Said
      <4>. QED
        BY <2>1, <4>1, <4>2, ReadablePrefix
    <3>2. CASE ~active
      BY <3>2 DEF SessionInv, Books
    <3>. QED
      BY <3>1, <3>2
  <2>3. OneHeldAtTheDevice
    BY <2>1, <2>2, ReadableHoldsOne DEF OneHeldAtTheDevice
  <2>4. ASSUME active
        PROVE  /\ InOrder(Said)
               /\ \A c \in asked :
                    IF Queued(c) THEN KindsIn(Said, c) = {}
                    ELSE IF pending # None /\ pending.corr = c
                         THEN KindsIn(Said, c) = {"queued"}
                    ELSE IF \E i \in 1..Len(typed) : typed[i] = c
                         THEN "accepted" \in KindsIn(Said, c)
                         ELSE "refused" \in KindsIn(Said, c)
    <3>1. Readable(Said) /\ Says(Said, Waiting, Held, Done)
      BY <2>4 DEF SessionInv, Books, Book
    <3>2. \A c \in asked : /\ c \in Waiting <=> Queued(c)
                           /\ c \in Held <=> pending # None /\ pending.corr = c
                           /\ c \in Done <=> \E i \in 1..Len(typed) : typed[i] = c
      BY <2>1 DEF Waiting, Queued, Held, Done
    <3>3. Apart(Waiting, Held, Done)
      BY DEF SessionInv
    <3>. QED
      BY <2>1, <3>1, <3>2, <3>3 DEF Readable, Says, Apart
  <2>5. \A i, j \in 1..Len(typed) : typed[i] = typed[j] => i = j
    BY DEF SessionInv, TypedOnce
  <2>. QED
    BY <2>2, <2>3, <2>4, <2>5 DEF AnswersAreTrue, AnsweredOnceAndTruly, Readable
<1>. QED
  BY <1>1, <1>2, <1>3, PTL DEF Spec

\* R-10-078: a session that closes in good order has told the Device how each
\* of its submits ended.
THEOREM ClosesAnswerEverything == Spec => []CloseAnswersEverything
<1>1. Init => SessionInv
  BY SessionStarts
<1>2. SessionInv /\ [Next]_vars => SessionInv'
  BY SessionStep
<1>3. SessionInv => CloseAnswersEverything
  BY DEF SessionInv
<1>. QED
  BY <1>1, <1>2, <1>3, PTL DEF Spec
-----------------------------------------------------------------------------
(***************************************************************************)
(* PaneScheduler: the inductive invariant, one part for each argument.       *)
(***************************************************************************)

\* The history is the tail of the reads; what was popped is a second old.
HistoryIsTail ==
    /\ Len(read_history) <= Len(reads)
    /\ \A i \in 1..Len(read_history) :
          read_history[i] = reads[Len(reads) - Len(read_history) + i]
    /\ \A i \in 1..(Len(reads) - Len(read_history)) : reads[i] + Second <= now
    /\ Len(read_history) <= MaxPerSec
    /\ \A i \in 1..Len(read_history) : read_history[i] <= now

\* The armed deadlines: where they lie, and how late the thread is on them.
Punctual ==
    /\ next_poll <= now + Poll
    /\ now <= next_poll + MaxLate
    /\ pending_due # NoInstant => now <= pending_due + MaxLate
    /\ window_open_until # NoInstant => window_open_until <= now + Window

\* A pending revision waits for its window, or, once the cap refused it, for
\* the oldest counted read to leave the second.
PendingIsBounded ==
    /\ moved_at # NoInstant <=> pending_due # NoInstant
    /\ moved_at # NoInstant => moved_at <= now
    /\ pending_due # NoInstant =>
         \/ pending_due <= moved_at + Window
         \/ /\ Len(read_history) >= MaxPerSec
            /\ pending_due = read_history[1] + Second
            /\ read_history[1] <= moved_at + Window + MaxLate

\* A pending revision never falls inside an open window.
PendingAfterWindow ==
    pending_due # NoInstant /\ window_open_until # NoInstant =>
        pending_due >= window_open_until

\* While the Device's frame is stale, only failed reads are newer than the
\* change, so the cap cannot hold the poll back for more than a second.
Slack(f) == (1 + f) * (Poll + MaxLate)

StaleIsPolled ==
    stale_at # NoInstant =>
        /\ stale_at <= now
        /\ \A i \in 1..Len(read_history) :
              i <= Len(read_history) - fails => read_history[i] <= stale_at
        /\ next_poll + MaxLate <= stale_at + Second + Slack(fails)

SchedulerInv ==
    /\ SchedulerTypeOK
    /\ HistoryIsTail
    /\ ReadsCapped
    /\ Punctual
    /\ PendingIsBounded
    /\ PendingAfterWindow
    /\ StaleIsPolled

(***************************************************************************)
(* What the pruning loop of fire leaves.                                     *)
(***************************************************************************)

\* Dropping k reads keeps the others, in order.
LEMMA KeptIsTail ==
    ASSUME SchedulerTypeOK, NEW k \in 0..Len(read_history)
    PROVE  /\ Kept(k) \in Seq(Instant)
           /\ Len(Kept(k)) = Len(read_history) - k
           /\ \A i \in 1..Len(Kept(k)) : Kept(k)[i] = read_history[k + i]
<1>1. read_history \in Seq(Instant) /\ Len(read_history) \in Nat
  BY DEF SchedulerTypeOK
<1>2. \A i \in (k + 1)..Len(read_history) : read_history[i] \in Instant
  BY <1>1
<1>. QED
  BY <1>1, <1>2 DEF Kept

\* A pruned history is still the tail of the reads, and what it lost is old.
LEMMA KeptInTail ==
    ASSUME SchedulerTypeOK, HistoryIsTail, NEW k \in 0..Len(read_history), Expired(k)
    PROVE  /\ \A i \in 1..Len(Kept(k)) :
                 /\ Kept(k)[i] = reads[Len(reads) - Len(Kept(k)) + i]
                 /\ Kept(k)[i] <= now
           /\ \A i \in 1..(Len(reads) - Len(Kept(k))) : reads[i] + Second <= now
           /\ Len(Kept(k)) > 0 => now - Kept(k)[1] < Second
<1> DEFINE n == Len(read_history)
           m == Len(reads)
<1>1. /\ n \in Nat /\ m \in Nat /\ n <= m /\ now \in Nat /\ Second \in Nat
      /\ read_history \in Seq(Nat) /\ reads \in Seq(Nat)
  BY SchedulerAssumption DEF SchedulerTypeOK, HistoryIsTail, Instant
<1>2. Len(Kept(k)) = n - k /\ \A i \in 1..(n - k) : Kept(k)[i] = read_history[k + i]
  BY KeptIsTail
<1>3. ASSUME NEW i \in 1..(n - k)
      PROVE  /\ Kept(k)[i] = reads[m - (n - k) + i]
             /\ Kept(k)[i] <= now
  <2>1. k + i \in 1..n /\ m - n + (k + i) = m - (n - k) + i
    BY <1>1
  <2>2. read_history[k + i] = reads[m - n + (k + i)] /\ read_history[k + i] <= now
    BY <2>1 DEF HistoryIsTail
  <2>. QED
    BY <1>2, <2>1, <2>2
<1>4. ASSUME NEW i \in 1..(m - (n - k))
      PROVE  reads[i] + Second <= now
  <2>1. CASE i <= m - n
    <3>1. i \in 1..(m - n)
      BY <1>1, <2>1
    <3>. QED
      BY <3>1 DEF HistoryIsTail
  <2>2. CASE i > m - n
    <3>1. i - (m - n) \in 1..k /\ i - (m - n) \in 1..n /\ m - n + (i - (m - n)) = i
      BY <1>1, <2>2
    <3>2. now - read_history[i - (m - n)] >= Second
      BY <3>1 DEF Expired
    <3>3. read_history[i - (m - n)] = reads[i]
      BY <3>1 DEF HistoryIsTail
    <3>4. reads[i] \in Nat
      BY <1>1
    <3>. QED
      BY <1>1, <3>2, <3>3, <3>4
  <2>. QED
    BY <1>1, <2>1, <2>2
<1>5. n - k > 0 => now - Kept(k)[1] < Second
  <2>1. SUFFICES ASSUME n - k > 0
                 PROVE  now - Kept(k)[1] < Second
    OBVIOUS
  <2>2. 1 \in 1..(n - k) /\ k < n
    BY <1>1, <2>1
  <2>3. Kept(k)[1] = read_history[k + 1]
    BY <1>2, <2>2
  <2>. QED
    BY <2>2, <2>3 DEF Expired
<1>. QED
  BY <1>2, <1>3, <1>4, <1>5

(***************************************************************************)
(* Each action keeps the invariant.  The actions that leave the reads and    *)
(* the history alone come first.                                             *)
(***************************************************************************)

\* Parts about the reads survive a step that changes neither reads nor history.
LEMMA QuietReads ==
    ASSUME SchedulerInv, UNCHANGED <<reads, read_history>>, now' \in Nat, now' >= now
    PROVE  HistoryIsTail' /\ ReadsCapped'
<1>1. /\ now \in Nat /\ Second \in Nat
      /\ read_history \in Seq(Nat) /\ reads \in Seq(Nat)
  BY SchedulerAssumption DEF SchedulerInv, SchedulerTypeOK, Instant
<1>2. \A i \in 1..(Len(reads) - Len(read_history)) : reads[i] + Second <= now'
  <2>1. SUFFICES ASSUME NEW i \in 1..(Len(reads) - Len(read_history))
                 PROVE  reads[i] + Second <= now'
    OBVIOUS
  <2>2. reads[i] + Second <= now
    BY DEF SchedulerInv, HistoryIsTail
  <2>3. i \in 1..Len(reads) /\ reads[i] \in Nat
    BY <1>1 DEF SchedulerInv, HistoryIsTail
  <2>. QED
    BY <1>1, <2>2, <2>3
<1>3. \A i \in 1..Len(read_history) : read_history[i] <= now'
  <2>1. SUFFICES ASSUME NEW i \in 1..Len(read_history)
                 PROVE  read_history[i] <= now'
    OBVIOUS
  <2>2. read_history[i] <= now /\ read_history[i] \in Nat
    BY <1>1 DEF SchedulerInv, HistoryIsTail
  <2>. QED
    BY <1>1, <2>2
<1>. QED
  BY <1>2, <1>3 DEF SchedulerInv, HistoryIsTail, ReadsCapped

\* The constants and the state as numbers, for the arithmetic steps.
Numeric ==
    /\ Window \in Nat /\ Poll \in Nat /\ Second \in Nat /\ MaxPerSec \in Nat
    /\ MaxLate \in Nat /\ MaxFails \in Nat /\ Horizon \in Nat
    /\ MaxPerSec > 0 /\ MaxFails < MaxPerSec /\ Second > 0 /\ Window > 0
    /\ now \in Nat /\ next_poll \in Nat
    /\ pending_due \in Int /\ (pending_due # NoInstant => pending_due \in Nat)
    /\ window_open_until \in Int
    /\ (window_open_until # NoInstant => window_open_until \in Nat)
    /\ moved_at \in Int /\ (moved_at # NoInstant => moved_at \in Nat)
    /\ stale_at \in Int /\ (stale_at # NoInstant => stale_at \in Nat)
    /\ fails \in Nat /\ fails <= MaxFails
    /\ read_history \in Seq(Nat) /\ reads \in Seq(Nat)

\* A typed state is a state of numbers.
LEMMA Numbers ==
    ASSUME SchedulerTypeOK
    PROVE  Numeric
BY SchedulerAssumption DEF SchedulerTypeOK, Instant, Due, NoInstant, Numeric

\* One more failed read allows one more poll period.
LEMMA SlackGrows ==
    ASSUME NEW f \in Nat
    PROVE  /\ Slack(f) \in Nat
           /\ Slack(f) >= Poll + MaxLate
           /\ Slack(f + 1) = Slack(f) + Poll + MaxLate
<1>1. Poll \in Nat /\ MaxLate \in Nat
  BY SchedulerAssumption
<1>2. PICK p \in Nat : p = Poll + MaxLate
  BY <1>1
<1>3. f * p \in Nat
  BY <1>2
<1>4. (1 + f) * p = p + f * p /\ (1 + (f + 1)) * p = p + f * p + p
  BY <1>2
<1>. QED
  BY <1>1, <1>2, <1>3, <1>4 DEF Slack

\* The clock moves, no deadline being MaxLate behind.
LEMMA TickStep ==
    ASSUME SchedulerInv, Tick
    PROVE  SchedulerInv'
<1>1. SchedulerTypeOK /\ Numeric
  BY Numbers DEF SchedulerInv
<1>2. SchedulerTypeOK'
  BY <1>1 DEF Numeric, Tick, SchedulerTypeOK, timers, Instant
<1>3. HistoryIsTail' /\ ReadsCapped'
  BY <1>1, QuietReads DEF Numeric, Tick
<1>4. Punctual'
  <2>1. now < next_poll + MaxLate
    BY DEF Tick, Deadlines
  <2>2. pending_due # NoInstant => now < pending_due + MaxLate
    BY DEF Tick, Deadlines
  <2>. QED
    BY <1>1, <2>1, <2>2 DEF Numeric, SchedulerInv, Punctual, Tick, timers
<1>5. PendingIsBounded' /\ PendingAfterWindow'
  BY <1>1 DEF Numeric, SchedulerInv, PendingIsBounded, PendingAfterWindow, Tick, timers
<1>6. StaleIsPolled'
  BY <1>1 DEF Numeric, SchedulerInv, StaleIsPolled, Tick, timers
<1>. QED
  BY <1>2, <1>3, <1>4, <1>5, <1>6 DEF SchedulerInv

\* A repaint starts the staleness now, with a poll armed within one period.
LEMMA RepaintStep ==
    ASSUME SchedulerInv, Repaint
    PROVE  SchedulerInv'
<1>1. SchedulerTypeOK /\ Numeric
  BY Numbers DEF SchedulerInv
<1>2. SchedulerTypeOK'
  BY <1>1 DEF Repaint, SchedulerTypeOK, timers, Texts
<1>3. HistoryIsTail' /\ ReadsCapped'
  BY <1>1, QuietReads DEF Numeric, Repaint
<1>4. Punctual' /\ PendingIsBounded' /\ PendingAfterWindow'
  BY DEF SchedulerInv, Punctual, PendingIsBounded, PendingAfterWindow, Repaint, timers
<1>5. StaleIsPolled'
  <2>1. SUFFICES ASSUME stale_at' # NoInstant
                 PROVE  StaleIsPolled'
    BY DEF StaleIsPolled
  <2>2. stale_at' = now /\ now' = now /\ next_poll' = next_poll /\ fails' = fails
        /\ read_history' = read_history
    BY <2>1 DEF Repaint, timers
  <2>3. \A i \in 1..Len(read_history) : read_history[i] <= now
    BY DEF SchedulerInv, HistoryIsTail
  <2>4. Slack(fails) \in Nat /\ Slack(fails) >= Poll + MaxLate
    BY <1>1, SlackGrows DEF Numeric
  <2>5. next_poll <= now + Poll
    BY DEF SchedulerInv, Punctual
  <2>6. next_poll + MaxLate <= now + Second + Slack(fails)
    BY <1>1, <2>4, <2>5 DEF Numeric
  <2>. QED
    BY <1>1, <2>2, <2>3, <2>6 DEF Numeric, StaleIsPolled
<1>. QED
  BY <1>2, <1>3, <1>4, <1>5 DEF SchedulerInv

\* A moved revision is armed for now or for the end of the open window.
LEMMA RevisionStep ==
    ASSUME SchedulerInv, OnRevisionChanged
    PROVE  SchedulerInv'
<1>1. SchedulerTypeOK /\ Numeric
  BY Numbers DEF SchedulerInv
<1>2. SchedulerTypeOK'
  BY <1>1 DEF Numeric, OnRevisionChanged, SchedulerTypeOK, Due, Instant
<1>3. HistoryIsTail' /\ ReadsCapped'
  BY <1>1, QuietReads DEF Numeric, OnRevisionChanged
<1>4. Punctual'
  BY <1>1 DEF Numeric, SchedulerInv, Punctual, OnRevisionChanged
<1>5. PendingIsBounded'
  BY <1>1 DEF Numeric, SchedulerInv, Punctual, PendingIsBounded, OnRevisionChanged, NoInstant
<1>6. PendingAfterWindow'
  BY <1>1 DEF Numeric, SchedulerInv, PendingAfterWindow, OnRevisionChanged
<1>7. StaleIsPolled'
  BY DEF SchedulerInv, StaleIsPolled, OnRevisionChanged
<1>. QED
  BY <1>2, <1>3, <1>4, <1>5, <1>6, <1>7 DEF SchedulerInv

\* Input reads touch nothing the invariant speaks of.
LEMMA InputStep ==
    ASSUME SchedulerInv, OnInputSent
    PROVE  SchedulerInv'
<1>1. SchedulerTypeOK /\ Numeric
  BY Numbers DEF SchedulerInv
<1>2. SchedulerTypeOK'
  <2>1. {now + o : o \in Offsets} \subseteq Due
    BY <1>1, SchedulerAssumption DEF Numeric, Due
  <2>. QED
    BY <1>1, <2>1 DEF OnInputSent, SchedulerTypeOK
<1>3. HistoryIsTail' /\ ReadsCapped'
  BY <1>1, QuietReads DEF Numeric, OnInputSent
<1>. QED
  BY <1>2, <1>3 DEF SchedulerInv, Punctual, PendingIsBounded, PendingAfterWindow,
                    StaleIsPolled, OnInputSent

(***************************************************************************)
(* fire.                                                                     *)
(***************************************************************************)

\* A revision the cap has refused once waits for exactly the first read of the
\* history: before its deadline that read is kept, after it the read is popped.
LEMMA RetryWaitsForTheOldest ==
    ASSUME SchedulerInv, NEW k \in 0..Len(read_history), Expired(k),
           Len(read_history) >= MaxPerSec,
           pending_due = read_history[1] + Second
    PROVE  IF now < pending_due THEN k = 0 ELSE k >= 1
<1>1. Numeric
  BY Numbers DEF SchedulerInv
<1>2. 1 \in 1..Len(read_history) /\ read_history[1] \in Nat
  BY <1>1 DEF Numeric
<1>3. CASE k = 0
  <2>1. now - read_history[k + 1] < Second
    BY <1>2, <1>3 DEF Expired
  <2>. QED
    BY <1>1, <1>2, <1>3, <2>1 DEF Numeric
<1>4. CASE k >= 1
  <2>1. 1 \in 1..k
    BY <1>4
  <2>2. now - read_history[1] >= Second
    BY <2>1 DEF Expired
  <2>. QED
    BY SMTT(30), <1>1, <1>2, <1>4, <2>2 DEF Numeric
<1>. QED
  BY <1>3, <1>4

\* At the cap: nothing is read, and a due revision is re-armed.
LEMMA RateLimitedStep ==
    ASSUME SchedulerInv, RateLimited
    PROVE  SchedulerInv'
<1>1. SchedulerTypeOK /\ Numeric
  BY Numbers DEF SchedulerInv
<1>2. PICK k \in 0..Len(read_history) :
         /\ Expired(k)
         /\ Len(Kept(k)) >= MaxPerSec
         /\ read_history' = Kept(k)
         /\ pending_due' = IF RevisionDue THEN Kept(k)[1] + Second ELSE pending_due
  BY DEF RateLimited
<1>3. /\ next_poll' = IF PollDue THEN now + Poll ELSE next_poll
      /\ input_due' \subseteq input_due
      /\ now' = now /\ window_open_until' = window_open_until /\ text' = text
      /\ last_frame' = last_frame /\ reads' = reads /\ moved_at' = moved_at
      /\ stale_at' = stale_at /\ fails' = fails
  BY DEF RateLimited, Rearm
<1> DEFINE kept == Kept(k)
           n == Len(read_history)
<1>4. /\ kept \in Seq(Instant) /\ Len(kept) = n - k
      /\ \A i \in 1..Len(kept) : kept[i] = read_history[k + i]
  BY <1>1, KeptIsTail
<1>5. /\ \A i \in 1..Len(kept) : kept[i] = reads[Len(reads) - Len(kept) + i] /\ kept[i] <= now
      /\ \A i \in 1..(Len(reads) - Len(kept)) : reads[i] + Second <= now
      /\ Len(kept) > 0 => now - kept[1] < Second
  BY <1>1, <1>2, KeptInTail DEF SchedulerInv
<1>6. /\ 1 \in 1..Len(kept) /\ kept[1] \in Nat /\ kept[1] <= now
      /\ now < kept[1] + Second /\ n \in Nat
  <2>1. Len(kept) \in Nat /\ 1 \in 1..Len(kept)
    BY <1>1, <1>2, <1>4 DEF Numeric
  <2>2. kept[1] \in Nat
    <3>. HIDE DEF kept
    <3>1. kept[1] \in Instant
      BY <1>4, <2>1
    <3>. QED
      BY <1>1, <3>1 DEF Instant, Numeric
  <2>3. kept[1] <= now /\ now - kept[1] < Second
    BY <1>5, <2>1
  <2>4. n \in Nat
    BY <1>1 DEF Numeric
  <2>. QED
    BY <1>1, <2>1, <2>2, <2>3, <2>4 DEF Numeric
<1> HIDE DEF kept
<1>7. SchedulerTypeOK'
  <2>1. pending_due' \in Due \cup {NoInstant}
    BY <1>1, <1>2, <1>6 DEF Numeric, SchedulerTypeOK, Due, kept
  <2>2. next_poll' \in Due
    BY <1>1, <1>3 DEF Numeric, Due
  <2>. QED
    BY <1>1, <1>2, <1>3, <1>4, <2>1, <2>2 DEF SchedulerTypeOK, kept
<1>8. HistoryIsTail' /\ ReadsCapped'
  <2>1. Len(kept) <= Len(reads) /\ Len(kept) <= MaxPerSec
    BY <1>1, <1>4 DEF SchedulerInv, HistoryIsTail, Numeric
  <2>. QED
    BY <1>2, <1>3, <1>5, <2>1 DEF SchedulerInv, HistoryIsTail, ReadsCapped, kept
<1>9. Punctual'
  <2>1. next_poll' <= now + Poll /\ now <= next_poll' + MaxLate
    BY <1>1, <1>3 DEF SchedulerInv, Punctual, Numeric
  <2>2. pending_due' # NoInstant => now <= pending_due' + MaxLate
    BY <1>1, <1>2, <1>6 DEF SchedulerInv, Punctual, Numeric, kept
  <2>. QED
    BY <1>3, <2>1, <2>2 DEF SchedulerInv, Punctual
<1>10. PendingIsBounded'
  <2>1. CASE ~RevisionDue
    <3>1. pending_due' = pending_due
      BY <1>2, <2>1
    <3>2. SUFFICES ASSUME pending_due # NoInstant, ~(pending_due <= moved_at + Window)
                   PROVE  /\ Len(kept) >= MaxPerSec
                          /\ pending_due = kept[1] + Second
                          /\ kept[1] <= moved_at + Window + MaxLate
      BY <1>2, <1>3, <3>1 DEF SchedulerInv, PendingIsBounded, kept
    <3>3. /\ n >= MaxPerSec
          /\ pending_due = read_history[1] + Second
          /\ read_history[1] <= moved_at + Window + MaxLate
      BY <3>2 DEF SchedulerInv, PendingIsBounded
    <3>4. k = 0
      <4>1. now < pending_due
        BY <1>1, <2>1, <3>2 DEF RevisionDue, Numeric
      <4>. QED
        BY <1>2, <3>3, <4>1, RetryWaitsForTheOldest
    <3>5. kept[1] = read_history[1]
      BY <1>4, <1>6, <3>4
    <3>. QED
      BY <1>2, <3>3, <3>5 DEF kept
  <2>2. CASE RevisionDue
    <3>1. pending_due # NoInstant /\ pending_due' = kept[1] + Second /\ moved_at # NoInstant
      BY <1>2, <2>2 DEF RevisionDue, SchedulerInv, PendingIsBounded, kept
    <3>2. pending_due <= moved_at + Window
      <4>1. SUFFICES ASSUME n >= MaxPerSec, pending_due = read_history[1] + Second
                     PROVE  FALSE
        BY <3>1 DEF SchedulerInv, PendingIsBounded
      <4>2. k >= 1
        <5>1. ~(now < pending_due)
          BY <1>1, <2>2 DEF RevisionDue, Numeric
        <5>. QED
          BY <1>2, <4>1, <5>1, RetryWaitsForTheOldest
      <4>3. n <= MaxPerSec
        BY DEF SchedulerInv, HistoryIsTail
      <4>. QED
        BY <1>1, <1>2, <1>4, <1>6, <4>2, <4>3 DEF Numeric, kept
    <3>3. now <= pending_due + MaxLate
      BY <3>1 DEF SchedulerInv, Punctual
    <3>4. kept[1] <= moved_at + Window + MaxLate
      BY <1>1, <1>6, <3>1, <3>2, <3>3 DEF Numeric
    <3>5. pending_due' # NoInstant
      BY <1>1, <1>6, <3>1 DEF Numeric, NoInstant
    <3>. QED
      BY <1>2, <1>3, <3>1, <3>4, <3>5 DEF SchedulerInv, PendingIsBounded, kept
  <2>. QED
    BY <2>1, <2>2
<1>11. PendingAfterWindow'
  BY <1>1, <1>2, <1>3, <1>6 DEF SchedulerInv, PendingAfterWindow, RevisionDue, Numeric, kept
<1>12. StaleIsPolled'
  <2>1. SUFFICES ASSUME stale_at # NoInstant
                 PROVE  /\ stale_at <= now
                        /\ \A i \in 1..Len(kept) :
                              i <= Len(kept) - fails => kept[i] <= stale_at
                        /\ next_poll' + MaxLate <= stale_at + Second + Slack(fails)
    BY <1>2, <1>3 DEF StaleIsPolled, kept
  <2>2. /\ stale_at <= now
        /\ \A i \in 1..n : i <= n - fails => read_history[i] <= stale_at
        /\ next_poll + MaxLate <= stale_at + Second + Slack(fails)
    BY <2>1 DEF SchedulerInv, StaleIsPolled
  <2>3. ASSUME NEW i \in 1..Len(kept), i <= Len(kept) - fails
        PROVE  kept[i] <= stale_at
    <3>1. k + i \in 1..n /\ k + i <= n - fails
      BY <1>1, <1>4, <1>6, <2>3 DEF Numeric
    <3>. QED
      BY <1>4, <2>2, <3>1
  <2>4. kept[1] <= stale_at
    <3>1. 1 <= Len(kept) - fails
      BY <1>1, <1>2, <1>4, <1>6 DEF Numeric, kept
    <3>. QED
      BY <1>6, <2>3, <3>1
  <2>5. Slack(fails) \in Nat /\ Slack(fails) >= Poll + MaxLate
    BY <1>1, SlackGrows DEF Numeric
  <2>6. next_poll' + MaxLate <= stale_at + Second + Slack(fails)
    <3>1. now < stale_at + Second
      BY <1>1, <1>6, <2>4 DEF Numeric
    <3>2. now + Poll + MaxLate <= stale_at + Second + Slack(fails)
      BY <1>1, <2>5, <3>1 DEF Numeric
    <3>. QED
      BY <1>1, <1>3, <2>2, <3>2 DEF Numeric
  <2>. QED
    BY <2>2, <2>3, <2>6
<1>. QED
  BY <1>7, <1>8, <1>9, <1>10, <1>11, <1>12 DEF SchedulerInv

\* Below the cap: the read is counted and its trigger consumed.  What a failed
\* read changes besides is named, so that Read and ReadFails share the step.
LEMMA CountStep ==
    ASSUME SchedulerInv, Count, UNCHANGED <<now, text>>,
           last_frame' \in Texts, fails' \in 0..MaxFails,
           stale_at' = NoInstant \/ (stale_at' = stale_at /\ fails' = fails + 1)
    PROVE  SchedulerInv'
<1>1. SchedulerTypeOK /\ Numeric
  BY Numbers DEF SchedulerInv
<1>2. PICK k \in 0..Len(read_history) :
         /\ Expired(k)
         /\ Len(Kept(k)) < MaxPerSec
         /\ read_history' = Append(Kept(k), now)
  BY DEF Count
<1>3. /\ next_poll' = IF PollDue THEN now + Poll ELSE next_poll
      /\ input_due' \subseteq input_due
      /\ now' = now /\ text' = text
      /\ reads' = Append(reads, now)
      /\ pending_due' = IF RevisionDue THEN NoInstant ELSE pending_due
      /\ window_open_until' = IF RevisionDue THEN now + Window ELSE window_open_until
      /\ moved_at' = IF RevisionDue THEN NoInstant ELSE moved_at
  BY DEF Count, Rearm
<1> DEFINE kept == Kept(k)
           n == Len(read_history)
           m == Len(reads)
<1>4. /\ kept \in Seq(Instant) /\ Len(kept) = n - k
      /\ \A i \in 1..Len(kept) : kept[i] = read_history[k + i]
  BY <1>1, KeptIsTail
<1>5. /\ \A i \in 1..Len(kept) : kept[i] = reads[m - Len(kept) + i] /\ kept[i] <= now
      /\ \A i \in 1..(m - Len(kept)) : reads[i] + Second <= now
  BY <1>1, <1>2, KeptInTail DEF SchedulerInv
<1>6. /\ n \in Nat /\ m \in Nat /\ n <= m /\ Len(kept) \in Nat /\ Len(kept) <= m
      /\ now \in Instant
  BY <1>1, <1>4 DEF Numeric, SchedulerTypeOK, SchedulerInv, HistoryIsTail
<1> HIDE DEF kept
<1>7. /\ read_history' \in Seq(Instant) /\ Len(read_history') = Len(kept) + 1
      /\ \A i \in 1..Len(kept) : read_history'[i] = kept[i]
      /\ read_history'[Len(kept) + 1] = now
  BY <1>2, <1>4, <1>6 DEF kept
<1>8. /\ reads' \in Seq(Instant) /\ Len(reads') = m + 1
      /\ \A i \in 1..m : reads'[i] = reads[i]
      /\ reads'[m + 1] = now
  BY <1>1, <1>3, <1>6 DEF SchedulerTypeOK
<1>9. SchedulerTypeOK'
  <2>1. /\ pending_due' \in Due \cup {NoInstant} /\ window_open_until' \in Due \cup {NoInstant}
        /\ next_poll' \in Due /\ moved_at' \in Instant \cup {NoInstant}
        /\ stale_at' \in Instant \cup {NoInstant}
    BY <1>1, <1>3 DEF Numeric, SchedulerTypeOK, Due
  <2>. QED
    BY <1>1, <1>3, <1>7, <1>8, <2>1 DEF SchedulerTypeOK
<1>10. HistoryIsTail'
  <2>1. Len(read_history') <= Len(reads') /\ Len(read_history') <= MaxPerSec
    BY <1>1, <1>2, <1>6, <1>7, <1>8 DEF Numeric, kept
  <2>2. ASSUME NEW i \in 1..Len(read_history')
        PROVE  /\ read_history'[i] = reads'[Len(reads') - Len(read_history') + i]
               /\ read_history'[i] <= now
    <3>1. CASE i \in 1..Len(kept)
      <4>1. m - Len(kept) + i \in 1..m
        BY <1>6, <3>1
      <4>2. Len(reads') - Len(read_history') + i = m - Len(kept) + i
        BY <1>6, <1>7, <1>8
      <4>. QED
        BY <1>5, <1>7, <1>8, <3>1, <4>1, <4>2
    <3>2. CASE i = Len(kept) + 1
      <4>1. Len(reads') - Len(read_history') + i = m + 1
        BY <1>6, <1>7, <1>8, <3>2
      <4>. QED
        BY <1>1, <1>7, <1>8, <3>2, <4>1 DEF Numeric
    <3>. QED
      BY <1>6, <1>7, <3>1, <3>2
  <2>3. ASSUME NEW i \in 1..(Len(reads') - Len(read_history'))
        PROVE  reads'[i] + Second <= now
    <3>1. i \in 1..(m - Len(kept)) /\ i \in 1..m
      BY <1>6, <1>7, <1>8
    <3>. QED
      BY <1>5, <1>8, <3>1
  <2>. QED
    BY <1>3, <2>1, <2>2, <2>3 DEF HistoryIsTail
<1>11. ReadsCapped'
  <2>1. SUFFICES ASSUME NEW i \in 1..Len(reads'), i > MaxPerSec
                 PROVE  reads'[i] - reads'[i - MaxPerSec] >= Second
    BY DEF ReadsCapped
  <2>2. CASE i \in 1..m
    <3>1. i - MaxPerSec \in 1..m
      BY <1>1, <1>6, <2>1, <2>2 DEF Numeric
    <3>2. reads[i] - reads[i - MaxPerSec] >= Second
      BY <2>1, <2>2 DEF SchedulerInv, ReadsCapped
    <3>. QED
      BY <1>8, <2>2, <3>1, <3>2
  <2>3. CASE i = m + 1
    <3>1. i - MaxPerSec \in 1..(m - Len(kept)) /\ i - MaxPerSec \in 1..m
      BY SMTT(30), <1>1, <1>2, <1>6, <2>1, <2>3 DEF Numeric, kept
    <3>2. reads[i - MaxPerSec] + Second <= now
      BY <1>5, <3>1
    <3>3. reads[i - MaxPerSec] \in Nat
      BY <1>1, <3>1 DEF Numeric
    <3>4. reads'[i] = now /\ reads'[i - MaxPerSec] = reads[i - MaxPerSec]
      BY <1>8, <2>3, <3>1
    <3>. QED
      BY SMTT(30), <1>1, <3>2, <3>3, <3>4 DEF Numeric
  <2>. QED
    BY <1>6, <1>8, <2>2, <2>3
<1>12. Punctual'
  <2>1. next_poll' <= now + Poll /\ now <= next_poll' + MaxLate
    BY <1>1, <1>3 DEF SchedulerInv, Punctual, Numeric
  <2>2. window_open_until' # NoInstant => window_open_until' <= now + Window
    BY <1>1, <1>3 DEF SchedulerInv, Punctual, Numeric
  <2>. QED
    BY <1>3, <2>1, <2>2 DEF SchedulerInv, Punctual
<1>13. PendingIsBounded'
  <2>1. CASE RevisionDue
    BY <1>3, <2>1 DEF PendingIsBounded
  <2>2. CASE ~RevisionDue
    <3>1. pending_due' = pending_due /\ moved_at' = moved_at
      BY <1>3, <2>2
    <3>2. pending_due # NoInstant => pending_due <= moved_at + Window
      <4>1. SUFFICES ASSUME pending_due # NoInstant, n >= MaxPerSec,
                            pending_due = read_history[1] + Second
                     PROVE  FALSE
        BY DEF SchedulerInv, PendingIsBounded
      <4>2. now < pending_due
        BY <1>1, <2>2, <4>1 DEF RevisionDue, Numeric
      <4>3. k = 0
        BY <1>2, <4>1, <4>2, RetryWaitsForTheOldest
      <4>. QED
        BY <1>1, <1>2, <1>4, <1>6, <4>1, <4>3 DEF Numeric, kept
    <3>. QED
      BY <1>3, <3>1, <3>2 DEF SchedulerInv, PendingIsBounded
  <2>. QED
    BY <2>1, <2>2
<1>14. PendingAfterWindow'
  BY <1>3 DEF SchedulerInv, PendingAfterWindow
<1>15. StaleIsPolled'
  <2>1. SUFFICES ASSUME stale_at' # NoInstant
                 PROVE  StaleIsPolled'
    BY DEF StaleIsPolled
  <2>2. stale_at' = stale_at /\ stale_at # NoInstant /\ fails' = fails + 1
    BY <2>1
  <2>3. /\ stale_at <= now
        /\ \A i \in 1..n : i <= n - fails => read_history[i] <= stale_at
        /\ next_poll + MaxLate <= stale_at + Second + Slack(fails)
    BY <2>2 DEF SchedulerInv, StaleIsPolled
  <2>4. ASSUME NEW i \in 1..Len(read_history'), i <= Len(read_history') - fails'
        PROVE  read_history'[i] <= stale_at
    <3>1. i \in Nat /\ i >= 1 /\ i <= Len(kept) - fails /\ fails \in Nat
      BY <1>1, <1>6, <1>7, <2>2, <2>4 DEF Numeric
    <3>2. i \in 1..Len(kept)
      BY <1>6, <3>1
    <3>3. k + i \in 1..n /\ k + i <= n - fails
      BY <1>4, <1>6, <3>1
    <3>. QED
      BY <1>4, <1>7, <2>3, <3>2, <3>3
  <2>5. /\ Slack(fails) \in Nat
        /\ Slack(fails') = Slack(fails) + Poll + MaxLate
    BY <1>1, <2>2, SlackGrows DEF Numeric
  <2>6. next_poll' + MaxLate <= stale_at + Second + Slack(fails')
    <3>1. now <= next_poll + MaxLate
      BY DEF SchedulerInv, Punctual
    <3>2. now + Poll + MaxLate <= stale_at + Second + (Slack(fails) + Poll + MaxLate)
      BY <1>1, <2>3, <2>5, <3>1 DEF Numeric
    <3>3. next_poll + MaxLate <= stale_at + Second + (Slack(fails) + Poll + MaxLate)
      BY <1>1, <2>3, <2>5 DEF Numeric
    <3>. QED
      BY <1>3, <2>5, <3>2, <3>3
  <2>. QED
    BY <1>3, <2>2, <2>3, <2>4, <2>6 DEF StaleIsPolled
<1>. QED
  BY <1>9, <1>10, <1>11, <1>12, <1>13, <1>14, <1>15 DEF SchedulerInv

(***************************************************************************)
(* The theorems.                                                             *)
(***************************************************************************)

\* watch_pane's fresh scheduler satisfies the invariant.
LEMMA InitOK == SchedulerInit => SchedulerInv
<1>1. SUFFICES ASSUME SchedulerInit PROVE SchedulerInv
  OBVIOUS
<1>2. SchedulerTypeOK
  <2>1. now \in Instant /\ next_poll \in Due /\ fails \in 0..MaxFails
    BY <1>1, SchedulerAssumption DEF SchedulerInit, Instant, Due
  <2>. QED
    BY <1>1, <2>1 DEF SchedulerInit, SchedulerTypeOK, Texts
<1>3. Numeric
  BY <1>2, Numbers
<1>4. Len(reads) = 0 /\ Len(read_history) = 0
  BY <1>1 DEF SchedulerInit
<1>5. HistoryIsTail /\ ReadsCapped
  BY <1>3, <1>4 DEF HistoryIsTail, ReadsCapped, Numeric
<1>6. Punctual
  BY <1>1, <1>3 DEF SchedulerInit, Punctual, Numeric
<1>. QED
  BY <1>1, <1>2, <1>5, <1>6 DEF SchedulerInit, SchedulerInv, PendingIsBounded,
                                PendingAfterWindow, StaleIsPolled

\* Every step keeps the invariant.
LEMMA NextOK == SchedulerInv /\ [SchedulerNext]_schedulerVars => SchedulerInv'
<1>1. SUFFICES ASSUME SchedulerInv, [SchedulerNext]_schedulerVars PROVE SchedulerInv'
  OBVIOUS
<1>2. CASE Tick
  BY <1>1, <1>2, TickStep
<1>3. CASE Repaint
  BY <1>1, <1>3, RepaintStep
<1>4. CASE OnRevisionChanged
  BY <1>1, <1>4, RevisionStep
<1>5. CASE OnInputSent
  BY <1>1, <1>5, InputStep
<1>6. CASE RateLimited
  BY <1>1, <1>6, RateLimitedStep
<1>7. CASE Read
  <2>1. last_frame' \in Texts /\ fails' \in 0..MaxFails
    BY <1>1, <1>7 DEF Read, SchedulerInv, SchedulerTypeOK
  <2>. QED
    BY <1>1, <1>7, <2>1, CountStep DEF Read
<1>8. CASE ReadFails
  <2>1. last_frame' \in Texts /\ fails' \in 0..MaxFails
    BY <1>1, <1>8, SchedulerAssumption DEF ReadFails, SchedulerInv, SchedulerTypeOK
  <2>. QED
    BY <1>1, <1>8, <2>1, CountStep DEF ReadFails
<1>9. CASE UNCHANGED schedulerVars
  BY <1>1, <1>9 DEF schedulerVars, timers, SchedulerInv, SchedulerTypeOK, HistoryIsTail, ReadsCapped,
     Punctual, PendingIsBounded, PendingAfterWindow, StaleIsPolled
<1>. QED
  BY <1>1, <1>2, <1>3, <1>4, <1>5, <1>6, <1>7, <1>8, <1>9 DEF SchedulerNext

\* What the bounds of the invariant mean for the two waiting times.
LEMMA InvGivesBounds == SchedulerInv => RevisionReadInTime /\ FrameFreshInTime
<1>1. SUFFICES ASSUME SchedulerInv PROVE RevisionReadInTime /\ FrameFreshInTime
  OBVIOUS
<1>2. Numeric
  BY <1>1, Numbers DEF SchedulerInv
<1>3. RevisionReadInTime
  <2>1. SUFFICES ASSUME moved_at # NoInstant
                 PROVE  now - moved_at <= Window + Second + 2 * MaxLate
    BY DEF RevisionReadInTime
  <2>2. pending_due # NoInstant /\ now <= pending_due + MaxLate
    BY <1>1, <2>1 DEF SchedulerInv, PendingIsBounded, Punctual
  <2>3. pending_due <= moved_at + Window + Second + MaxLate
    <3>1. CASE pending_due <= moved_at + Window
      BY <1>2, <2>1, <2>2, <3>1 DEF Numeric
    <3>2. CASE /\ Len(read_history) >= MaxPerSec
               /\ pending_due = read_history[1] + Second
               /\ read_history[1] <= moved_at + Window + MaxLate
      <4>1. read_history[1] \in Nat
        BY <1>2, <3>2 DEF Numeric
      <4>. QED
        BY <1>2, <2>1, <3>2, <4>1 DEF Numeric
    <3>. QED
      BY <1>1, <2>2, <3>1, <3>2 DEF SchedulerInv, PendingIsBounded
  <2>. QED
    BY <1>2, <2>1, <2>2, <2>3 DEF Numeric
<1>4. FrameFreshInTime
  <2>1. SUFFICES ASSUME stale_at # NoInstant
                 PROVE  now - stale_at <= Second + Slack(fails)
    BY DEF FrameFreshInTime, Slack
  <2>2. next_poll + MaxLate <= stale_at + Second + Slack(fails) /\ now <= next_poll + MaxLate
    BY <1>1, <2>1 DEF SchedulerInv, StaleIsPolled, Punctual
  <2>3. Slack(fails) \in Nat
    BY <1>2, SlackGrows DEF Numeric
  <2>. QED
    BY <1>2, <2>1, <2>2, <2>3 DEF Numeric
<1>. QED
  BY <1>3, <1>4

\* The scheduler's state stays well typed.
THEOREM SchedulerTyped == SchedulerSpec => []SchedulerTypeOK
<1>1. SchedulerInv => SchedulerTypeOK
  BY DEF SchedulerInv
<1>. QED
  BY <1>1, InitOK, NextOK, PTL DEF SchedulerSpec

\* R-10-030: in any second fire lets at most MaxPerSec reads through, whatever
\* the triggers do.
THEOREM CapHolds == SchedulerSpec => []ReadsCapped
<1>1. SchedulerInv => ReadsCapped
  BY DEF SchedulerInv
<1>. QED
  BY <1>1, InitOK, NextOK, PTL DEF SchedulerSpec

\* R-10-029, R-10-031: fire reads a moved revision within a window and a second,
\* and the thread's two delays.
THEOREM RevisionsAreRead == SchedulerSpec => []RevisionReadInTime
BY InvGivesBounds, InitOK, NextOK, PTL DEF SchedulerSpec

\* R-10-070: poll_scheduler refreshes the Device's frame within a second and a
\* poll period for every read that failed and one more.
THEOREM FramesAreFresh == SchedulerSpec => []FrameFreshInTime
BY InvGivesBounds, InitOK, NextOK, PTL DEF SchedulerSpec

\* R-10-029: reads caused by revisions are a window apart.
THEOREM WindowsApart == SchedulerSpec => WindowsDoNotOverlap
<1>1. SchedulerInv /\ [SchedulerNext]_schedulerVars =>
        [window_open_until' # window_open_until =>
           window_open_until = NoInstant \/ now >= window_open_until]_schedulerVars
  <2>1. SUFFICES ASSUME SchedulerInv, SchedulerNext, window_open_until' # window_open_until,
                        window_open_until # NoInstant
                 PROVE  now >= window_open_until
    BY DEF schedulerVars
  <2>2. RevisionDue
    BY <2>1 DEF SchedulerNext, Tick, Repaint, OnRevisionChanged, OnInputSent, RateLimited, Read,
                ReadFails, Count, timers
  <2>3. Numeric
    BY <2>1, Numbers DEF SchedulerInv
  <2>. QED
    BY <2>1, <2>2, <2>3 DEF SchedulerInv, PendingAfterWindow, RevisionDue, Numeric
<1>. QED
  BY <1>1, InitOK, NextOK, PTL DEF SchedulerSpec, WindowsDoNotOverlap
=============================================================================
