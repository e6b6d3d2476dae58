------------------------- MODULE WireSessionProofs --------------------------
(***************************************************************************)
(* WireSession's properties for every limit of the codec, every message,     *)
(* socket and peer.                                                          *)
(*                                                                           *)
(* The codec first: what zlib compressed it decompresses, the fragments of a *)
(* record joined are the record, and an envelope that is not too large comes *)
(* out of the Reassembler fragment by fragment (AcceptIs).  What an unknown  *)
(* fragment can do is bounded (AcceptAnswers).                               *)
(*                                                                           *)
(* Then one direction of the session (Carries): the envelopes encoded so far *)
(* number the frames, every frame on its way is one of them, and the reader  *)
(* is at some fragment of some envelope.  Each step of a session writes,     *)
(* moves, reads or loses a frame of a direction.                             *)
(*                                                                           *)
(* Then the loop: what it may do next with what it sends, the numbers it     *)
(* gives, and the messages that left the queue.                              *)
(***************************************************************************)
EXTENDS WireSession, TLAPS, SequenceTheorems, WellFoundedInduction

-----------------------------------------------------------------------------
(* Numbers, sets and sequences.                                              *)

\* The least number of a set.
LEMMA LeastNumber ==
    ASSUME NEW T \in SUBSET Nat, T # {}
    PROVE  \E m \in T : \A n \in T : m <= n
<1>1. PICK m \in T : \A n \in T : <<n, m>> \notin OpToRel(<, Nat)
  BY Zenon, NatLessThanWellFounded, WFMin
<1>2. OpToRel(<, Nat) = {ss \in Nat \X Nat : ss[1] < ss[2]}
  BY Zenon DEF OpToRel
<1>3. \A n \in T : <<n, m>> \notin {ss \in Nat \X Nat : ss[1] < ss[2]}
  BY Zenon, <1>1, <1>2
<1>4. ASSUME NEW n \in T, n < m PROVE FALSE
  <2>1. <<n, m>> \in {ss \in Nat \X Nat : ss[1] < ss[2]}
    BY <1>4
  <2>. QED
    BY <1>3, <2>1
<1>. QED
  BY <1>4

\* Induction, for what a set can say.
LEMMA SetInduction ==
    ASSUME NEW S, 0 \in S, \A n \in Nat : n \in S => n + 1 \in S
    PROVE  Nat \subseteq S
<1> SUFFICES ASSUME Nat \ S # {} PROVE FALSE
  OBVIOUS
<1>1. PICK m \in Nat \ S : \A n \in Nat \ S : m <= n
  BY LeastNumber
<1>. QED
  BY <1>1

\* The values after each of n steps, the first of them a.
Steps(A, a, n, step, f) ==
    /\ f \in [0..n -> A]
    /\ f[0] = a
    /\ \A i \in 1..n : f[i] = step[<<f[i - 1], i>>]

\* Steps that are given one by one make a function.
LEMMA Recursion ==
    ASSUME NEW A, NEW a \in A, NEW n \in Nat, NEW step \in [A \X (1..n) -> A]
    PROVE  \E f : Steps(A, a, n, step, f)
<1> DEFINE Upto(m, f) == f[0] = a /\ \A i \in 1..m : f[i] = step[<<f[i - 1], i>>]
           S == {m \in Nat : m <= n => \E f \in [0..m -> A] : Upto(m, f)}
<1>1. 0 \in S
  <2>1. [i \in 0..0 |-> a] \in [0..0 -> A] /\ Upto(0, [i \in 0..0 |-> a])
    OBVIOUS
  <2>. QED
    BY <2>1
<1>2. ASSUME NEW m \in Nat, m \in S PROVE m + 1 \in S
  <2> SUFFICES ASSUME m + 1 <= n PROVE \E f \in [0..(m + 1) -> A] : Upto(m + 1, f)
    OBVIOUS
  <2>1. PICK f \in [0..m -> A] : Upto(m, f)
    BY <1>2
  <2> DEFINE g == [i \in 0..(m + 1) |-> IF i = m + 1 THEN step[<<f[m], m + 1>>] ELSE f[i]]
  <2>2. f[m] \in A /\ m + 1 \in 1..n
    BY <2>1
  <2>3. step[<<f[m], m + 1>>] \in A
    BY <2>2
  <2>4. g \in [0..(m + 1) -> A]
    BY <2>1, <2>3
  <2>5. g[0] = a
    BY <2>1
  <2>6. \A i \in 1..m : g[i] = step[<<g[i - 1], i>>]
    <3> SUFFICES ASSUME NEW i \in 1..m PROVE g[i] = step[<<g[i - 1], i>>]
      OBVIOUS
    <3>1. g[i] = f[i] /\ g[i - 1] = f[i - 1]
      OBVIOUS
    <3>. QED
      BY <3>1, <2>1
  <2>7. g[m + 1] = step[<<g[m], m + 1>>]
    <3>1. m \in 0..(m + 1) /\ m # m + 1 /\ m + 1 \in 0..(m + 1)
      OBVIOUS
    <3>. QED
      BY <3>1
  <2>8. Upto(m + 1, g)
    <3>1. 1..(m + 1) = (1..m) \cup {m + 1}
      OBVIOUS
    <3>2. (m + 1) - 1 = m
      OBVIOUS
    <3>. QED
      BY <2>5, <2>6, <2>7, <3>1, <3>2
  <2>. QED
    BY <2>4, <2>8
<1>3. n \in S
  <2> HIDE DEF S
  <2>1. Nat \subseteq S
    BY Zenon, <1>1, <1>2, SetInduction
  <2>. QED
    BY <2>1
<1>4. PICK f \in [0..n -> A] : Upto(n, f)
  BY <1>3
<1>. QED
  BY <1>4 DEF Steps

\* A quotient.
LEMMA Quotient ==
    ASSUME NEW a \in Nat, NEW c \in Nat \ {0}
    PROVE  /\ a \div c \in Nat
           /\ (a \div c) * c <= a
           /\ a < (a \div c) * c + c
OBVIOUS

\* A smaller multiple is smaller by at least one time.
LEMMA Multiples ==
    ASSUME NEW a \in Nat, NEW b \in Nat, NEW c \in Nat, a < b
    PROVE  /\ a * c + c <= b * c
           /\ a * c \in Nat /\ b * c \in Nat
OBVIOUS

\* Two adjacent parts of a sequence.
LEMMA ConcatAdjacent ==
    ASSUME NEW S, NEW s \in Seq(S), NEW a \in 0..Len(s), NEW b \in a..Len(s)
    PROVE  SubSeq(s, 1, a) \o SubSeq(s, a + 1, b) = SubSeq(s, 1, b)
<1>1. SubSeq(s, 1, a) \in Seq(S) /\ Len(SubSeq(s, 1, a)) = a /\ \A i \in 1..a : SubSeq(s, 1, a)[i] = s[i]
  OBVIOUS
<1>2. /\ SubSeq(s, a + 1, b) \in Seq(S) /\ Len(SubSeq(s, a + 1, b)) = b - a
      /\ \A i \in 1..(b - a) : SubSeq(s, a + 1, b)[i] = s[a + i]
  OBVIOUS
<1>3. SubSeq(s, 1, b) \in Seq(S) /\ Len(SubSeq(s, 1, b)) = b /\ \A i \in 1..b : SubSeq(s, 1, b)[i] = s[i]
  OBVIOUS
<1>4. /\ SubSeq(s, 1, a) \o SubSeq(s, a + 1, b) \in Seq(S)
      /\ Len(SubSeq(s, 1, a) \o SubSeq(s, a + 1, b)) = b
      /\ \A i \in 1..b : (SubSeq(s, 1, a) \o SubSeq(s, a + 1, b))[i] = s[i]
  BY <1>1, <1>2
<1>. QED
  BY <1>3, <1>4, SeqEqual

\* What is added at the end leaves the start.
LEMMA PrefixAppend ==
    ASSUME NEW S, NEW s \in Seq(S), NEW x, NEW m \in 0..Len(s)
    PROVE  SubSeq(Append(s, x), 1, m) = SubSeq(s, 1, m)
OBVIOUS

-----------------------------------------------------------------------------
(* The codec.                                                              *)

\* What stands for zlib's output: pairs of a byte and a length.
RunSeqs == {runs \in Seq(Nat) : Len(runs) % 2 = 0}

\* A run more, or one byte more in the last run, is a sequence of runs.
LEMMA AddToRunsType ==
    ASSUME NEW runs \in RunSeqs, NEW b \in Nat
    PROVE  AddToRuns(runs, b) \in RunSeqs
<1>1. CASE Len(runs) > 0 /\ runs[Len(runs) - 1] = b
  <2>1. AddToRuns(runs, b) = [runs EXCEPT ![Len(runs)] = @ + 1]
    BY <1>1 DEF AddToRuns
  <2>. QED
    BY <2>1, <1>1 DEF RunSeqs
<1>2. CASE ~(Len(runs) > 0 /\ runs[Len(runs) - 1] = b)
  <2>1. AddToRuns(runs, b) = runs \o <<b, 1>>
    BY <1>2 DEF AddToRuns
  <2>. QED
    BY <2>1 DEF RunSeqs
<1>. QED
  BY <1>1, <1>2

\* ZlibCompress takes the bytes one by one.
LEMMA ZlibCompressIs ==
    ASSUME NEW bytes \in Seq(Nat)
    PROVE  \E f \in [0..Len(bytes) -> RunSeqs] :
              /\ f[0] = <<>>
              /\ \A i \in 1..Len(bytes) : f[i] = AddToRuns(f[i - 1], bytes[i])
              /\ ZlibCompress(bytes) = f[Len(bytes)]
<1> DEFINE n == Len(bytes)
           step == [p \in RunSeqs \X (1..n) |-> AddToRuns(p[1], bytes[p[2]])]
           By(f) == f = [i \in 0..n |-> IF i = 0 THEN <<>> ELSE AddToRuns(f[i - 1], bytes[i])]
<1>1. step \in [RunSeqs \X (1..n) -> RunSeqs]
  BY AddToRunsType
<1>2. <<>> \in RunSeqs
  BY DEF RunSeqs
<1>3. n \in Nat
  OBVIOUS
<1>4. PICK f \in [0..n -> RunSeqs] : f[0] = <<>> /\ \A i \in 1..n : f[i] = step[<<f[i - 1], i>>]
  <2> HIDE DEF step, n
  <2>1. \E f : Steps(RunSeqs, <<>>, n, step, f)
    BY Zenon, <1>1, <1>2, <1>3, Recursion
  <2>. QED
    BY <2>1 DEF Steps
<1>5. \A i \in 1..n : step[<<f[i - 1], i>>] = AddToRuns(f[i - 1], bytes[i])
  <2> SUFFICES ASSUME NEW i \in 1..n PROVE step[<<f[i - 1], i>>] = AddToRuns(f[i - 1], bytes[i])
    OBVIOUS
  <2>1. f[i - 1] \in RunSeqs /\ i \in 1..n
    BY <1>3
  <2>. QED
    BY <2>1
<1>6. By(f)
  <2> HIDE DEF step, n
  <2>1. \A i \in 0..n : i # 0 => i \in 1..n
    BY <1>3
  <2>. QED
    BY <1>4, <1>5, <2>1
<1> DEFINE c == CHOOSE g : By(g)
<1>7. By(c)
  BY <1>6
<1>8. ZlibCompress(bytes) = c[n]
  BY DEF ZlibCompress
<1>9. c \in [0..n -> RunSeqs]
  <2> DEFINE S == {i \in Nat : i <= n => c[i] \in RunSeqs}
  <2> HIDE DEF c
  <2>1. 0 \in S
    BY <1>7, <1>2
  <2>2. ASSUME NEW i \in Nat, i \in S PROVE i + 1 \in S
    <3> SUFFICES ASSUME i + 1 <= n PROVE c[i + 1] \in RunSeqs
      OBVIOUS
    <3>1. c[i + 1] = AddToRuns(c[i], bytes[i + 1])
      BY <1>7
    <3>. QED
      BY <2>2, <3>1, AddToRunsType
  <2>3. Nat \subseteq S
    <3> HIDE DEF S
    <3>. QED
      BY Zenon, <2>1, <2>2, SetInduction
  <2>4. \A i \in 0..n : c[i] \in RunSeqs
    BY <2>3
  <2>. QED
    BY <2>4, <1>7
<1>10. c[0] = <<>> /\ \A i \in 1..n : c[i] = AddToRuns(c[i - 1], bytes[i])
  <2> HIDE DEF c
  <2>1. 0 \in 0..n /\ \A i \in 1..n : i \in 0..n /\ i # 0
    OBVIOUS
  <2>. QED
    BY <1>7, <2>1
<1>. QED
  <2> HIDE DEF c
  <2>. QED
    BY <1>8, <1>9, <1>10

\* A byte repeated, after what came before.
LEMMA UnrunType ==
    ASSUME NEW out \in Seq(Nat), NEW body \in Seq(Nat), NEW i \in 1..(Len(body) \div 2)
    PROVE  /\ Unrun(out, i, body) \in Seq(Nat)
           /\ 2 * i \in 1..Len(body) /\ 2 * i - 1 \in 1..Len(body)
<1>1. 2 * i \in 1..Len(body) /\ 2 * i - 1 \in 1..Len(body)
  OBVIOUS
<1>2. body[2 * i] \in Nat /\ body[2 * i - 1] \in Nat
  BY <1>1
<1>3. [j \in 1..body[2 * i] |-> body[2 * i - 1]] \in Seq(Nat)
  BY SMTT(40), <1>2
<1>. QED
  BY <1>1, <1>3 DEF Unrun

\* What the first runs of a body stand for, run by run.
Unruns(body, f) ==
    /\ f \in [0..(Len(body) \div 2) -> Seq(Nat)]
    /\ f[0] = <<>>
    /\ \A i \in 1..(Len(body) \div 2) : f[i] = Unrun(f[i - 1], i, body)

\* ZlibDecompress takes the runs one by one.
LEMMA ZlibDecompressIs ==
    ASSUME NEW body \in Seq(Nat)
    PROVE  \E f : Unruns(body, f) /\ ZlibDecompress(body) = f[Len(body) \div 2]
<1> DEFINE n == Len(body) \div 2
           step == [p \in Seq(Nat) \X (1..n) |-> Unrun(p[1], p[2], body)]
           By(f) == f = [i \in 0..n |-> IF i = 0 THEN <<>> ELSE Unrun(f[i - 1], i, body)]
<1>1. step \in [Seq(Nat) \X (1..n) -> Seq(Nat)]
  BY UnrunType
<1>2. <<>> \in Seq(Nat)
  OBVIOUS
<1>3. n \in Nat
  OBVIOUS
<1>4. PICK f \in [0..n -> Seq(Nat)] : f[0] = <<>> /\ \A i \in 1..n : f[i] = step[<<f[i - 1], i>>]
  <2> HIDE DEF step, n
  <2>1. \E f : Steps(Seq(Nat), <<>>, n, step, f)
    BY Zenon, <1>1, <1>2, <1>3, Recursion
  <2>. QED
    BY <2>1 DEF Steps
<1>5. \A i \in 1..n : step[<<f[i - 1], i>>] = Unrun(f[i - 1], i, body)
  <2> SUFFICES ASSUME NEW i \in 1..n PROVE step[<<f[i - 1], i>>] = Unrun(f[i - 1], i, body)
    OBVIOUS
  <2>1. f[i - 1] \in Seq(Nat) /\ i \in 1..n
    BY <1>3
  <2>. QED
    BY <2>1
<1>6. By(f)
  <2> HIDE DEF step, n
  <2>1. \A i \in 0..n : i # 0 => i \in 1..n
    BY <1>3
  <2>. QED
    BY <1>4, <1>5, <2>1
<1> DEFINE c == CHOOSE g : By(g)
<1>7. By(c)
  BY <1>6
<1>8. ZlibDecompress(body) = c[n]
  BY DEF ZlibDecompress
<1>9. c \in [0..n -> Seq(Nat)]
  <2> DEFINE S == {i \in Nat : i <= n => c[i] \in Seq(Nat)}
  <2> HIDE DEF c
  <2>1. 0 \in S
    BY <1>7, <1>2
  <2>2. ASSUME NEW i \in Nat, i \in S PROVE i + 1 \in S
    <3> SUFFICES ASSUME i + 1 <= n PROVE c[i + 1] \in Seq(Nat)
      OBVIOUS
    <3>1. c[i + 1] = Unrun(c[i], i + 1, body)
      BY <1>7
    <3>. QED
      BY <2>2, <3>1, UnrunType
  <2>3. Nat \subseteq S
    <3> HIDE DEF S
    <3>. QED
      BY Zenon, <2>1, <2>2, SetInduction
  <2>4. \A i \in 0..n : c[i] \in Seq(Nat)
    BY <2>3
  <2>. QED
    BY <2>4, <1>7
<1>10. c[0] = <<>> /\ \A i \in 1..n : c[i] = Unrun(c[i - 1], i, body)
  <2> HIDE DEF c
  <2>1. 0 \in 0..n /\ \A i \in 1..n : i \in 0..n /\ i # 0
    BY <1>3
  <2>. QED
    BY <1>7, <2>1
<1>. QED
  <2> HIDE DEF c
  <2>. QED
    BY <1>8, <1>9, <1>10 DEF Unruns

\* The first runs stand for the same bytes whatever follows them.
LEMMA UnrunsPrefix ==
    ASSUME NEW b1 \in Seq(Nat), NEW b2 \in Seq(Nat), NEW f1, NEW f2,
           Unruns(b1, f1), Unruns(b2, f2), NEW k \in Nat,
           k <= Len(b1) \div 2, k <= Len(b2) \div 2,
           \A j \in 1..(2 * k) : b1[j] = b2[j]
    PROVE  f1[k] = f2[k]
<1> DEFINE S == {i \in Nat : i <= k => f1[i] = f2[i]}
<1>1. 0 \in S
  BY DEF Unruns
<1>2. ASSUME NEW i \in Nat, i \in S PROVE i + 1 \in S
  <2> SUFFICES ASSUME i + 1 <= k PROVE f1[i + 1] = f2[i + 1]
    OBVIOUS
  <2>1. f1[i + 1] = Unrun(f1[i], i + 1, b1) /\ f2[i + 1] = Unrun(f2[i], i + 1, b2)
    <3>1. i + 1 \in 1..(Len(b1) \div 2) /\ i + 1 \in 1..(Len(b2) \div 2) /\ (i + 1) - 1 = i
      OBVIOUS
    <3>. QED
      BY <3>1 DEF Unruns
  <2>2. 2 * (i + 1) \in 1..(2 * k) /\ 2 * (i + 1) - 1 \in 1..(2 * k)
    OBVIOUS
  <2>3. b1[2 * (i + 1)] = b2[2 * (i + 1)] /\ b1[2 * (i + 1) - 1] = b2[2 * (i + 1) - 1]
    BY <2>2
  <2>4. f1[i] = f2[i]
    BY <1>2
  <2>. QED
    BY <2>1, <2>3, <2>4 DEF Unrun
<1>3. Nat \subseteq S
  <2> HIDE DEF S
  <2>. QED
    BY Zenon, <1>1, <1>2, SetInduction
<1>. QED
  BY <1>3

\* A sequence and two values more.
LEMMA TwoMore ==
    ASSUME NEW S, NEW s \in Seq(S), NEW b \in S, NEW c \in S
    PROVE  /\ s \o <<b, c>> \in Seq(S) /\ Len(s \o <<b, c>>) = Len(s) + 2
           /\ (s \o <<b, c>>)[Len(s) + 1] = b
           /\ (s \o <<b, c>>)[Len(s) + 2] = c
           /\ \A j \in 1..Len(s) : (s \o <<b, c>>)[j] = s[j]
OBVIOUS

\* One run more stands for its byte, repeated, after the rest.
LEMMA DecompressAppend ==
    ASSUME NEW runs \in RunSeqs, NEW b \in Nat, NEW c \in Nat
    PROVE  /\ runs \o <<b, c>> \in RunSeqs
           /\ ZlibDecompress(runs) \in Seq(Nat)
           /\ ZlibDecompress(runs \o <<b, c>>) = ZlibDecompress(runs) \o [j \in 1..c |-> b]
<1> DEFINE more == runs \o <<b, c>>
           n == Len(runs) \div 2
<1>1. /\ runs \in Seq(Nat) /\ more \in Seq(Nat) /\ Len(more) = Len(runs) + 2
      /\ n \in Nat /\ Len(runs) = 2 * n /\ Len(more) \div 2 = n + 1 /\ Len(more) % 2 = 0
  BY DEF RunSeqs
<1>2. more[2 * (n + 1)] = c /\ more[2 * (n + 1) - 1] = b /\ \A j \in 1..(2 * n) : more[j] = runs[j]
  <2>1. 2 * (n + 1) = Len(runs) + 2 /\ 2 * (n + 1) - 1 = Len(runs) + 1
    BY <1>1
  <2>2. more[Len(runs) + 2] = c /\ more[Len(runs) + 1] = b
    BY DEF RunSeqs
  <2>3. \A j \in 1..Len(runs) : more[j] = runs[j]
    BY DEF RunSeqs
  <2>. QED
    BY <1>1, <2>1, <2>2, <2>3
<1>3. PICK f : Unruns(runs, f) /\ ZlibDecompress(runs) = f[n]
  BY <1>1, ZlibDecompressIs
<1>4. PICK g : Unruns(more, g) /\ ZlibDecompress(more) = g[n + 1]
  <2> HIDE DEF more
  <2>. QED
    BY <1>1, ZlibDecompressIs
<1>5. g[n] = f[n]
  <2> HIDE DEF more, n
  <2>1. n <= Len(more) \div 2 /\ n <= Len(runs) \div 2
    BY <1>1 DEF n
  <2>. QED
    <3>1. more \in Seq(Nat) /\ runs \in Seq(Nat) /\ n \in Nat
      BY <1>1
    <3>2. Unruns(more, g) /\ Unruns(runs, f)
      BY <1>3, <1>4
    <3>3. \A j \in 1..(2 * n) : more[j] = runs[j]
      BY <1>2
    <3>. QED
      BY SMTT(40), <3>1, <3>2, <3>3, <2>1, UnrunsPrefix
<1>6. f[n] \in Seq(Nat)
  BY <1>1, <1>3 DEF Unruns
<1>7. g[n + 1] = Unrun(g[n], n + 1, more)
  <2> HIDE DEF more, n
  <2>1. n + 1 \in 1..(Len(more) \div 2) /\ (n + 1) - 1 = n
    BY <1>1
  <2>. QED
    BY <1>4, <2>1 DEF Unruns
<1>8. Unrun(g[n], n + 1, more) = g[n] \o [j \in 1..c |-> b]
  <2> HIDE DEF more, n
  <2>. QED
    BY <1>2 DEF Unrun
<1>. QED
  <2> HIDE DEF n
  <2>1. more \in RunSeqs
    BY <1>1 DEF RunSeqs
  <2>. QED
    BY <1>3, <1>4, <1>5, <1>6, <1>7, <1>8, <2>1

\* A byte more is a byte more of what comes out.
LEMMA DecompressAdd ==
    ASSUME NEW runs \in RunSeqs, NEW b \in Nat
    PROVE  /\ ZlibDecompress(runs) \in Seq(Nat)
           /\ ZlibDecompress(AddToRuns(runs, b)) = Append(ZlibDecompress(runs), b)
<1>0. ZlibDecompress(runs) \in Seq(Nat)
  BY DecompressAppend
<1>1. CASE Len(runs) > 0 /\ runs[Len(runs) - 1] = b
  <2> DEFINE n == Len(runs)
             first == SubSeq(runs, 1, n - 2)
             c == runs[n]
  <2>1. runs \in Seq(Nat) /\ n \in Nat /\ n >= 2 /\ n % 2 = 0 /\ c \in Nat
    BY <1>1 DEF RunSeqs
  <2>2. first \in RunSeqs /\ Len(first) = n - 2 /\ \A j \in 1..(n - 2) : first[j] = runs[j]
    <3>1. n - 2 \in 0..n /\ (n - 2) % 2 = 0
      BY <2>1
    <3>2. first \in Seq(Nat) /\ Len(first) = n - 2 /\ \A j \in 1..(n - 2) : first[j] = runs[j]
      <4>1. /\ first \in Seq(Nat) /\ Len(first) = IF 1 <= n - 2 THEN (n - 2) - 1 + 1 ELSE 0
            /\ \A j \in 1..((n - 2) - 1 + 1) : first[j] = runs[1 + j - 1]
        <5>1. 1 \in 1..(n + 1) /\ n - 2 \in 0..n
          BY <2>1
        <5>. QED
          BY SMTT(40), <2>1, <5>1, SubSeqProperties
      <4> HIDE DEF n, first
      <4>2. (n - 2) - 1 + 1 = n - 2 /\ (~(1 <= n - 2) => n - 2 = 0)
        BY <2>1
      <4>3. \A j \in 1..(n - 2) : 1 + j - 1 = j
        OBVIOUS
      <4>. QED
        BY <4>1, <4>2, <4>3
    <3>. QED
      BY <3>1, <3>2 DEF RunSeqs
  <2>3. runs = first \o <<b, c>>
    <3> DEFINE other == first \o <<b, c>>
    <3>1. other \in Seq(Nat) /\ Len(other) = n
      BY <2>1, <2>2 DEF RunSeqs
    <3>2. \A j \in 1..n : other[j] = runs[j]
      <4>1. other[n] = c /\ other[n - 1] = b /\ \A j \in 1..(n - 2) : other[j] = first[j]
        <5> HIDE DEF n, c, first
        <5>1. first \in Seq(Nat) /\ Len(first) = n - 2 /\ c + 1 \in Nat
          BY <2>1, <2>2 DEF RunSeqs
        <5>2. (n - 2) + 2 = n /\ (n - 2) + 1 = n - 1
          BY <2>1
        <5>. QED
          BY <2>1, <5>1, <5>2, TwoMore
      <4>2. runs[n] = c /\ runs[n - 1] = b
        BY <1>1
      <4>3. \A j \in 1..n : j = n \/ j = n - 1 \/ j \in 1..(n - 2)
        BY <2>1
      <4>. QED
        BY <4>1, <4>2, <4>3, <2>2
    <3>3. other = runs
      <4> HIDE DEF other
      <4>1. runs \in Seq(Nat) /\ Len(runs) = n
        BY <2>1
      <4>. QED
        BY <4>1, <3>1, <3>2, SeqEqual
    <3>. QED
      BY <3>3 DEF other
  <2>4. AddToRuns(runs, b) = first \o <<b, c + 1>>
    <3>1. AddToRuns(runs, b) = [runs EXCEPT ![n] = @ + 1]
      BY <1>1 DEF AddToRuns
    <3> DEFINE other == first \o <<b, c + 1>>
               added == [runs EXCEPT ![n] = @ + 1]
    <3>2. other \in Seq(Nat) /\ Len(other) = n /\ added \in Seq(Nat) /\ Len(added) = n
      <4>1. first \in Seq(Nat) /\ Len(first) = n - 2 /\ c + 1 \in Nat /\ (n - 2) + 2 = n
        BY <2>1, <2>2 DEF RunSeqs
      <4>2. other \in Seq(Nat) /\ Len(other) = n
        <5> HIDE DEF n, c, first
        <5>. QED
          BY <4>1, TwoMore
      <4>3. added \in Seq(Nat) /\ Len(added) = n
        BY <2>1
      <4>. QED
        BY <4>2, <4>3
    <3>3. \A j \in 1..n : other[j] = added[j]
      <4>1. other[n] = c + 1 /\ other[n - 1] = b /\ \A j \in 1..(n - 2) : other[j] = first[j]
        <5> HIDE DEF n, c, first
        <5>1. first \in Seq(Nat) /\ Len(first) = n - 2 /\ c + 1 \in Nat
          BY <2>1, <2>2 DEF RunSeqs
        <5>2. (n - 2) + 2 = n /\ (n - 2) + 1 = n - 1
          BY <2>1
        <5>. QED
          BY <2>1, <5>1, <5>2, TwoMore
      <4>2. added[n] = c + 1 /\ added[n - 1] = b /\ \A j \in 1..(n - 2) : added[j] = runs[j]
        BY SMTT(40), <1>1, <2>1
      <4>3. \A j \in 1..n : j = n \/ j = n - 1 \/ j \in 1..(n - 2)
        BY <2>1
      <4>. QED
        BY <4>1, <4>2, <4>3, <2>2
    <3>4. other = added
      <4> HIDE DEF other, added
      <4>. QED
        BY <3>2, <3>3, SeqEqual
    <3>. QED
      BY <3>1, <3>4
  <2> HIDE DEF n, c, first
  <2>5. ZlibDecompress(runs) = ZlibDecompress(first) \o [j \in 1..c |-> b]
    BY <2>1, <2>2, <2>3, DecompressAppend
  <2>6. c + 1 \in Nat
    BY <2>1
  <2>7. /\ ZlibDecompress(first) \in Seq(Nat)
        /\ ZlibDecompress(first \o <<b, c + 1>>) = ZlibDecompress(first) \o [j \in 1..(c + 1) |-> b]
    BY <2>2, <2>6, DecompressAppend
  <2> DEFINE d == ZlibDecompress(first)
  <2> HIDE DEF d
  <2>8. ASSUME d \in Seq(Nat) PROVE d \o [j \in 1..(c + 1) |-> b] = Append(d \o [j \in 1..c |-> b], b)
    BY <2>1, <2>8
  <2>. QED
    BY <1>0, <2>4, <2>5, <2>7, <2>8 DEF d
<1>2. CASE ~(Len(runs) > 0 /\ runs[Len(runs) - 1] = b)
  <2>1. AddToRuns(runs, b) = runs \o <<b, 1>>
    BY <1>2 DEF AddToRuns
  <2>2. ZlibDecompress(AddToRuns(runs, b)) = ZlibDecompress(runs) \o [j \in 1..1 |-> b]
    BY <2>1, DecompressAppend
  <2>3. [j \in 1..1 |-> b] = <<b>>
    OBVIOUS
  <2>. QED
    BY <1>0, <2>2, <2>3
<1>. QED
  BY <1>1, <1>2

\* What was compressed comes out again.
LEMMA RoundTrip ==
    ASSUME NEW bytes \in Seq(Nat)
    PROVE  /\ ZlibCompress(bytes) \in RunSeqs
           /\ ZlibDecompress(ZlibCompress(bytes)) = bytes
<1> DEFINE n == Len(bytes)
<1>0. n \in Nat
  OBVIOUS
<1>1. PICK f \in [0..n -> RunSeqs] :
         /\ f[0] = <<>>
         /\ \A i \in 1..n : f[i] = AddToRuns(f[i - 1], bytes[i])
         /\ ZlibCompress(bytes) = f[n]
  BY ZlibCompressIs
<1> DEFINE S == {i \in Nat : i <= n => ZlibDecompress(f[i]) = SubSeq(bytes, 1, i)}
<1>2. 0 \in S
  <2>1. <<>> \in Seq(Nat) /\ Len(<<>>) \div 2 = 0
    OBVIOUS
  <2>2. ZlibDecompress(<<>>) = <<>>
    BY <2>1, ZlibDecompressIs DEF Unruns
  <2>3. SubSeq(bytes, 1, 0) = <<>>
    OBVIOUS
  <2>. QED
    BY <1>1, <2>2, <2>3
<1>3. ASSUME NEW i \in Nat, i \in S PROVE i + 1 \in S
  <2> SUFFICES ASSUME i + 1 <= n PROVE ZlibDecompress(f[i + 1]) = SubSeq(bytes, 1, i + 1)
    OBVIOUS
  <2>1. i + 1 \in 1..n /\ (i + 1) - 1 = i /\ i \in 0..n
    BY <1>0
  <2>2. f[i] \in RunSeqs /\ bytes[i + 1] \in Nat /\ f[i + 1] = AddToRuns(f[i], bytes[i + 1])
    <3>1. bytes[i + 1] \in Nat
      BY <2>1
    <3> HIDE DEF n
    <3>2. f[i] \in RunSeqs /\ f[i + 1] = AddToRuns(f[i], bytes[i + 1])
      BY <1>1, <2>1
    <3>. QED
      BY <3>1, <3>2
  <2>3. ZlibDecompress(f[i + 1]) = Append(ZlibDecompress(f[i]), bytes[i + 1])
    BY <2>2, DecompressAdd
  <2>4. ZlibDecompress(f[i]) = SubSeq(bytes, 1, i)
    BY <1>0, <1>3
  <2>5. SubSeq(bytes, 1, i + 1) = Append(SubSeq(bytes, 1, i), bytes[i + 1])
    BY <2>1
  <2>. QED
    BY <2>3, <2>4, <2>5
<1>4. n \in S
  <2>1. Nat \subseteq S
    <3> HIDE DEF S
    <3>. QED
      BY Zenon, <1>2, <1>3, SetInduction
  <2>. QED
    BY <1>0, <2>1
<1>5. SubSeq(bytes, 1, n) = bytes
  OBVIOUS
<1>. QED
  BY <1>0, <1>1, <1>4, <1>5

\* The limits are numbers, and a legal record fits.
LEMMA CodecRanges ==
    /\ MaxLen \in Nat /\ ChunkLen \in Nat /\ ChunkLen # 0 /\ FragCap \in Nat /\ RecordCap \in Nat
    /\ Timeout \in Nat /\ MaxLen + 2 <= RecordCap
BY CodecConstants DEF RecordHeader

\* The record of an envelope that is not too large fits and decodes to it.
LEMMA RecordIs ==
    ASSUME NEW e \in Seq(Nat), Len(e) <= MaxLen
    PROVE  /\ BuildRecord(e) \in Seq(Nat)
           /\ Len(BuildRecord(e)) \in 2..RecordCap
           /\ DecodeRecord(BuildRecord(e)) = Done(e)
<1> DEFINE z == ZlibCompress(e)
<1>0. MaxLen \in Nat /\ RecordCap \in Nat /\ MaxLen + 2 <= RecordCap /\ Len(e) \in Nat
  BY CodecConstants DEF RecordHeader
<1>1. z \in Seq(Nat) /\ Len(z) % 2 = 0 /\ ZlibDecompress(z) = e
  BY RoundTrip DEF RunSeqs
<1> HIDE DEF z
<1>2. CASE Len(z) < Len(e)
  <2> DEFINE r == <<1, Len(e)>> \o z
  <2>1. BuildRecord(e) = r
    BY <1>2 DEF BuildRecord, z
  <2>2. /\ r \in Seq(Nat) /\ Len(r) = Len(z) + 2 /\ r[1] = 1 /\ r[2] = Len(e)
        /\ SubSeq(r, RecordHeader + 1, Len(r)) = z
    <3>1. RecordHeader + 1 = 3
      BY DEF RecordHeader
    <3>2. r \in Seq(Nat) /\ Len(r) = Len(z) + 2 /\ r[1] = 1 /\ r[2] = Len(e) /\ SubSeq(r, 3, Len(r)) = z
      BY <1>1
    <3>. QED
      BY <3>1, <3>2
  <2> HIDE DEF r
  <2>3. DecodeRecord(r) = BoundedDecompress(z)
    <3>1. ~(Len(r) < RecordHeader) /\ ~(Len(e) > MaxLen)
      BY <1>0, <1>1, <2>2 DEF RecordHeader
    <3>2. 1 # 0
      OBVIOUS
    <3>. QED
      BY Zenon, <2>2, <3>1, <3>2 DEF DecodeRecord
  <2>4. BoundedDecompress(z) = Done(e)
    <3>1. IsZlib(z)
      BY <1>1 DEF IsZlib
    <3>2. ~(Len(ZlibDecompress(z)) > MaxLen)
      BY <1>0, <1>1
    <3>. QED
      BY Zenon, <1>1, <3>1, <3>2 DEF BoundedDecompress
  <2>5. Len(r) \in 2..RecordCap
    <3>1. Len(z) \in Nat
      BY <1>1
    <3>2. Len(r) = Len(z) + 2
      BY <2>2
    <3>. QED
      BY <1>0, <1>2, <3>1, <3>2
  <2>. QED
    BY <2>1, <2>2, <2>3, <2>4, <2>5
<1>3. CASE ~(Len(z) < Len(e))
  <2> DEFINE r == <<0, Len(e)>> \o e
  <2>1. BuildRecord(e) = r
    BY <1>3 DEF BuildRecord, z
  <2>2. /\ r \in Seq(Nat) /\ Len(r) = Len(e) + 2 /\ r[1] = 0 /\ r[2] = Len(e)
        /\ SubSeq(r, RecordHeader + 1, Len(r)) = e
    <3>1. RecordHeader + 1 = 3
      BY DEF RecordHeader
    <3>2. r \in Seq(Nat) /\ Len(r) = Len(e) + 2 /\ r[1] = 0 /\ r[2] = Len(e) /\ SubSeq(r, 3, Len(r)) = e
      OBVIOUS
    <3>. QED
      BY <3>1, <3>2
  <2> HIDE DEF r
  <2>3. DecodeRecord(r) = Done(e)
    <3>1. ~(Len(r) < RecordHeader) /\ ~(Len(e) > MaxLen)
      BY <1>0, <2>2 DEF RecordHeader
    <3>. QED
      BY <2>2, <3>1 DEF DecodeRecord
  <2>4. Len(r) \in 2..RecordCap
    BY <1>0, <2>2
  <2>. QED
    BY <2>1, <2>2, <2>3, <2>4
<1>. QED
  BY <1>2, <1>3

\* The number of fragments of a record.
Count(record) == (Len(record) + ChunkLen - 1) \div ChunkLen

\* Just as many fragments as the record needs, and no more than are accepted.
LEMMA CountIs ==
    ASSUME NEW record \in Seq(Nat), Len(record) \in 2..RecordCap
    PROVE  /\ Count(record) \in 1..FragCap
           /\ Len(record) <= Count(record) * ChunkLen
           /\ \A k \in 0..(Count(record) - 1) : k * ChunkLen \in 0..(Len(record) - 1)
<1> DEFINE n == Len(record)
           c == Count(record)
<1>1. n \in Nat /\ 2 <= n /\ n <= RecordCap /\ ChunkLen \in Nat \ {0} /\ FragCap \in Nat
      /\ RecordCap \in Nat /\ RecordCap <= FragCap * ChunkLen
  BY CodecConstants
<1> HIDE DEF n
<1>2. n + ChunkLen - 1 \in Nat
  BY <1>1
<1>3. c \in Nat /\ c * ChunkLen <= n + ChunkLen - 1 /\ n + ChunkLen - 1 < c * ChunkLen + ChunkLen
  BY <1>1, <1>2, Quotient DEF Count, n
<1> HIDE DEF c
<1>4. n <= c * ChunkLen /\ c # 0
  <2>1. c = 0 => c * ChunkLen = 0
    BY <1>1
  <2>2. c * ChunkLen \in Nat
    BY <1>1, <1>3
  <2>. QED
    BY <1>1, <1>3, <2>1, <2>2
<1>5. c <= FragCap
  <2> SUFFICES ASSUME FragCap < c PROVE FALSE
    BY <1>1, <1>3
  <2>1. FragCap * ChunkLen + ChunkLen <= c * ChunkLen
    BY <1>1, <1>3, Multiples
  <2>2. c * ChunkLen \in Nat /\ FragCap * ChunkLen \in Nat
    BY <1>1, <1>3
  <2>. QED
    BY <1>1, <1>3, <2>1, <2>2
<1>6. ASSUME NEW k \in 0..(c - 1) PROVE k * ChunkLen \in 0..(n - 1)
  <2>1. k \in Nat /\ k < c
    BY <1>3
  <2>2. k * ChunkLen + ChunkLen <= c * ChunkLen /\ k * ChunkLen \in Nat /\ c * ChunkLen \in Nat
    BY <1>1, <1>3, <2>1, Multiples
  <2>. QED
    BY <1>1, <1>3, <2>2
<1>. QED
  BY <1>3, <1>4, <1>5, <1>6 DEF n, c

\* The bytes of a record in its k-th fragment.
Chunk(record, k) == SubSeq(record, (k - 1) * ChunkLen + 1, Least(k * ChunkLen, Len(record)))

\* The fragments of a record, with their headers.
LEMMA FragmentIs ==
    ASSUME NEW record \in Seq(Nat), Len(record) \in 2..RecordCap,
           NEW k \in 1..Count(record)
    PROVE  LET f == SplitIntoFragments(record)[k]
           IN /\ f \in Seq(Nat) /\ Len(f) >= FragmentHeader
              /\ f[1] = k - 1 /\ f[2] = Count(record) /\ Chunk(record, k) \in Seq(Nat)
              /\ SubSeq(f, FragmentHeader + 1, Len(f)) = Chunk(record, k)
<1> DEFINE ch == Chunk(record, k)
           f == <<k - 1, Count(record)>> \o ch
           c == Count(record)
<1>1. c \in Nat /\ k - 1 \in Nat /\ k \in Nat /\ k - 1 \in 0..(c - 1)
  <2>. c \in Nat
    BY CountIs
  <2>. QED
    OBVIOUS
<1>2. SplitIntoFragments(record)[k] = f
  BY DEF SplitIntoFragments, Count, Chunk
<1>3. (k - 1) * ChunkLen \in 0..(Len(record) - 1)
  BY <1>1, CountIs
<1>4. ch \in Seq(Nat)
  <2>1. k * ChunkLen \in Nat
    BY <1>1, CodecConstants
  <2>2. Least(k * ChunkLen, Len(record)) \in 0..Len(record)
    BY <2>1 DEF Least
  <2>. QED
    BY SMTT(40), <1>3, <2>2 DEF Chunk
<1> HIDE DEF ch, c
<1>5. /\ f \in Seq(Nat) /\ Len(f) = 2 + Len(ch) /\ f[1] = k - 1 /\ f[2] = c
      /\ SubSeq(f, 3, Len(f)) = ch
  BY <1>1, <1>4 DEF c
<1>. QED
  BY <1>2, <1>4, <1>5 DEF FragmentHeader, c, ch

\* What of a record is there after its first k fragments.
PartialOf(record, k) ==
    IF k = 0 THEN NoPartial
    ELSE [count |-> Count(record), next |-> k, buffer |-> SubSeq(record, 1, k * ChunkLen)]

\* The next chunk continues what is there.
LEMMA ChunkContinues ==
    ASSUME NEW record \in Seq(Nat), Len(record) \in 2..RecordCap,
           NEW k \in 0..(Count(record) - 1)
    PROVE  /\ k + 1 < Count(record) =>
                 /\ SubSeq(record, 1, k * ChunkLen) \o Chunk(record, k + 1)
                       = SubSeq(record, 1, (k + 1) * ChunkLen)
                 /\ Len(SubSeq(record, 1, (k + 1) * ChunkLen)) <= RecordCap
           /\ k + 1 = Count(record) =>
                 SubSeq(record, 1, k * ChunkLen) \o Chunk(record, k + 1) = record
<1> DEFINE a == k * ChunkLen
           b == Least((k + 1) * ChunkLen, Len(record))
           n == Len(record)
<1>0. k \in Nat /\ k + 1 \in Nat /\ Count(record) \in Nat /\ ChunkLen \in Nat \ {0}
  BY CountIs, CodecConstants
<1>1. a \in 0..(n - 1)
  BY CountIs
<1>2. (k + 1) * ChunkLen = a + ChunkLen
  BY <1>0
<1>3. Chunk(record, k + 1) = SubSeq(record, a + 1, b)
  <2>1. (k + 1) - 1 = k
    BY <1>0
  <2>. QED
    BY <2>1 DEF Chunk
<1>4. b \in a..n
  <2> HIDE DEF a
  <2>. QED
    BY <1>0, <1>1, <1>2 DEF Least
<1>5. SubSeq(record, 1, a) \o SubSeq(record, a + 1, b) = SubSeq(record, 1, b)
  <2> HIDE DEF a, b
  <2>. QED
    BY SMTT(40), <1>1, <1>4, ConcatAdjacent
<1>6. ASSUME k + 1 < Count(record) PROVE b = (k + 1) * ChunkLen /\ b <= n
  <2>1. k + 1 \in 0..(Count(record) - 1)
    BY <1>0, <1>6
  <2>2. (k + 1) * ChunkLen \in 0..(n - 1)
    BY <2>1, CountIs
  <2>. QED
    BY <2>2 DEF Least
<1>7. ASSUME k + 1 = Count(record) PROVE b = n
  <2>1. n <= (k + 1) * ChunkLen
    BY <1>7, CountIs
  <2> HIDE DEF a
  <2>2. (k + 1) * ChunkLen \in Nat
    BY <1>0, <1>1, <1>2
  <2>. QED
    BY <2>1, <2>2 DEF Least
<1>8. b <= n => Len(SubSeq(record, 1, b)) <= RecordCap
  <2> HIDE DEF b
  <2>. QED
    BY <1>1, <1>4, CodecConstants
<1>9. SubSeq(record, 1, n) = record
  OBVIOUS
<1>. QED
  BY <1>3, <1>5, <1>6, <1>7, <1>8, <1>9

\* The fragments of an envelope.
Fragments(e) == SplitIntoFragments(BuildRecord(e))
Needs(e)     == Count(BuildRecord(e))
Half(e, k)   == PartialOf(BuildRecord(e), k)

\* A record with one fragment more.
LEMMA NextPartialIs ==
    ASSUME NEW p, NEW b, DOMAIN p = {"count", "next", "buffer"}, p = [x \in DOMAIN p |-> p[x]]
    PROVE  [p EXCEPT !.next = @ + 1, !.buffer = b] =
              [count |-> p.count, next |-> p.next + 1, buffer |-> b]
<1> DEFINE q == [p EXCEPT !.next = @ + 1]
           r == [count |-> p.count, next |-> p.next + 1, buffer |-> b]
<1>1. DOMAIN q = {"count", "next", "buffer"} /\ q.count = p.count /\ q.next = p.next + 1
  BY SMT
<1>2. [q EXCEPT !.buffer = b] = [x \in DOMAIN q |-> IF x = "buffer" THEN b ELSE q[x]]
  <2>1. q = [x \in DOMAIN q |-> q[x]]
    BY SMT
  <2> HIDE DEF q
  <2>. QED
    BY <2>1, SMT
<1>3. r = [x \in {"count", "next", "buffer"} |-> IF x = "buffer" THEN b ELSE q[x]]
  <2> HIDE DEF q
  <2>. QED
    BY <1>1
<1>4. [q EXCEPT !.buffer = b] = r
  <2> HIDE DEF q, r
  <2>. QED
    BY <1>1, <1>2, <1>3
<1>5. [q EXCEPT !.buffer = b] = [p EXCEPT !.next = @ + 1, !.buffer = b]
  OBVIOUS
<1>. QED
  BY <1>4, <1>5

\* The next fragment of a record continues it, and the last one completes it.
LEMMA AcceptIs ==
    ASSUME NEW e \in Seq(Nat), Len(e) <= MaxLen, NEW k \in 0..(Needs(e) - 1), NEW age \in Nat,
           k = 0 \/ age <= Timeout
    PROVE  AcceptFragment(Half(e, k), Fragments(e)[k + 1], age) =
              IF k + 1 = Needs(e) THEN Done(e) ELSE More(Half(e, k + 1))
<1> DEFINE r == BuildRecord(e)
           c == Count(r)
           f == SplitIntoFragments(r)[k + 1]
           ch == Chunk(r, k + 1)
           accepted == AcceptFragment(PartialOf(r, k), f, age)
<1>1. r \in Seq(Nat) /\ Len(r) \in 2..RecordCap /\ DecodeRecord(r) = Done(e)
  BY RecordIs
<1> HIDE DEF r
<1>2. c \in 1..FragCap /\ k \in 0..(c - 1) /\ FragCap \in Nat /\ Timeout \in Nat
  BY <1>1, CountIs, CodecRanges DEF r, Needs
<1>3. k \in Nat /\ k + 1 \in 1..c /\ c \in Nat /\ (k + 1) - 1 = k
  BY <1>2
<1>4. /\ f \in Seq(Nat) /\ Len(f) >= FragmentHeader
      /\ f[1] = k /\ f[2] = c /\ ch \in Seq(Nat)
      /\ SubSeq(f, FragmentHeader + 1, Len(f)) = ch
  BY <1>1, <1>3, FragmentIs
<1>5. /\ k + 1 < c => /\ SubSeq(r, 1, k * ChunkLen) \o ch = SubSeq(r, 1, (k + 1) * ChunkLen)
                      /\ Len(SubSeq(r, 1, (k + 1) * ChunkLen)) <= RecordCap
      /\ k + 1 = c => SubSeq(r, 1, k * ChunkLen) \o ch = r
  BY <1>1, <1>2, ChunkContinues
<1> HIDE DEF f, ch, c
<1>6. ~(Len(f) < FragmentHeader)
  BY <1>4 DEF FragmentHeader
<1>7. CASE k = 0
  <2>1. PartialOf(r, k) = NoPartial
    BY <1>7 DEF PartialOf
  <2>2. accepted = FirstFragment(k, c, ch)
    BY Zenon, <1>4, <1>6, <2>1 DEF AcceptFragment
  <2>3. k * ChunkLen = 0
    BY <1>7, CodecRanges
  <2>4. SubSeq(r, 1, k * ChunkLen) = <<>>
    BY <1>1, <2>3
  <2>5. ch \in Seq(Nat)
    BY <1>4
  <2>6. SubSeq(r, 1, k * ChunkLen) \o ch = ch
    BY <2>4, <2>5, ConcatEmptySeq
  <2>7. ~(c = 0 \/ c > FragCap)
    BY <1>2
  <2>8. CASE c = 1
    <3>0. k + 1 = c
      BY <1>7, <2>8
    <3>1. ch = r
      BY Zenon, <1>5, <2>6, <3>0
    <3>2. ~(Len(ch) > RecordCap)
      BY <1>1, <3>1, CodecRanges
    <3>3. FirstFragment(k, c, ch) = DecodeRecord(ch)
      BY Zenon, <1>7, <2>7, <2>8, <3>2 DEF FirstFragment
    <3>. QED
      BY <1>1, <2>2, <3>1, <3>3, <3>0 DEF accepted, Half, Fragments, Needs, r, c, f
  <2>9. CASE c # 1
    <3>1. k + 1 < c /\ k + 1 # c /\ k + 1 = 1
      BY <1>2, <1>7, <2>9
    <3>2. ch = SubSeq(r, 1, (k + 1) * ChunkLen) /\ ~(Len(ch) > RecordCap)
      <4>1. ch = SubSeq(r, 1, (k + 1) * ChunkLen) /\ Len(ch) <= RecordCap
        BY <1>5, <2>6, <3>1
      <4>. QED
        BY <2>5, <4>1, CodecRanges
    <3>3. FirstFragment(k, c, ch) = More([count |-> c, next |-> 1, buffer |-> ch])
      BY Zenon, <1>7, <2>7, <2>9, <3>2 DEF FirstFragment
    <3>4. PartialOf(r, k + 1) = [count |-> c, next |-> 1, buffer |-> ch]
      <4>1. k + 1 # 0
        BY <1>3
      <4>2. PartialOf(r, k + 1) = [count |-> c, next |-> k + 1, buffer |-> ch]
        BY Zenon, <4>1, <3>2 DEF PartialOf, c
      <4>. QED
        BY Zenon, <4>2, <3>1
    <3>. QED
      BY <2>2, <3>1, <3>3, <3>4 DEF accepted, Half, Fragments, Needs, r, c, f
  <2>. QED
    BY <2>8, <2>9
<1>8. CASE k # 0
  <2> DEFINE p == PartialOf(r, k)
             buffer == p.buffer \o ch
  <2>1. p = [count |-> c, next |-> k, buffer |-> SubSeq(r, 1, k * ChunkLen)]
    BY <1>8 DEF PartialOf, c
  <2>2. p # NoPartial /\ p.count = c /\ p.next = k /\ p.buffer = SubSeq(r, 1, k * ChunkLen)
    <3> HIDE DEF p
    <3>1. p.count = c /\ p.next = k /\ p.buffer = SubSeq(r, 1, k * ChunkLen)
      BY Zenon, <2>1
    <3>. QED
      BY <1>8, <3>1 DEF NoPartial
  <2>3. ~(age > Timeout)
    BY <1>2, <1>8
  <2>4. accepted = NextFragment(p, k, c, ch)
    BY Zenon, <1>4, <1>6, <2>2, <2>3 DEF AcceptFragment
  <2>5. CASE k + 1 = c
    <3>1. buffer = r
      BY <1>5, <2>2, <2>5
    <3>2. ~(Len(buffer) > RecordCap)
      BY <1>1, <3>1, CodecRanges
    <3>3. k = c - 1
      BY <1>3, <2>5
    <3>4. NextFragment(p, k, c, ch) = DecodeRecord(buffer)
      BY Zenon, <2>2, <3>2, <3>3 DEF NextFragment
    <3>. QED
      BY <1>1, <2>4, <2>5, <3>1, <3>4 DEF accepted, Half, Fragments, Needs, r, c, f
  <2>6. CASE k + 1 # c
    <3>1. k + 1 < c /\ k # c - 1
      BY <1>2, <2>6
    <3>2. buffer = SubSeq(r, 1, (k + 1) * ChunkLen) /\ ~(Len(buffer) > RecordCap)
      <4>1. buffer = SubSeq(r, 1, (k + 1) * ChunkLen) /\ Len(buffer) <= RecordCap
        BY <1>5, <2>2, <3>1
      <4>2. Len(SubSeq(r, 1, (k + 1) * ChunkLen)) \in Int
        <5>1. (k + 1) * ChunkLen \in Int
          BY <1>3, CodecRanges
        <5>. QED
          BY <5>1
      <4>. QED
        BY <4>1, <4>2, CodecRanges
    <3>3. NextFragment(p, k, c, ch) = More([p EXCEPT !.next = @ + 1, !.buffer = buffer])
      BY Zenon, <2>2, <3>1, <3>2 DEF NextFragment
    <3>4. PartialOf(r, k + 1) = [count |-> c, next |-> k + 1, buffer |-> buffer]
      <4>1. k + 1 # 0
        BY <1>3
      <4>. QED
        BY Zenon, <4>1, <3>2 DEF PartialOf, c
    <3>5. [p EXCEPT !.next = @ + 1, !.buffer = buffer] = [count |-> c, next |-> k + 1, buffer |-> buffer]
      <4> HIDE DEF buffer, p
      <4>1. DOMAIN p = {"count", "next", "buffer"} /\ p = [x \in DOMAIN p |-> p[x]]
        BY <2>1
      <4>. QED
        BY <2>2, <4>1, NextPartialIs
    <3>. QED
      BY <2>4, <2>6, <3>3, <3>4, <3>5 DEF accepted, Half, Fragments, Needs, r, c, f
  <2>. QED
    BY <2>5, <2>6
<1>. QED
  BY <1>7, <1>8

\* What is half received, and no more than the largest record.
Partials ==
    {p \in [count : Nat, next : Nat, buffer : Seq(Nat)] :
        /\ p # NoPartial => p.next \in 1..(p.count - 1) /\ p.count \in 2..FragCap
        /\ Len(p.buffer) <= RecordCap}

\* What a reader may make of a fragment.
Answers(r) ==
    /\ r.partial \in Partials
    /\ r.out \in Seq(Seq(Nat))
    /\ r.out = <<>> \/ \E e \in Seq(Nat) : r.out = <<e>> /\ Len(e) <= MaxLen

\* Why a fragment may be refused.
Reasons == {"late", "header", "index", "count", "size", "record", "declared", "length", "codec",
            "zlib", "bomb", "noise"}

\* A fragment that is refused leaves nothing.
LEMMA RefuseAnswers == \A w \in Reasons : Answers(Refuse(w))
<1> SUFFICES ASSUME NEW w \in Reasons PROVE Answers(Refuse(w))
  OBVIOUS
<1>1. NoPartial \in Partials
  BY CodecRanges DEF NoPartial, Partials
<1>. QED
  BY <1>1 DEF Answers, Refuse

\* A record that is complete leaves an envelope within the limit, or nothing.
LEMMA DecodeAnswers ==
    ASSUME NEW record \in Seq(Nat)
    PROVE  Answers(DecodeRecord(record))
<1> DEFINE body == SubSeq(record, RecordHeader + 1, Len(record))
<1>1. ASSUME NEW e \in Seq(Nat), ~(Len(e) > MaxLen) PROVE Answers(Done(e))
  <2>1. Len(e) <= MaxLen
    BY <1>1, CodecRanges
  <2>2. NoPartial \in Partials
    BY CodecRanges DEF NoPartial, Partials
  <2>3. <<e>> \in Seq(Seq(Nat))
    OBVIOUS
  <2>4. Done(e).partial = NoPartial /\ Done(e).out = <<e>>
    BY DEF Done
  <2>. QED
    BY Zenon, <2>1, <2>2, <2>3, <2>4 DEF Answers
<1>2. CASE Len(record) < RecordHeader
  <2>1. DecodeRecord(record) = Refuse("record")
    BY Zenon, <1>2 DEF DecodeRecord
  <2>. QED
    BY <2>1, RefuseAnswers DEF Reasons
<1>3. CASE ~(Len(record) < RecordHeader)
  <2>1. body \in Seq(Nat) /\ record[2] \in Nat
    BY <1>3 DEF RecordHeader
  <2>2. Answers(BoundedDecompress(body))
    <3>1. ZlibDecompress(body) \in Seq(Nat)
      <4>1. PICK f : Unruns(body, f) /\ ZlibDecompress(body) = f[Len(body) \div 2]
        <5> HIDE DEF body
        <5>. QED
          BY <2>1, ZlibDecompressIs
      <4>2. Len(body) \div 2 \in 0..(Len(body) \div 2)
        <5> HIDE DEF body
        <5>. QED
          BY <2>1
      <4>. QED
        BY <4>1, <4>2 DEF Unruns
    <3>. QED
      <4> HIDE DEF body
      <4>1. \/ BoundedDecompress(body) \in {Refuse("zlib"), Refuse("bomb")}
            \/ ~(Len(ZlibDecompress(body)) > MaxLen) /\ BoundedDecompress(body) = Done(ZlibDecompress(body))
        BY Zenon DEF BoundedDecompress
      <4>2. Answers(Refuse("zlib")) /\ Answers(Refuse("bomb"))
        BY RefuseAnswers DEF Reasons
      <4>3. ~(Len(ZlibDecompress(body)) > MaxLen) => Answers(Done(ZlibDecompress(body)))
        BY Zenon, <1>1, <3>1
      <4>. QED
        BY Zenon, <4>1, <4>2, <4>3
  <2>3. \/ DecodeRecord(record) \in {Refuse("declared"), Refuse("length"), Refuse("codec"), BoundedDecompress(body)}
        \/ ~(record[2] > MaxLen) /\ Len(body) = record[2] /\ DecodeRecord(record) = Done(body)
    <3> HIDE DEF body
    <3>. QED
      BY Zenon, <1>3 DEF DecodeRecord, body
  <2>4. Answers(Refuse("declared")) /\ Answers(Refuse("length")) /\ Answers(Refuse("codec"))
    BY RefuseAnswers DEF Reasons
  <2>5. ~(record[2] > MaxLen) /\ Len(body) = record[2] => Answers(Done(body))
    <3> HIDE DEF body
    <3> SUFFICES ASSUME ~(record[2] > MaxLen), Len(body) = record[2] PROVE Answers(Done(body))
      OBVIOUS
    <3>1. ~(Len(body) > MaxLen)
      BY Zenon
    <3>. QED
      BY Zenon, <1>1, <2>1, <3>1
  <2>. QED
    <3> HIDE DEF body
    <3>. QED
      BY Zenon, <2>2, <2>3, <2>4, <2>5
<1>. QED
  BY <1>2, <1>3

\* Whatever fragment comes, the reader is left with no more than a record.
LEMMA AcceptAnswers ==
    ASSUME NEW p \in Partials, NEW f \in Seq(Nat), NEW age
    PROVE  Answers(AcceptFragment(p, f, age))
<1> DEFINE ch == SubSeq(f, FragmentHeader + 1, Len(f))
<1>1. ASSUME NEW q \in Partials PROVE Answers(More(q))
  <2>1. More(q).partial = q /\ More(q).out = <<>>
    BY DEF More
  <2>2. <<>> \in Seq(Seq(Nat))
    OBVIOUS
  <2>. QED
    BY Zenon, <2>1, <2>2 DEF Answers
<1>2. CASE (p # NoPartial /\ age > Timeout) \/ Len(f) < FragmentHeader
  <2>1. AcceptFragment(p, f, age) \in {Refuse("late"), Refuse("header")}
    BY Zenon, <1>2 DEF AcceptFragment
  <2>2. Answers(Refuse("late")) /\ Answers(Refuse("header"))
    BY RefuseAnswers DEF Reasons
  <2>. QED
    BY Zenon, <2>1, <2>2
<1>3. CASE ~(p # NoPartial /\ age > Timeout) /\ ~(Len(f) < FragmentHeader)
  <2>1. f[1] \in Nat /\ f[2] \in Nat /\ ch \in Seq(Nat)
    BY <1>3 DEF FragmentHeader
  <2> DEFINE i == f[1]
             c == f[2]
  <2>2. CASE p = NoPartial
    <3>1. AcceptFragment(p, f, age) = FirstFragment(i, c, ch)
      BY Zenon, <1>3, <2>2 DEF AcceptFragment
    <3> HIDE DEF ch, i, c
    <3>2. i \in Nat /\ c \in Nat /\ ch \in Seq(Nat)
      BY <2>1 DEF i, c
    <3>3. Answers(DecodeRecord(ch))
      BY <3>2, DecodeAnswers
    <3> DEFINE q == [count |-> c, next |-> 1, buffer |-> ch]
    <3>4. ASSUME ~(i # 0), ~(c = 0 \/ c > FragCap), ~(Len(ch) > RecordCap), c # 1
          PROVE  q \in Partials
      <4>1. q \in [count : Nat, next : Nat, buffer : Seq(Nat)]
        BY <3>2
      <4>2. q.next = 1 /\ q.count = c /\ q.buffer = ch
        OBVIOUS
      <4> HIDE DEF q
      <4>3. q.next \in 1..(q.count - 1) /\ q.count \in 2..FragCap
        BY <3>2, <3>4, <4>2, CodecRanges
      <4>4. Len(q.buffer) <= RecordCap
        BY <3>2, <3>4, <4>2, CodecRanges
      <4>. QED
        BY Zenon, <4>1, <4>3, <4>4 DEF Partials
    <3> HIDE DEF q
    <3>5. ASSUME q \in Partials PROVE Answers(More(q))
      BY <1>1, <3>5
    <3>6. Answers(Refuse("index")) /\ Answers(Refuse("count")) /\ Answers(Refuse("size"))
      BY RefuseAnswers DEF Reasons
    <3>7. \/ FirstFragment(i, c, ch) \in {Refuse("index"), Refuse("count"), Refuse("size"), DecodeRecord(ch)}
          \/ /\ ~(i # 0) /\ ~(c = 0 \/ c > FragCap) /\ ~(Len(ch) > RecordCap) /\ c # 1
             /\ FirstFragment(i, c, ch) = More(q)
      BY Zenon DEF FirstFragment, q
    <3>. QED
      BY Zenon, <3>1, <3>3, <3>4, <3>5, <3>6, <3>7
  <2>3. CASE p # NoPartial
    <3> DEFINE b == p.buffer \o ch
               q == [p EXCEPT !.next = @ + 1, !.buffer = b]
    <3>1. AcceptFragment(p, f, age) = NextFragment(p, i, c, ch)
      BY Zenon, <1>3, <2>3 DEF AcceptFragment
    <3> HIDE DEF ch, i, c
    <3>2. i \in Nat /\ c \in Nat /\ ch \in Seq(Nat)
      BY <2>1 DEF i, c
    <3>3. /\ p \in [count : Nat, next : Nat, buffer : Seq(Nat)]
          /\ p.next \in 1..(p.count - 1) /\ p.count \in 2..FragCap
      BY <2>3 DEF Partials
    <3>4. b \in Seq(Nat)
      BY <3>2, <3>3
    <3> HIDE DEF b
    <3>5. Answers(DecodeRecord(b))
      BY <3>4, DecodeAnswers
    <3>6. ASSUME ~(c # p.count), ~(i # p.next), ~(Len(b) > RecordCap), i # c - 1
          PROVE  q \in Partials
      <4>1. q \in [count : Nat, next : Nat, buffer : Seq(Nat)]
        <5>1. DOMAIN p = {"count", "next", "buffer"} /\ p = [x \in DOMAIN p |-> p[x]]
          BY <3>3
        <5>2. q = [count |-> p.count, next |-> p.next + 1, buffer |-> b]
          BY <5>1, NextPartialIs
        <5>3. p.next + 1 \in Nat /\ p.count \in Nat
          BY <3>3
        <5> HIDE DEF q
        <5>. QED
          BY <3>4, <5>2, <5>3
      <4>2. q.next = p.next + 1 /\ q.count = p.count /\ q.buffer = b
        BY <3>3
      <4> HIDE DEF q
      <4>3. q.next \in 1..(q.count - 1) /\ q.count \in 2..FragCap
        <5>0. p.count \in Nat /\ p.next \in Nat /\ i = p.next /\ c = p.count
          BY <3>3, <3>6
        <5>1. ~(i = c - 1)
          BY <3>6
        <5>2. p.next # p.count - 1
          BY <5>0, <5>1
        <5>3. q.next = p.next + 1 /\ q.count = p.count
          BY <4>2
        <5>4. p.next \in 1..(p.count - 1) /\ p.count \in 2..FragCap
          BY <3>3
        <5>5. p.next + 1 \in 1..(p.count - 1)
          BY <5>0, <5>2, <5>4
        <5>. QED
          BY <5>3, <5>4, <5>5
      <4>4. Len(q.buffer) <= RecordCap
        BY <3>4, <3>6, <4>2, CodecRanges
      <4>. QED
        BY <4>1, <4>3, <4>4 DEF Partials
    <3> HIDE DEF q
    <3>7. ASSUME q \in Partials PROVE Answers(More(q))
      BY <1>1, <3>7
    <3>8. Answers(Refuse("index")) /\ Answers(Refuse("count")) /\ Answers(Refuse("size"))
      BY RefuseAnswers DEF Reasons
    <3>9. \/ NextFragment(p, i, c, ch) \in {Refuse("index"), Refuse("count"), Refuse("size"), DecodeRecord(b)}
          \/ /\ ~(c # p.count) /\ ~(i # p.next) /\ ~(Len(b) > RecordCap) /\ i # c - 1
             /\ NextFragment(p, i, c, ch) = More(q)
      BY Zenon DEF NextFragment, q, b
    <3>. QED
      BY Zenon, <3>1, <3>5, <3>6, <3>7, <3>8, <3>9
  <2>. QED
    BY <2>2, <2>3
<1>. QED
  BY <1>2, <1>3

-----------------------------------------------------------------------------
(* One direction of the session.                                           *)

\* Envelopes that were not too large.
Envelopes == {e \in Seq(Nat) : Len(e) <= MaxLen}

Frames == [nonce : Nat, plain : Seq(Nat)]

\* How many frames were encrypted before each envelope of a log.
Offsets(log, off) ==
    /\ off \in [0..Len(log) -> Nat]
    /\ off[0] = 0
    /\ \A i \in 1..Len(log) : off[i] = off[i - 1] + Needs(log[i])
    /\ \A i, j \in 0..Len(log) : i < j => off[i] < off[j]

\* A frame is one of those a log was encrypted to.
Genuine(log, off, frame) ==
    \E m \in 1..Len(log) : \E k \in 0..(Needs(log[m]) - 1) :
        frame.nonce = off[m - 1] + k + 1 /\ frame.plain = Fragments(log[m])[k + 1]

\* A reader has read m envelopes and k fragments of the next.
ReadsAt(log, off, nonce, state, out, m, k) ==
    /\ out = SubSeq(log, 1, m) /\ nonce = off[m] + k
    /\ \/ k = 0 /\ state = NoPartial
       \/ m < Len(log) /\ k \in 1..(Needs(log[m + 1]) - 1) /\ state = Half(log[m + 1], k)

Reads(log, off, nonce, state, out) ==
    \E m \in 0..Len(log), k \in Nat : ReadsAt(log, off, nonce, state, out, m, k)

\* An envelope needs at least one frame, and each of them is one.
LEMMA FragmentsAre ==
    ASSUME NEW e \in Envelopes
    PROVE  /\ Needs(e) \in Nat /\ Needs(e) >= 1
           /\ Len(Fragments(e)) = Needs(e)
           /\ \A k \in 1..Needs(e) : Fragments(e)[k] \in Seq(Nat)
<1> DEFINE r == BuildRecord(e)
<1>1. r \in Seq(Nat) /\ Len(r) \in 2..RecordCap
  BY RecordIs DEF Envelopes
<1> HIDE DEF r
<1>2. Count(r) \in 1..FragCap
  BY <1>1, CountIs
<1>3. Count(r) \in Nat /\ Count(r) >= 1
  BY <1>2, CodecRanges
<1>4. Len(SplitIntoFragments(r)) = Count(r)
  <2>1. SplitIntoFragments(r) = [i \in 1..Count(r) |-> SplitIntoFragments(r)[i]]
    BY DEF SplitIntoFragments, Count
  <2>. QED
    BY <1>3, <2>1
<1>5. \A k \in 1..Count(r) : SplitIntoFragments(r)[k] \in Seq(Nat)
  BY <1>1, FragmentIs
<1>. QED
  BY <1>3, <1>4, <1>5 DEF Needs, Fragments, r

\* The numbers of the frames before each envelope, in order.
LEMMA OffsetsAre ==
    ASSUME NEW log \in Seq(Envelopes), NEW off, Offsets(log, off)
    PROVE  /\ \A i \in 0..Len(log) : off[i] \in Nat
           /\ \A i \in 1..Len(log) : /\ log[i] \in Envelopes
                                      /\ Needs(log[i]) \in Nat /\ Needs(log[i]) >= 1
                                      /\ off[i] = off[i - 1] + Needs(log[i])
           /\ \A i \in 0..(Len(log) - 1) : /\ log[i + 1] \in Envelopes
                                            /\ Needs(log[i + 1]) \in Nat /\ Needs(log[i + 1]) >= 1
                                            /\ off[i + 1] = off[i] + Needs(log[i + 1])
           /\ \A i, j \in 0..Len(log) : i <= j => off[i] <= off[j]
<1>1. \A i \in 0..Len(log) : off[i] \in Nat
  BY DEF Offsets
<1>2. \A i \in 1..Len(log) : log[i] \in Envelopes
  OBVIOUS
<1>3. \A i \in 1..Len(log) : Needs(log[i]) \in Nat /\ Needs(log[i]) >= 1
  BY <1>2, FragmentsAre
<1>4. \A i \in 1..Len(log) : off[i] = off[i - 1] + Needs(log[i])
  BY DEF Offsets
<1>5. ASSUME NEW i \in 0..(Len(log) - 1)
      PROVE  /\ log[i + 1] \in Envelopes
             /\ Needs(log[i + 1]) \in Nat /\ Needs(log[i + 1]) >= 1
             /\ off[i + 1] = off[i] + Needs(log[i + 1])
  <2>1. i + 1 \in 1..Len(log) /\ (i + 1) - 1 = i
    OBVIOUS
  <2>. QED
    BY <1>2, <1>3, <1>4, <2>1
<1>6. ASSUME NEW i \in 0..Len(log), NEW j \in 0..Len(log), i <= j PROVE off[i] <= off[j]
  <2>1. i = j \/ i < j
    BY <1>6
  <2>2. i < j => off[i] < off[j]
    BY DEF Offsets
  <2>. QED
    BY <1>1, <2>1, <2>2
<1>. QED
  BY <1>1, <1>2, <1>3, <1>4, <1>5, <1>6

\* The next frame of the log belongs to the envelope a reader is at.
LEMMA NextFrame ==
    ASSUME NEW log \in Seq(Envelopes), NEW off, Offsets(log, off),
           NEW m \in 0..Len(log), NEW k \in Nat,
           k = 0 \/ (m < Len(log) /\ k < Needs(log[m + 1])),
           NEW n \in 1..Len(log), NEW l \in 0..(Needs(log[n]) - 1),
           off[m] + k = off[n - 1] + l
    PROVE  n = m + 1 /\ l = k
<1>1. /\ off[m] \in Nat /\ off[n - 1] \in Nat /\ off[n] \in Nat
      /\ off[n] = off[n - 1] + Needs(log[n]) /\ Needs(log[n]) \in Nat
  <2>1. n - 1 \in 0..Len(log) /\ n \in 0..Len(log)
    OBVIOUS
  <2>. QED
    BY <2>1, OffsetsAre
<1>2. l \in Nat /\ l < Needs(log[n])
  BY <1>1
<1>3. ~(n <= m)
  <2> SUFFICES ASSUME n <= m PROVE FALSE
    OBVIOUS
  <2>1. off[n] <= off[m]
    BY OffsetsAre
  <2>. QED
    BY SMTT(40), <1>1, <1>2, <2>1
<1>4. ~(m + 1 < n)
  <2> SUFFICES ASSUME m + 1 < n PROVE FALSE
    OBVIOUS
  <2>1. m \in 0..(Len(log) - 1) /\ m + 1 \in 0..Len(log) /\ n - 1 \in 0..Len(log) /\ m + 1 <= n - 1
    OBVIOUS
  <2>2. /\ Needs(log[m + 1]) \in Nat /\ Needs(log[m + 1]) >= 1
        /\ off[m + 1] = off[m] + Needs(log[m + 1])
    BY <2>1, OffsetsAre
  <2>3. off[m + 1] <= off[n - 1]
    BY <2>1, OffsetsAre
  <2>4. k < Needs(log[m + 1])
    BY <2>1, <2>2
  <2>5. \A a, b, x \in Nat : a + k = b + l /\ a + x <= b /\ k < x => FALSE
    BY <1>2
  <2>6. off[m] + Needs(log[m + 1]) <= off[n - 1]
    BY <2>2, <2>3
  <2>. QED
    BY Zenon, <1>1, <2>2, <2>4, <2>5, <2>6
<1>5. n = m + 1
  BY <1>3, <1>4
<1>6. off[n - 1] = off[m]
  BY <1>5
<1>. QED
  BY <1>1, <1>2, <1>5, <1>6

\* A reader takes the next frame of the log, unless it comes too late.
LEMMA ReadNext ==
    ASSUME NEW log \in Seq(Envelopes), NEW off, Offsets(log, off),
           NEW nonce \in Nat, NEW state, NEW out, Reads(log, off, nonce, state, out),
           NEW frame, Genuine(log, off, frame), frame.nonce = nonce + 1,
           NEW age \in Nat, state = NoPartial \/ age <= Timeout
    PROVE  LET r == AcceptFragment(state, frame.plain, age)
           IN r.why = "ok" /\ Reads(log, off, nonce + 1, r.partial, out \o r.out)
<1> DEFINE r == AcceptFragment(state, frame.plain, age)
<1>1. PICK m \in 0..Len(log), k \in Nat : ReadsAt(log, off, nonce, state, out, m, k)
  BY DEF Reads
<1>2. PICK n \in 1..Len(log) : \E l \in 0..(Needs(log[n]) - 1) :
         frame.nonce = off[n - 1] + l + 1 /\ frame.plain = Fragments(log[n])[l + 1]
  BY DEF Genuine
<1>3. PICK l \in 0..(Needs(log[n]) - 1) :
         frame.nonce = off[n - 1] + l + 1 /\ frame.plain = Fragments(log[n])[l + 1]
  BY <1>2
<1>4. k = 0 \/ (m < Len(log) /\ k < Needs(log[m + 1]))
  <2>1. ASSUME m < Len(log), k \in 1..(Needs(log[m + 1]) - 1) PROVE k < Needs(log[m + 1])
    <3>1. m + 1 \in 1..Len(log)
      BY <2>1
    <3>2. log[m + 1] \in Envelopes
      BY <3>1
    <3>3. Needs(log[m + 1]) \in Nat
      BY <3>2, FragmentsAre
    <3>. QED
      BY <2>1, <3>3
  <2>. QED
    BY <1>1, <2>1 DEF ReadsAt
<1>5. n = m + 1 /\ l = k
  <2>1. off[m] \in Nat /\ off[n - 1] \in Nat /\ l \in Nat
    <3>1. n - 1 \in 0..Len(log)
      OBVIOUS
    <3>2. Needs(log[n]) \in Nat
      BY OffsetsAre
    <3>. QED
      BY <3>1, <3>2, OffsetsAre
  <2>2. off[m] + k = off[n - 1] + l
    <3>1. nonce = off[m] + k
      BY <1>1 DEF ReadsAt
    <3>2. nonce + 1 = off[n - 1] + l + 1
      BY <1>3
    <3>3. \A a, b \in Nat : nonce = a + k /\ nonce + 1 = b + l + 1 => a + k = b + l
      BY <2>1
    <3>. QED
      BY Zenon, <2>1, <3>1, <3>2, <3>3
  <2>. QED
    BY <1>4, <2>2, NextFrame
<1> DEFINE e == log[m + 1]
<1>6. m < Len(log) /\ e \in Envelopes /\ k \in 0..(Needs(e) - 1) /\ Needs(e) \in Nat
  <2>1. m + 1 \in 1..Len(log)
    BY <1>5
  <2>2. e \in Envelopes
    BY <2>1
  <2>. QED
    BY <1>5, <2>1, <2>2, FragmentsAre
<1>7. state = Half(e, k)
  BY <1>1 DEF ReadsAt, Half, PartialOf
<1>8. k = 0 \/ age <= Timeout
  <2>1. ASSUME k # 0 PROVE state # NoPartial
    <3>1. state.next = k
      BY <1>7, <2>1 DEF Half, PartialOf
    <3>. QED
      BY <2>1, <3>1 DEF NoPartial
  <2>. QED
    BY <2>1
<1>9. r = IF k + 1 = Needs(e) THEN Done(e) ELSE More(Half(e, k + 1))
  <2> HIDE DEF e
  <2>1. e \in Seq(Nat) /\ Len(e) <= MaxLen
    BY <1>6 DEF Envelopes
  <2>2. frame.plain = Fragments(e)[k + 1]
    BY <1>3, <1>5 DEF e
  <2>. QED
    BY <1>6, <1>7, <1>8, <2>1, <2>2, AcceptIs
<1>10. out = SubSeq(log, 1, m) /\ nonce = off[m] + k /\ off[m] \in Nat
  BY <1>1 DEF ReadsAt, Offsets
<1>11. CASE k + 1 = Needs(e)
  <2>1. r.why = "ok" /\ r.partial = NoPartial /\ r.out = <<e>>
    BY <1>9, <1>11 DEF Done
  <2>2. off[m + 1] = off[m] + Needs(e) /\ m + 1 \in 0..Len(log)
    <3>1. m \in 0..(Len(log) - 1)
      BY <1>6
    <3>. QED
      BY <3>1, OffsetsAre
  <2>3. nonce + 1 = off[m + 1] + 0
    <3> HIDE DEF e
    <3>1. nonce = off[m] + k /\ off[m] \in Nat /\ Needs(e) \in Nat
      BY <1>6, <1>10
    <3>2. off[m + 1] = off[m] + Needs(e)
      BY <2>2
    <3>. QED
      BY SMTT(40), <1>11, <3>1, <3>2
  <2>4. out \o r.out = SubSeq(log, 1, m + 1)
    <3>1. SubSeq(log, 1, m + 1) = SubSeq(log, 1, m) \o <<log[m + 1]>>
      BY <1>6
    <3>. QED
      BY <1>10, <2>1, <3>1
  <2>5. ReadsAt(log, off, nonce + 1, r.partial, out \o r.out, m + 1, 0)
    <3> HIDE DEF r
    <3>. QED
      BY <2>1, <2>3, <2>4 DEF ReadsAt
  <2>. QED
    <3>1. m + 1 \in 0..Len(log) /\ 0 \in Nat
      BY <2>2
    <3>2. Reads(log, off, nonce + 1, r.partial, out \o r.out)
      <4> HIDE DEF r
      <4>. QED
        BY <2>5, <3>1 DEF Reads
    <3>. QED
      BY <2>1, <3>2
<1>12. CASE k + 1 # Needs(e)
  <2>1. r.why = "ok" /\ r.partial = Half(e, k + 1) /\ r.out = <<>>
    BY <1>9, <1>12 DEF More
  <2>2. out \o r.out = out
    <3>1. out \in Seq(Envelopes)
      BY <1>10
    <3>. QED
      BY <2>1, <3>1, ConcatEmptySeq
  <2>3. k + 1 \in 1..(Needs(e) - 1) /\ nonce + 1 = off[m] + (k + 1)
    <3> HIDE DEF e
    <3>1. nonce = off[m] + k /\ off[m] \in Nat /\ Needs(e) \in Nat /\ k \in 0..(Needs(e) - 1)
      BY <1>6, <1>10
    <3>2. k + 1 \in 1..(Needs(e) - 1)
      BY <1>12, <3>1
    <3>3. \A a \in Nat : nonce = a + k => nonce + 1 = a + (k + 1)
      OBVIOUS
    <3>. QED
      BY Zenon, <3>1, <3>2, <3>3
  <2>4. ReadsAt(log, off, nonce + 1, r.partial, out \o r.out, m, k + 1)
    <3> HIDE DEF r
    <3>. QED
      BY <1>6, <1>10, <2>1, <2>2, <2>3 DEF ReadsAt
  <2>. QED
    <3>1. k + 1 \in Nat
      OBVIOUS
    <3>2. Reads(log, off, nonce + 1, r.partial, out \o r.out)
      <4> HIDE DEF r
      <4>. QED
        BY <2>4, <3>1 DEF Reads
    <3>. QED
      BY <2>1, <3>2
<1>. QED
  BY <1>11, <1>12

\* All that one direction holds: the frames at the socket and those still to be
\* put there are the log's; while the reader reads (R) it is at a place of the
\* log; while nothing is lost or swapped the frames at the socket are the next
\* ones (O), and so are those still to come (W).
CarriesAt(log, off, nonce, wire, left, rn, state, out, R, O, W) ==
    /\ Offsets(log, off) /\ nonce = off[Len(log)]
    /\ wire \in Seq(Frames) /\ left \in Seq(Frames) /\ rn \in Nat
    /\ \A j \in 1..Len(wire) : Genuine(log, off, wire[j])
    /\ \A j \in 1..Len(left) : Genuine(log, off, left[j])
    /\ \E m \in 0..Len(log) : out = SubSeq(log, 1, m)
    /\ R => Reads(log, off, rn, state, out)
    /\ O => \A j \in 1..Len(wire) : wire[j].nonce = rn + j
    /\ W => /\ nonce = rn + Len(wire) + Len(left)
            /\ \A j \in 1..Len(left) : left[j].nonce = rn + Len(wire) + j

Carries(log, nonce, wire, left, rn, state, out, R, O, W) ==
    \E off : CarriesAt(log, off, nonce, wire, left, rn, state, out, R, O, W)

\* At first there is nothing.
LEMMA CarriesNothing == Carries(<<>>, 0, <<>>, <<>>, 0, NoPartial, <<>>, TRUE, TRUE, TRUE)
<1> DEFINE off == [i \in 0..0 |-> 0]
<1>1. Offsets(<<>>, off)
  BY DEF Offsets
<1>2. SubSeq(<<>>, 1, 0) = <<>>
  OBVIOUS
<1>3. ReadsAt(<<>>, off, 0, NoPartial, <<>>, 0, 0)
  BY <1>2 DEF ReadsAt
<1>4. Reads(<<>>, off, 0, NoPartial, <<>>)
  BY <1>3 DEF Reads
<1>5. off[0] = 0
  OBVIOUS
<1> HIDE DEF off
<1>6. CarriesAt(<<>>, off, 0, <<>>, <<>>, 0, NoPartial, <<>>, TRUE, TRUE, TRUE)
  BY <1>1, <1>2, <1>4, <1>5 DEF CarriesAt
<1>. QED
  BY <1>6 DEF Carries

\* The numbers of the frames before an envelope more.
Extended(log, off, e) ==
    [i \in 0..(Len(log) + 1) |-> IF i = Len(log) + 1 THEN off[Len(log)] + Needs(e) ELSE off[i]]

\* An envelope more takes the numbers after those before.
LEMMA OffsetsAppend ==
    ASSUME NEW log \in Seq(Envelopes), NEW off, Offsets(log, off), NEW e \in Envelopes
    PROVE  /\ Append(log, e) \in Seq(Envelopes) /\ Len(Append(log, e)) = Len(log) + 1
           /\ \A i \in 1..Len(log) : Append(log, e)[i] = log[i]
           /\ Append(log, e)[Len(log) + 1] = e
           /\ \A i \in 0..Len(log) : Extended(log, off, e)[i] = off[i]
           /\ Extended(log, off, e)[Len(log) + 1] = off[Len(log)] + Needs(e)
           /\ Offsets(Append(log, e), Extended(log, off, e))
<1> DEFINE n == Len(log)
           more == Append(log, e)
           x == Extended(log, off, e)
<1>1. /\ more \in Seq(Envelopes) /\ Len(more) = n + 1
      /\ \A i \in 1..n : more[i] = log[i]
      /\ more[n + 1] = e
  BY AppendProperties
<1>2. n \in Nat /\ Needs(e) \in Nat /\ Needs(e) >= 1
  BY FragmentsAre
<1>3. \A i \in 0..n : off[i] \in Nat
  BY OffsetsAre
<1>4. /\ x \in [0..(n + 1) -> Nat]
      /\ \A i \in 0..n : x[i] = off[i]
      /\ x[n + 1] = off[n] + Needs(e)
  <2> HIDE DEF n
  <2>1. n \in 0..n /\ \A i \in 0..n : i # n + 1 /\ i \in 0..(n + 1)
    BY <1>2
  <2>2. off[n] + Needs(e) \in Nat
    BY <1>2, <1>3, <2>1
  <2>3. \A i \in 0..(n + 1) : i = n + 1 \/ i \in 0..n
    BY <1>2
  <2>. QED
    BY <1>2, <1>3, <2>1, <2>2, <2>3 DEF Extended, n
<1> HIDE DEF more, x
<1>5. x[0] = 0
  BY <1>2, <1>4 DEF Offsets
<1>6. \A i \in 1..(n + 1) : x[i] = x[i - 1] + Needs(more[i])
  <2> SUFFICES ASSUME NEW i \in 1..(n + 1) PROVE x[i] = x[i - 1] + Needs(more[i])
    OBVIOUS
  <2>1. CASE i = n + 1
    <3>1. i - 1 = n /\ n \in 0..n
      BY <1>2, <2>1
    <3>. QED
      BY <1>1, <1>4, <2>1, <3>1
  <2>2. CASE i # n + 1
    <3>1. i \in 1..n /\ i \in 0..n /\ i - 1 \in 0..n
      BY <1>2, <2>2
    <3>2. off[i] = off[i - 1] + Needs(log[i])
      BY <3>1, OffsetsAre
    <3>. QED
      BY <1>1, <1>4, <3>1, <3>2
  <2>. QED
    BY <2>1, <2>2
<1>7. ASSUME NEW i \in 0..(n + 1), NEW j \in 0..(n + 1), i < j PROVE x[i] < x[j]
  <2>1. CASE j = n + 1
    <3>1. i \in 0..n /\ n \in 0..n /\ i <= n
      BY <1>2, <1>7, <2>1
    <3>2. off[i] <= off[n] /\ off[i] \in Nat /\ off[n] \in Nat
      BY <1>2, <3>1, OffsetsAre
    <3>3. x[i] = off[i] /\ x[j] = off[n] + Needs(e)
      BY <1>4, <2>1, <3>1
    <3>4. \A a, b, c \in Nat : a <= b /\ c >= 1 => a < b + c
      OBVIOUS
    <3>. QED
      BY <1>2, <3>2, <3>3, <3>4
  <2>2. CASE j # n + 1
    <3>1. i \in 0..n /\ j \in 0..n
      BY <1>2, <1>7, <2>2
    <3>. QED
      BY <1>4, <1>7, <3>1 DEF Offsets
  <2>. QED
    BY <2>1, <2>2
<1>8. Offsets(more, x)
  BY <1>1, <1>4, <1>5, <1>6, <1>7 DEF Offsets
<1>. QED
  BY <1>1, <1>4, <1>8 DEF more, x

\* What was encrypted before is the longer log's too.
LEMMA GenuineAppend ==
    ASSUME NEW log \in Seq(Envelopes), NEW off, Offsets(log, off), NEW e \in Envelopes,
           NEW frame, Genuine(log, off, frame)
    PROVE  Genuine(Append(log, e), Extended(log, off, e), frame)
<1>1. PICK m \in 1..Len(log) : \E k \in 0..(Needs(log[m]) - 1) :
         frame.nonce = off[m - 1] + k + 1 /\ frame.plain = Fragments(log[m])[k + 1]
  BY DEF Genuine
<1>2. m \in 1..Len(Append(log, e)) /\ Append(log, e)[m] = log[m]
  BY OffsetsAppend
<1>3. Extended(log, off, e)[m - 1] = off[m - 1]
  <2>1. m - 1 \in 0..Len(log)
    OBVIOUS
  <2>. QED
    BY <2>1, OffsetsAppend
<1>. QED
  BY <1>1, <1>2, <1>3 DEF Genuine

\* A reader is at the same place of the longer log.
LEMMA ReadsAppend ==
    ASSUME NEW log \in Seq(Envelopes), NEW off, Offsets(log, off), NEW e \in Envelopes,
           NEW nonce, NEW state, NEW out, Reads(log, off, nonce, state, out)
    PROVE  Reads(Append(log, e), Extended(log, off, e), nonce, state, out)
<1>1. PICK m \in 0..Len(log), k \in Nat : ReadsAt(log, off, nonce, state, out, m, k)
  BY DEF Reads
<1>2. m \in 0..Len(Append(log, e)) /\ Extended(log, off, e)[m] = off[m]
  BY OffsetsAppend
<1>3. SubSeq(Append(log, e), 1, m) = SubSeq(log, 1, m)
  BY PrefixAppend
<1>4. m < Len(log) => m < Len(Append(log, e)) /\ Append(log, e)[m + 1] = log[m + 1]
  BY OffsetsAppend
<1>5. ReadsAt(Append(log, e), Extended(log, off, e), nonce, state, out, m, k)
  BY <1>1, <1>2, <1>3, <1>4 DEF ReadsAt
<1>. QED
  BY <1>2, <1>5 DEF Reads

\* The fragments of an envelope, encrypted.
LEMMA EncryptIs ==
    ASSUME NEW e \in Envelopes, NEW nonce \in Nat
    PROVE  LET s == Encrypt(nonce, Fragments(e))
           IN /\ s \in Seq(Frames) /\ Len(s) = Needs(e) /\ Needs(e) \in Nat
              /\ \A j \in 1..Needs(e) : s[j].nonce = nonce + j /\ s[j].plain = Fragments(e)[j]
<1>1. /\ Needs(e) \in Nat /\ Len(Fragments(e)) = Needs(e)
      /\ \A k \in 1..Needs(e) : Fragments(e)[k] \in Seq(Nat)
  BY FragmentsAre
<1>2. Encrypt(nonce, Fragments(e)) = [i \in 1..Needs(e) |-> [nonce |-> nonce + i, plain |-> Fragments(e)[i]]]
  BY <1>1 DEF Encrypt
<1>3. \A i \in 1..Needs(e) : [nonce |-> nonce + i, plain |-> Fragments(e)[i]] \in Frames
  BY <1>1 DEF Frames
<1> DEFINE g == [i \in 1..Needs(e) |-> [nonce |-> nonce + i, plain |-> Fragments(e)[i]]]
<1>4. g \in Seq(Frames) /\ Len(g) = Needs(e)
  BY <1>1, <1>3
<1>5. \A j \in 1..Needs(e) : g[j].nonce = nonce + j /\ g[j].plain = Fragments(e)[j]
  OBVIOUS
<1> HIDE DEF g
<1>6. Encrypt(nonce, Fragments(e)) = g
  BY <1>2 DEF g
<1>. QED
  BY <1>1, <1>4, <1>5, <1>6

\* An envelope is encrypted when the one before is at the socket.
LEMMA CarriesMore ==
    ASSUME NEW log \in Seq(Envelopes), NEW nonce, NEW wire, NEW rn, NEW state, NEW out,
           NEW R \in BOOLEAN, NEW O \in BOOLEAN, NEW W \in BOOLEAN,
           Carries(log, nonce, wire, <<>>, rn, state, out, R, O, W), NEW e \in Envelopes
    PROVE  LET s == Encrypt(nonce, Fragments(e))
           IN Carries(Append(log, e), nonce + Len(s), wire, s, rn, state, out, R, O, W)
<1> DEFINE s == Encrypt(nonce, Fragments(e))
           more == Append(log, e)
<1>1. PICK off : CarriesAt(log, off, nonce, wire, <<>>, rn, state, out, R, O, W)
  BY DEF Carries
<1> DEFINE x == Extended(log, off, e)
<1>2. /\ Offsets(log, off) /\ nonce = off[Len(log)] /\ wire \in Seq(Frames) /\ rn \in Nat
      /\ \A j \in 1..Len(wire) : Genuine(log, off, wire[j])
      /\ R => Reads(log, off, rn, state, out)
      /\ O => \A j \in 1..Len(wire) : wire[j].nonce = rn + j
      /\ W => nonce = rn + Len(wire) + Len(<<>>)
  BY <1>1 DEF CarriesAt
<1>3. nonce \in Nat
  BY <1>2, OffsetsAre
<1>4. /\ s \in Seq(Frames) /\ Len(s) = Needs(e) /\ Needs(e) \in Nat
      /\ \A j \in 1..Needs(e) : s[j].nonce = nonce + j /\ s[j].plain = Fragments(e)[j]
  BY <1>3, EncryptIs
<1> HIDE DEF s
<1>5. /\ more \in Seq(Envelopes) /\ Len(more) = Len(log) + 1 /\ more[Len(log) + 1] = e
      /\ x[Len(log)] = nonce /\ x[Len(log) + 1] = nonce + Len(s)
      /\ Offsets(more, x)
  BY <1>2, <1>4, OffsetsAppend
<1>6. \A j \in 1..Len(wire) : Genuine(more, x, wire[j])
  BY <1>2, GenuineAppend
<1>7. \A j \in 1..Len(s) : Genuine(more, x, s[j])
  <2> HIDE DEF more, x
  <2> SUFFICES ASSUME NEW j \in 1..Len(s) PROVE Genuine(more, x, s[j])
    OBVIOUS
  <2>1. j - 1 \in 0..(Needs(e) - 1) /\ j \in 1..Needs(e) /\ (j - 1) + 1 = j
    BY <1>4
  <2>2. Len(log) + 1 \in 1..Len(more) /\ (Len(log) + 1) - 1 = Len(log)
    BY <1>5
  <2>3. nonce + j = nonce + (j - 1) + 1
    BY <1>3
  <2> DEFINE m == Len(log) + 1
             k == j - 1
  <2>4. s[j].nonce = x[m - 1] + k + 1 /\ s[j].plain = Fragments(more[m])[k + 1]
    <3>1. s[j].nonce = nonce + j /\ s[j].plain = Fragments(e)[j]
      BY <1>4, <2>1
    <3>. QED
      BY <1>5, <2>1, <2>2, <2>3, <3>1
  <2>5. m \in 1..Len(more) /\ k \in 0..(Needs(more[m]) - 1)
    BY <1>5, <2>1, <2>2
  <2> HIDE DEF m, k
  <2>. QED
    BY <2>4, <2>5 DEF Genuine
<1>8. \E m \in 0..Len(more) : out = SubSeq(more, 1, m)
  <2>1. PICK m \in 0..Len(log) : out = SubSeq(log, 1, m)
    BY <1>1 DEF CarriesAt
  <2>2. SubSeq(more, 1, m) = SubSeq(log, 1, m)
    BY PrefixAppend
  <2>. QED
    BY <1>5, <2>1, <2>2
<1>9. R => Reads(more, x, rn, state, out)
  BY <1>2, ReadsAppend
<1> HIDE DEF more, x
<1>10. W => /\ nonce + Len(s) = rn + Len(wire) + Len(s)
            /\ \A j \in 1..Len(s) : s[j].nonce = rn + Len(wire) + j
  <2> SUFFICES ASSUME W
               PROVE  /\ nonce + Len(s) = rn + Len(wire) + Len(s)
                      /\ \A j \in 1..Len(s) : s[j].nonce = rn + Len(wire) + j
    OBVIOUS
  <2>1. nonce = rn + Len(wire)
    BY <1>2
  <2>. QED
    BY <1>4, <2>1
<1>11. CarriesAt(more, x, nonce + Len(s), wire, s, rn, state, out, R, O, W)
  <2>1. Len(more) = Len(log) + 1 /\ nonce + Len(s) = x[Len(more)]
    BY <1>5
  <2>. QED
    BY <1>2, <1>4, <1>5, <1>6, <1>7, <1>8, <1>9, <1>10, <2>1 DEF CarriesAt
<1>. QED
  BY <1>11 DEF Carries, more, s

\* The next frame is put at the socket.
LEMMA CarriesPut ==
    ASSUME NEW log, NEW nonce, NEW wire, NEW left, NEW rn, NEW state, NEW out,
           NEW R \in BOOLEAN, NEW O \in BOOLEAN, NEW W \in BOOLEAN, O => W,
           Carries(log, nonce, wire, left, rn, state, out, R, O, W), left # <<>>
    PROVE  Carries(log, nonce, Append(wire, Head(left)), Tail(left), rn, state, out, R, O, W)
<1>1. PICK off : CarriesAt(log, off, nonce, wire, left, rn, state, out, R, O, W)
  BY DEF Carries
<1> DEFINE w == Append(wire, Head(left))
           t == Tail(left)
<1>2. wire \in Seq(Frames) /\ left \in Seq(Frames) /\ rn \in Nat
  BY <1>1 DEF CarriesAt
<1>3. /\ Len(left) \in Nat /\ Len(left) >= 1 /\ Head(left) = left[1] /\ Head(left) \in Frames
      /\ t \in Seq(Frames) /\ Len(t) = Len(left) - 1
      /\ \A j \in 1..(Len(left) - 1) : t[j] = left[j + 1]
  BY <1>2
<1>4. /\ w \in Seq(Frames) /\ Len(w) = Len(wire) + 1 /\ Len(wire) \in Nat
      /\ \A j \in 1..Len(wire) : w[j] = wire[j]
      /\ w[Len(wire) + 1] = left[1]
  BY <1>2, <1>3, AppendProperties
<1> HIDE DEF w, t
<1>5. ASSUME NEW j \in 1..Len(w) PROVE Genuine(log, off, w[j])
  <2>1. CASE j = Len(wire) + 1
    <3>1. 1 \in 1..Len(left)
      BY <1>3
    <3>. QED
      BY <1>1, <1>4, <2>1, <3>1 DEF CarriesAt
  <2>2. CASE j # Len(wire) + 1
    <3>1. j \in 1..Len(wire)
      BY <1>4, <2>2
    <3>. QED
      BY <1>1, <1>4, <3>1 DEF CarriesAt
  <2>. QED
    BY <2>1, <2>2
<1>6. ASSUME NEW j \in 1..Len(t) PROVE Genuine(log, off, t[j])
  <2>1. j + 1 \in 1..Len(left) /\ t[j] = left[j + 1]
    BY <1>3
  <2>. QED
    BY <1>1, <2>1 DEF CarriesAt
<1>7. ASSUME W PROVE /\ nonce = rn + Len(w) + Len(t)
                     /\ \A j \in 1..Len(t) : t[j].nonce = rn + Len(w) + j
  <2>1. /\ nonce = rn + Len(wire) + Len(left)
        /\ \A j \in 1..Len(left) : left[j].nonce = rn + Len(wire) + j
    BY <1>1, <1>7 DEF CarriesAt
  <2>2. ASSUME NEW j \in 1..Len(t) PROVE t[j].nonce = rn + Len(w) + j
    <3>1. j + 1 \in 1..Len(left) /\ t[j] = left[j + 1]
      BY <1>3
    <3>2. left[j + 1].nonce = rn + Len(wire) + (j + 1)
      BY <2>1, <3>1
    <3>3. rn + Len(wire) + (j + 1) = rn + Len(w) + j
      BY <1>2, <1>4
    <3>. QED
      BY <3>1, <3>2, <3>3
  <2>. QED
    BY <1>2, <1>3, <1>4, <2>1, <2>2
<1>8. ASSUME O PROVE \A j \in 1..Len(w) : w[j].nonce = rn + j
  <2> SUFFICES ASSUME NEW j \in 1..Len(w) PROVE w[j].nonce = rn + j
    OBVIOUS
  <2>1. CASE j = Len(wire) + 1
    <3>1. 1 \in 1..Len(left)
      BY <1>3
    <3>2. left[1].nonce = rn + Len(wire) + 1
      BY <1>1, <1>8, <3>1 DEF CarriesAt
    <3>. QED
      BY <1>2, <1>4, <2>1, <3>2
  <2>2. CASE j # Len(wire) + 1
    <3>1. j \in 1..Len(wire)
      BY <1>4, <2>2
    <3>. QED
      BY <1>1, <1>4, <1>8, <3>1 DEF CarriesAt
  <2>. QED
    BY <2>1, <2>2
<1>9. CarriesAt(log, off, nonce, w, t, rn, state, out, R, O, W)
  BY <1>1, <1>3, <1>4, <1>5, <1>6, <1>7, <1>8 DEF CarriesAt
<1>. QED
  BY <1>9 DEF Carries, w, t


\* The next frame is accepted, and the reader is one further.
CarriesOn(log, nonce, wire, left, rn, state, out, O, W, age) ==
    LET r == AcceptFragment(state, Head(wire).plain, age)
    IN /\ r.why = "ok"
       /\ Carries(log, nonce, Tail(wire), left, rn + 1, r.partial, out \o r.out, TRUE, O, W)

\* The reader takes the next frame, unless it comes too late.
LEMMA CarriesRead ==
    ASSUME NEW log \in Seq(Envelopes), NEW nonce, NEW wire, NEW left, NEW rn, NEW state, NEW out,
           NEW O, NEW W,
           Carries(log, nonce, wire, left, rn, state, out, TRUE, O, W), wire # <<>>,
           Head(wire).nonce = rn + 1,
           NEW age \in Nat, state = NoPartial \/ age <= Timeout
    PROVE  CarriesOn(log, nonce, wire, left, rn, state, out, O, W, age)
<1> DEFINE r == AcceptFragment(state, Head(wire).plain, age)
           t == Tail(wire)
<1>1. PICK off : CarriesAt(log, off, nonce, wire, left, rn, state, out, TRUE, O, W)
  BY DEF Carries
<1>2. wire \in Seq(Frames) /\ left \in Seq(Frames) /\ rn \in Nat /\ Offsets(log, off)
      /\ Reads(log, off, rn, state, out)
  BY <1>1 DEF CarriesAt
<1>3. /\ Len(wire) \in Nat /\ Len(wire) >= 1 /\ Head(wire) = wire[1]
      /\ t \in Seq(Frames) /\ Len(t) = Len(wire) - 1 /\ rn + 1 \in Nat
      /\ \A j \in 1..(Len(wire) - 1) : t[j] = wire[j + 1]
  BY <1>2
<1>4. Genuine(log, off, Head(wire))
  <2>1. 1 \in 1..Len(wire)
    BY <1>3
  <2>. QED
    BY <1>1, <1>3, <2>1 DEF CarriesAt
<1>5. r.why = "ok" /\ Reads(log, off, rn + 1, r.partial, out \o r.out)
  BY <1>2, <1>4, ReadNext
<1> HIDE DEF r, t
<1>6. ASSUME NEW j \in 1..Len(t) PROVE Genuine(log, off, t[j])
  <2>1. j + 1 \in 1..Len(wire) /\ t[j] = wire[j + 1]
    BY <1>3
  <2>. QED
    BY <1>1, <2>1 DEF CarriesAt
<1>7. \E m \in 0..Len(log) : out \o r.out = SubSeq(log, 1, m)
  BY <1>5 DEF Reads, ReadsAt
<1>8. ASSUME O, NEW j \in 1..Len(t) PROVE t[j].nonce = (rn + 1) + j
  <2>1. j + 1 \in 1..Len(wire) /\ t[j] = wire[j + 1]
    BY <1>3
  <2>2. wire[j + 1].nonce = rn + (j + 1)
    BY <1>1, <1>8, <2>1 DEF CarriesAt
  <2>. QED
    BY <1>2, <2>1, <2>2
<1>9. ASSUME W PROVE /\ nonce = (rn + 1) + Len(t) + Len(left)
                     /\ \A j \in 1..Len(left) : left[j].nonce = (rn + 1) + Len(t) + j
  <2>1. /\ nonce = rn + Len(wire) + Len(left)
        /\ \A j \in 1..Len(left) : left[j].nonce = rn + Len(wire) + j
    BY <1>1, <1>9 DEF CarriesAt
  <2>2. (rn + 1) + Len(t) = rn + Len(wire)
    BY <1>2, <1>3
  <2>. QED
    BY <2>1, <2>2
<1>10. CarriesAt(log, off, nonce, t, left, rn + 1, r.partial, out \o r.out, TRUE, O, W)
  BY <1>1, <1>2, <1>3, <1>5, <1>6, <1>7, <1>8, <1>9 DEF CarriesAt
<1>. QED
  BY <1>5, <1>10 DEF Carries, CarriesOn, r, t

\* Less is said of the same.
LEMMA CarriesWeak ==
    ASSUME NEW log, NEW nonce, NEW wire, NEW left, NEW rn, NEW state, NEW out,
           NEW R, NEW O, NEW W,
           Carries(log, nonce, wire, left, rn, state, out, R, O, W),
           NEW R2, NEW O2, NEW W2,
           R2 => R, O2 => O, W2 => W
    PROVE  Carries(log, nonce, wire, left, rn, state, out, R2, O2, W2)
<1>1. PICK off : CarriesAt(log, off, nonce, wire, left, rn, state, out, R, O, W)
  BY DEF Carries
<1>2. CarriesAt(log, off, nonce, wire, left, rn, state, out, R2, O2, W2)
  BY <1>1 DEF CarriesAt
<1>. QED
  BY <1>2 DEF Carries

\* Frames are lost, repeated or swapped at the socket, or the reader stops.
LEMMA CarriesLess ==
    ASSUME NEW log, NEW nonce, NEW wire, NEW left, NEW rn, NEW state, NEW out,
           NEW R, NEW O, NEW W,
           Carries(log, nonce, wire, left, rn, state, out, R, O, W),
           NEW wire2 \in Seq(Frames), NEW rn2 \in Nat, NEW state2, NEW R2,
           \A i \in 1..Len(wire2) : \E j \in 1..Len(wire) : wire2[i] = wire[j],
           R2 => R /\ rn2 = rn /\ state2 = state
    PROVE  Carries(log, nonce, wire2, left, rn2, state2, out, R2, FALSE, FALSE)
<1>1. PICK off : CarriesAt(log, off, nonce, wire, left, rn, state, out, R, O, W)
  BY DEF Carries
<1>2. CarriesAt(log, off, nonce, wire2, left, rn2, state2, out, R2, FALSE, FALSE)
  <2>1. ASSUME NEW i \in 1..Len(wire2) PROVE Genuine(log, off, wire2[i])
    <3>1. PICK j \in 1..Len(wire) : wire2[i] = wire[j]
      OBVIOUS
    <3>. QED
      BY <1>1, <3>1 DEF CarriesAt
  <2>2. R2 => Reads(log, off, rn2, state2, out)
    BY <1>1 DEF CarriesAt
  <2>. QED
    BY <1>1, <2>1, <2>2 DEF CarriesAt
<1>. QED
  BY <1>2 DEF Carries

-----------------------------------------------------------------------------
(* The queue of the bridge thread.                                         *)

\* What is left of a queue: everything but what was at the places.
LEMMA WithoutIs ==
    ASSUME NEW M, NEW queue \in Seq(M), NEW places
    PROVE  /\ Without(queue, places) \in Seq(M)
           /\ \A i \in 1..Len(queue) : i \notin places =>
                 \E j \in 1..Len(Without(queue, places)) : Without(queue, places)[j] = queue[i]
<1> DEFINE n == Len(queue)
           step == [p \in Seq(M) \X (1..n) |->
                       IF p[2] \in places THEN p[1] ELSE Append(p[1], queue[p[2]])]
           By(f) == f = [i \in 0..n |->
                            IF i = 0 THEN <<>>
                            ELSE IF i \in places THEN f[i - 1] ELSE Append(f[i - 1], queue[i])]
<1>1. step \in [Seq(M) \X (1..n) -> Seq(M)]
  BY AppendProperties
<1>2. <<>> \in Seq(M)
  OBVIOUS
<1>3. n \in Nat
  OBVIOUS
<1>4. PICK f \in [0..n -> Seq(M)] : f[0] = <<>> /\ \A i \in 1..n : f[i] = step[<<f[i - 1], i>>]
  <2> HIDE DEF step, n
  <2>1. \E f : Steps(Seq(M), <<>>, n, step, f)
    BY Zenon, <1>1, <1>2, <1>3, Recursion
  <2>. QED
    BY <2>1 DEF Steps
<1>5. \A i \in 1..n : step[<<f[i - 1], i>>] = IF i \in places THEN f[i - 1] ELSE Append(f[i - 1], queue[i])
  <2> SUFFICES ASSUME NEW i \in 1..n
               PROVE step[<<f[i - 1], i>>] = IF i \in places THEN f[i - 1] ELSE Append(f[i - 1], queue[i])
    OBVIOUS
  <2>1. f[i - 1] \in Seq(M) /\ i \in 1..n
    BY <1>3
  <2>. QED
    BY <2>1
<1>6. By(f)
  <2> HIDE DEF step, n
  <2>1. \A i \in 0..n : i # 0 => i \in 1..n
    BY <1>3
  <2>. QED
    BY <1>4, <1>5, <2>1
<1> DEFINE c == CHOOSE g : By(g)
<1>7. By(c)
  BY <1>6
<1>8. Without(queue, places) = c[n]
  BY DEF Without
<1> HIDE DEF c
<1>9. c[0] = <<>> /\ \A i \in 1..n : c[i] = IF i \in places THEN c[i - 1] ELSE Append(c[i - 1], queue[i])
  <2>1. 0 \in 0..n /\ \A i \in 1..n : i \in 0..n /\ i # 0
    BY <1>3
  <2>. QED
    BY <1>7, <2>1
<1> DEFINE S == {k \in Nat : k <= n => /\ c[k] \in Seq(M)
                                       /\ \A i \in 1..k : i \notin places =>
                                             \E j \in 1..Len(c[k]) : c[k][j] = queue[i]}
<1>10. 0 \in S
  <2>1. c[0] \in Seq(M) /\ \A i \in 1..0 : FALSE
    BY <1>2, <1>9
  <2>. QED
    BY <2>1
<1>11. ASSUME NEW k \in Nat, k \in S PROVE k + 1 \in S
  <2> SUFFICES ASSUME k + 1 <= n
               PROVE  /\ c[k + 1] \in Seq(M)
                      /\ \A i \in 1..(k + 1) : i \notin places =>
                            \E j \in 1..Len(c[k + 1]) : c[k + 1][j] = queue[i]
    OBVIOUS
  <2>1. /\ c[k] \in Seq(M)
        /\ \A i \in 1..k : i \notin places => \E j \in 1..Len(c[k]) : c[k][j] = queue[i]
    BY <1>3, <1>11
  <2>2. k + 1 \in 1..n /\ (k + 1) - 1 = k /\ queue[k + 1] \in M
    BY <1>3
  <2>3. c[k + 1] = IF k + 1 \in places THEN c[k] ELSE Append(c[k], queue[k + 1])
    BY <1>9, <2>2
  <2>4. CASE k + 1 \in places
    <3>1. \A i \in 1..(k + 1) : i \notin places => i \in 1..k
      BY <2>4
    <3>. QED
      BY <2>1, <2>3, <2>4, <3>1
  <2>5. CASE k + 1 \notin places
    <3>1. /\ c[k + 1] \in Seq(M) /\ Len(c[k + 1]) = Len(c[k]) + 1
          /\ \A j \in 1..Len(c[k]) : c[k + 1][j] = c[k][j]
          /\ c[k + 1][Len(c[k]) + 1] = queue[k + 1]
      BY <2>1, <2>2, <2>3, <2>5, AppendProperties
    <3>2. ASSUME NEW i \in 1..(k + 1), i \notin places
          PROVE \E j \in 1..Len(c[k + 1]) : c[k + 1][j] = queue[i]
      <4>1. CASE i = k + 1
        <5>1. Len(c[k]) + 1 \in 1..Len(c[k + 1])
          BY <2>1, <3>1
        <5>. QED
          BY <3>1, <4>1, <5>1
      <4>2. CASE i # k + 1
        <5>1. i \in 1..k
          BY <4>2
        <5>2. PICK j \in 1..Len(c[k]) : c[k][j] = queue[i]
          BY <2>1, <3>2, <5>1
        <5>3. j \in 1..Len(c[k + 1])
          BY <2>1, <3>1
        <5>. QED
          BY <3>1, <5>2, <5>3
      <4>. QED
        BY <4>1, <4>2
    <3>. QED
      BY <3>1, <3>2
  <2>. QED
    BY <2>4, <2>5
<1>12. n \in S
  <2>1. Nat \subseteq S
    <3> HIDE DEF S
    <3>. QED
      BY Zenon, <1>10, <1>11, SetInduction
  <2>. QED
    BY <1>3, <2>1
<1>13. /\ c[n] \in Seq(M)
       /\ \A i \in 1..n : i \notin places => \E j \in 1..Len(c[n]) : c[n][j] = queue[i]
  BY <1>3, <1>12
<1> HIDE DEF S
<1>. QED
  BY Zenon, <1>8, <1>13

\* drain_outgoing leaves out a frame only for a later one of its pane.
LEMMA DrainIs ==
    ASSUME NEW M, NEW queue \in Seq(M)
    PROVE  /\ DrainOutgoing(queue) \in Seq(M)
           /\ \A i \in 1..Len(queue) :
                 \/ \E j \in 1..Len(DrainOutgoing(queue)) : DrainOutgoing(queue)[j] = queue[i]
                 \/ /\ Kind(queue[i]) \in Panes
                    /\ \E j \in (i + 1)..Len(queue) : Kind(queue[j]) = Kind(queue[i])
<1> DEFINE places == {i \in 1..Len(queue) : Coalesced(queue, i)}
<1>1. DrainOutgoing(queue) = Without(queue, places)
  BY DEF DrainOutgoing
<1>2. \A i \in 1..Len(queue) : i \notin places \/ Coalesced(queue, i)
  OBVIOUS
<1> HIDE DEF places
<1>3. /\ Without(queue, places) \in Seq(M)
      /\ \A i \in 1..Len(queue) : i \notin places =>
            \E j \in 1..Len(Without(queue, places)) : Without(queue, places)[j] = queue[i]
  BY WithoutIs
<1>. QED
  BY <1>1, <1>2, <1>3 DEF Coalesced

-----------------------------------------------------------------------------
(* Types.                                                                  *)

\* Messages have a kind; the bridge thread's are not the fatal error.
Messages == {m \in Seq(Nat) : Len(m) >= 1}
Queued   == {m \in Messages : Kind(m) # Fatal}

Typed ==
    /\ pc \in {"select", "send", "closed"} /\ after \in {"select", "fatal", "close"}
    /\ made \in Seq(Queued) /\ outq \in Seq(Queued) /\ batch \in Seq(Messages)
    /\ seq \in Nat /\ sent \in Seq(Envelopes) /\ sendNonce \in Nat
    /\ pending \in Seq(Frames) /\ down \in Seq(Frames) /\ Len(down) <= WireCap
    /\ said \in Seq(Envelopes) /\ devNonce \in Nat
    /\ devPending \in Seq(Frames) /\ up \in Seq(Frames) /\ Len(up) <= WireCap + faults
    /\ partial \in Partials /\ got \in Seq(Envelopes) /\ recvNonce \in Nat
    /\ quiet \in 0..(Timeout + 1) /\ devQuiet \in 0..(Timeout + 1)
    /\ tardy \in BOOLEAN /\ faults \in 0..MaxFaults
    /\ peer \in {"faithful", "relay", "any"}

\* At first.
LEMMA TypedInit == Init => Typed
<1> SUFFICES ASSUME Init PROVE Typed
  OBVIOUS
<1>1. NoPartial \in Partials
  BY CodecRanges DEF Partials, NoPartial
<1>2. <<>> \in Seq(Queued) /\ <<>> \in Seq(Messages) /\ <<>> \in Seq(Envelopes) /\ <<>> \in Seq(Frames)
      /\ Len(<<>>) = 0
  OBVIOUS
<1>3. 0 \in 0..(Timeout + 1) /\ 0 \in 0..MaxFaults /\ 0 <= WireCap /\ 0 <= WireCap + 0
  BY CodecRanges, WireConstants
<1>4. peer \in {"faithful", "relay", "any"}
  BY WireConstants DEF Init
<1>. QED
  BY <1>1, <1>2, <1>3, <1>4 DEF Init, Typed

\* What the loop may do next with what it sends: nothing, or stop; drain the
\* queue; answer a ping; or one of the steps of sending.
Drained(next) ==
    /\ pc = "select" /\ SendBatch(DrainOutgoing(outq), next) /\ outq' = <<>>
    /\ UNCHANGED <<pending, seq, sendNonce, made, sent>>

Idle ==
    /\ pc' \in {pc, "closed"}
    /\ UNCHANGED <<after, outq, batch, pending, seq, sendNonce, made, sent>>

AnswersPing ==
    /\ pc = "select" /\ SendBatch(<< <<Pong, 0>> >>, "select")
    /\ UNCHANGED <<outq, pending, seq, sendNonce, made, sent>>

\* What an envelope that is read makes the loop do.
LEMMA ReceiveSteps ==
    ASSUME Receive
    PROVE  Idle \/ AnswersPing \/ Drained("close")
<1> DEFINE r == DecodeFragment(partial, recvNonce, Head(up), quiet)
           kind == IF Parses(r.out[1]) THEN Kind(Body(r.out[1])) ELSE Malformed
<1>1. /\ pc = "select" /\ UNCHANGED <<pending, seq, sendNonce, made, sent>>
      /\ \/ pc' = "closed" /\ UNCHANGED <<after, batch, outq>>
         \/ UNCHANGED <<pc, after, batch, outq>>
         \/ SendBatch(<< <<Pong, 0>> >>, "select") /\ UNCHANGED outq
         \/ SendBatch(DrainOutgoing(outq), "close") /\ outq' = <<>>
  <2>1. pc = "select" /\ UNCHANGED <<pending, seq, sendNonce, made, sent>>
    BY DEF Receive
  <2>2. IF r.why # "ok" THEN pc' = "closed" /\ UNCHANGED <<after, batch, outq>>
        ELSE IF r.out = <<>> THEN UNCHANGED <<pc, after, batch, outq>>
        ELSE \/ kind = Ping /\ SendBatch(<< <<Pong, 0>> >>, "select") /\ UNCHANGED outq
             \/ kind = Disconnect /\ SendBatch(DrainOutgoing(outq), "close") /\ outq' = <<>>
             \/ kind = Malformed /\ pc' = "closed" /\ UNCHANGED <<after, batch, outq>>
             \/ kind \notin {Ping, Disconnect, Malformed} /\ UNCHANGED <<pc, after, batch, outq>>
    BY Zenon DEF Receive
  <2> HIDE DEF r, kind
  <2>. QED
    BY Zenon, <2>1, <2>2
<1>. QED
  BY <1>1 DEF Idle, AnswersPing, Drained

\* There is nothing else that the loop does.
LEMMA LoopSteps ==
    ASSUME [Next]_vars
    PROVE  \/ Idle \/ AnswersPing
           \/ \E next \in {"select", "fatal", "close"} : Drained(next)
           \/ Produce \/ Encode \/ SendFragment \/ BatchSent
<1>1. CASE Receive
  BY <1>1, ReceiveSteps
<1>2. CASE Outgoing
  BY <1>2 DEF Outgoing, Drained
<1>3. CASE Revoked
  BY <1>3 DEF Revoked, Drained
<1>4. CASE Stop
  BY <1>4 DEF Stop, Drained
<1>5. CASE DeviceEncode \/ DevicePut \/ Stray \/ Mangle \/ DeviceReceive
  BY <1>5 DEF DeviceEncode, DevicePut, Stray, Mangle, DeviceReceive, Idle, loop
<1>6. CASE Lost
  BY <1>6 DEF Lost, Idle
<1>7. CASE Tick
  BY <1>7 DEF Tick, Idle, loop
<1>8. CASE UNCHANGED vars
  BY <1>8 DEF vars, loop, Idle
<1>. QED
  BY <1>1, <1>2, <1>3, <1>4, <1>5, <1>6, <1>7, <1>8 DEF Next

\* An envelope is its number and its body.
LEMMA EnvelopeIs ==
    ASSUME NEW n \in Nat, NEW b \in Seq(Nat)
    PROVE  /\ Envelope(n, b) \in Seq(Nat) /\ Len(Envelope(n, b)) = Len(b) + 1
           /\ Envelope(n, b)[1] = n /\ Body(Envelope(n, b)) = b
<1> DEFINE e == <<n>> \o b
           t == Tail(e)
<1>1. e \in Seq(Nat) /\ Len(e) = Len(b) + 1 /\ e[1] = n /\ \A j \in 1..Len(b) : e[j + 1] = b[j]
  OBVIOUS
<1> HIDE DEF e
<1>2. t \in Seq(Nat) /\ Len(t) = Len(b) /\ \A j \in 1..Len(b) : t[j] = e[j + 1]
  BY <1>1
<1> HIDE DEF t
<1>3. t = b
  BY <1>1, <1>2, SeqEqual
<1>. QED
  BY <1>1, <1>3 DEF Envelope, Body, e, t

\* Each message that the bridge thread queues has a kind that is not the fatal error's.
LEMMA ProduceTyped ==
    ASSUME Typed, Produce
    PROVE  \E m \in Queued : made' = Append(made, m) /\ outq' = Append(outq, m)
<1>1. PICK kind \in OutKinds, fill \in Fillers :
         /\ made' = Append(made, <<kind, Len(made) + 1>> \o fill)
         /\ outq' = Append(outq, <<kind, Len(made) + 1>> \o fill)
  BY DEF Produce
<1> DEFINE m == <<kind, Len(made) + 1>> \o fill
<1>2. kind \in {PaneA, PaneB, Answer, Status} /\ fill \in Seq(Nat) /\ Len(made) + 1 \in Nat
  BY WireConstants DEF Typed
<1>3. kind \in Nat /\ kind # Fatal
  BY <1>2 DEF PaneA, PaneB, Answer, Status, Fatal
<1>4. m \in Seq(Nat) /\ Len(m) >= 1 /\ m[1] = kind
  BY <1>2, <1>3
<1>5. m \in Queued
  BY <1>3, <1>4 DEF Queued, Messages, Kind
<1>. QED
  BY <1>1, <1>5

\* What is taken from the batch is an envelope, unless it is too large.
LEMMA EncodeTyped ==
    ASSUME Typed, Encode
    PROVE  LET e == Envelope(seq + 1, Head(batch))
               s == Encrypt(sendNonce, Fragments(e))
           IN /\ batch # <<>> /\ Head(batch) \in Messages /\ Tail(batch) \in Seq(Messages)
              /\ e \in Seq(Nat) /\ e[1] = seq + 1 /\ Body(e) = Head(batch)
              /\ \/ TooLarge(e) /\ Abandon /\ UNCHANGED <<pending, sendNonce, sent>>
                 \/ /\ e \in Envelopes
                    /\ batch' = Tail(batch) /\ pc' = pc /\ pending' = s
                    /\ sendNonce' = sendNonce + Len(s) /\ sent' = Append(sent, e)
<1> DEFINE e == Envelope(seq + 1, Head(batch))
           s == Encrypt(sendNonce, Fragments(e))
<1>1. batch # <<>> /\ Head(batch) \in Messages /\ Tail(batch) \in Seq(Messages)
  BY DEF Encode, Typed
<1>2. Head(batch) \in Seq(Nat) /\ seq + 1 \in Nat
  BY <1>1 DEF Messages, Typed
<1>3. e \in Seq(Nat) /\ e[1] = seq + 1 /\ Body(e) = Head(batch) /\ Len(e) \in Nat
  <2>1. e \in Seq(Nat) /\ e[1] = seq + 1 /\ Body(e) = Head(batch)
    BY Zenon, <1>2, EnvelopeIs
  <2> HIDE DEF e
  <2>2. Len(e) \in Nat
    BY <2>1
  <2>. QED
    BY <2>1, <2>2
<1> HIDE DEF e
<1>4. IF TooLarge(e)
      THEN Abandon /\ UNCHANGED <<pending, sendNonce, sent>>
      ELSE /\ batch' = Tail(batch) /\ pc' = pc
           /\ pending' = s /\ sendNonce' = sendNonce + Len(s)
           /\ sent' = Append(sent, e)
  BY DEF Encode, e, Fragments
<1>5. ~TooLarge(e) => e \in Envelopes
  BY <1>3, CodecRanges DEF TooLarge, Envelopes
<1>. QED
  BY <1>1, <1>3, <1>4, <1>5 DEF e

\* The variables of the loop keep their types.
LEMMA LoopTyped ==
    ASSUME Typed, [Next]_vars
    PROVE  /\ pc' \in {"select", "send", "closed"} /\ after' \in {"select", "fatal", "close"}
           /\ made' \in Seq(Queued) /\ outq' \in Seq(Queued) /\ batch' \in Seq(Messages)
           /\ seq' \in Nat /\ sent' \in Seq(Envelopes) /\ sendNonce' \in Nat
           /\ pending' \in Seq(Frames)
<1> USE DEF Typed
<1>1. CASE Idle
  BY <1>1 DEF Idle
<1>2. CASE AnswersPing
  <2>1. << <<Pong, 0>> >> \in Seq(Messages)
    BY DEF Messages, Pong
  <2>. QED
    BY <1>2, <2>1 DEF AnswersPing, SendBatch
<1>3. ASSUME NEW next \in {"select", "fatal", "close"}, Drained(next)
      PROVE  /\ pc' \in {"select", "send", "closed"} /\ after' \in {"select", "fatal", "close"}
             /\ made' \in Seq(Queued) /\ outq' \in Seq(Queued) /\ batch' \in Seq(Messages)
             /\ seq' \in Nat /\ sent' \in Seq(Envelopes) /\ sendNonce' \in Nat
             /\ pending' \in Seq(Frames)
  <2>1. DrainOutgoing(outq) \in Seq(Queued)
    BY DrainIs
  <2>2. DrainOutgoing(outq) \in Seq(Messages)
    BY <2>1 DEF Queued
  <2>3. outq' \in Seq(Queued)
    BY <1>3 DEF Drained
  <2>. QED
    BY <1>3, <2>2, <2>3 DEF Drained, SendBatch
<1>4. CASE Produce
  <2>1. PICK m \in Queued : made' = Append(made, m) /\ outq' = Append(outq, m)
    BY <1>4, ProduceTyped
  <2>2. made' \in Seq(Queued) /\ outq' \in Seq(Queued)
    BY <2>1, AppendProperties
  <2>. QED
    BY <1>4, <2>2 DEF Produce
<1>5. CASE Encode
  <2> DEFINE e == Envelope(seq + 1, Head(batch))
             s == Encrypt(sendNonce, Fragments(e))
  <2>1. /\ Tail(batch) \in Seq(Messages)
        /\ \/ Abandon /\ UNCHANGED <<pending, sendNonce, sent>>
           \/ /\ e \in Envelopes
              /\ batch' = Tail(batch) /\ pc' = pc /\ pending' = s
              /\ sendNonce' = sendNonce + Len(s) /\ sent' = Append(sent, e)
    BY <1>5, EncodeTyped
  <2>2. seq' \in Nat /\ UNCHANGED <<after, outq, made>> /\ pc = "send"
    BY <1>5 DEF Encode
  <2> HIDE DEF e
  <2>3. e \in Envelopes => s \in Seq(Frames) /\ Len(s) \in Nat
    BY EncryptIs
  <2> HIDE DEF s
  <2>4. CASE Abandon /\ UNCHANGED <<pending, sendNonce, sent>>
    <3>1. batch' \in Seq(Messages) /\ pc' \in {"closed", "send"}
      BY <2>4 DEF Abandon
    <3>. QED
      BY <2>2, <2>4, <3>1
  <2>5. CASE /\ e \in Envelopes
             /\ batch' = Tail(batch) /\ pc' = pc /\ pending' = s
             /\ sendNonce' = sendNonce + Len(s) /\ sent' = Append(sent, e)
    <3>1. sent' \in Seq(Envelopes)
      BY <2>5, AppendProperties
    <3>2. sendNonce' \in Nat /\ pending' \in Seq(Frames) /\ batch' \in Seq(Messages)
      BY <2>1, <2>3, <2>5
    <3>. QED
      BY <2>2, <2>5, <3>1, <3>2
  <2>. QED
    BY <2>1, <2>4, <2>5
<1>6. CASE SendFragment
  <2>1. pending' \in Seq(Frames)
    BY <1>6 DEF SendFragment
  <2>. QED
    BY <1>6, <2>1 DEF SendFragment
<1>7. CASE BatchSent
  <2>1. << <<Fatal, 0>> >> \in Seq(Messages)
    BY DEF Messages, Fatal
  <2>2. /\ pc' \in {"select", "send", "closed"} /\ after' \in {"select", "fatal", "close"}
        /\ batch' \in Seq(Messages)
    BY <1>7, <2>1 DEF BatchSent, SendBatch
  <2>. QED
    BY <1>7, <2>2 DEF BatchSent
<1>. QED
  BY <1>1, <1>2, <1>3, <1>4, <1>5, <1>6, <1>7, LoopSteps

\* What the Host makes of the frame at the socket.
LEMMA ReceiveTyped ==
    ASSUME Typed, Receive
    PROVE  LET r == DecodeFragment(partial, recvNonce, Head(up), quiet)
           IN /\ up # <<>> /\ Head(up) \in Frames /\ Tail(up) \in Seq(Frames)
              /\ Len(Tail(up)) = Len(up) - 1
              /\ Answers(r) /\ got \o r.out \in Seq(Envelopes)
              /\ partial' = r.partial /\ why' = r.why /\ got' = got \o r.out
              /\ up' = Tail(up) /\ recvNonce' = recvNonce + 1 /\ quiet' = 0
<1> DEFINE r == DecodeFragment(partial, recvNonce, Head(up), quiet)
<1>1. up # <<>> /\ Head(up) \in Frames /\ Tail(up) \in Seq(Frames) /\ Len(Tail(up)) = Len(up) - 1
  BY SMTT(40) DEF Receive, Typed
<1>2. /\ partial' = r.partial /\ why' = r.why /\ got' = got \o r.out
      /\ up' = Tail(up) /\ recvNonce' = recvNonce + 1 /\ quiet' = 0
  BY DEF Receive
<1>3. Answers(r)
  <2>1. Head(up).plain \in Seq(Nat) /\ partial \in Partials
    BY <1>1 DEF Frames, Typed
  <2>2. Answers(AcceptFragment(partial, Head(up).plain, quiet))
    BY <2>1, AcceptAnswers
  <2>3. Answers(Refuse("noise"))
    BY RefuseAnswers DEF Reasons
  <2>. QED
    BY Zenon, <2>2, <2>3 DEF DecodeFragment
<1> HIDE DEF r
<1>4. r.out \in Seq(Envelopes)
  <2>1. CASE r.out = <<>>
    BY <2>1
  <2>2. ASSUME NEW e \in Seq(Nat), r.out = <<e>>, Len(e) <= MaxLen PROVE r.out \in Seq(Envelopes)
    <3>1. e \in Envelopes
      BY <2>2 DEF Envelopes
    <3>. QED
      BY <2>2, <3>1
  <2>. QED
    BY <1>3, <2>1, <2>2 DEF Answers
<1>5. got \o r.out \in Seq(Envelopes)
  BY <1>4 DEF Typed
<1>. QED
  BY <1>1, <1>2, <1>3, <1>5 DEF r

\* An envelope that the Device encodes is within the limit.
LEMMA DeviceEncodeTyped ==
    ASSUME Typed, DeviceEncode
    PROVE  /\ peer # "any" /\ pc # "closed" /\ devPending = <<>>
           /\ \E e \in Envelopes :
                 LET s == Encrypt(devNonce, Fragments(e))
                 IN said' = Append(said, e) /\ devPending' = s /\ devNonce' = devNonce + Len(s)
<1>1. PICK body \in InBodies :
         LET envelope == Envelope(Len(said) + 1, body)
             frames   == Encrypt(devNonce, SplitIntoFragments(BuildRecord(envelope)))
         IN /\ said' = Append(said, envelope)
            /\ devPending' = frames /\ devNonce' = devNonce + Len(frames)
  BY DEF DeviceEncode
<1> DEFINE e == Envelope(Len(said) + 1, body)
<1>2. body \in Seq(Nat) /\ Len(body) < MaxLen /\ Len(said) + 1 \in Nat
  BY WireConstants DEF Typed
<1>3. e \in Seq(Nat) /\ Len(e) = Len(body) + 1
  BY Zenon, <1>2, EnvelopeIs
<1> HIDE DEF e
<1>4. e \in Envelopes
  BY <1>2, <1>3, CodecRanges DEF Envelopes
<1>5. LET s == Encrypt(devNonce, Fragments(e))
      IN said' = Append(said, e) /\ devPending' = s /\ devNonce' = devNonce + Len(s)
  BY Zenon, <1>1 DEF e, Fragments
<1>6. peer # "any" /\ pc # "closed" /\ devPending = <<>>
  BY DEF DeviceEncode
<1>. QED
  BY <1>4, <1>5, <1>6

\* The relay puts nothing at the socket that was not there.
LEMMA MangleIs ==
    ASSUME Typed, Mangle
    PROVE  /\ up' \in Seq(Frames) /\ Len(up') <= Len(up) + 1
           /\ \A i \in 1..Len(up') : \E j \in 1..Len(up) : up'[i] = up[j]
<1>1. up \in Seq(Frames) /\ up # <<>> /\ Len(up) \in Nat /\ Len(up) >= 1
  <2>1. up \in Seq(Frames) /\ up # <<>>
    BY Zenon DEF Mangle, Typed
  <2>. QED
    BY <2>1
<1>2. CASE up' = Tail(up)
  <2>1. up' \in Seq(Frames) /\ Len(up') = Len(up) - 1 /\ \A i \in 1..(Len(up) - 1) : up'[i] = up[i + 1]
    BY <1>1, <1>2
  <2>2. ASSUME NEW i \in 1..Len(up') PROVE \E j \in 1..Len(up) : up'[i] = up[j]
    <3>1. i + 1 \in 1..Len(up) /\ up'[i] = up[i + 1]
      BY <1>1, <2>1
    <3>. QED
      BY <3>1
  <2>. QED
    BY <1>1, <2>1, <2>2
<1>3. CASE up' = <<Head(up)>> \o up
  <2>1. Head(up) \in Frames /\ Head(up) = up[1]
    BY <1>1
  <2> DEFINE w == <<Head(up)>> \o up
  <2>2. w \in Seq(Frames) /\ Len(w) = Len(up) + 1 /\ w[1] = up[1] /\ \A i \in 1..Len(up) : w[i + 1] = up[i]
    BY <1>1, <2>1
  <2> HIDE DEF w
  <2>3. up' = w
    BY <1>3 DEF w
  <2>4. ASSUME NEW i \in 1..Len(w) PROVE \E j \in 1..Len(up) : w[i] = up[j]
    <3>1. CASE i = 1
      BY <1>1, <2>2, <3>1
    <3>2. CASE i # 1
      <4>1. i - 1 \in 1..Len(up) /\ (i - 1) + 1 = i
        BY <1>1, <2>2, <3>2
      <4>2. w[(i - 1) + 1] = up[i - 1]
        BY <2>2, <4>1
      <4>. QED
        BY <4>1, <4>2
    <3>. QED
      BY <3>1, <3>2
  <2>. QED
    BY <1>1, <2>2, <2>3, <2>4
<1>4. CASE Len(up) > 1 /\ up' = [up EXCEPT ![1] = up[2], ![2] = up[1]]
  <2>1. 1 \in 1..Len(up) /\ 2 \in 1..Len(up) /\ up[1] \in Frames /\ up[2] \in Frames
    BY <1>1, <1>4
  <2>2. up' \in Seq(Frames) /\ Len(up') = Len(up)
    BY <1>1, <1>4, <2>1
  <2>3. \A i \in 1..Len(up) : up'[i] = up[2] \/ up'[i] = up[1] \/ up'[i] = up[i]
    BY <1>1, <1>4, <2>1
  <2>. QED
    BY <1>1, <2>1, <2>2, <2>3
<1>. QED
  BY <1>2, <1>3, <1>4 DEF Mangle

\* The variables of the Device, the socket and the reader keep their types.
LEMMA OthersTyped ==
    ASSUME Typed, [Next]_vars
    PROVE  /\ down' \in Seq(Frames) /\ Len(down') <= WireCap
           /\ said' \in Seq(Envelopes) /\ devNonce' \in Nat
           /\ devPending' \in Seq(Frames) /\ up' \in Seq(Frames) /\ Len(up') <= WireCap + faults'
           /\ partial' \in Partials /\ got' \in Seq(Envelopes) /\ recvNonce' \in Nat
           /\ quiet' \in 0..(Timeout + 1) /\ devQuiet' \in 0..(Timeout + 1)
           /\ tardy' \in BOOLEAN /\ faults' \in 0..MaxFaults
           /\ peer' \in {"faithful", "relay", "any"}
<1> DEFINE DownTyped == down \in Seq(Frames) /\ Len(down) <= WireCap
           UpTyped   == up \in Seq(Frames) /\ Len(up) <= WireCap + faults /\ faults \in 0..MaxFaults
           DevTyped  == /\ said \in Seq(Envelopes) /\ devNonce \in Nat /\ devPending \in Seq(Frames)
                        /\ devQuiet \in 0..(Timeout + 1) /\ tardy \in BOOLEAN
                        /\ peer \in {"faithful", "relay", "any"}
           ReadTyped == /\ partial \in Partials /\ got \in Seq(Envelopes) /\ recvNonce \in Nat
                        /\ quiet \in 0..(Timeout + 1)
           Goal == DownTyped' /\ UpTyped' /\ DevTyped' /\ ReadTyped'
<1>0. DownTyped /\ UpTyped /\ DevTyped /\ ReadTyped /\ WireCap \in Nat /\ MaxFaults \in Nat /\ Timeout \in Nat
  BY CodecRanges, WireConstants DEF Typed
<1>1. CASE Produce \/ Encode \/ BatchSent \/ Outgoing \/ Revoked \/ Stop \/ UNCHANGED vars
  <2>1. UNCHANGED <<reader, devOut, down, up, peer, faults>>
    BY <1>1 DEF Produce, Encode, BatchSent, Outgoing, Revoked, Stop, vars
  <2>. QED
    BY <1>0, <2>1 DEF reader, devOut
<1>2. CASE SendFragment
  <2>1. UNCHANGED <<reader, devOut, up, peer, faults>>
    BY <1>2 DEF SendFragment
  <2>2. pending # <<>> /\ Len(down) < WireCap /\ down' = Append(down, Head(pending))
    BY <1>2 DEF SendFragment
  <2>3. Head(pending) \in Frames
    BY <2>2 DEF Typed
  <2>4. DownTyped'
    BY <1>0, <2>2, <2>3, AppendProperties
  <2>. QED
    BY <1>0, <2>1, <2>4 DEF reader, devOut
<1>3. CASE Receive
  <2>1. UNCHANGED <<devOut, down, peer, faults>>
    BY <1>3 DEF Receive
  <2> DEFINE r == DecodeFragment(partial, recvNonce, Head(up), quiet)
  <2>2. /\ Tail(up) \in Seq(Frames) /\ Len(Tail(up)) = Len(up) - 1
        /\ Answers(r) /\ got \o r.out \in Seq(Envelopes)
        /\ partial' = r.partial /\ got' = got \o r.out
        /\ up' = Tail(up) /\ recvNonce' = recvNonce + 1 /\ quiet' = 0
    BY <1>3, ReceiveTyped
  <2> HIDE DEF r
  <2>3. ReadTyped'
    BY <1>0, <2>2 DEF Answers
  <2>4. UpTyped'
    BY <1>0, <2>1, <2>2
  <2>. QED
    BY <1>0, <2>1, <2>3, <2>4 DEF devOut
<1>4. CASE DeviceEncode
  <2>1. UNCHANGED <<tardy, strays, reader, down, up, peer, faults>> /\ devQuiet' = 0
    BY <1>4 DEF DeviceEncode
  <2>2. PICK e \in Envelopes :
           LET s == Encrypt(devNonce, Fragments(e))
           IN said' = Append(said, e) /\ devPending' = s /\ devNonce' = devNonce + Len(s)
    BY <1>4, DeviceEncodeTyped
  <2> DEFINE s == Encrypt(devNonce, Fragments(e))
  <2>3. s \in Seq(Frames) /\ Len(s) \in Nat
    BY <1>0, EncryptIs
  <2> HIDE DEF s
  <2>4. said' = Append(said, e) /\ devPending' = s /\ devNonce' = devNonce + Len(s)
    BY <2>2 DEF s
  <2>5. said' \in Seq(Envelopes)
    BY <1>0, <2>4, AppendProperties
  <2>6. DevTyped'
    BY <1>0, <2>1, <2>3, <2>4, <2>5
  <2>. QED
    BY <1>0, <2>1, <2>6 DEF reader
<1>5. CASE DevicePut
  <2>1. UNCHANGED <<devNonce, said, reader, down, peer, faults>> /\ devQuiet' = 0
        /\ devPending # <<>> /\ Len(up) < WireCap
        /\ up' = Append(up, Head(devPending)) /\ devPending' = Tail(devPending)
        /\ tardy' = (tardy \/ devQuiet > Timeout)
    BY <1>5 DEF DevicePut
  <2>2. Head(devPending) \in Frames /\ Tail(devPending) \in Seq(Frames)
    BY <1>0, <2>1
  <2>3. up' \in Seq(Frames) /\ Len(up') = Len(up) + 1
    BY <1>0, <2>1, <2>2, AppendProperties
  <2>4. UpTyped'
    BY <1>0, <2>1, <2>3
  <2>. QED
    BY <1>0, <2>1, <2>2, <2>4 DEF reader
<1>6. CASE Stray
  <2>1. UNCHANGED <<devPending, devQuiet, said, tardy, reader, down, peer, faults>>
        /\ devNonce' = devNonce + 1 /\ Len(up) < WireCap
    BY <1>6 DEF Stray
  <2>2. PICK index \in 0..(FragCap + 1), count \in 0..(FragCap + 1), chunk \in StrayChunks :
           \E plain \in {<<index>>, <<index, count>> \o chunk} :
               up' = Append(up, [nonce |-> devNonce + 1, plain |-> plain])
    BY <1>6 DEF Stray
  <2>3. PICK plain \in {<<index>>, <<index, count>> \o chunk} :
           up' = Append(up, [nonce |-> devNonce + 1, plain |-> plain])
    BY <2>2
  <2>4. plain \in Seq(Nat)
    <3>1. index \in Nat /\ count \in Nat /\ chunk \in Seq(Nat)
      BY CodecRanges, WireConstants
    <3>2. <<index>> \in Seq(Nat)
      BY <3>1
    <3>3. <<index, count>> \o chunk \in Seq(Nat)
      BY <3>1
    <3>. QED
      BY <3>2, <3>3
  <2>5. [nonce |-> devNonce + 1, plain |-> plain] \in Frames
    BY <1>0, <2>4 DEF Frames
  <2>6. up' \in Seq(Frames) /\ Len(up') = Len(up) + 1
    BY <1>0, <2>3, <2>5, AppendProperties
  <2>7. UpTyped'
    BY <1>0, <2>1, <2>6
  <2>. QED
    BY <1>0, <2>1, <2>7 DEF reader
<1>7. CASE Mangle
  <2>1. UNCHANGED <<reader, devOut, down, peer>> /\ faults' = faults + 1 /\ faults < MaxFaults
    BY <1>7 DEF Mangle
  <2>2. up # <<>> /\ (\/ up' = Tail(up) \/ up' = <<Head(up)>> \o up
                      \/ Len(up) > 1 /\ up' = [up EXCEPT ![1] = up[2], ![2] = up[1]])
    BY <1>7 DEF Mangle
  <2>3. up' \in Seq(Frames) /\ Len(up') <= Len(up) + 1
        /\ \A i \in 1..Len(up') : \E j \in 1..Len(up) : up'[i] = up[j]
    BY <1>7, MangleIs
  <2>4. UpTyped'
    BY <1>0, <2>1, <2>3
  <2>. QED
    BY <1>0, <2>1, <2>4 DEF reader, devOut
<1>8. CASE DeviceReceive
  <2>1. UNCHANGED <<reader, devOut, up, peer, faults>> /\ down # <<>> /\ down' = Tail(down)
    BY <1>8 DEF DeviceReceive
  <2>2. DownTyped'
    BY <1>0, <2>1
  <2>. QED
    BY <1>0, <2>1, <2>2 DEF reader, devOut
<1>9. CASE Lost
  <2>1. UNCHANGED <<reader, devOut, up, peer, faults>> /\ down' = <<>>
    BY <1>9 DEF Lost
  <2>2. DownTyped'
    BY <1>0, <2>1
  <2>. QED
    BY <1>0, <2>1, <2>2 DEF reader, devOut
<1>10. CASE Tick
  <2>1. UNCHANGED <<recvNonce, partial, got, devPending, devNonce, said, tardy, down, up, peer, faults>>
        /\ quiet' = (IF partial = NoPartial THEN 0 ELSE Later(quiet))
        /\ devQuiet' = (IF devPending = <<>> THEN 0 ELSE Later(devQuiet))
    BY <1>10 DEF Tick
  <2>2. quiet' \in 0..(Timeout + 1) /\ devQuiet' \in 0..(Timeout + 1)
    BY <1>0, <2>1 DEF Later
  <2>. QED
    BY <1>0, <2>1, <2>2
<1>11. Goal
  BY Zenon, <1>1, <1>2, <1>3, <1>4, <1>5, <1>6, <1>7, <1>8, <1>9, <1>10 DEF Next
<1>. QED
  BY <1>11

\* The types are kept.
LEMMA TypedStep == ASSUME Typed, [Next]_vars PROVE Typed'
BY LoopTyped, OthersTyped DEF Typed

-----------------------------------------------------------------------------
(* The numbers of the envelopes, and what the queue loses.                 *)

IsFatal(body) == Kind(body) = Fatal
LastWord      == << <<Fatal, 0>> >>

Plain     == \A i \in 1..Len(batch) : ~IsFatal(batch[i])
NoneFatal == \A i \in 1..Len(sent) : ~IsFatal(Body(sent[i]))

Numbered ==
    \A i \in 1..Len(sent) :
        \/ sent[i][1] = i
        \/ sent[i][1] = i + 1 /\ IsFatal(Body(sent[i])) /\ i = Len(sent)

\* A number is used up only on the way out, with nothing to follow but the
\* fatal error.
InStep == \/ seq = Len(sent)
          \/ pc = "closed"
          \/ pc = "send" /\ after = "close" /\ batch = <<>>
          \/ /\ pc = "send" /\ after # "select" /\ batch \in {<<>>, LastWord}
             /\ seq = Len(sent) + 1

\* Nothing follows the fatal error.
FatalEnds ==
    \/ NoneFatal
    \/ /\ \A i \in 1..Len(sent) : IsFatal(Body(sent[i])) => i = Len(sent)
       /\ pc = "closed" \/ (pc = "send" /\ after = "close" /\ batch = <<>>)

Numbers ==
    /\ Numbered /\ InStep /\ FatalEnds
    /\ Plain \/ (batch = LastWord /\ after = "close")
    /\ pc = "select" => batch = <<>>

\* At first.
LEMMA NumbersInit == Init => Numbers
<1> SUFFICES ASSUME Init PROVE Numbers
  OBVIOUS
<1>1. batch = <<>> /\ sent = <<>> /\ seq = 0 /\ Len(<<>>) = 0
  BY DEF Init
<1>. QED
  BY <1>1 DEF Numbers, Numbered, InStep, FatalEnds, NoneFatal, Plain

\* The loop encodes the next message of the batch, or gives it up.
LEMMA NumbersEncode == ASSUME Typed, Numbers, Encode PROVE Numbers'
<1> DEFINE e == Envelope(seq + 1, Head(batch))
<1>1. /\ batch # <<>> /\ Head(batch) \in Messages /\ Tail(batch) \in Seq(Messages)
      /\ e[1] = seq + 1 /\ Body(e) = Head(batch)
      /\ \/ Abandon /\ UNCHANGED <<pending, sendNonce, sent>>
         \/ e \in Envelopes /\ batch' = Tail(batch) /\ pc' = pc /\ sent' = Append(sent, e)
  BY EncodeTyped
<1>2. pc = "send" /\ seq' = seq + 1 /\ after' = after
  BY DEF Encode
<1> HIDE DEF e
<1>3. batch \in Seq(Messages) /\ sent \in Seq(Envelopes) /\ seq \in Nat /\ Len(sent) \in Nat
  BY DEF Typed
<1>4. NoneFatal
  BY <1>1, <1>2 DEF Numbers, FatalEnds
<1>5. seq = Len(sent) \/ (after # "select" /\ batch = LastWord /\ seq = Len(sent) + 1)
  BY <1>1, <1>2 DEF Numbers, InStep
<1>6. CASE Abandon /\ UNCHANGED <<pending, sendNonce, sent>>
  <2>1. batch' = <<>> /\ sent' = sent /\ Len(<<>>) = 0
        /\ (pc' = "closed" \/ (after # "select" /\ pc' = "send"))
    BY <1>6 DEF Abandon
  <2>2. Numbered' /\ NoneFatal'
    BY <1>4, <2>1 DEF Numbers, Numbered, NoneFatal
  <2>3. Plain' /\ pc' # "select"
    BY <2>1 DEF Plain
  <2>4. InStep'
    <3>1. batch = LastWord => after = "close"
      <4>1. LastWord[1] = <<Fatal, 0>> /\ 1 \in 1..Len(LastWord)
        BY DEF LastWord
      <4>2. IsFatal(<<Fatal, 0>>)
        BY DEF IsFatal, Kind
      <4>. QED
        BY <4>1, <4>2 DEF Numbers, Plain
    <3>. QED
      BY <1>2, <1>3, <1>5, <2>1, <3>1 DEF InStep
  <2>. QED
    BY <2>2, <2>3, <2>4 DEF Numbers, FatalEnds
<1>7. CASE e \in Envelopes /\ batch' = Tail(batch) /\ pc' = pc /\ sent' = Append(sent, e)
  <2>1. /\ Len(sent') = Len(sent) + 1 /\ sent'[Len(sent) + 1] = e
        /\ \A i \in 1..Len(sent) : sent'[i] = sent[i]
    BY <1>3, <1>7, AppendProperties
  <2>2. \A i \in 1..Len(sent') : i = Len(sent) + 1 \/ i \in 1..Len(sent)
    BY <1>3, <2>1
  <2>3. \A i \in 1..Len(sent) : sent'[i][1] = i /\ ~IsFatal(Body(sent'[i]))
    BY <1>4, <2>1 DEF Numbers, Numbered, NoneFatal
  <2>4. CASE ~IsFatal(Head(batch))
    <3>1. Plain
      <4>1. batch = LastWord => IsFatal(Head(batch))
        BY DEF LastWord, IsFatal, Kind
      <4>. QED
        BY <2>4, <4>1 DEF Numbers
    <3>2. seq = Len(sent)
      <4>1. batch = LastWord => IsFatal(Head(batch))
        BY DEF LastWord, IsFatal, Kind
      <4>. QED
        BY <1>5, <2>4, <4>1
    <3>3. NoneFatal'
      BY <1>1, <2>1, <2>2, <2>3, <2>4 DEF NoneFatal
    <3>4. Numbered'
      BY <1>1, <2>1, <2>2, <2>3, <3>2 DEF Numbered
    <3>5. InStep' /\ pc' # "select"
      BY <1>2, <1>7, <2>1, <3>2 DEF InStep
    <3>6. Plain'
      <4>1. Len(Tail(batch)) = Len(batch) - 1 /\ \A i \in 1..(Len(batch) - 1) : Tail(batch)[i] = batch[i + 1]
        BY <1>1, <1>3
      <4>2. \A i \in 1..(Len(batch) - 1) : i + 1 \in 1..Len(batch)
        BY <1>3
      <4>. QED
        BY <1>7, <3>1, <4>1, <4>2 DEF Plain
    <3>. QED
      BY <3>3, <3>4, <3>5, <3>6 DEF Numbers, FatalEnds
  <2>5. CASE IsFatal(Head(batch))
    <3>1. batch = LastWord /\ after = "close"
      <4>1. 1 \in 1..Len(batch) /\ Head(batch) = batch[1]
        BY <1>1, <1>3
      <4>2. ~Plain
        BY <2>5, <4>1 DEF Plain
      <4>. QED
        BY <4>2 DEF Numbers
    <3>2. batch' = <<>> /\ Len(<<>>) = 0
      BY <1>7, <3>1 DEF LastWord
    <3>3. Numbered' /\ (FatalEnds)'
      <4>1. IsFatal(Body(e))
        BY <1>1, <2>5
      <4>2. \A i \in 1..Len(sent') : IsFatal(Body(sent'[i])) => i = Len(sent')
        BY <2>1, <2>2, <2>3
      <4>3. Numbered'
        <5> SUFFICES ASSUME NEW i \in 1..Len(sent')
                     PROVE  \/ sent'[i][1] = i
                            \/ sent'[i][1] = i + 1 /\ IsFatal(Body(sent'[i])) /\ i = Len(sent')
          BY DEF Numbered
        <5>1. CASE i \in 1..Len(sent)
          BY <2>3, <5>1
        <5>2. CASE i = Len(sent) + 1
          <6>1. sent'[i] = e /\ i = Len(sent')
            BY <2>1, <5>2
          <6>2. e[1] = i \/ e[1] = i + 1
            BY <1>1, <1>3, <1>5, <5>2
          <6>. QED
            BY <4>1, <6>1, <6>2
        <5>. QED
          BY <2>2, <5>1, <5>2
      <4>4. pc' = "send" /\ after' = "close" /\ batch' = <<>>
        BY <1>2, <1>7, <3>1, <3>2
      <4>. QED
        BY <4>2, <4>3, <4>4 DEF FatalEnds
    <3>4. InStep' /\ Plain' /\ pc' # "select"
      BY <1>2, <1>7, <3>1, <3>2 DEF InStep, Plain
    <3>. QED
      BY <3>3, <3>4 DEF Numbers
  <2>. QED
    BY <2>4, <2>5
<1>. QED
  BY <1>1, <1>6, <1>7

\* Every other step.
LEMMA NumbersStep == ASSUME Typed, Numbers, [Next]_vars PROVE Numbers'
<1>1. CASE Idle
  BY <1>1 DEF Idle, Numbers, Numbered, InStep, FatalEnds, NoneFatal, Plain
<1>2. ASSUME pc = "select", pc' = "send", Plain', seq' = seq, sent' = sent PROVE Numbers'
  <2>1. seq = Len(sent) /\ NoneFatal
    BY <1>2 DEF Numbers, InStep, FatalEnds
  <2>. QED
    BY <1>2, <2>1 DEF Numbers, Numbered, InStep, FatalEnds, NoneFatal
<1>3. CASE AnswersPing
  <2>1. Plain'
    BY <1>3 DEF AnswersPing, SendBatch, Plain, IsFatal, Kind, Pong, Fatal
  <2>. QED
    BY <1>2, <1>3, <2>1 DEF AnswersPing, SendBatch
<1>4. ASSUME NEW next, Drained(next) PROVE Numbers'
  <2>1. DrainOutgoing(outq) \in Seq(Queued)
    BY DrainIs DEF Typed
  <2>2. batch' = DrainOutgoing(outq)
    BY <1>4 DEF Drained, SendBatch
  <2>3. Plain'
    BY <2>1, <2>2 DEF Plain, Queued, IsFatal
  <2>. QED
    BY <1>2, <1>4, <2>3 DEF Drained, SendBatch
<1>5. CASE Produce
  BY <1>5 DEF Produce, Numbers, Numbered, InStep, FatalEnds, NoneFatal, Plain
<1>6. CASE SendFragment
  BY <1>6 DEF SendFragment, Numbers, Numbered, InStep, FatalEnds, NoneFatal, Plain
<1>7. CASE BatchSent
  <2>1. pc = "send" /\ batch = <<>> /\ sent' = sent /\ seq' = seq
    BY <1>7 DEF BatchSent
  <2>2. CASE after = "select" /\ pc' = "select" /\ UNCHANGED <<after, batch>>
    <3>1. seq = Len(sent) /\ NoneFatal
      BY <2>1, <2>2 DEF Numbers, InStep, FatalEnds
    <3>. QED
      BY <2>1, <2>2, <3>1 DEF Numbers, Numbered, InStep, FatalEnds, NoneFatal, Plain
  <2>3. CASE after = "fatal" /\ SendBatch(LastWord, "close")
    <3>1. NoneFatal
      BY <2>1, <2>3 DEF Numbers, FatalEnds
    <3>2. pc' = "send" /\ after' = "close" /\ batch' = LastWord
      BY <2>3 DEF SendBatch
    <3>3. Numbered' /\ NoneFatal'
      BY <2>1, <3>1 DEF Numbers, Numbered, NoneFatal
    <3>4. InStep'
      <4>1. seq = Len(sent) \/ seq = Len(sent) + 1
        BY <2>1, <2>3 DEF Numbers, InStep
      <4>. QED
        BY <2>1, <3>2, <4>1 DEF InStep
    <3>. QED
      BY <3>2, <3>3, <3>4 DEF Numbers, FatalEnds
  <2>4. CASE after = "close" /\ pc' = "closed" /\ UNCHANGED <<after, batch>>
    BY <2>1, <2>4 DEF Numbers, Numbered, InStep, FatalEnds, NoneFatal, Plain
  <2>. QED
    BY <1>7, <2>2, <2>3, <2>4 DEF BatchSent, LastWord
<1>. QED
  BY <1>1, <1>3, <1>4, <1>5, <1>6, <1>7, NumbersEncode, LoopSteps

\* Every message that left the queue was sent, is in the batch, or is a pane's
\* frame that a newer one replaced.
Replaced(i) == Kind(made[i]) \in Panes /\ \E j \in (i + 1)..Len(made) : Kind(made[j]) = Kind(made[i])

Left(i) ==
    \/ \E k \in 1..Len(sent) : Body(sent[k]) = made[i]
    \/ \E k \in 1..Len(batch) : batch[k] = made[i]
    \/ Replaced(i)

\* The queue holds the newest of the messages.
QueueIsNewest ==
    /\ Len(outq) <= Len(made)
    /\ \A k \in 1..Len(outq) : outq[k] = made[Len(made) - Len(outq) + k]

GoesOn == pc = "select" \/ (pc = "send" /\ after = "select")

Fresh == QueueIsNewest /\ (GoesOn => \A i \in 1..(Len(made) - Len(outq)) : Left(i))

\* At first.
LEMMA FreshInit == Init => Fresh
<1> SUFFICES ASSUME Init PROVE Fresh
  OBVIOUS
<1>1. outq = <<>> /\ made = <<>> /\ Len(<<>>) = 0
  BY DEF Init
<1>. QED
  BY <1>1 DEF Fresh, QueueIsNewest

\* The bridge thread queues one more.
LEMMA FreshProduce == ASSUME Typed, Fresh, Produce PROVE Fresh'
<1>1. PICK m \in Queued : made' = Append(made, m) /\ outq' = Append(outq, m)
  BY ProduceTyped
<1>2. made \in Seq(Queued) /\ outq \in Seq(Queued) /\ Len(made) \in Nat /\ Len(outq) \in Nat
  BY DEF Typed
<1>3. UNCHANGED <<pc, after, batch, sent>>
  BY DEF Produce
<1>4. /\ Len(made') = Len(made) + 1 /\ made'[Len(made) + 1] = m
      /\ \A i \in 1..Len(made) : made'[i] = made[i]
  BY <1>1, <1>2, AppendProperties
<1>5. /\ Len(outq') = Len(outq) + 1 /\ outq'[Len(outq) + 1] = m
      /\ \A i \in 1..Len(outq) : outq'[i] = outq[i]
  BY <1>1, <1>2, AppendProperties
<1>6. Len(outq) <= Len(made) /\ \A k \in 1..Len(outq) : outq[k] = made[Len(made) - Len(outq) + k]
  BY DEF Fresh, QueueIsNewest
<1>7. QueueIsNewest'
  <2>1. ASSUME NEW k \in 1..Len(outq') PROVE outq'[k] = made'[Len(made') - Len(outq') + k]
    <3>1. CASE k = Len(outq) + 1
      <4>1. Len(made') - Len(outq') + k = Len(made) + 1
        BY <1>2, <1>4, <1>5, <3>1
      <4>. QED
        BY <1>4, <1>5, <3>1, <4>1
    <3>2. CASE k # Len(outq) + 1
      <4>1. k \in 1..Len(outq) /\ Len(made) - Len(outq) + k \in 1..Len(made)
            /\ Len(made') - Len(outq') + k = Len(made) - Len(outq) + k
        BY <1>2, <1>4, <1>5, <1>6, <3>2
      <4>. QED
        BY <1>4, <1>5, <1>6, <4>1
    <3>. QED
      BY <3>1, <3>2
  <2>. QED
    BY <1>2, <1>4, <1>5, <1>6, <2>1 DEF QueueIsNewest
<1>8. ASSUME GoesOn', NEW i \in 1..(Len(made') - Len(outq')) PROVE Left(i)'
  <2>1. i \in 1..(Len(made) - Len(outq)) /\ i \in 1..Len(made)
    BY <1>2, <1>4, <1>5, <1>6
  <2>2. Left(i)
    BY <1>3, <1>8, <2>1 DEF Fresh, GoesOn
  <2>3. made'[i] = made[i]
    BY <1>4, <2>1
  <2>4. Replaced(i) => Replaced(i)'
    <3> SUFFICES ASSUME Replaced(i) PROVE Replaced(i)'
      OBVIOUS
    <3>1. PICK j \in (i + 1)..Len(made) : Kind(made[j]) = Kind(made[i])
      BY DEF Replaced
    <3>2. j \in 1..Len(made) /\ j \in (i + 1)..Len(made')
      BY <1>2, <1>4, <2>1
    <3>3. made'[j] = made[j]
      BY <1>4, <3>2
    <3>. QED
      BY <2>3, <3>1, <3>2, <3>3 DEF Replaced
  <2>. QED
    BY <1>3, <2>2, <2>3, <2>4 DEF Left
<1>. QED
  BY <1>7, <1>8 DEF Fresh

\* The loop takes what is queued: of a pane only its newest frame.
LEMMA FreshDrained == ASSUME Typed, Numbers, Fresh, NEW next, Drained(next) PROVE Fresh'
<1>1. /\ made \in Seq(Queued) /\ outq \in Seq(Queued) /\ Len(made) \in Nat /\ Len(outq) \in Nat
      /\ Len(<<>>) = 0
  BY DEF Typed
<1>2. /\ pc = "select" /\ batch' = DrainOutgoing(outq) /\ outq' = <<>>
      /\ UNCHANGED <<made, sent>>
  BY DEF Drained, SendBatch
<1>3. Len(outq) <= Len(made) /\ \A k \in 1..Len(outq) : outq[k] = made[Len(made) - Len(outq) + k]
  BY DEF Fresh, QueueIsNewest
<1>4. batch = <<>>
  BY <1>2 DEF Numbers
<1>5. QueueIsNewest'
  BY <1>1, <1>2 DEF QueueIsNewest
<1>6. ASSUME NEW i \in 1..Len(made) PROVE Left(i)'
  <2>1. CASE i <= Len(made) - Len(outq)
    <3>1. i \in 1..(Len(made) - Len(outq))
      BY <1>1, <2>1
    <3>2. Left(i)
      BY <1>2, <3>1 DEF Fresh, GoesOn
    <3>. QED
      BY <1>1, <1>2, <1>4, <3>2 DEF Left, Replaced
  <2>2. CASE ~(i <= Len(made) - Len(outq))
    <3> DEFINE k == i - (Len(made) - Len(outq))
    <3>1. k \in 1..Len(outq) /\ Len(made) - Len(outq) + k = i
      BY <1>1, <1>3, <2>2
    <3> HIDE DEF k
    <3>2. outq[k] = made[i]
      BY <1>3, <3>1
    <3>3. CASE \E j \in 1..Len(DrainOutgoing(outq)) : DrainOutgoing(outq)[j] = outq[k]
      BY <1>2, <3>2, <3>3 DEF Left
    <3>4. CASE /\ Kind(outq[k]) \in Panes
               /\ \E j \in (k + 1)..Len(outq) : Kind(outq[j]) = Kind(outq[k])
      <4>1. PICK j \in (k + 1)..Len(outq) : Kind(outq[j]) = Kind(outq[k])
        BY <3>4
      <4>2. j \in 1..Len(outq) /\ Len(made) - Len(outq) + j \in (i + 1)..Len(made)
        BY <1>1, <1>3, <3>1
      <4>3. outq[j] = made[Len(made) - Len(outq) + j]
        BY <1>3, <4>2
      <4>. QED
        BY <1>2, <3>2, <3>4, <4>1, <4>2, <4>3 DEF Left, Replaced
    <3>. QED
      BY <1>1, <3>1, <3>3, <3>4, DrainIs
  <2>. QED
    BY <2>1, <2>2
<1>7. Len(made') - Len(outq') = Len(made)
  BY <1>1, <1>2
<1>. QED
  BY <1>5, <1>6, <1>7 DEF Fresh

\* Every other step.
LEMMA FreshStep == ASSUME Typed, Numbers, Fresh, [Next]_vars PROVE Fresh'
<1>1. CASE Idle
  BY <1>1 DEF Idle, Fresh, QueueIsNewest, GoesOn, Left, Replaced
<1>2. CASE AnswersPing
  <2>1. /\ pc = "select" /\ batch = <<>> /\ Len(<<>>) = 0 /\ UNCHANGED <<outq, made, sent>>
    BY <1>2 DEF AnswersPing, Numbers
  <2>. QED
    BY <2>1 DEF Fresh, QueueIsNewest, GoesOn, Left, Replaced
<1>3. CASE Encode
  <2> DEFINE e == Envelope(seq + 1, Head(batch))
  <2>1. /\ batch # <<>> /\ Body(e) = Head(batch)
        /\ \/ Abandon /\ UNCHANGED <<pending, sendNonce, sent>>
           \/ e \in Envelopes /\ batch' = Tail(batch) /\ pc' = pc /\ sent' = Append(sent, e)
    BY <1>3, EncodeTyped
  <2> HIDE DEF e
  <2>2. UNCHANGED <<after, outq, made>> /\ pc = "send"
    BY <1>3 DEF Encode
  <2>3. QueueIsNewest'
    BY <2>2 DEF Fresh, QueueIsNewest
  <2>4. CASE Abandon
    BY <2>2, <2>3, <2>4 DEF Abandon, Fresh, GoesOn
  <2>5. CASE e \in Envelopes /\ batch' = Tail(batch) /\ pc' = pc /\ sent' = Append(sent, e)
    <3>1. batch \in Seq(Messages) /\ sent \in Seq(Envelopes) /\ Len(batch) \in Nat /\ Len(sent) \in Nat
      BY DEF Typed
    <3>2. /\ Len(sent') = Len(sent) + 1 /\ sent'[Len(sent) + 1] = e
          /\ \A i \in 1..Len(sent) : sent'[i] = sent[i]
      BY <2>5, <3>1, AppendProperties
    <3>3. ASSUME NEW i \in 1..(Len(made) - Len(outq)), Left(i) PROVE Left(i)'
      <4>1. CASE \E k \in 1..Len(sent) : Body(sent[k]) = made[i]
        <5>1. PICK k \in 1..Len(sent) : Body(sent[k]) = made[i]
          BY <4>1
        <5>2. k \in 1..Len(sent') /\ sent'[k] = sent[k]
          BY <3>1, <3>2
        <5>. QED
          BY <2>2, <5>1, <5>2 DEF Left
      <4>2. CASE \E k \in 1..Len(batch) : batch[k] = made[i]
        <5>1. PICK k \in 1..Len(batch) : batch[k] = made[i]
          BY <4>2
        <5>2. CASE k = 1
          <6>1. Body(e) = made[i]
            BY <2>1, <3>1, <5>1, <5>2
          <6>2. Len(sent) + 1 \in 1..Len(sent')
            BY <3>1, <3>2
          <6>. QED
            BY <2>2, <3>2, <6>1, <6>2 DEF Left
        <5>3. CASE k # 1
          <6>1. k - 1 \in 1..Len(batch') /\ batch'[k - 1] = batch[k]
            BY <2>1, <2>5, <3>1, <5>3
          <6>. QED
            BY <2>2, <5>1, <6>1 DEF Left
        <5>. QED
          BY <5>2, <5>3
      <4>3. CASE Replaced(i)
        BY <2>2, <4>3 DEF Left, Replaced
      <4>. QED
        BY <3>3, <4>1, <4>2, <4>3 DEF Left
    <3>. QED
      BY <2>2, <2>3, <2>5, <3>3 DEF Fresh, GoesOn
  <2>. QED
    BY <2>1, <2>4, <2>5
<1>4. CASE SendFragment
  BY <1>4 DEF SendFragment, Fresh, QueueIsNewest, GoesOn, Left, Replaced
<1>5. CASE BatchSent
  <2>1. batch = <<>> /\ pc = "send" /\ UNCHANGED <<made, outq, sent>>
        /\ (GoesOn' => after = "select" /\ batch' = batch)
    BY <1>5 DEF BatchSent, SendBatch, GoesOn
  <2>. QED
    BY <2>1 DEF Fresh, QueueIsNewest, GoesOn, Left, Replaced
<1>. QED
  BY <1>1, <1>2, <1>3, <1>4, <1>5, FreshProduce, FreshDrained, LoopSteps

-----------------------------------------------------------------------------
(* The two directions of the session.                                      *)

\* Towards the Device nothing is lost but with the connection.
Outward ==
    /\ Carries(sent, sendNonce, down, pending, devReadNonce, devPartial, read, TRUE, TRUE, pc # "closed")
    /\ devWhy = "ok"

\* Towards the Host a relay may lose, repeat or swap frames.
Steady == peer = "faithful" /\ pc # "closed"

Inward ==
    /\ peer # "any" =>
           Carries(said, devNonce, up, devPending, recvNonce, partial, got, pc # "closed", Steady, Steady)
    /\ peer = "faithful" => why \in {"ok", "late"}

\* At first.
LEMMA DirectionsInit == Init => Outward /\ Inward
<1> SUFFICES ASSUME Init PROVE Outward /\ Inward
  OBVIOUS
<1>1. Carries(sent, sendNonce, down, pending, devReadNonce, devPartial, read, TRUE, TRUE, TRUE)
  BY CarriesNothing DEF Init
<1>2. Carries(said, devNonce, up, devPending, recvNonce, partial, got, TRUE, TRUE, TRUE)
  BY CarriesNothing DEF Init
<1>3. pc # "closed" /\ devWhy = "ok" /\ why = "ok"
  BY DEF Init
<1>4. Outward
  BY <1>1, <1>3 DEF Outward
<1>5. Steady \in BOOLEAN
  BY DEF Steady
<1>6. Carries(said, devNonce, up, devPending, recvNonce, partial, got, pc # "closed", Steady, Steady)
  BY Zenon, <1>2, <1>3, <1>5, CarriesWeak
<1>. QED
  BY <1>3, <1>4, <1>6 DEF Inward

\* The loop does not go on after it closed.
LEMMA ClosedStays == ASSUME [Next]_vars, pc' # "closed" PROVE pc # "closed"
<1>1. CASE Encode
  BY <1>1 DEF Encode
<1>2. CASE SendFragment
  BY <1>2 DEF SendFragment
<1>3. CASE BatchSent
  BY <1>3 DEF BatchSent
<1>4. CASE Produce
  BY <1>4 DEF Produce
<1>. QED
  BY <1>1, <1>2, <1>3, <1>4, LoopSteps DEF Idle, AnswersPing, Drained

\* A message of the batch is encrypted.
LEMMA OutwardEncode == ASSUME Typed, Outward, Encode PROVE Outward'
<1> DEFINE e == Envelope(seq + 1, Head(batch))
           s == Encrypt(sendNonce, Fragments(e))
<1>1. \/ Abandon /\ UNCHANGED <<pending, sendNonce, sent>>
      \/ /\ e \in Envelopes
         /\ pc' = pc /\ pending' = s
         /\ sendNonce' = sendNonce + Len(s) /\ sent' = Append(sent, e)
  BY EncodeTyped
<1>2. UNCHANGED devIn /\ down' = down /\ pending = <<>> /\ pc = "send"
  BY DEF Encode
<1>3. sent \in Seq(Envelopes) /\ sendNonce \in Nat
  BY DEF Typed
<1>4. CASE Abandon /\ UNCHANGED <<pending, sendNonce, sent>>
  <2>1. (pc' # "closed") \in BOOLEAN /\ (pc # "closed") \in BOOLEAN /\ ((pc' # "closed") => (pc # "closed"))
    BY <1>2
  <2>2. Carries(sent, sendNonce, down, pending, devReadNonce, devPartial, read, TRUE, TRUE, pc' # "closed")
    BY <2>1, CarriesWeak DEF Outward
  <2>. QED
    BY <1>2, <1>4, <2>2 DEF Outward, devIn
<1>5. CASE /\ e \in Envelopes
           /\ pc' = pc /\ pending' = s
           /\ sendNonce' = sendNonce + Len(s) /\ sent' = Append(sent, e)
  <2> HIDE DEF e
  <2>1. Carries(sent, sendNonce, down, <<>>, devReadNonce, devPartial, read, TRUE, TRUE, TRUE)
    BY <1>2 DEF Outward
  <2>2. Carries(Append(sent, e), sendNonce + Len(s), down, s, devReadNonce, devPartial, read, TRUE, TRUE, TRUE)
    BY <1>3, <1>5, <2>1, CarriesMore
  <2> HIDE DEF s
  <2>3. (pc' # "closed") = TRUE
    BY <1>2, <1>5
  <2>. QED
    BY <1>2, <1>5, <2>2, <2>3 DEF Outward, devIn
<1>. QED
  BY <1>1, <1>4, <1>5

\* The Device reads what it is sent.
LEMMA OutwardRead == ASSUME Typed, Outward, DeviceReceive PROVE Outward'
<1> DEFINE r == AcceptFragment(devPartial, Head(down).plain, 0)
           W == pc # "closed"
<1>1. Carries(sent, sendNonce, down, pending, devReadNonce, devPartial, read, TRUE, TRUE, W)
  BY DEF Outward
<1>2. down # <<>> /\ UNCHANGED <<loop, sent>> /\ down' = Tail(down) /\ devReadNonce' = devReadNonce + 1
  BY DEF DeviceReceive
<1>3. sent \in Seq(Envelopes) /\ 0 \in Nat /\ 0 <= Timeout /\ W \in BOOLEAN
  BY CodecRanges DEF Typed
<1>4. Head(down).nonce = devReadNonce + 1
  <2> HIDE DEF W, r
  <2>1. PICK off : CarriesAt(sent, off, sendNonce, down, pending, devReadNonce, devPartial, read, TRUE, TRUE, W)
    BY Zenon, <1>1 DEF Carries
  <2>2. down \in Seq(Frames) /\ devReadNonce \in Nat
    BY Zenon, <2>1 DEF CarriesAt
  <2>3. \A j \in 1..Len(down) : down[j].nonce = devReadNonce + j
    BY Zenon, <2>1 DEF CarriesAt
  <2>4. 1 \in 1..Len(down) /\ Head(down) = down[1]
    BY <1>2, <2>2
  <2>. QED
    BY <2>2, <2>3, <2>4
<1>5. devPartial' = r.partial /\ devWhy' = r.why /\ read' = read \o r.out
  BY Zenon, <1>4 DEF DeviceReceive, DecodeFragment, Decrypts
<1>6. /\ r.why = "ok"
      /\ Carries(sent, sendNonce, Tail(down), pending, devReadNonce + 1, r.partial, read \o r.out, TRUE, TRUE, W)
  <2> HIDE DEF W
  <2>1. CarriesOn(sent, sendNonce, down, pending, devReadNonce, devPartial, read, TRUE, W, 0)
    BY Zenon, <1>1, <1>2, <1>3, <1>4, CarriesRead
  <2>. QED
    BY Zenon, <2>1 DEF CarriesOn, r
<1> HIDE DEF r
<1>. QED
  BY <1>2, <1>5, <1>6 DEF Outward, loop

\* The connection is lost, and what is on its way with it.
LEMMA CarriesLost ==
    ASSUME NEW log, NEW nonce, NEW wire, NEW left, NEW rn, NEW state, NEW out, NEW W \in BOOLEAN,
           Carries(log, nonce, wire, left, rn, state, out, TRUE, TRUE, W)
    PROVE  Carries(log, nonce, <<>>, left, rn, state, out, TRUE, TRUE, FALSE)
<1>1. PICK off : CarriesAt(log, off, nonce, wire, left, rn, state, out, TRUE, TRUE, W)
  BY DEF Carries
<1>2. <<>> \in Seq(Frames) /\ \A j \in 1..Len(<<>>) : FALSE
  OBVIOUS
<1>3. CarriesAt(log, off, nonce, <<>>, left, rn, state, out, TRUE, TRUE, FALSE)
  BY <1>1, <1>2 DEF CarriesAt
<1>. QED
  BY <1>3 DEF Carries

\* Every other step.
LEMMA OutwardStep == ASSUME Typed, Outward, [Next]_vars PROVE Outward'
<1> DEFINE W == pc # "closed"
<1>1. Carries(sent, sendNonce, down, pending, devReadNonce, devPartial, read, TRUE, TRUE, W) /\ devWhy = "ok"
  BY DEF Outward
<1>2. W \in BOOLEAN /\ W' \in BOOLEAN /\ (W' => W)
  BY ClosedStays
<1>3. CASE SendFragment
  <2>1. /\ UNCHANGED <<devIn, sent, sendNonce>> /\ W' = W /\ pending # <<>>
        /\ down' = Append(down, Head(pending)) /\ pending' = Tail(pending)
        /\ pc = "send"
    BY <1>3 DEF SendFragment
  <2>2. Carries(sent, sendNonce, down, pending, devReadNonce, devPartial, read, TRUE, TRUE, TRUE)
    BY <1>1, <2>1
  <2>3. Carries(sent, sendNonce, Append(down, Head(pending)), Tail(pending), devReadNonce, devPartial, read,
                TRUE, TRUE, TRUE)
    BY <2>1, <2>2, CarriesPut
  <2>4. W' = TRUE
    BY <2>1
  <2>. QED
    BY <1>1, <2>1, <2>3, <2>4 DEF Outward, devIn
<1>4. CASE Lost
  <2>1. down' = <<>> /\ UNCHANGED <<pending, sendNonce, devIn, sent>> /\ W' = FALSE
    BY <1>4 DEF Lost
  <2>2. Carries(sent, sendNonce, <<>>, pending, devReadNonce, devPartial, read, TRUE, TRUE, FALSE)
    BY <1>1, <1>2, CarriesLost
  <2>. QED
    BY <1>1, <2>1, <2>2 DEF Outward, devIn
<1>5. ASSUME UNCHANGED <<sent, sendNonce, down, pending, devReadNonce, devPartial, read, devWhy>> PROVE Outward'
  <2>1. Carries(sent, sendNonce, down, pending, devReadNonce, devPartial, read, TRUE, TRUE, W')
    BY <1>1, <1>2, CarriesWeak
  <2>. QED
    BY <1>1, <1>5, <2>1 DEF Outward
<1>6. CASE Produce \/ BatchSent \/ Receive \/ Outgoing \/ Revoked \/ Stop
  BY <1>5, <1>6 DEF Produce, BatchSent, Receive, Outgoing, Revoked, Stop, devIn
<1>7. CASE DeviceEncode \/ DevicePut \/ Stray \/ Mangle \/ Tick \/ UNCHANGED vars
  BY <1>5, <1>7 DEF DeviceEncode, DevicePut, Stray, Mangle, Tick, vars, loop, devIn
<1>. QED
  BY <1>3, <1>4, <1>6, <1>7, OutwardEncode, OutwardRead DEF Next

\* The loop reads the next fragment of the Device.
LEMMA InwardRead == ASSUME Typed, Inward, Receive PROVE Inward'
<1> DEFINE a == AcceptFragment(partial, Head(up).plain, quiet)
           r == DecodeFragment(partial, recvNonce, Head(up), quiet)
           faithful == peer = "faithful"
<1>1. /\ up # <<>> /\ Head(up) \in Frames /\ Tail(up) \in Seq(Frames)
      /\ partial' = r.partial /\ why' = r.why /\ got' = got \o r.out
      /\ up' = Tail(up) /\ recvNonce' = recvNonce + 1
  BY ReceiveTyped
<1>2. pc = "select" /\ UNCHANGED <<devOut, peer>> /\ (r.why # "ok" => pc' = "closed")
  BY Zenon DEF Receive
<1>3. faithful \in BOOLEAN /\ Steady = faithful /\ (pc # "closed") = TRUE
      /\ Steady' \in BOOLEAN /\ (pc' # "closed") \in BOOLEAN /\ (Steady' => faithful)
  BY <1>2 DEF Steady
<1>4. said \in Seq(Envelopes) /\ quiet \in Nat /\ recvNonce \in Nat /\ recvNonce + 1 \in Nat
      /\ up \in Seq(Frames)
  BY CodecRanges DEF Typed
<1> SUFFICES ASSUME peer # "any"
             PROVE  /\ Carries(said, devNonce, Tail(up), devPending, recvNonce + 1, r.partial, got \o r.out,
                               pc' # "closed", Steady', Steady')
                    /\ faithful => r.why \in {"ok", "late"}
  <2> HIDE DEF r
  <2>. QED
    BY <1>1, <1>2 DEF Inward, devOut
<1> HIDE DEF faithful
<1>5. Carries(said, devNonce, up, devPending, recvNonce, partial, got, TRUE, faithful, faithful)
  BY <1>3 DEF Inward
<1>6. faithful => Head(up).nonce = recvNonce + 1
  <2> HIDE DEF r, a
  <2>1. PICK off : CarriesAt(said, off, devNonce, up, devPending, recvNonce, partial, got, TRUE, faithful, faithful)
    BY Zenon, <1>5 DEF Carries
  <2>2. up \in Seq(Frames) /\ recvNonce \in Nat
    BY Zenon, <2>1 DEF CarriesAt
  <2>3. faithful => \A j \in 1..Len(up) : up[j].nonce = recvNonce + j
    BY Zenon, <2>1 DEF CarriesAt
  <2>4. 1 \in 1..Len(up) /\ Head(up) = up[1]
    BY <1>1, <2>2
  <2>. QED
    BY <2>2, <2>3, <2>4
<1>7. ASSUME r.why # "ok", r.out = <<>>
      PROVE  Carries(said, devNonce, Tail(up), devPending, recvNonce + 1, r.partial, got \o r.out,
                     pc' # "closed", Steady', Steady')
  <2>1. (pc' # "closed") = FALSE /\ Steady' = FALSE
    BY <1>2, <1>7 DEF Steady
  <2>2. got \o r.out = got
    <3>1. got \in Seq(Envelopes)
      BY DEF Typed
    <3>2. got \o <<>> = got
      BY <3>1
    <3> HIDE DEF r
    <3>. QED
      BY <1>7, <3>2
  <2>3. ASSUME NEW i \in 1..Len(Tail(up)) PROVE \E j \in 1..Len(up) : Tail(up)[i] = up[j]
    <3>1. i + 1 \in 1..Len(up) /\ Tail(up)[i] = up[i + 1]
      BY <1>1, <1>4
    <3>. QED
      BY <3>1
  <2> HIDE DEF r, a
  <2> DEFINE t == Tail(up)
             s == r.partial
  <2>4. TRUE \in BOOLEAN /\ FALSE \in BOOLEAN
    OBVIOUS
  <2>5. t \in Seq(Frames) /\ \A i \in 1..Len(t) : \E j \in 1..Len(up) : t[i] = up[j]
    BY <1>1, <2>3
  <2>6. FALSE => TRUE /\ recvNonce + 1 = recvNonce /\ s = partial
    OBVIOUS
  <2> HIDE DEF t, s
  <2>7. Carries(said, devNonce, t, devPending, recvNonce + 1, s, got, FALSE, FALSE, FALSE)
    BY Zenon, <1>3, <1>4, <1>5, <2>4, <2>5, <2>6, CarriesLess
  <2>. QED
    BY <2>1, <2>2, <2>7 DEF t, s
<1>8. CASE Head(up).nonce = recvNonce + 1 /\ (partial = NoPartial \/ quiet <= Timeout)
  <2>1. r = a
    BY Zenon, <1>8 DEF DecodeFragment, Decrypts
  <2>2. /\ a.why = "ok"
        /\ Carries(said, devNonce, Tail(up), devPending, recvNonce + 1, a.partial, got \o a.out,
                   TRUE, faithful, faithful)
    <3>1. CarriesOn(said, devNonce, up, devPending, recvNonce, partial, got, faithful, faithful, quiet)
      BY Zenon, <1>1, <1>4, <1>5, <1>8, CarriesRead
    <3>. QED
      BY Zenon, <3>1 DEF CarriesOn, a
  <2> DEFINE t == Tail(up)
             s == a.partial
             o == got \o a.out
             R2 == pc' # "closed"
             S2 == Steady'
  <2>3. /\ Carries(said, devNonce, t, devPending, recvNonce + 1, s, o, TRUE, faithful, faithful)
        /\ R2 \in BOOLEAN /\ S2 \in BOOLEAN /\ (R2 => TRUE) /\ (S2 => faithful) /\ faithful \in BOOLEAN
        /\ TRUE \in BOOLEAN
    BY <1>3, <2>2
  <2>4. a.why = "ok"
    BY <2>2
  <2> HIDE DEF a, r, t, s, o, R2, S2
  <2>5. Carries(said, devNonce, t, devPending, recvNonce + 1, s, o, R2, S2, S2)
    BY Zenon, <2>3, CarriesWeak
  <2>. QED
    BY <2>1, <2>4, <2>5 DEF t, s, o, R2, S2
<1>9. CASE Head(up).nonce = recvNonce + 1 /\ partial # NoPartial /\ quiet > Timeout
  <2>1. r = a
    BY Zenon, <1>9 DEF DecodeFragment, Decrypts
  <2>2. a = Refuse("late")
    BY <1>9 DEF AcceptFragment
  <2>3. r.why = "late" /\ r.out = <<>>
    BY <2>1, <2>2 DEF Refuse
  <2> HIDE DEF a, r
  <2>. QED
    BY <1>7, <2>3
<1>10. CASE Head(up).nonce # recvNonce + 1
  <2>1. r = Refuse("noise")
    BY Zenon, <1>10 DEF DecodeFragment, Decrypts
  <2>2. r.why = "noise" /\ r.out = <<>>
    BY <2>1 DEF Refuse
  <2> HIDE DEF r
  <2>. QED
    BY <1>6, <1>7, <1>10, <2>2
<1>. QED
  <2>1. quiet <= Timeout \/ quiet > Timeout
    BY <1>4, CodecRanges
  <2> HIDE DEF r, a
  <2>. QED
    BY <1>8, <1>9, <1>10, <2>1

\* Every other step.
LEMMA InwardStep == ASSUME Typed, Inward, [Next]_vars PROVE Inward'
<1> DEFINE R == pc # "closed"
<1>1. R \in BOOLEAN /\ R' \in BOOLEAN /\ (R' => R)
  BY ClosedStays
<1>2. Steady \in BOOLEAN /\ (peer' = peer => Steady' \in BOOLEAN /\ (Steady' => Steady))
  BY <1>1 DEF Steady
<1>3. CASE DeviceEncode
  <2>1. peer # "any" /\ pc # "closed" /\ devPending = <<>>
    BY <1>3, DeviceEncodeTyped
  <2>2. PICK e \in Envelopes :
           LET s == Encrypt(devNonce, Fragments(e))
           IN said' = Append(said, e) /\ devPending' = s /\ devNonce' = devNonce + Len(s)
    BY <1>3, DeviceEncodeTyped
  <2> DEFINE s == Encrypt(devNonce, Fragments(e))
  <2>3. said' = Append(said, e) /\ devPending' = s /\ devNonce' = devNonce + Len(s)
    BY <2>2
  <2>4. UNCHANGED <<loop, reader, up, peer>>
    BY <1>3 DEF DeviceEncode
  <2>5. said \in Seq(Envelopes)
    BY DEF Typed
  <2>6. Carries(said, devNonce, up, <<>>, recvNonce, partial, got, R, Steady, Steady)
    BY <2>1 DEF Inward
  <2>7. Carries(Append(said, e), devNonce + Len(s), up, s, recvNonce, partial, got, R, Steady, Steady)
    BY <1>1, <1>2, <2>5, <2>6, CarriesMore
  <2> HIDE DEF s
  <2>8. R' = R /\ Steady' = Steady
    BY <2>4 DEF loop, Steady
  <2>. QED
    BY <2>3, <2>4, <2>7, <2>8 DEF Inward, reader
<1>4. CASE DevicePut
  <2>1. /\ UNCHANGED <<devNonce, said, loop, reader, peer>> /\ devPending # <<>>
        /\ up' = Append(up, Head(devPending)) /\ devPending' = Tail(devPending)
    BY <1>4 DEF DevicePut
  <2>2. ASSUME peer # "any"
        PROVE  Carries(said, devNonce, Append(up, Head(devPending)), Tail(devPending), recvNonce, partial, got,
                       R, Steady, Steady)
    <3>1. Carries(said, devNonce, up, devPending, recvNonce, partial, got, R, Steady, Steady)
      BY <2>2 DEF Inward
    <3>. QED
      BY <1>1, <1>2, <2>1, <3>1, CarriesPut
  <2>3. R' = R /\ Steady' = Steady
    BY <2>1 DEF loop, Steady
  <2>. QED
    BY <2>1, <2>2, <2>3 DEF Inward, reader
<1>5. CASE Stray
  BY <1>5 DEF Stray, Inward
<1>6. CASE Mangle
  <2>1. up' \in Seq(Frames) /\ \A i \in 1..Len(up') : \E j \in 1..Len(up) : up'[i] = up[j]
    BY <1>6, MangleIs
  <2>2. UNCHANGED <<loop, reader, devOut, peer>> /\ peer = "relay"
    BY <1>6 DEF Mangle
  <2>3. Carries(said, devNonce, up, devPending, recvNonce, partial, got, R, Steady, Steady) /\ recvNonce \in Nat
    BY <2>2 DEF Inward, Typed
  <2>4. Carries(said, devNonce, up', devPending, recvNonce, partial, got, R, FALSE, FALSE)
    <3>1. R \in BOOLEAN /\ (R => R /\ recvNonce = recvNonce /\ partial = partial)
      BY <1>1
    <3> HIDE DEF R
    <3>. QED
      BY Zenon, <1>2, <2>1, <2>3, <3>1, CarriesLess
  <2>5. R' = R /\ Steady' = FALSE
    BY <2>2 DEF loop, Steady
  <2>. QED
    BY <2>2, <2>4, <2>5 DEF Inward, reader, devOut
<1>7. ASSUME UNCHANGED <<said, devNonce, up, devPending, recvNonce, partial, got, why, peer>> PROVE Inward'
  <2>1. ASSUME peer # "any"
        PROVE Carries(said, devNonce, up, devPending, recvNonce, partial, got, R', Steady', Steady')
    <3>1. Carries(said, devNonce, up, devPending, recvNonce, partial, got, R, Steady, Steady)
      BY <2>1 DEF Inward
    <3> DEFINE R2 == pc' # "closed"
               S2 == Steady'
    <3>2. R \in BOOLEAN /\ Steady \in BOOLEAN /\ R2 \in BOOLEAN /\ S2 \in BOOLEAN /\ (R2 => R) /\ (S2 => Steady)
      BY <1>1, <1>2, <1>7
    <3> HIDE DEF R, R2, S2
    <3>3. Carries(said, devNonce, up, devPending, recvNonce, partial, got, R2, S2, S2)
      BY ZenonT(60), <3>1, <3>2, CarriesWeak
    <3>. QED
      BY <3>3 DEF R, R2, S2
  <2>. QED
    BY <1>7, <2>1 DEF Inward
<1>8. CASE Produce \/ Encode \/ SendFragment \/ BatchSent \/ Outgoing \/ Revoked \/ Stop \/ DeviceReceive \/ Lost
  BY <1>7, <1>8 DEF Produce, Encode, SendFragment, BatchSent, Outgoing, Revoked, Stop, DeviceReceive, Lost,
                    reader, devOut
<1>9. CASE Tick \/ UNCHANGED vars
  BY <1>7, <1>9 DEF Tick, vars, reader, devOut
<1>. QED
  BY <1>3, <1>4, <1>5, <1>6, <1>8, <1>9, InwardRead DEF Next

-----------------------------------------------------------------------------
(* The theorems.                                                           *)

\* The inductive invariant.
WireInv == Typed /\ Numbers /\ Fresh /\ Outward /\ Inward

\* The invariant holds in every reachable state.
LEMMA Invariant == Spec => []WireInv
<1>1. Init => WireInv
  BY TypedInit, NumbersInit, FreshInit, DirectionsInit DEF WireInv
<1>2. WireInv /\ [Next]_vars => WireInv'
  BY TypedStep, NumbersStep, FreshStep, OutwardStep, InwardStep DEF WireInv
<1>. QED
  BY <1>1, <1>2, PTL DEF Spec

\* The first envelopes of a log.
FirstOf(out, log) ==
    /\ IsPrefix(out, log) /\ out \in Seq(Envelopes)
    /\ Len(out) <= Len(log) /\ \A i \in 1..Len(out) : out[i] = log[i]

\* What one side read is the first of what the other encoded.
LEMMA CarriesPrefix ==
    ASSUME NEW log \in Seq(Envelopes), NEW nonce, NEW wire, NEW left, NEW rn, NEW state, NEW out,
           NEW R, NEW O, NEW W,
           Carries(log, nonce, wire, left, rn, state, out, R, O, W)
    PROVE  FirstOf(out, log)
<1>0. PICK off : CarriesAt(log, off, nonce, wire, left, rn, state, out, R, O, W)
  BY DEF Carries
<1>1. PICK m \in 0..Len(log) : out = SubSeq(log, 1, m)
  BY Zenon, <1>0 DEF CarriesAt
<1>2. m \in Nat /\ m <= Len(log) /\ Len(log) \in Nat
  OBVIOUS
<1>3. \A i \in 1..m : log[i] \in Envelopes
  BY <1>2
<1>4. Len(SubSeq(log, 1, m)) = m /\ \A i \in 1..m : SubSeq(log, 1, m)[i] = log[i]
  BY <1>2
<1>5. Len(out) = m /\ \A i \in 1..m : out[i] = log[i]
  BY <1>1, <1>4
<1>6. IsPrefix(out, log)
  BY <1>1, <1>2, <1>5 DEF IsPrefix
<1>7. out \in Seq(Envelopes)
  BY <1>1, <1>2, <1>3, SubSeqProperties
<1>. QED
  BY <1>2, <1>5, <1>6, <1>7 DEF FirstOf

\* Every variable holds a value of its kind, and a half-received record has a
\* place and a number of fragments within the limits, whatever a peer sends
\* (frame_codec.rs:265-350, bridge.rs:1541-1696).
THEOREM TypeCorrect == Spec => []TypeOK
<1>1. WireInv => TypeOK
  <2> SUFFICES ASSUME WireInv PROVE TypeOK
    OBVIOUS
  <2>1. Typed
    BY DEF WireInv
  <2>2. partial # NoPartial => partial.next \in 1..(partial.count - 1) /\ partial.count \in 2..FragCap
    BY <2>1 DEF Typed, Partials
  <2>3. Len(up) <= WireCap + MaxFaults
    BY <2>1, WireConstants DEF Typed
  <2>. QED
    BY <2>1, <2>2, <2>3 DEF TypeOK, Typed
<1>. QED
  BY <1>1, Invariant, PTL

\* Towards the Device: it reads a prefix of what was sent and refuses nothing,
\* the numbers skip one at most, before the fatal error, and a message is left out
\* only for a newer frame of its pane (bridge.rs:1798-1813, bridge.rs:1879-1895,
\* connection.rs:304-316).
THEOREM OutgoingFaithful == Spec => []OutgoingIsFaithful
<1>1. WireInv => DeviceReadsWhatWasSent
  <2> SUFFICES ASSUME WireInv PROVE DeviceReadsWhatWasSent
    OBVIOUS
  <2>1. /\ Carries(sent, sendNonce, down, pending, devReadNonce, devPartial, read, TRUE, TRUE, pc # "closed")
        /\ devWhy = "ok" /\ sent \in Seq(Envelopes) /\ (pc # "closed") \in BOOLEAN
    BY DEF WireInv, Outward, Typed
  <2>2. IsPrefix(read, sent)
    BY <2>1, CarriesPrefix DEF FirstOf
  <2>. QED
    BY <2>1, <2>2 DEF DeviceReadsWhatWasSent
<1>2. WireInv => SkipsOnlyBeforeFatal
  BY DEF WireInv, Numbers, Numbered, IsFatal, SkipsOnlyBeforeFatal
<1>3. WireInv => NothingStale
  <2> SUFFICES ASSUME WireInv, pc = "select", outq = <<>>, NEW i \in 1..Len(made)
               PROVE  \/ made[i] \in {Body(sent[k]) : k \in 1..Len(sent)}
                      \/ \E j \in (i + 1)..Len(made) : Kind(made[i]) \in Panes /\ Kind(made[j]) = Kind(made[i])
    BY DEF NothingStale
  <2>1. batch = <<>> /\ Len(<<>>) = 0 /\ Len(made) \in Nat
    BY DEF WireInv, Numbers, Typed
  <2>2. i \in 1..(Len(made) - Len(outq))
    BY <2>1
  <2>3. Left(i)
    BY <2>2 DEF WireInv, Fresh, GoesOn
  <2>. QED
    BY <2>1, <2>3 DEF Left, Replaced
<1>. QED
  BY <1>1, <1>2, <1>3, Invariant, PTL DEF OutgoingIsFaithful

\* The fatal error of a revoked session is the last the Device reads
\* (bridge.rs:1646-1680).
THEOREM FatalLast == Spec => []FatalIsLast
<1>1. WireInv => FatalIsLast
  <2> SUFFICES ASSUME WireInv, NEW i \in 1..Len(read), Kind(Body(read[i])) = Fatal PROVE i = Len(sent)
    BY DEF FatalIsLast
  <2> DEFINE W == pc # "closed"
  <2>1. /\ Carries(sent, sendNonce, down, pending, devReadNonce, devPartial, read, TRUE, TRUE, W)
        /\ sent \in Seq(Envelopes) /\ W \in BOOLEAN /\ TRUE \in BOOLEAN
    BY DEF WireInv, Outward, Typed
  <2> HIDE DEF W
  <2>2. /\ Len(read) <= Len(sent) /\ read \in Seq(Envelopes)
        /\ \A k \in 1..Len(read) : read[k] = sent[k]
    <3>1. FirstOf(read, sent)
      BY Zenon, <2>1, CarriesPrefix
    <3>. QED
      BY <3>1 DEF FirstOf
  <2>3. i \in 1..Len(sent)
    BY <2>1, <2>2
  <2>4. IsFatal(Body(sent[i]))
    BY <2>2 DEF IsFatal
  <2>. QED
    BY <2>3, <2>4 DEF WireInv, Numbers, FatalEnds, NoneFatal
<1>. QED
  BY <1>1, Invariant, PTL

\* From the Device: the Host takes a prefix of what was said even behind a relay
\* that loses, repeats or swaps frames, refuses a faithful Device's fragment for
\* nothing but the time, and buffers no more than a record (frame_codec.rs:265-365,
\* noise.rs:150-156, bridge.rs:1582-1645).
THEOREM IncomingFaithful == Spec => []IncomingIsFaithful
<1>1. WireInv => HostReadsWhatWasSaid
  <2> SUFFICES ASSUME WireInv, peer # "any" PROVE IsPrefix(got, said)
    BY DEF HostReadsWhatWasSaid
  <2>1. /\ Carries(said, devNonce, up, devPending, recvNonce, partial, got, pc # "closed", Steady, Steady)
        /\ said \in Seq(Envelopes) /\ (pc # "closed") \in BOOLEAN /\ Steady \in BOOLEAN
    BY DEF WireInv, Inward, Typed, Steady
  <2>. QED
    BY <2>1, CarriesPrefix DEF FirstOf
<1>2. WireInv => FaithfulPeerKept
  BY DEF WireInv, Inward, FaithfulPeerKept
<1>3. WireInv => BufferBounded
  <2> SUFFICES ASSUME WireInv PROVE BufferBounded
    OBVIOUS
  <2>1. partial \in Partials /\ got \in Seq(Envelopes)
    BY DEF WireInv, Typed
  <2>2. Len(partial.buffer) <= RecordCap
    BY <2>1, CodecRanges DEF Partials, NoPartial
  <2>3. \A i \in 1..Len(got) : Len(got[i]) <= MaxLen
    BY <2>1 DEF Envelopes
  <2>. QED
    BY <2>2, <2>3 DEF BufferBounded
<1>. QED
  BY <1>1, <1>2, <1>3, Invariant, PTL DEF IncomingIsFaithful
=============================================================================
