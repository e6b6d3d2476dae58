-------------------------- MODULE HostActionsProofs --------------------------
(***************************************************************************)
(* Proofs about PaneInput and HostActions, for any devices, panes, lines and *)
(* requests: the shadow of a pane is the line the pane shows, every request  *)
(* is answered once and what was typed of it is read again, a composer line  *)
(* that is accepted is what the shadow says, and an invocation names the     *)
(* pane it opened.                                                         *)
(*                                                                         *)
(* Two things are proved about data first, both by induction on the number   *)
(* of keys or chunks: shadow_after_keys, which counts, is what Herdr makes   *)
(* of the keys one after the other (TypedAtOnce), and after one call of      *)
(* reconcile_line what is left of it is what reconcile_line would say of the *)
(* shadow after that call (ReconcileIs).  The library's induction theorems   *)
(* need an operator for a parameter; SetInduction is induction for a set,    *)
(* from the order of the natural numbers.                                   *)
(*                                                                         *)
(* The invariant then relates, for every session, what it is at to what was  *)
(* asked, taken and answered (Work), the calls it still has to make to the   *)
(* shadow of the pane (Calling), and the panes it compares to those Herdr    *)
(* ever had (Invoking).  Calling is stable because only the holder of the    *)
(* lock is in its calls (Locked).                                           *)
(***************************************************************************)
EXTENDS HostActions, TLAPS, SequenceTheorems, FiniteSetTheorems, WellFoundedInduction

\* The least number of a set.
LEMMA LeastNumber ==
    ASSUME NEW T \in SUBSET Nat, T # {}
    PROVE  \E m \in T : \A n \in T : m <= n
<1>1. PICK m \in T : \A n \in T : <<n, m>> \notin OpToRel(<, Nat)
  BY Zenon, NatLessThanWellFounded, WFMin
<1>2. OpToRel(<, Nat) = {ss \in Nat \X Nat : ss[1] < ss[2]}
  BY Zenon DEF OpToRel
<1>3. \A n \in T : <<n, m>> \notin {ss \in Nat \X Nat : ss[1] < ss[2]}
  BY Zenon, <1>1, <1>2
<1>4. ASSUME NEW n \in T, n < m PROVE FALSE
  <2>1. <<n, m>> \in {ss \in Nat \X Nat : ss[1] < ss[2]}
    BY <1>4
  <2>. QED
    BY <1>3, <2>1
<1>. QED
  BY <1>4

\* Induction, for what a set can say.
LEMMA SetInduction ==
    ASSUME NEW S, 0 \in S, \A n \in Nat : n \in S => n + 1 \in S
    PROVE  Nat \subseteq S
<1> SUFFICES ASSUME Nat \ S # {} PROVE FALSE
  OBVIOUS
<1>1. PICK m \in Nat \ S : \A n \in Nat \ S : m <= n
  BY LeastNumber
<1>. QED
  BY <1>1

\* The last member of the run of S that starts at a.
LEMMA RunEnds ==
    ASSUME NEW a \in Nat, NEW b \in Nat, NEW S, a \in S, a <= b, b + 1 \notin S
    PROVE  \E j \in a..b : /\ \A k \in a..j : k \in S
                           /\ j + 1 \notin S
<1> DEFINE T == {k \in Nat : a <= k /\ k + 1 \notin S}
<1>1. b \in T
  OBVIOUS
<1>2. PICK j \in T : \A n \in T : j <= n
  BY <1>1, LeastNumber
<1>3. ASSUME NEW k \in a..j, k \notin S PROVE FALSE
  <2>1. k # a /\ k \in Nat /\ k - 1 \in Nat /\ a <= k - 1 /\ (k - 1) + 1 = k
    BY <1>3
  <2>2. k - 1 \in T
    BY <1>3, <2>1
  <2>. QED
    BY <1>2, <2>1, <2>2
<1>. QED
  BY <1>1, <1>2, <1>3

-----------------------------------------------------------------------------
(* Typing keys, one after the other and all at once.                       *)

Backspace == Key(<<>>, "backspace")

Backs(keys, n)    == {i \in 1..n : keys[i] = Backspace}
Cleared(keys, n)  == \E i \in 1..n : ClearsLine(keys[i])
Typed1(l, keys, n) ==
    IF Cleared(keys, n) THEN <<>>
    ELSE Truncate(l, Least(Len(l), Cardinality(Backs(keys, n))))

\* One key more.
TypedKey(l, key) == IF ClearsLine(key) THEN <<>>
                    ELSE IF key = Backspace THEN Truncate(l, Least(1, Len(l)))
                    ELSE l

TypedBy(l, keys, f) ==
    f = [i \in 0..Len(keys) |-> IF i = 0 THEN l ELSE TypedKey(f[i - 1], keys[i])]

\* What Herdr makes of some keys, as the function that types one after the other.
LEMMA TypeKeysIs ==
    ASSUME NEW l, NEW keys
    PROVE TypeKeys(l, keys) = (CHOOSE f : TypedBy(l, keys, f))[Len(keys)]
BY DEF TypeKeys, TypedBy, TypedKey, Backspace

\* A line of which the end is removed.
LEMMA TruncateIs ==
    ASSUME NEW l \in Lines, NEW n \in 0..Len(l)
    PROVE  /\ Truncate(l, n) \in Lines
           /\ Len(Truncate(l, n)) = Len(l) - n
           /\ \A i \in 1..(Len(l) - n) : Truncate(l, n)[i] = l[i]
  BY DEF Truncate, Lines

\* The end of a line may be removed at once or in two parts.
LEMMA TruncateTwice ==
    ASSUME NEW l \in Lines, NEW n \in 0..Len(l), NEW m \in 0..(Len(l) - n)
    PROVE  Truncate(Truncate(l, n), m) = Truncate(l, n + m)
<1>1. /\ Truncate(l, n) \in Lines /\ Len(Truncate(l, n)) = Len(l) - n
      /\ \A i \in 1..(Len(l) - n) : Truncate(l, n)[i] = l[i]
  BY TruncateIs
<1>2. /\ Truncate(Truncate(l, n), m) \in Lines
      /\ Len(Truncate(Truncate(l, n), m)) = Len(l) - n - m
      /\ \A i \in 1..(Len(l) - n - m) : Truncate(Truncate(l, n), m)[i] = Truncate(l, n)[i]
  BY <1>1, TruncateIs
<1>3. /\ Truncate(l, n + m) \in Lines
      /\ Len(Truncate(l, n + m)) = Len(l) - n - m
      /\ \A i \in 1..(Len(l) - n - m) : Truncate(l, n + m)[i] = l[i]
  <2>1. n + m \in 0..Len(l) /\ Len(l) - (n + m) = Len(l) - n - m
    BY DEF Lines
  <2>. QED
    BY <2>1, TruncateIs
<1>4. \A i \in 1..(Len(l) - n - m) : Truncate(l, n)[i] = l[i]
  BY <1>1 DEF Lines
<1> DEFINE a == Truncate(Truncate(l, n), m)
           b == Truncate(l, n + m)
<1>5. /\ a \in Seq(Graphemes) /\ b \in Seq(Graphemes) /\ Len(a) = Len(b)
      /\ \A i \in 1..Len(a) : a[i] = b[i]
  BY <1>2, <1>3, <1>4 DEF Lines
<1>. QED
  BY <1>5, SeqEqual

\* The Backspaces among the first keys are counted one by one.
LEMMA BacksIs ==
    ASSUME NEW keys, NEW n \in Nat
    PROVE  /\ IsFiniteSet(Backs(keys, n)) /\ Cardinality(Backs(keys, n)) \in 0..n
           /\ Cardinality(Backs(keys, 0)) = 0
           /\ keys[n + 1] = Backspace
                => Cardinality(Backs(keys, n + 1)) = Cardinality(Backs(keys, n)) + 1
           /\ keys[n + 1] # Backspace => Backs(keys, n + 1) = Backs(keys, n)
<1>1. /\ IsFiniteSet(1..n) /\ Cardinality(1..n) = n
  BY FS_Interval
<1>2. /\ IsFiniteSet(Backs(keys, n)) /\ Cardinality(Backs(keys, n)) \in 0..n
  BY <1>1, FS_Subset, FS_CardinalityType DEF Backs
<1>3. Backs(keys, 0) = {}
  BY DEF Backs
<1>4. ASSUME keys[n + 1] = Backspace
      PROVE  Backs(keys, n + 1) = Backs(keys, n) \cup {n + 1} /\ n + 1 \notin Backs(keys, n)
  BY <1>4 DEF Backs
<1>5. ASSUME keys[n + 1] # Backspace PROVE Backs(keys, n + 1) = Backs(keys, n)
  BY <1>5 DEF Backs
<1>6. keys[n + 1] = Backspace => Cardinality(Backs(keys, n + 1)) = Cardinality(Backs(keys, n)) + 1
  BY <1>2, <1>4, FS_AddElement
<1>. QED
  BY <1>2, <1>3, <1>5, <1>6, FS_EmptySet

\* One key more: it clears the line, removes a grapheme or leaves the line alone.
LEMMA TypedStep ==
    ASSUME NEW l \in Lines, NEW keys, NEW n \in Nat
    PROVE  /\ Typed1(l, keys, n) \in Lines
           /\ Typed1(l, keys, 0) = l
           /\ Typed1(l, keys, n + 1) = TypedKey(Typed1(l, keys, n), keys[n + 1])
<1> DEFINE c == Cardinality(Backs(keys, n))
           d == Cardinality(Backs(keys, n + 1))
           key == keys[n + 1]
<1>1. c \in Nat /\ d \in Nat /\ Len(l) \in Nat /\ Cardinality(Backs(keys, 0)) = 0
  BY BacksIs DEF Lines
<1>2. (key = Backspace => d = c + 1) /\ (key # Backspace => d = c)
  BY BacksIs
<1>3. ~ClearsLine(Backspace)
  BY DEF ClearsLine, Backspace, Key
<1>4. Cleared(keys, n + 1) <=> (Cleared(keys, n) \/ ClearsLine(key))
  BY DEF Cleared
<1>5. <<>> \in Lines /\ Truncate(<<>>, Least(1, Len(<<>>))) = <<>>
  BY DEF Lines, Truncate, Least
<1>6. ~Cleared(keys, 0) /\ Truncate(l, 0) = l
  BY DEF Cleared, Truncate, Lines
<1>7. Least(Len(l), c) \in 0..Len(l) /\ Least(Len(l), 0) = 0
  BY <1>1 DEF Least
<1>8. Truncate(l, Least(Len(l), c)) \in Lines
  BY <1>7, TruncateIs
<1>9. ASSUME key = Backspace
      PROVE  Truncate(Truncate(l, Least(Len(l), c)), Least(1, Len(Truncate(l, Least(Len(l), c)))))
               = Truncate(l, Least(Len(l), d))
  <2>1. Len(Truncate(l, Least(Len(l), c))) = Len(l) - Least(Len(l), c)
    BY <1>7, TruncateIs
  <2>2. Least(1, Len(l) - Least(Len(l), c)) \in 0..(Len(l) - Least(Len(l), c))
    BY <1>1 DEF Least
  <2>3. Least(Len(l), c) + Least(1, Len(l) - Least(Len(l), c)) = Least(Len(l), d)
    BY <1>1, <1>2, <1>9 DEF Least
  <2>. QED
    BY <1>7, <2>1, <2>2, <2>3, TruncateTwice
<1> HIDE DEF c, d, key
<1>10. Typed1(l, keys, n) = IF Cleared(keys, n) THEN <<>> ELSE Truncate(l, Least(Len(l), c))
  BY DEF Typed1, c
<1>11. Typed1(l, keys, n + 1) = IF Cleared(keys, n + 1) THEN <<>> ELSE Truncate(l, Least(Len(l), d))
  BY DEF Typed1, d
<1>12. Typed1(l, keys, 0) = l
  BY <1>1, <1>6, <1>7 DEF Typed1
<1>13. Typed1(l, keys, n) \in Lines
  BY <1>5, <1>8, <1>10
<1>14. Typed1(l, keys, n + 1) = TypedKey(Typed1(l, keys, n), key)
  <2>1. CASE ClearsLine(key)
    BY <2>1, <1>4, <1>11 DEF TypedKey
  <2>2. CASE ~ClearsLine(key) /\ Cleared(keys, n)
    BY <2>2, <1>4, <1>5, <1>10, <1>11 DEF TypedKey
  <2>3. CASE ~ClearsLine(key) /\ ~Cleared(keys, n) /\ key = Backspace
    BY <2>3, <1>4, <1>9, <1>10, <1>11 DEF TypedKey
  <2>4. CASE ~ClearsLine(key) /\ ~Cleared(keys, n) /\ key # Backspace
    BY <2>4, <1>2, <1>4, <1>10, <1>11 DEF TypedKey
  <2>. QED
    BY <2>1, <2>2, <2>3, <2>4
<1>. QED
  BY <1>12, <1>13, <1>14 DEF key

\* shadow_after_keys, which looks for a clearing key and counts the Backspaces,
\* says what Herdr makes of the keys one after the other.
LEMMA TypedAtOnce ==
    ASSUME NEW l \in Lines, NEW keys \in Seq(KeyNames)
    PROVE  /\ TypeKeys(l, keys) = ShadowAfterKeys(l, keys)
           /\ TypeKeys(l, keys) \in Lines
<1> DEFINE g == [i \in 0..Len(keys) |-> Typed1(l, keys, i)]
           h == CHOOSE f : TypedBy(l, keys, f)
           S == {n \in Nat : n <= Len(keys) => h[n] = Typed1(l, keys, n)}
<1>0. Len(keys) \in Nat
  OBVIOUS
<1>1. TypedBy(l, keys, g)
  <2>1. ASSUME NEW i \in 0..Len(keys)
        PROVE  Typed1(l, keys, i) = IF i = 0 THEN l ELSE TypedKey(g[i - 1], keys[i])
    <3>1. CASE i = 0
      BY <3>1, TypedStep
    <3>2. CASE i # 0
      <4>1. i - 1 \in Nat /\ (i - 1) + 1 = i /\ i - 1 \in 0..Len(keys)
        BY <3>2
      <4>2. Typed1(l, keys, (i - 1) + 1) = TypedKey(Typed1(l, keys, i - 1), keys[(i - 1) + 1])
        BY <4>1, TypedStep
      <4>. QED
        BY <3>2, <4>1, <4>2
    <3>. QED
      BY <3>1, <3>2
  <2>. QED
    BY <2>1 DEF TypedBy
<1>2. TypedBy(l, keys, h)
  BY <1>1
<1>3. /\ h[0] = l
      /\ \A n \in Nat : n + 1 <= Len(keys) => h[n + 1] = TypedKey(h[n], keys[n + 1])
  <2> HIDE DEF h
  <2>. QED
    BY <1>0, <1>2 DEF TypedBy
<1> HIDE DEF h, g
<1>4. 0 \in S
  BY <1>3, TypedStep
<1>5. ASSUME NEW n \in Nat, n \in S PROVE n + 1 \in S
  BY <1>0, <1>3, <1>5, TypedStep
<1>6. Len(keys) \in S
  <2> HIDE DEF S
  <2>. QED
    BY <1>0, <1>4, <1>5, SetInduction
<1>7. TypeKeys(l, keys) = Typed1(l, keys, Len(keys))
  BY <1>6, <1>0, TypeKeysIs DEF h
<1>8. Typed1(l, keys, Len(keys)) = ShadowAfterKeys(l, keys)
  BY DEF Typed1, ShadowAfterKeys, Cleared, Backs, Backspace
<1>. QED
  BY <1>0, <1>7, <1>8, TypedStep
-----------------------------------------------------------------------------
(* The calls that turn one line into another.                              *)

Calls == [op : {"text"}, text : Lines \cup {Raw}] \cup [op : {"keys"}, keys : Seq(KeyNames)]

Agree(a, b, n) == n <= Len(a) /\ n <= Len(b) /\ SubSeq(a, 1, n) = SubSeq(b, 1, n)

\* To agree up to n is to have the same first n graphemes.
LEMMA AgreeIs ==
    ASSUME NEW a \in Lines, NEW b \in Lines, NEW n \in Nat
    PROVE  Agree(a, b, n) <=> n <= Len(a) /\ n <= Len(b) /\ \A i \in 1..n : a[i] = b[i]
<1>1. ASSUME n <= Len(a), n <= Len(b)
      PROVE  /\ SubSeq(a, 1, n) \in Seq(Graphemes) /\ Len(SubSeq(a, 1, n)) = n
             /\ SubSeq(b, 1, n) \in Seq(Graphemes) /\ Len(SubSeq(b, 1, n)) = n
             /\ \A i \in 1..n : SubSeq(a, 1, n)[i] = a[i] /\ SubSeq(b, 1, n)[i] = b[i]
  BY <1>1 DEF Lines
<1>. QED
  BY <1>1, SeqEqual DEF Agree

\* CommonPrefix is the length up to which two lines agree, and no further.
LEMMA PrefixIs ==
    ASSUME NEW a \in Lines, NEW b \in Lines
    PROVE  /\ CommonPrefix(a, b) \in 0..Len(a)
           /\ Agree(a, b, CommonPrefix(a, b)) /\ ~Agree(a, b, CommonPrefix(a, b) + 1)
<1> DEFINE S == {n \in Nat : Agree(a, b, n)}
<1>1. 0 \in S /\ Len(a) \in Nat /\ 0 <= Len(a) /\ Len(a) + 1 \notin S
  BY AgreeIs DEF Lines, Agree
<1>2. \E n \in 0..Len(a) : n \in S /\ n + 1 \notin S
  <2> HIDE DEF S
  <2>1. PICK j \in 0..Len(a) : (\A k \in 0..j : k \in S) /\ j + 1 \notin S
    BY <1>1, RunEnds
  <2>. QED
    BY <2>1
<1>3. \E n \in 0..Len(a) : Agree(a, b, n) /\ ~Agree(a, b, n + 1)
  BY <1>2
<1>. QED
  BY <1>3 DEF CommonPrefix, Agree

\* The common prefix is the length at which the agreement ends.
LEMMA PrefixUnique ==
    ASSUME NEW a \in Lines, NEW b \in Lines, NEW n \in Nat, Agree(a, b, n), ~Agree(a, b, n + 1)
    PROVE  CommonPrefix(a, b) = n
<1> DEFINE m == CommonPrefix(a, b)
<1>1. m \in Nat /\ Agree(a, b, m) /\ ~Agree(a, b, m + 1)
  BY PrefixIs
<1> HIDE DEF m
<1>2. Len(a) \in Nat /\ Len(b) \in Nat
  BY DEF Lines
<1>3. ~(n < m)
  <2>1. n < m => n + 1 <= m
    BY <1>1
  <2>. QED
    BY <1>1, <1>2, <2>1, AgreeIs
<1>4. ~(m < n)
  <2>1. m < n => m + 1 <= n
    BY <1>1
  <2>. QED
    BY <1>1, <1>2, <2>1, AgreeIs
<1>. QED
  BY <1>1, <1>3, <1>4 DEF m

\* It is not changed by what is removed after it.
LEMMA PrefixStays ==
    ASSUME NEW a \in Lines, NEW b \in Lines, NEW k \in 0..(Len(a) - CommonPrefix(a, b))
    PROVE  CommonPrefix(Truncate(a, k), b) = CommonPrefix(a, b)
<1> DEFINE n == CommonPrefix(a, b)
           c == Truncate(a, k)
<1>1. n \in 0..Len(a) /\ Agree(a, b, n) /\ ~Agree(a, b, n + 1)
  BY PrefixIs
<1>2. Len(a) \in Nat /\ Len(b) \in Nat /\ k \in 0..Len(a)
  BY <1>1 DEF Lines
<1>3. c \in Lines /\ Len(c) = Len(a) - k /\ \A i \in 1..(Len(a) - k) : c[i] = a[i]
  BY <1>2, TruncateIs
<1> HIDE DEF n, c
<1>4. n <= Len(a) - k
  BY <1>1, <1>2 DEF n
<1>5. n <= Len(b) /\ (\A i \in 1..n : a[i] = b[i])
  BY <1>1, AgreeIs
<1>6. ~(n + 1 <= Len(a) /\ n + 1 <= Len(b) /\ \A i \in 1..(n + 1) : a[i] = b[i])
  BY <1>1, AgreeIs
<1>7. Agree(c, b, n)
  BY <1>1, <1>2, <1>3, <1>4, <1>5, AgreeIs
<1>8. ~Agree(c, b, n + 1)
  <2> SUFFICES ASSUME Agree(c, b, n + 1) PROVE FALSE
    OBVIOUS
  <2>1. n + 1 <= Len(c) /\ n + 1 <= Len(b) /\ \A i \in 1..(n + 1) : c[i] = b[i]
    BY <1>1, <1>3, AgreeIs
  <2>. QED
    BY <1>1, <1>2, <1>3, <1>6, <2>1
<1>. QED
  BY <1>1, <1>3, <1>7, <1>8, PrefixUnique DEF n, c

\* The call that types some Backspaces.
LEMMA BackspacesIs ==
    ASSUME NEW n \in Nat
    PROVE  /\ Backspaces(n) \in Calls /\ Backspaces(n).op = "keys"
           /\ Backspaces(n).keys \in Seq(KeyNames) /\ Len(Backspaces(n).keys) = n
           /\ \A i \in 1..n : Backspaces(n).keys[i] = Backspace
<1>1. Backspace \in KeyNames
  BY DEF Backspace, Key, KeyNames, Bases, Named
<1>. QED
  BY <1>1 DEF Backspaces, Keys, Calls, Backspace

\* The head and the tail of two sequences, of which the first is not empty.
LEMMA HeadTailConcat ==
    ASSUME NEW S, NEW s \in Seq(S), NEW t \in Seq(S), s # <<>>
    PROVE  /\ s \o t # <<>> /\ Head(s \o t) = Head(s) /\ Tail(s \o t) = Tail(s) \o t
<1>1. /\ s \o t \in Seq(S) /\ Len(s \o t) = Len(s) + Len(t) /\ Len(s) \in Nat \ {0} /\ Len(t) \in Nat
      /\ \A i \in 1..(Len(s) + Len(t)) : (s \o t)[i] = IF i <= Len(s) THEN s[i] ELSE t[i - Len(s)]
  OBVIOUS
<1>2. /\ Tail(s) \in Seq(S) /\ Len(Tail(s)) = Len(s) - 1
      /\ \A i \in 1..(Len(s) - 1) : Tail(s)[i] = s[i + 1]
  OBVIOUS
<1>3. s \o t # <<>> /\ Head(s \o t) = Head(s)
  BY <1>1
<1> DEFINE a == Tail(s \o t)
           b == Tail(s) \o t
<1>4. /\ a \in Seq(S) /\ Len(a) = Len(s) + Len(t) - 1
      /\ \A i \in 1..(Len(s) + Len(t) - 1) : a[i] = (s \o t)[i + 1]
  BY <1>1, <1>3, HeadTailProperties
<1>5. /\ b \in Seq(S) /\ Len(b) = Len(s) + Len(t) - 1
      /\ \A i \in 1..(Len(s) + Len(t) - 1) :
           b[i] = IF i <= Len(s) - 1 THEN Tail(s)[i] ELSE t[i - (Len(s) - 1)]
  BY <1>1, <1>2
<1> HIDE DEF a, b
<1>6. ASSUME NEW i \in 1..Len(a) PROVE a[i] = b[i]
  <2>1. i \in Int /\ i + 1 \in 1..(Len(s) + Len(t)) /\ (i + 1 <= Len(s) <=> i <= Len(s) - 1)
        /\ (i + 1) - Len(s) = i - (Len(s) - 1)
    BY <1>1, <1>4
  <2>. QED
    BY <1>1, <1>2, <1>4, <1>5, <2>1
<1>7. a = b
  BY <1>4, <1>5, <1>6, SeqEqual
<1>. QED
  BY <1>3, <1>7 DEF a, b

\* One chunk, and the rest.
LEMMA ChunksAre ==
    ASSUME NEW n \in Nat
    PROVE  /\ Chunks(n) \in Seq(Calls)
           /\ Chunks(n) = <<>> <=> n = 0
           /\ n > 0 => /\ Head(Chunks(n)) = Backspaces(Least(KeyLimit, n))
                       /\ Tail(Chunks(n)) = Chunks(n - Least(KeyLimit, n))
<1> DEFINE K == KeyLimit
           q == n \div K
           r == n % K
           fulls(m) == [i \in 1..m |-> Backspaces(K)]
           rest(m) == IF m = 0 THEN <<>> ELSE <<Backspaces(m)>>
<1>1. K \in Nat \ {0}
  BY InputAssumption
<1>2. q \in Nat /\ r \in 0..(K - 1) /\ n = K * q + r
  BY <1>1
<1>3. ASSUME NEW m \in Nat PROVE fulls(m) \in Seq(Calls) /\ Len(fulls(m)) = m /\ rest(m) \in Seq(Calls)
  BY <1>1, BackspacesIs
<1>4. Chunks(n) = fulls(q) \o rest(r)
  BY DEF Chunks
<1>5. ASSUME n < K
      PROVE  q = 0 /\ r = n
  BY <1>1, <1>5
<1>6. ASSUME n >= K
      PROVE  /\ q \in Nat \ {0} /\ n - K \in Nat
             /\ (n - K) \div K = q - 1 /\ (n - K) % K = r
  BY <1>1, <1>6
<1>7. ASSUME n >= K PROVE Chunks(n - K) = fulls(q - 1) \o rest(r)
  BY <1>6, <1>7 DEF Chunks
<1> HIDE DEF K, q, r
<1>8. fulls(0) = <<>>
  OBVIOUS
<1>9. CASE n < K
  <2>1. Chunks(n) = rest(n)
    BY <1>3, <1>4, <1>5, <1>8, <1>9
  <2>2. Chunks(0) = <<>>
    BY <1>1 DEF Chunks, K
  <2>3. n > 0 => Least(K, n) = n
    BY <1>1, <1>9 DEF Least
  <2>. QED
    BY <1>3, <2>1, <2>2, <2>3 DEF K
<1>10. CASE n >= K
  <2>1. Least(K, n) = K /\ n > 0
    BY <1>1, <1>10 DEF Least
  <2>2. fulls(q) # <<>> /\ Head(fulls(q)) = Backspaces(K) /\ Tail(fulls(q)) = fulls(q - 1)
    BY <1>6, <1>10
  <2>3. fulls(q) \in Seq(Calls) /\ rest(r) \in Seq(Calls)
    BY <1>2, <1>3
  <2> HIDE DEF fulls, rest
  <2>4. /\ fulls(q) \o rest(r) # <<>>
        /\ Head(fulls(q) \o rest(r)) = Head(fulls(q))
        /\ Tail(fulls(q) \o rest(r)) = Tail(fulls(q)) \o rest(r)
    BY <2>2, <2>3, HeadTailConcat
  <2>5. Chunks(n) \in Seq(Calls)
    BY <1>4, <2>3
  <2>. QED
    <3>1. Chunks(n) # <<>> /\ Head(Chunks(n)) = Backspaces(K) /\ Tail(Chunks(n)) = fulls(q - 1) \o rest(r)
      BY <1>4, <2>2, <2>4
    <3>2. Tail(Chunks(n)) = Chunks(n - K)
      BY <1>7, <1>10, <3>1
    <3>. QED
      BY <2>1, <2>5, <3>1, <3>2 DEF K
<1>. QED
  BY <1>1, <1>2, <1>9, <1>10
\* Its keys are all Backspace.
LEMMA ChunksBack ==
    ASSUME NEW n \in Nat, NEW i \in 1..Len(Chunks(n))
    PROVE  Chunks(n)[i] \in {Backspaces(m) : m \in Nat}
<1> DEFINE q == n \div KeyLimit
           r == n % KeyLimit
           fulls == [j \in 1..q |-> Backspaces(KeyLimit)]
           rest == IF r = 0 THEN <<>> ELSE <<Backspaces(r)>>
           B == {Backspaces(m) : m \in Nat}
<1>1. KeyLimit \in Nat /\ q \in Nat /\ r \in Nat
  BY InputAssumption
<1>2. Backspaces(KeyLimit) \in B /\ Backspaces(r) \in B
  BY <1>1
<1>3. Chunks(n) = fulls \o rest
  BY DEF Chunks
<1> HIDE DEF q, r, B
<1>4. fulls \in Seq(B) /\ rest \in Seq(B)
  BY <1>1, <1>2
<1>5. Chunks(n) \in Seq(B)
  BY <1>3, <1>4
<1>. QED
  BY <1>5 DEF B

\* What is left to do after one call of reconcile_line.
LEMMA ReconcileIs ==
    ASSUME NEW old \in Lines, NEW new \in Lines
    PROVE  /\ ReconcileLine(old, new) \in Seq(Calls)
           /\ ReconcileLine(old, new) = <<>> => old = new
           /\ ReconcileLine(old, new) # <<>> =>
                \/ \E k \in 1..Len(old) :
                      /\ Head(ReconcileLine(old, new)) = Backspaces(k)
                      /\ Tail(ReconcileLine(old, new)) = ReconcileLine(Truncate(old, k), new)
                \/ \E t \in Lines :
                      /\ ReconcileLine(old, new) = <<Text(t)>>
                      /\ old \o t = new
<1> DEFINE n == CommonPrefix(old, new)
           d == Len(old) - n
           t == SubSeq(new, n + 1, Len(new))
           tail == IF n = Len(new) THEN <<>> ELSE <<Text(t)>>
           todo == ReconcileLine(old, new)
<1>1. n \in 0..Len(old) /\ Agree(old, new, n)
  BY PrefixIs
<1>2. Len(old) \in Nat /\ Len(new) \in Nat /\ n <= Len(new)
  BY <1>1 DEF Lines, Agree
<1>3. d \in Nat
  BY <1>1, <1>2
<1>4. t \in Lines
  BY <1>1, <1>2 DEF Lines
<1>5. tail \in Seq(Calls)
  <2>1. Text(t) \in Calls
    BY <1>4 DEF Text, Calls
  <2>. QED
    BY <2>1
<1>6. todo = Chunks(d) \o tail
  BY DEF ReconcileLine
<1> HIDE DEF tail, todo
<1>7. todo \in Seq(Calls)
  BY <1>3, <1>5, <1>6, ChunksAre
<1>8. CASE d = 0
  <2>1. todo = tail
    <3>1. Chunks(d) = <<>>
      BY <1>8, ChunksAre
    <3>. QED
      BY <1>5, <1>6, <3>1
  <2>2. old \o t = new
    <3>1. old = SubSeq(new, 1, n)
      <4>1. n = Len(old)
        BY <1>1, <1>2, <1>8
      <4>2. SubSeq(old, 1, Len(old)) = old
        BY DEF Lines
      <4>. QED
        BY <1>1, <4>1, <4>2 DEF Agree
    <3>2. SubSeq(new, 1, n) \o SubSeq(new, n + 1, Len(new)) = new
      <4>1. new \in Seq(Graphemes) /\ SubSeq(new, 1, Len(new)) = new
        BY SubSeqFull DEF Lines
      <4>2. /\ 1 \in 1..(Len(new) + 1) /\ n \in (1 - 1)..Len(new) /\ Len(new) \in n..Len(new)
        BY <1>1, <1>2
      <4> HIDE DEF n
      <4>3. SubSeq(new, 1, n) \o SubSeq(new, n + 1, Len(new)) = SubSeq(new, 1, Len(new))
        BY <4>1, <4>2, ConcatAdjacentSubSeq
      <4>. QED
        BY <4>1, <4>3
    <3>. QED
      BY <3>1, <3>2
  <2>3. n = Len(new) => old = new
    <3>1. n = Len(new) => t = <<>>
      BY <1>2, <1>4 DEF Lines
    <3>2. old \o <<>> = old
      BY DEF Lines
    <3>. QED
      BY <2>2, <3>1, <3>2
  <2>. QED
    <3>1. CASE n = Len(new)
      BY <1>7, <2>1, <2>3, <3>1 DEF todo, tail
    <3>2. CASE n # Len(new)
      <4>1. ReconcileLine(old, new) = <<Text(t)>>
        BY <2>1, <3>2 DEF todo, tail
      <4> HIDE DEF t
      <4>. QED
        BY <1>4, <1>7, <2>2, <4>1 DEF todo
    <3>. QED
      BY <3>1, <3>2
<1>11. \A k \in 0..d : Len(Truncate(old, k)) - n = d - k /\ k \in 0..Len(old)
  <2> TAKE k \in 0..d
  <2>1. k \in 0..Len(old)
    BY <1>1, <1>2
  <2>2. Len(Truncate(old, k)) = Len(old) - k
    BY <2>1, TruncateIs
  <2>. QED
    BY <1>1, <1>2, <2>1, <2>2
<1>12. \A k \in 0..d : ReconcileLine(Truncate(old, k), new) = Chunks(d - k) \o tail
  <2> TAKE k \in 0..d
  <2>1. CommonPrefix(Truncate(old, k), new) = n
    BY PrefixStays
  <2>. QED
    BY <1>11, <2>1 DEF ReconcileLine, tail
<1>9. ASSUME d > 0
      PROVE  \E k \in 1..Len(old) :
                      /\ todo # <<>>
                      /\ Head(todo) = Backspaces(k)
                      /\ Tail(todo) = ReconcileLine(Truncate(old, k), new)
  <2> HIDE DEF d
  <2> DEFINE k == Least(KeyLimit, d)
  <2>1. k \in 1..d /\ k \in 0..d
    BY <1>3, <1>9, InputAssumption DEF Least
  <2>2. /\ Chunks(d) # <<>> /\ Chunks(d) \in Seq(Calls)
        /\ Head(Chunks(d)) = Backspaces(k) /\ Tail(Chunks(d)) = Chunks(d - k)
    <3>1. d # 0
      BY <1>3, <1>9
    <3>. QED
      BY Zenon, <1>3, <1>9, <3>1, ChunksAre
  <2> HIDE DEF k
  <2>3. todo # <<>> /\ Head(todo) = Backspaces(k) /\ Tail(todo) = Chunks(d - k) \o tail
    <3> DEFINE c == Chunks(d)
    <3>1. c \in Seq(Calls) /\ c # <<>>
      BY <2>2
    <3>2. Head(c) = Backspaces(k) /\ Tail(c) = Chunks(d - k) /\ todo = c \o tail
      BY <1>6, <2>2
    <3> HIDE DEF c
    <3>3. c \o tail # <<>> /\ Head(c \o tail) = Head(c) /\ Tail(c \o tail) = Tail(c) \o tail
      BY <1>5, <3>1, HeadTailConcat
    <3>. QED
      BY Zenon, <3>2, <3>3
  <2>6. ReconcileLine(Truncate(old, k), new) = Chunks(d - k) \o tail
    BY <1>12, <2>1
  <2>7. k \in 1..Len(old)
    BY <1>11, <2>1
  <2>. QED
    BY <2>3, <2>6, <2>7
<1>10. d = 0 \/ d > 0
  BY <1>3
<1>13. CASE d > 0
  BY <1>7, <1>9, <1>13 DEF todo
<1>. QED
  BY <1>8, <1>10, <1>13

-----------------------------------------------------------------------------
(* Keys and calls.                                                         *)

Rank(m) == CHOOSE i \in 1..3 : PermittedModifiers[i] = m
FineKey(k) ==
    /\ \A i \in 1..Len(k.mods) : k.mods[i] \in {"ctrl", "alt", "shift"}
    /\ \A i \in 2..Len(k.mods) : Rank(k.mods[i - 1]) < Rank(k.mods[i])
    /\ k.base # "unknown"

\* The place of each modifier in the order in which Herdr wants them.
LEMMA RankIs == Rank("ctrl") = 1 /\ Rank("alt") = 2 /\ Rank("shift") = 3
<1>1. PermittedModifiers[1] = "ctrl" /\ PermittedModifiers[2] = "alt" /\ PermittedModifiers[3] = "shift"
  BY DEF PermittedModifiers
<1>2. /\ \E i \in 1..3 : PermittedModifiers[i] = "ctrl"
      /\ \E i \in 1..3 : PermittedModifiers[i] = "alt"
      /\ \E i \in 1..3 : PermittedModifiers[i] = "shift"
  BY <1>1
<1>3. /\ \A i \in 1..3 : PermittedModifiers[i] = "ctrl" => i = 1
      /\ \A i \in 1..3 : PermittedModifiers[i] = "alt" => i = 2
      /\ \A i \in 1..3 : PermittedModifiers[i] = "shift" => i = 3
  BY <1>1
<1>4. Rank("ctrl") = 1
  BY <1>2, <1>3 DEF Rank
<1>5. Rank("alt") = 2
  BY <1>2, <1>3 DEF Rank
<1>6. Rank("shift") = 3
  BY <1>2, <1>3 DEF Rank
<1>. QED
  BY <1>4, <1>5, <1>6

\* Two sequences of one are a sequence of two.
LEMMA TwoWords ==
    ASSUME NEW p, NEW q
    PROVE  <<p>> \o <<q>> = <<p, q>>
<1> DEFINE S == {p, q}
           a == <<p>> \o <<q>>
           b == <<p, q>>
<1>1. p \in S /\ q \in S
  OBVIOUS
<1> HIDE DEF S
<1>2. a \in Seq(S) /\ Len(a) = 2 /\ a[1] = p /\ a[2] = q
  BY <1>1
<1>3. b \in Seq(S) /\ Len(b) = 2 /\ b[1] = p /\ b[2] = q
  BY <1>1
<1> HIDE DEF a, b
<1>4. a = b
  BY <1>2, <1>3, SeqEqual
<1>. QED
  BY <1>4 DEF a, b

\* The empty sequence adds nothing.
LEMMA NoWord ==
    ASSUME NEW p, NEW q
    PROVE  <<>> \o <<p>> = <<p>> /\ <<p>> \o <<>> = <<p>> /\ <<p, q>> \o <<>> = <<p, q>>
<1> DEFINE S == {p, q}
<1>1. <<p>> \in Seq(S) /\ <<p, q>> \in Seq(S)
  OBVIOUS
<1> HIDE DEF S
<1>. QED
  BY <1>1, ConcatEmptySeq

\* A sequence of two and one of one are a sequence of three.
LEMMA ThreeWords ==
    ASSUME NEW p, NEW q, NEW r
    PROVE  <<p, q>> \o <<r>> = <<p, q, r>>
<1> DEFINE S == {p, q, r}
           a == <<p, q>> \o <<r>>
           b == <<p, q, r>>
<1>1. p \in S /\ q \in S /\ r \in S
  OBVIOUS
<1> HIDE DEF S
<1>2. a \in Seq(S) /\ Len(a) = 3 /\ a[1] = p /\ a[2] = q /\ a[3] = r
  BY <1>1
<1>3. b \in Seq(S) /\ Len(b) = 3 /\ b[1] = p /\ b[2] = q /\ b[3] = r
  BY <1>1
<1> HIDE DEF a, b
<1>4. a = b
  BY <1>2, <1>3, SeqEqual
<1>. QED
  BY <1>4 DEF a, b

\* What validate_key lets through is a key that Herdr knows, with modifiers in
\* Herdr's order and none twice.
LEMMA PermittedKeyIsFine ==
    ASSUME NEW k \in KeyNames, ValidateKey(k)
    PROVE  FineKey(k)
<1>1. k.base # "unknown"
  BY DEF ValidateKey, Named, Chars
<1>2. CASE k.mods = <<>>
  BY <1>1, <1>2 DEF FineKey
<1>3. CASE k.mods # <<>>
  <2> DEFINE mods == Filtered(k.mods)
  <2>1. mods \in {<<>>, <<"ctrl">>, <<"alt">>, <<"shift">>, <<"ctrl", "alt">>, <<"ctrl", "shift">>,
                  <<"alt", "shift">>, <<"ctrl", "alt", "shift">>}
    <3>1. PICK a \in {<<>>, <<"ctrl">>}, b \in {<<>>, <<"alt">>}, c \in {<<>>, <<"shift">>} :
             mods = a \o b \o c
      BY DEF Filtered
    <3>2. \A x : <<>> \o <<x>> = <<x>> /\ <<x>> \o <<>> = <<x>>
      BY NoWord
    <3>4. \A x, y : <<x, y>> \o <<>> = <<x, y>>
      BY NoWord
    <3>5. <<>> \o <<>> = <<>>
      OBVIOUS
    <3>6. \A p, q : <<p>> \o <<q>> = <<p, q>>
      BY TwoWords
    <3>7. \A p, q, r : <<p, q>> \o <<r>> = <<p, q, r>>
      BY ThreeWords
    <3>9. a \o b = <<>> \/ a \o b = <<"ctrl">> \/ a \o b = <<"alt">> \/ a \o b = <<"ctrl", "alt">>
      BY Zenon, <3>2, <3>5, <3>6
    <3> DEFINE d == a \o b
    <3> HIDE DEF d
    <3>3. d \o c \in {<<>>, <<"ctrl">>, <<"alt">>, <<"shift">>, <<"ctrl", "alt">>,
                     <<"ctrl", "shift">>, <<"alt", "shift">>, <<"ctrl", "alt", "shift">>}
      <4>1. c = <<>> \/ c = <<"shift">>
        BY Zenon
      <4>2. CASE c = <<>>
        BY Zenon, <3>2, <3>4, <3>5, <3>9, <4>2 DEF d
      <4>3. CASE c = <<"shift">>
        <5>1. d \o c \in {<<"shift">>, <<"ctrl", "shift">>, <<"alt", "shift">>, <<"ctrl", "alt", "shift">>}
          <6>1. CASE d = <<>>
            BY Zenon, <3>2, <4>3, <6>1
          <6>2. CASE d = <<"ctrl">>
            BY Zenon, <3>6, <4>3, <6>2
          <6>3. CASE d = <<"alt">>
            BY Zenon, <3>6, <4>3, <6>3
          <6>4. CASE d = <<"ctrl", "alt">>
            BY Zenon, <3>7, <4>3, <6>4
          <6>. QED
            BY Zenon, <3>9, <6>1, <6>2, <6>3, <6>4 DEF d
        <5>. QED
          BY Zenon, <5>1
      <4>. QED
        BY Zenon, <4>1, <4>2, <4>3
    <3>. QED
      BY <3>1, <3>3 DEF d
  <2>2. k.mods = mods
    BY <1>3 DEF ValidateKey
  <2> HIDE DEF mods
  <2>3. \A i \in 1..Len(mods) : mods[i] \in {"ctrl", "alt", "shift"}
    BY <2>1
  <2>4. \A i \in 2..Len(mods) : Rank(mods[i - 1]) < Rank(mods[i])
    BY <2>1, RankIs
  <2>. QED
    BY <1>1, <2>2, <2>3, <2>4 DEF FineKey
<1>. QED
  BY <1>2, <1>3

\* The key that reconcile_line types is one of those.
LEMMA BackspaceIsFine == FineKey(Backspace)
  BY DEF FineKey, Backspace, Key

\* A call is confirmed or not; one to a pane that is gone is not carried out.
LEMMA CallIs ==
    ASSUME NEW there \in BOOLEAN, NEW again \in BOOLEAN, NEW out \in Call(there, again)
    PROVE  /\ out.ok \in BOOLEAN /\ out.times \in Nat
           /\ ~there => ~out.ok /\ out.times = 0
<1>1. ASSUME NEW t \in BOOLEAN, NEW a \in Attempts(t)
      PROVE  /\ a.done \in {0, 1}
             /\ ~t => a.done = 0 /\ a.res # "ok"
  BY <1>1 DEF Attempts, Exchange
<1>2. CASE \E a \in Attempts(there) : out = [ok |-> a.res = "ok", times |-> a.done]
  BY <1>1, <1>2
<1>3. CASE \E a \in Attempts(there) : \E b \in Attempts(there /\ (again \/ a.done = 0)) :
              out = [ok |-> b.res = "ok", times |-> a.done + b.done]
  <2>1. PICK a \in Attempts(there) : \E b \in Attempts(there /\ (again \/ a.done = 0)) :
              out = [ok |-> b.res = "ok", times |-> a.done + b.done]
    BY <1>3
  <2>2. PICK b \in Attempts(there /\ (again \/ a.done = 0)) :
              out = [ok |-> b.res = "ok", times |-> a.done + b.done]
    BY <2>1
  <2>3. (there /\ (again \/ a.done = 0)) \in BOOLEAN
    OBVIOUS
  <2>4. a.done \in {0, 1} /\ (~there => a.done = 0)
    BY <1>1
  <2>5. b.done \in {0, 1} /\ (~there => b.done = 0 /\ b.res # "ok")
    BY <1>1, <2>3
  <2>. QED
    BY <2>2, <2>4, <2>5
<1>. QED
  BY <1>2, <1>3 DEF Call

-----------------------------------------------------------------------------
(* The inductive invariant.                                                *)

Answers == [ok : BOOLEAN, pane : Panes \cup {None}, read : BOOLEAN, wrote : Nat, most : Nat]

Typed ==
    /\ open \subseteq known /\ known \subseteq Panes
    /\ line \in [Panes -> Lines] /\ shadow \in [Panes -> Lines]
    /\ watched \in [Sessions -> Panes]
    /\ asked \in [Sessions -> Seq(InputRequests \cup ActionRequests)]
    /\ \A s \in Sessions : Len(asked[s]) <= MaxAsks
    /\ taken \in [Sessions -> Nat]
    /\ job \in [Sessions -> InputJobs \cup ActionJobs \cup {None}]
    /\ answers \in [Sessions -> Seq(Answers)]
    /\ unsure \subseteq Panes /\ faults \in 0..MaxFaults

\* What a session is at was asked for, was checked, and is answered next: q
\* is what was asked, n how much of it was taken and a how much answered.
Work(j, q, n, a) ==
    /\ n <= Len(q)
    /\ j = None => n = a
    /\ j # None => n = a + j.n /\ j.n > 0 /\ j.req = q[n]
    /\ j \in InputJobs =>
         /\ ValidateSendInput(j.req) /\ (j.at = "lock" => j.wrote = 0)
         /\ \A i \in (a + 1)..n : i = n \/ (IsLine(j.req) /\ IsLine(q[i]))

\* The calls that are left turn the shadow l into the line, or are the text
\* and the keys of which the first may be done.
Calling(j, l) ==
    j # None /\ j.at = "call" =>
        /\ j.todo # <<>>
        /\ j.req.line # None =>
             /\ j.todo = ReconcileLine(l, j.req.line)
             /\ IF j.wrote = 0 THEN Len(l) = j.old ELSE Len(l) < j.old
        /\ j.req.line = None =>
             \/ j.wrote = 0 /\ j.todo = ForwardInput(j.req) /\ Len(l) = j.old
             \/ /\ j.req.text # None /\ j.req.keys # None /\ j.todo = <<Keys(j.req.keys)>>
                /\ ~j.req.bypass /\ j.req.text \notin {Raw, <<>>} => Len(l) # j.old

\* What is compared after an invocation was open before it, or is new.
Invoking(j, op, kn) ==
    j # None /\ j.at \in {"invoke", "after"} =>
        j.before \subseteq j.since /\ j.since \subseteq kn /\ op \cap j.since \subseteq j.before

\* WritesAreRead for one session.
Read(q, ans) ==
    \A i \in 1..Len(ans) :
        /\ q[i].do = "input"
        /\ ans[i].wrote > 0
        /\ ~q[i].bypass /\ q[i].text \notin {Raw, <<>>}
        => ans[i].read

SessionOK(s) ==
    /\ Work(job[s], asked[s], taken[s], Len(answers[s]))
    /\ job[s] # None /\ job[s].at = "call" => Calling(job[s], shadow[job[s].req.pane])
    /\ Invoking(job[s], open, known)
    /\ Read(asked[s], answers[s])

Locked == \A s, t \in Sessions : At(s) = "call" /\ At(t) = "call" => s = t

Sure == \A p \in Panes \ unsure : shadow[p] = line[p]

Inv == Typed /\ Locked /\ Sure /\ \A s \in Sessions : SessionOK(s)

-----------------------------------------------------------------------------
\* Which jobs are which.
LEMMA JobIs ==
    ASSUME NEW j \in InputJobs \cup ActionJobs
    PROVE  /\ j # None /\ j.at # "idle" /\ j.n \in Nat
           /\ j.at \in {"lock", "call"} <=> j \in InputJobs
           /\ j \in InputJobs =>
                /\ j.req \in InputRequests /\ j.todo \in Seq(Calls)
                /\ j.wrote \in Nat /\ j.most \in Nat /\ j.old \in Nat
                /\ j.req.pane \in Panes
           /\ j \notin InputJobs => j \in ActionJobs /\ j.req \in ActionRequests /\ j.n = 1
<1>1. j # None
  BY RequestAssumption
<1>2. CASE j \in InputJobs
  BY <1>1, <1>2 DEF InputJobs, InputRequests, Calls
<1>3. CASE j \in ActionJobs
  <2>1. j.at \in {"act", "context", "before", "invoke", "after"} /\ j.n = 1 /\ j.req \in ActionRequests
    BY <1>3 DEF ActionJobs
  <2>2. j \notin InputJobs
    BY <2>1 DEF InputJobs
  <2>. QED
    BY <1>1, <1>3, <2>1, <2>2
<1>. QED
  BY <1>2, <1>3

\* A sequence, and one value at its end several times.
LEMMA CopiesIs ==
    ASSUME NEW S, NEW old \in Seq(S), NEW n \in Nat, NEW a \in S
    PROVE  /\ old \o [i \in 1..n |-> a] \in Seq(S)
           /\ Len(old \o [i \in 1..n |-> a]) = Len(old) + n
           /\ \A i \in 1..(Len(old) + n) :
                (old \o [k \in 1..n |-> a])[i] = IF i <= Len(old) THEN old[i] ELSE a
<1> DEFINE more == [i \in 1..n |-> a]
<1>1. more \in Seq(S) /\ Len(more) = n /\ \A i \in 1..n : more[i] = a
  OBVIOUS
<1> HIDE DEF more
<1>2. /\ old \o more \in Seq(S)
      /\ Len(old \o more) = Len(old) + n /\ Len(old) \in Nat
      /\ \A i \in 1..(Len(old) + n) :
           (old \o more)[i] = IF i <= Len(old) THEN old[i] ELSE more[i - Len(old)]
  BY <1>1
<1>3. ASSUME NEW i \in 1..(Len(old) + n), ~(i <= Len(old)) PROVE more[i - Len(old)] = a
  <2>1. i - Len(old) \in 1..n
    BY <1>2, <1>3
  <2>. QED
    BY <1>1, <2>1
<1>. QED
  BY <1>2, <1>3 DEF more

\* reply_to_inputs gives the last requests taken one answer each.
LEMMA ReplyIs ==
    ASSUME answers \in [Sessions -> Seq(Answers)], NEW s \in Sessions, NEW n \in Nat,
           NEW a \in Answers
    PROVE  /\ ReplyToInputs(s, n, a) \in [Sessions -> Seq(Answers)]
           /\ \A t \in Sessions \ {s} : ReplyToInputs(s, n, a)[t] = answers[t]
           /\ Len(ReplyToInputs(s, n, a)[s]) = Len(answers[s]) + n
           /\ \A i \in 1..(Len(answers[s]) + n) :
                ReplyToInputs(s, n, a)[s][i] = IF i <= Len(answers[s]) THEN answers[s][i] ELSE a
<1> DEFINE old == answers[s]
           new == old \o [i \in 1..n |-> a]
<1>1. old \in Seq(Answers)
  OBVIOUS
<1> HIDE DEF old
<1>2. /\ new \in Seq(Answers) /\ Len(new) = Len(old) + n
      /\ \A i \in 1..(Len(old) + n) : new[i] = IF i <= Len(old) THEN old[i] ELSE a
  BY <1>1, CopiesIs
<1>3. ReplyToInputs(s, n, a) = [answers EXCEPT ![s] = new]
  BY DEF ReplyToInputs, old
<1> HIDE DEF new
<1>. QED
  BY <1>2, <1>3 DEF old

\* The refusal is an answer.
LEMMA RefusalIs == Refusal \in Answers
BY DEF Refusal, Answer, Answers

\* A refusal wrote nothing that could be left unread.
LEMMA RefusedIsRead ==
    ASSUME NEW q, NEW old, NEW a \in Nat, a = Len(old), Read(q, old),
           NEW ans, NEW n \in Nat, Len(ans) = n,
           \A k \in 1..n : ans[k] = IF k <= a THEN old[k] ELSE Refusal
    PROVE  Read(q, ans)
<1>1. Refusal.wrote = 0
  BY DEF Refusal, Answer
<1> SUFFICES ASSUME NEW k \in 1..n, ans[k].wrote > 0, q[k].do = "input",
                    ~q[k].bypass /\ q[k].text \notin {Raw, <<>>}
             PROVE  ans[k].read
  BY DEF Read
<1>2. k <= a /\ ans[k] = old[k]
  BY <1>1
<1>3. k \in 1..Len(old)
  BY <1>2
<1>. QED
  BY <1>2, <1>3 DEF Read

\* A session that is not at work in a step keeps its facts.
LEMMA Others ==
    ASSUME Inv, NEW t \in Sessions,
           asked'[t] = asked[t], taken'[t] = taken[t], job'[t] = job[t], answers'[t] = answers[t],
           known \subseteq known', open' \cap known \subseteq open,
           At(t) = "call" => shadow' = shadow
    PROVE  SessionOK(t)'
<1>1. SessionOK(t) /\ job[t] \in InputJobs \cup ActionJobs \cup {None}
  BY DEF Inv, Typed
<1>2. job[t] # None /\ job[t].at = "call" => shadow' = shadow
  BY DEF At
<1>3. Invoking(job[t], open', known')
  BY <1>1 DEF SessionOK, Invoking
<1>4. Work(job[t], asked[t], taken[t], Len(answers[t])) /\ Read(asked[t], answers[t])
  BY <1>1 DEF SessionOK
<1>5. job[t] # None /\ job[t].at = "call" => Calling(job[t], shadow'[job[t].req.pane])
  BY <1>1, <1>2 DEF SessionOK
<1>. QED
  BY <1>3, <1>4, <1>5 DEF SessionOK

\* The lines that are merged, and the newest of them.
LEMMA CoalesceIs ==
    ASSUME Inv, NEW s \in Sessions, taken[s] + 1 <= Len(asked[s])
    PROVE  /\ CoalesceInput(s, taken[s] + 1) \in (taken[s] + 1)..Len(asked[s])
           /\ \A k \in (taken[s] + 1)..CoalesceInput(s, taken[s] + 1) :
                \/ k = CoalesceInput(s, taken[s] + 1)
                \/ /\ IsLine(asked[s][CoalesceInput(s, taken[s] + 1)])
                   /\ IsLine(asked[s][k])
<1> DEFINE i == taken[s] + 1
           b == Len(asked[s])
           Merges(k) == k <= b /\ IsLine(asked[s][k]) /\ asked[s][k].pane = asked[s][i].pane
           S == {k \in Nat : Merges(k)}
<1>1. i \in Nat /\ b \in Nat /\ i <= b
  BY DEF Inv, Typed
<1>2. CASE ~IsLine(asked[s][i])
  <2>1. CoalesceInput(s, i) = i
    BY <1>2 DEF CoalesceInput
  <2> HIDE DEF i, b
  <2>. QED
    BY <1>1, <2>1 DEF i, b
<1>3. CASE IsLine(asked[s][i])
  <2> DEFINE End(j) == (\A k \in i..j : Merges(k)) /\ ~Merges(j + 1)
  <2>1. CoalesceInput(s, i) = CHOOSE j \in i..b : End(j)
    BY <1>3 DEF CoalesceInput
  <2>2. i \in S /\ b + 1 \notin S
    BY <1>1, <1>3
  <2>3. \A k \in Nat : k \in S <=> Merges(k)
    OBVIOUS
  <2> HIDE DEF i, b, S, Merges
  <2>4. PICK j \in i..b : (\A k \in i..j : k \in S) /\ j + 1 \notin S
    BY <1>1, <2>2, RunEnds
  <2>5. j \in Nat /\ j + 1 \in Nat /\ \A k \in i..j : k \in Nat
    BY <1>1
  <2>6. End(j)
    BY <2>3, <2>4, <2>5
  <2>7. CoalesceInput(s, i) \in i..b /\ End(CoalesceInput(s, i))
    BY <2>1, <2>6
  <2> HIDE DEF End
  <2>8. \A k \in i..CoalesceInput(s, i) : IsLine(asked[s][k])
    BY <2>7 DEF End, Merges
  <2>9. CoalesceInput(s, i) \in i..CoalesceInput(s, i)
    BY <1>1, <2>7
  <2>. QED
    BY <2>7, <2>8, <2>9 DEF i, b
<1>. QED
  BY <1>2, <1>3

\* A request more that waits.
LEMMA AskedMore ==
    ASSUME NEW R, NEW q \in Seq(R), NEW r \in R, NEW j, NEW n \in Nat, NEW ans \in Seq(Answers),
           j # None => j.n \in Nat,
           Work(j, q, n, Len(ans)), Read(q, ans)
    PROVE  Work(j, Append(q, r), n, Len(ans)) /\ Read(Append(q, r), ans)
<1> DEFINE a == Len(ans)
           w == Append(q, r)
<1>1. a \in Nat /\ a <= n /\ n <= Len(q)
  BY DEF Work
<1>2. Len(w) = Len(q) + 1 /\ \A i \in 1..Len(q) : w[i] = q[i]
  OBVIOUS
<1> HIDE DEF w
<1>3. Read(w, ans)
  <2>1. \A i \in 1..Len(ans) : w[i] = q[i]
    BY <1>1, <1>2
  <2>. QED
    BY <2>1 DEF Read
<1>4. Work(j, w, n, a)
  <2>1. \A i \in (a + 1)..n : w[i] = q[i]
    BY <1>1, <1>2
  <2>2. n > 0 => w[n] = q[n]
    BY <1>1, <1>2
  <2>3. n <= Len(w)
    BY <1>1, <1>2
  <2>. QED
    BY <2>1, <2>2, <2>3 DEF Work
<1>. QED
  BY <1>3, <1>4 DEF w

\* Ask: a request more waits, and nothing is at another place for it.
LEMMA AskKeeps == ASSUME Inv, NEW s \in Sessions, Ask(s) PROVE Inv'
<1>1. PICK r \in Asks : asked' = [asked EXCEPT ![s] = Append(@, r)]
  BY DEF Ask
<1>2. /\ UNCHANGED <<open, known, line, shadow, watched, taken, job, answers, unsure, faults>>
      /\ r \in InputRequests \cup ActionRequests
  BY RequestAssumption DEF Ask, herdrVars
<1>3. Len(asked[s]) + 1 <= MaxAsks
  <2> DEFINE all == (Sessions \ {s}) \X (1..MaxAsks)
             others == {a \in all : a[2] <= Len(asked[a[1]])}
  <2>1. IsFiniteSet(all)
    <3>1. MaxAsks \in Int
      BY InputAssumption
    <3>2. IsFiniteSet(1..MaxAsks)
      BY <3>1, FS_Interval
    <3>3. IsFiniteSet(Sessions \ {s})
      BY InputAssumption, FS_Difference
    <3>. QED
      BY <3>2, <3>3, FS_Product
  <2>2. IsFiniteSet(others)
    BY <2>1, FS_Subset
  <2>3. Cardinality(others) \in Nat
    BY <2>2, FS_CardinalityType
  <2>4. Len(asked[s]) + Cardinality(others) < MaxAsks
    BY DEF Ask
  <2> HIDE DEF others
  <2>5. Len(asked[s]) \in Nat /\ MaxAsks \in Nat
    BY InputAssumption DEF Inv, Typed
  <2>. QED
    BY <2>3, <2>4, <2>5
<1>4. Typed'
  <2>1. /\ asked' \in [Sessions -> Seq(InputRequests \cup ActionRequests)]
        /\ \A t \in Sessions : Len(asked'[t]) <= MaxAsks
    BY <1>1, <1>2, <1>3 DEF Inv, Typed
  <2>. QED
    BY <1>2, <2>1 DEF Inv, Typed
<1>5. ASSUME NEW t \in Sessions PROVE SessionOK(t)'
  <2>1. CASE t = s
    <3> DEFINE R == InputRequests \cup ActionRequests
    <3>1. /\ asked[s] \in Seq(R) /\ r \in R /\ taken[s] \in Nat /\ answers[s] \in Seq(Answers)
          /\ job[s] # None => job[s].n \in Nat
      BY <1>2, JobIs DEF Inv, Typed
    <3>2. Work(job[s], asked[s], taken[s], Len(answers[s])) /\ Read(asked[s], answers[s])
      BY DEF Inv, SessionOK
    <3> HIDE DEF R
    <3>3. /\ Work(job[s], Append(asked[s], r), taken[s], Len(answers[s]))
          /\ Read(Append(asked[s], r), answers[s])
      BY <3>1, <3>2, AskedMore
    <3>4. asked'[s] = Append(asked[s], r)
      BY <1>1 DEF Inv, Typed
    <3>. QED
      BY <1>2, <2>1, <3>3, <3>4 DEF Inv, SessionOK
  <2>2. CASE t # s
    <3>1. asked'[t] = asked[t]
      BY <1>1, <2>2 DEF Inv, Typed
    <3>. QED
      BY <1>2, <3>1, Others DEF Inv, Typed
  <2>. QED
    BY <2>1, <2>2
<1>6. Locked' /\ Sure'
  BY <1>2 DEF Inv, Locked, Sure, At
<1>. QED
  BY <1>4, <1>5, <1>6 DEF Inv

\* TakeInput: an input is refused at once, or waits for the lock with those it
\* was merged with.
LEMMA TakeInputKeeps == ASSUME Inv, NEW s \in Sessions, TakeInput(s) PROVE Inv'
<1> DEFINE i == taken[s] + 1
           j == CoalesceInput(s, i)
           r == Applied(s, i)
           q == asked[s]
           a == Len(answers[s])
<1>1. /\ job[s] = None /\ i <= Len(q) /\ q[i].do = "input"
      /\ UNCHANGED <<open, known, line, shadow, watched, asked, unsure, faults>>
      /\ taken' = [taken EXCEPT ![s] = j]
  <2>1. At(s) = "idle"
    BY DEF TakeInput
  <2>2. job[s] = None
    BY <2>1, JobIs DEF At, Inv, Typed
  <2>. QED
    BY <2>2 DEF TakeInput, herdrVars
<1>2. /\ taken[s] \in Nat /\ a = taken[s] /\ q \in Seq(InputRequests \cup ActionRequests)
      /\ answers \in [Sessions -> Seq(Answers)] /\ Read(q, answers[s])
  BY <1>1 DEF Inv, Typed, SessionOK, Work
<1>3. /\ j \in i..Len(q)
      /\ \A k \in i..j : k = j \/ (IsLine(q[j]) /\ IsLine(q[k]))
  BY <1>1, CoalesceIs
<1>4. r = q[j]
  BY DEF Applied
<1> HIDE DEF j, r
<1>5. /\ i \in Nat /\ j \in Nat /\ j - taken[s] \in Nat /\ j - taken[s] > 0 /\ j <= Len(q)
      /\ Len(q) \in Nat
  BY <1>2, <1>3
<1>6. r \in InputRequests
  <2>1. q[j] \in InputRequests \cup ActionRequests
    BY <1>2, <1>3, <1>5
  <2>2. q[j].do = "input"
    BY <1>1, <1>3, <1>5 DEF IsLine
  <2>. QED
    BY <1>4, <2>1, <2>2 DEF ActionRequests
<1>7. Typed' /\ SessionOK(s)' /\ job'[s] \in InputJobs \cup {None} /\ (job'[s] # None => job'[s].at = "lock")
      /\ \A t \in Sessions \ {s} : job'[t] = job[t] /\ answers'[t] = answers[t]
  <2>1. CASE RequireWatched(s, r) /\ ValidateSendInput(r)
    <3> DEFINE new == [at |-> "lock", req |-> r, n |-> j - taken[s], todo |-> <<>>, wrote |-> 0,
                       most |-> 0, old |-> 0]
    <3>1. job' = [job EXCEPT ![s] = new] /\ answers' = answers
      BY <2>1 DEF TakeInput, j, r
    <3>2. new \in InputJobs
      BY <1>5, <1>6 DEF InputJobs
    <3>3. new.req = r /\ new.n = j - taken[s] /\ new.at = "lock" /\ new.wrote = 0
      OBVIOUS
    <3> HIDE DEF new
    <3>4. job'[s] = new /\ taken'[s] = j
      BY <1>1, <3>1 DEF Inv, Typed
    <3>5. Typed'
      BY <1>1, <1>5, <3>1, <3>2 DEF Inv, Typed
    <3>6. Work(new, q, j, a)
      BY <1>2, <1>3, <1>4, <1>5, <2>1, <3>2, <3>3, JobIs DEF Work
    <3>7. ~(new.at = "call") /\ Invoking(new, open', known')
      BY <3>3 DEF Invoking
    <3>8. SessionOK(s)'
      BY <1>1, <1>2, <3>1, <3>4, <3>6, <3>7 DEF SessionOK
    <3>. QED
      BY <3>1, <3>2, <3>3, <3>4, <3>5, <3>8 DEF Inv, Typed
  <2>2. CASE ~(RequireWatched(s, r) /\ ValidateSendInput(r))
    <3>1. job' = job /\ answers' = ReplyToInputs(s, j - taken[s], Refusal)
      BY <2>2 DEF TakeInput, j, r
    <3> DEFINE ans == answers'[s]
    <3>2. /\ answers' \in [Sessions -> Seq(Answers)]
          /\ \A t \in Sessions \ {s} : answers'[t] = answers[t]
          /\ Len(ans) = a + (j - taken[s])
          /\ \A k \in 1..(a + (j - taken[s])) : ans[k] = IF k <= a THEN answers[s][k] ELSE Refusal
      <4> DEFINE m == j - taken[s]
                 w == ReplyToInputs(s, m, Refusal)
      <4>1. m \in Nat /\ answers' = w
        BY <1>5, <3>1
      <4> HIDE DEF m
      <4>2. /\ w \in [Sessions -> Seq(Answers)] /\ \A t \in Sessions \ {s} : w[t] = answers[t]
            /\ Len(w[s]) = Len(answers[s]) + m
            /\ \A k \in 1..(Len(answers[s]) + m) :
                 w[s][k] = IF k <= Len(answers[s]) THEN answers[s][k] ELSE Refusal
        BY <1>2, <4>1, ReplyIs, RefusalIs, ZenonT(60)
      <4> HIDE DEF w
      <4>. QED
        BY <4>1, <4>2 DEF m
    <3>3. Len(ans) = j /\ \A k \in 1..j : ans[k] = IF k <= a THEN answers[s][k] ELSE Refusal
      BY <1>2, <1>5, <3>2
    <3> HIDE DEF ans
    <3>4. Read(q, ans)
      BY <1>2, <1>5, <3>3, RefusedIsRead
    <3>5. taken'[s] = j
      BY <1>1 DEF Inv, Typed
    <3>6. Work(None, q, j, j)
      BY <1>5, RequestAssumption DEF Work
    <3>7. SessionOK(s)'
      BY <1>1, <3>1, <3>3, <3>4, <3>5, <3>6 DEF SessionOK, Invoking, ans
    <3>8. Typed'
      BY <1>1, <1>5, <3>1, <3>2 DEF Inv, Typed
    <3>. QED
      BY <1>1, <3>1, <3>2, <3>7, <3>8
  <2>. QED
    BY <2>1, <2>2
<1>8. ASSUME NEW t \in Sessions PROVE SessionOK(t)'
  <2>1. CASE t = s
    BY <1>7, <2>1
  <2>2. CASE t # s
    <3>1. taken'[t] = taken[t]
      BY <1>1, <2>2 DEF Inv, Typed
    <3>. QED
      BY <1>1, <1>7, <2>2, <3>1, Others DEF Inv, Typed
  <2>. QED
    BY <2>1, <2>2
<1>9. Locked'
  BY <1>7 DEF Inv, Locked, At
<1>10. Sure'
  BY <1>1 DEF Inv, Sure
<1>. QED
  BY <1>7, <1>8, <1>9, <1>10 DEF Inv

\* The end of an input: every request that was merged has its answer, and
\* one of which something was written is read.
LEMMA FinishIs ==
    ASSUME Inv, NEW s \in Sessions, job[s] \in InputJobs,
           NEW ok \in BOOLEAN, NEW wrote \in Nat, NEW most \in Nat, NEW newLen \in Nat,
           Finish(s, ok, wrote, most, newLen),
           /\ wrote > 0 /\ ~ok
           /\ \/ job[s].req.line # None
              \/ ~job[s].req.bypass /\ job[s].req.text \notin {Raw, <<>>}
           => newLen # job[s].old
    PROVE  /\ job' = [job EXCEPT ![s] = None]
           /\ answers' \in [Sessions -> Seq(Answers)]
           /\ \A t \in Sessions \ {s} : job'[t] = job[t] /\ answers'[t] = answers[t]
           /\ Len(answers'[s]) = taken[s] /\ answers'[s][taken[s]].ok = ok
           /\ Work(None, asked[s], taken[s], Len(answers'[s]))
           /\ Read(asked[s], answers'[s])
<1> DEFINE j == job[s]
           q == asked[s]
           a == Len(answers[s])
           n == taken[s]
           ans == answers'[s]
           reads == RestartsReads(ok, ~j.req.bypass /\ newLen # j.old)
           more == Answer(ok, reads, wrote, most, j.req.pane)
<1>1. job' = [job EXCEPT ![s] = None] /\ answers' = ReplyToInputs(s, j.n, more)
  BY DEF Finish
<1>2. /\ j.n \in Nat /\ j.req.pane \in Panes /\ j # None /\ j \in InputJobs
      /\ j.req \in InputRequests
  BY JobIs
<1>3. more.ok = ok /\ more.read = reads /\ more.wrote = wrote
  BY DEF Answer
<1>4. more \in Answers
  <2>1. j.req.bypass \in BOOLEAN
    BY <1>2 DEF InputRequests
  <2>2. reads \in BOOLEAN
    BY <2>1 DEF RestartsReads
  <2> HIDE DEF reads, j
  <2>. QED
    BY <1>2, <2>2 DEF Answer, Answers
<1>5. answers \in [Sessions -> Seq(Answers)] /\ n \in Nat /\ a \in Nat
  BY DEF Inv, Typed
<1>6. /\ n <= Len(q) /\ n = a + j.n /\ n > 0 /\ j.n > 0 /\ j.req = q[n]
      /\ ValidateSendInput(j.req)
      /\ \A i \in (a + 1)..n : i = n \/ (IsLine(j.req) /\ IsLine(q[i]))
      /\ Read(q, answers[s])
  <2>1. Work(j, q, n, a) /\ Read(q, answers[s])
    BY DEF Inv, SessionOK
  <2> HIDE DEF j, q, n, a
  <2>2. n = a + j.n /\ j.n > 0
    BY <1>2, <2>1 DEF Work
  <2>3. n > 0
    BY <1>2, <1>5, <2>2
  <2>. QED
    BY <1>2, <2>1, <2>2, <2>3 DEF Work
<1> HIDE DEF more, j
<1>7. /\ answers' \in [Sessions -> Seq(Answers)]
      /\ \A t \in Sessions \ {s} : answers'[t] = answers[t]
      /\ Len(ans) = a + j.n
      /\ \A i \in 1..(a + j.n) : ans[i] = IF i <= a THEN answers[s][i] ELSE more
  <2> DEFINE m == j.n
             w == ReplyToInputs(s, m, more)
  <2>1. m \in Nat /\ answers' = w
    BY <1>1, <1>2 DEF j
  <2> HIDE DEF m
  <2>2. /\ w \in [Sessions -> Seq(Answers)] /\ \A t \in Sessions \ {s} : w[t] = answers[t]
        /\ Len(w[s]) = Len(answers[s]) + m
        /\ \A k \in 1..(Len(answers[s]) + m) :
             w[s][k] = IF k <= Len(answers[s]) THEN answers[s][k] ELSE more
    BY <1>4, <1>5, <2>1, ReplyIs, ZenonT(60)
  <2> HIDE DEF w
  <2>. QED
    BY <2>1, <2>2 DEF m
<1>8. Len(ans) = n /\ \A i \in 1..n : ans[i] = IF i <= a THEN answers[s][i] ELSE more
  BY <1>5, <1>6, <1>7
<1>9. ans[n] = more
  <2>1. n \in 1..n /\ ~(n <= a)
    BY <1>2, <1>5, <1>6
  <2>. QED
    BY <1>8, <2>1
<1> HIDE DEF ans, n, a, q
<1>10. ASSUME NEW i \in (a + 1)..n, q[i].do = "input", wrote > 0,
              q[i].do = "input" => ~q[i].bypass /\ q[i].text \notin {Raw, <<>>}
       PROVE  reads
  <2>1. i = n \/ (IsLine(j.req) /\ IsLine(q[i]))
    BY <1>6
  <2>2. CASE IsLine(j.req)
    <3>1. j.req.line # None /\ ~j.req.bypass
      BY <1>2, <1>6, <2>2 DEF IsLine, ValidateSendInput, InputRequests
    <3>2. ~ok => newLen # j.old
      BY <1>10, <3>1 DEF j
    <3>. QED
      BY <3>1, <3>2 DEF RestartsReads
  <2>3. CASE ~IsLine(j.req)
    <3>1. ~j.req.bypass /\ j.req.text \notin {Raw, <<>>}
      BY <1>6, <1>10, <2>1, <2>3
    <3>2. ~ok => newLen # j.old
      BY <1>10, <3>1 DEF j
    <3>. QED
      BY <3>1, <3>2 DEF RestartsReads
  <2>. QED
    BY <2>2, <2>3
<1> HIDE DEF reads
<1>11. Read(q, ans)
  <2> SUFFICES ASSUME NEW i \in 1..n, q[i].do = "input", ans[i].wrote > 0,
                      q[i].do = "input" => ~q[i].bypass /\ q[i].text \notin {Raw, <<>>}
               PROVE  ans[i].read
    BY <1>8 DEF Read
  <2>1. CASE i <= a
    <3>1. ans[i] = answers[s][i] /\ i \in 1..a
      BY <1>5, <1>8, <2>1
    <3>. QED
      BY <1>6, <3>1 DEF Read, a
  <2>2. CASE ~(i <= a)
    <3>1. ans[i] = more /\ i \in (a + 1)..n
      BY <1>5, <1>8, <2>2
    <3>. QED
      BY <1>3, <1>10, <3>1
  <2>. QED
    BY <2>1, <2>2
<1>12. Work(None, q, n, Len(ans))
  BY <1>6, <1>8, RequestAssumption DEF Work
<1>13. \A t \in Sessions \ {s} : job'[t] = job[t]
  BY <1>1 DEF Inv, Typed
<1>. QED
  BY <1>1, <1>3, <1>7, <1>8, <1>9, <1>11, <1>12, <1>13 DEF ans, n, q

-----------------------------------------------------------------------------
(* The calls of an input.                                                  *)

\* Text that is no line is not one of the lines.
LEMMA RawIs == Raw \notin Lines
<1>1. "raw" \notin Graphemes
  BY InputAssumption
<1>2. ASSUME Raw \in Lines PROVE FALSE
  <2>1. Raw[1] = "raw" /\ 1 \in 1..Len(Raw)
    BY DEF Raw
  <2>2. Raw[1] \in Graphemes
    BY <1>2, <2>1, ElementOfSeq DEF Lines
  <2>. QED
    BY <1>1, <2>1, <2>2
<1>. QED
  BY <1>2

\* What forward_input sends.
LEMMA ForwardIs ==
    ASSUME NEW r \in InputRequests, r.line = None, ValidateSendInput(r)
    PROVE  /\ r.keys # None => Keys(r.keys) \in Calls
           /\ r.text # None => Text(r.text) \in Calls
           /\ \/ r.text # None /\ r.keys # None /\ ForwardInput(r) = <<Text(r.text), Keys(r.keys)>>
              \/ r.text # None /\ r.keys = None /\ ForwardInput(r) = <<Text(r.text)>>
              \/ r.text = None /\ r.keys # None /\ ForwardInput(r) = <<Keys(r.keys)>>
<1>1. r.text \in Lines \cup {Raw, None} /\ r.keys \in Seq(KeyNames) \cup {None}
  BY DEF InputRequests
<1>2. r.keys # None => Keys(r.keys) \in Calls
  BY <1>1 DEF Keys, Calls
<1>3. r.text # None => Text(r.text) \in Calls
  BY <1>1 DEF Text, Calls
<1>4. r.text # None \/ r.keys # None
  BY DEF ValidateSendInput
<1>5. ASSUME r.text # None, r.keys # None PROVE ForwardInput(r) = <<Text(r.text), Keys(r.keys)>>
  BY Zenon, <1>5, TwoWords DEF ForwardInput
<1>6. ASSUME r.text # None, r.keys = None PROVE ForwardInput(r) = <<Text(r.text)>>
  BY Zenon, <1>6, NoWord DEF ForwardInput
<1>7. ASSUME r.text = None, r.keys # None PROVE ForwardInput(r) = <<Keys(r.keys)>>
  BY Zenon, <1>7, NoWord DEF ForwardInput
<1>. QED
  BY Zenon, <1>2, <1>3, <1>4, <1>5, <1>6, <1>7

\* A chunk of Backspaces, typed.
LEMMA BackTyped ==
    ASSUME NEW l \in Lines, NEW k \in 1..Len(l)
    PROVE  TypeCall(l, Backspaces(k)) = Truncate(l, k)
<1> DEFINE keys == Backspaces(k).keys
<1>1. /\ Backspaces(k).op = "keys" /\ keys \in Seq(KeyNames) /\ Len(keys) = k
      /\ \A i \in 1..k : keys[i] = Backspace
  BY BackspacesIs
<1> HIDE DEF keys
<1>2. k \in Nat /\ k <= Len(l) /\ Len(l) \in Nat
  BY DEF Lines
<1>3. \A i \in 1..k : ~ClearsLine(keys[i])
  BY <1>1 DEF ClearsLine, Backspace, Key
<1>4. {i \in 1..Len(keys) : keys[i] = Key(<<>>, "backspace")} = 1..k
  BY <1>1 DEF Backspace
<1>5. Cardinality(1..k) = k
  BY <1>2, FS_Interval
<1>6. ShadowAfterKeys(l, keys) = Truncate(l, k)
  <2>1. ~ \E i \in 1..Len(keys) : ClearsLine(keys[i])
    BY <1>1, <1>3
  <2>2. Least(Len(l), k) = k
    BY <1>2 DEF Least
  <2>. QED
    BY Zenon, <1>4, <1>5, <2>1, <2>2 DEF ShadowAfterKeys
<1>7. TypeCall(l, Backspaces(k)) = TypeKeys(l, keys)
  BY <1>1 DEF TypeCall, keys
<1>. QED
  BY <1>1, <1>6, <1>7, TypedAtOnce

\* What a call types into a line makes a line.
LEMMA TypeCallIs ==
    ASSUME NEW l \in Lines, NEW c \in Calls
    PROVE  TypeCall(l, c) \in Lines
<1>1. CASE c.op = "text"
  <2>1. c.text \in Lines \cup {Raw}
    BY <1>1 DEF Calls
  <2>2. c.text \in Lines => l \o c.text \in Lines
    BY DEF Lines
  <2>. QED
    BY <1>1, <2>1, <2>2 DEF TypeCall, AfterText
<1>2. CASE c.op # "text"
  <2>1. c.keys \in Seq(KeyNames)
    BY <1>2 DEF Calls
  <2>. QED
    BY <1>2, <2>1, TypedAtOnce DEF TypeCall
<1>. QED
  BY <1>1, <1>2

\* What a confirmed call leaves.
CalledJob(j, m) == [j EXCEPT !.todo = Tail(@), !.wrote = @ + 1, !.most = m]

\* A call of a composer line: the shadow follows the pane, and it is the line
\* when no call is left.
LEMMA LineCall ==
    ASSUME NEW l \in Lines, NEW j \in InputJobs, j.at = "call", Calling(j, l), j.req.line # None,
           ValidateSendInput(j.req)
    PROVE  LET c == Head(j.todo)
               w == ShadowAfterCall(l, j, c)
           IN  /\ c \in Calls /\ Tail(j.todo) \in Seq(Calls) /\ j.req.line \in Lines
               /\ w \in Lines /\ w = TypeCall(l, c) /\ ~j.req.bypass
               /\ ~(Len(j.todo) > 1) => w = j.req.line
               /\ Len(j.todo) > 1 => /\ Tail(j.todo) # <<>>
                                     /\ Tail(j.todo) = ReconcileLine(w, j.req.line)
                                     /\ Len(w) < j.old
               /\ j.wrote > 0 => Len(l) # j.old
<1> DEFINE new == j.req.line
           c == Head(j.todo)
           w == ShadowAfterCall(l, j, c)
<1>1. /\ new \in Lines /\ ~j.req.bypass /\ new # None /\ j.todo \in Seq(Calls)
      /\ j.wrote \in Nat /\ j.old \in Nat
  BY JobIs DEF InputRequests, ValidateSendInput
<1>2. /\ j.todo = ReconcileLine(l, new) /\ j.todo # <<>>
      /\ IF j.wrote = 0 THEN Len(l) = j.old ELSE Len(l) < j.old
  BY JobIs DEF Calling
<1>3. w = IF Len(j.todo) = 1 THEN new ELSE Truncate(l, Len(c.keys))
  BY <1>1 DEF ShadowAfterCall
<1>4. /\ Len(j.todo) \in Nat \ {0} /\ Len(l) \in Nat /\ c \in Calls /\ Tail(j.todo) \in Seq(Calls)
      /\ Len(Tail(j.todo)) = Len(j.todo) - 1
      /\ Len(j.todo) = 1 => Tail(j.todo) = <<>>
      /\ Len(j.todo) # 1 => Tail(j.todo) # <<>> /\ Len(j.todo) > 1
  <2> DEFINE todo == j.todo
  <2>1. todo \in Seq(Calls) /\ todo # <<>>
    BY <1>1, <1>2
  <2> HIDE DEF todo
  <2>2. /\ Len(todo) \in Nat \ {0} /\ Head(todo) \in Calls /\ Tail(todo) \in Seq(Calls)
        /\ Len(Tail(todo)) = Len(todo) - 1
    BY <2>1
  <2>3. Len(l) \in Nat
    BY DEF Lines
  <2>4. Len(todo) = 1 => Len(Tail(todo)) = 0
    BY <2>2
  <2>5. Len(todo) # 1 => Len(Tail(todo)) # 0 /\ Len(todo) > 1
    BY <2>2
  <2>6. Tail(todo) = <<>> <=> Len(Tail(todo)) = 0
    BY <2>2, EmptySeq
  <2>. QED
    BY <2>2, <2>3, <2>4, <2>5, <2>6 DEF todo
<1>5. \/ \E k \in 1..Len(l) : c = Backspaces(k) /\ Tail(j.todo) = ReconcileLine(Truncate(l, k), new)
      \/ \E t \in Lines : j.todo = <<Text(t)>> /\ l \o t = new
  <2>1. /\ ReconcileLine(l, new) # <<>> =>
                \/ \E k \in 1..Len(l) :
                      /\ Head(ReconcileLine(l, new)) = Backspaces(k)
                      /\ Tail(ReconcileLine(l, new)) = ReconcileLine(Truncate(l, k), new)
                \/ \E t \in Lines :
                      /\ ReconcileLine(l, new) = <<Text(t)>>
                      /\ l \o t = new
    BY <1>1, ReconcileIs
  <2>. QED
    BY Zenon, <1>2, <2>1
<1> HIDE DEF w, c, new
<1>6. CASE \E k \in 1..Len(l) : c = Backspaces(k) /\ Tail(j.todo) = ReconcileLine(Truncate(l, k), new)
  <2>1. PICK k \in 1..Len(l) : c = Backspaces(k) /\ Tail(j.todo) = ReconcileLine(Truncate(l, k), new)
    BY <1>6
  <2>2. k \in Nat /\ k > 0 /\ k <= Len(l)
    BY <1>4
  <2>3. Truncate(l, k) \in Lines /\ Len(Truncate(l, k)) = Len(l) - k
    BY <1>4, <2>2, TruncateIs
  <2>4. TypeCall(l, c) = Truncate(l, k)
    BY <2>1, BackTyped
  <2>5. CASE Len(j.todo) = 1
    <3>1. Tail(j.todo) = <<>>
      BY Zenon, <1>4, <2>5
    <3>2. Truncate(l, k) = new
      BY <1>1, <2>1, <2>3, <3>1, ReconcileIs DEF new
    <3>. QED
      BY <1>1, <1>2, <1>3, <1>4, <2>4, <2>5, <3>2 DEF w, c, new
  <2>6. CASE Len(j.todo) # 1
    <3>1. Len(c.keys) = k
      BY <2>1, <2>2, BackspacesIs
    <3>2. w = Truncate(l, k)
      BY <1>3, <2>6, <3>1
    <3>3. Len(w) < j.old
      BY <1>1, <1>2, <1>4, <2>2, <2>3, <3>2
    <3>4. Tail(j.todo) # <<>>
      BY Zenon, <1>4, <2>6
    <3>5. ~(~(Len(j.todo) > 1))
      BY Zenon, <1>4, <2>6
    <3>. QED
      BY <1>1, <1>2, <1>4, <2>1, <2>3, <2>4, <3>2, <3>3, <3>4, <3>5, SMTT(40) DEF w, c, new
  <2>. QED
    BY <2>5, <2>6
<1>7. CASE \E t \in Lines : j.todo = <<Text(t)>> /\ l \o t = new
  <2>1. PICK t \in Lines : j.todo = <<Text(t)>> /\ l \o t = new
    BY <1>7
  <2>2. c = Text(t) /\ Len(j.todo) = 1
    BY <2>1 DEF c
  <2>3. TypeCall(l, c) = new
    BY <2>1, <2>2, RawIs DEF TypeCall, Text, AfterText
  <2>. QED
    BY <1>1, <1>2, <1>3, <1>4, <2>2, <2>3 DEF w, c, new
<1>. QED
  BY <1>5, <1>6, <1>7

\* Sequences of one and of two.
LEMMA OneAndTwo ==
    ASSUME NEW x, NEW y
    PROVE  /\ Head(<<x>>) = x /\ Tail(<<x>>) = <<>> /\ Len(<<x>>) = 1
           /\ Head(<<x, y>>) = x /\ Tail(<<x, y>>) = <<y>> /\ Len(<<x, y>>) = 2
           /\ <<x>> # <<>> /\ <<x, y>> # <<>>
<1> DEFINE S == {x, y}
           two == <<x, y>>
           one == <<x>>
           rest == <<y>>
<1>1. x \in S /\ y \in S
  OBVIOUS
<1> HIDE DEF S
<1>2. two \in Seq(S) /\ Len(two) = 2 /\ two[1] = x /\ two[2] = y
  BY <1>1
<1>3. one \in Seq(S) /\ Len(one) = 1 /\ one[1] = x
  BY <1>1
<1>4. rest \in Seq(S) /\ Len(rest) = 1 /\ rest[1] = y
  BY <1>1
<1> HIDE DEF two, one, rest
<1>5. Tail(two) \in Seq(S) /\ Len(Tail(two)) = 1 /\ Tail(two)[1] = y /\ Head(two) = x
  BY <1>2
<1>6. Tail(two) = rest
  <2> DEFINE t == Tail(two)
  <2>1. t \in Seq(S) /\ Len(t) = 1 /\ t[1] = y
    BY <1>5
  <2> HIDE DEF t
  <2>2. Len(t) = Len(rest) /\ \A i \in 1..Len(t) : t[i] = rest[i]
    BY <1>4, <2>1
  <2>. QED
    BY <1>4, <2>1, <2>2, SeqEqual DEF t
<1>7. Tail(one) \in Seq(S) /\ Len(Tail(one)) = 0 /\ Head(one) = x
  BY <1>3
<1>8. Tail(one) = <<>>
  BY <1>7, EmptySeq
<1>9. one # <<>> /\ two # <<>>
  <2>1. Len(<<>>) = 0 /\ Len(one) # 0 /\ Len(two) # 0
    BY <1>2, <1>3
  <2>. QED
    BY <2>1, Zenon
<1>. QED
  BY <1>2, <1>3, <1>5, <1>6, <1>7, <1>8, <1>9 DEF one, two, rest

\* A call of a text or of keys: the shadow follows the pane unless it is
\* bypassed, and the keys are left after the text.
LEMMA ForwardCall ==
    ASSUME NEW l \in Lines, NEW j \in InputJobs, j.at = "call", Calling(j, l), j.req.line = None,
           ValidateSendInput(j.req)
    PROVE  LET c == Head(j.todo)
               w == ShadowAfterCall(l, j, c)
           IN  /\ c \in Calls /\ Tail(j.todo) \in Seq(Calls)
               /\ w \in Lines /\ w = (IF j.req.bypass THEN l ELSE TypeCall(l, c))
               /\ Len(j.todo) > 1 =>
                    /\ j.req.text # None /\ j.req.keys # None
                    /\ Tail(j.todo) = <<Keys(j.req.keys)>>
                    /\ ~j.req.bypass /\ j.req.text \notin {Raw, <<>>} => Len(w) # j.old
               /\ j.wrote > 0 /\ ~j.req.bypass /\ j.req.text \notin {Raw, <<>>} => Len(l) # j.old
<1> DEFINE r == j.req
           c == Head(j.todo)
           w == ShadowAfterCall(l, j, c)
           T == Text(r.text)
           K == Keys(r.keys)
<1>1. /\ r \in InputRequests /\ j.todo \in Seq(Calls) /\ j.wrote \in Nat /\ j.old \in Nat
      /\ r.text \in Lines \cup {Raw, None} /\ r.keys \in Seq(KeyNames) \cup {None}
  BY JobIs DEF InputRequests
<1>2. /\ r.keys # None => K \in Calls
      /\ r.text # None => T \in Calls
      /\ \/ r.text # None /\ r.keys # None /\ ForwardInput(r) = <<T, K>>
         \/ r.text # None /\ r.keys = None /\ ForwardInput(r) = <<T>>
         \/ r.text = None /\ r.keys # None /\ ForwardInput(r) = <<K>>
  BY <1>1, ForwardIs
<1>3. \/ j.wrote = 0 /\ j.todo = ForwardInput(r) /\ Len(l) = j.old
      \/ /\ r.text # None /\ r.keys # None /\ j.todo = <<K>>
         /\ ~r.bypass /\ r.text \notin {Raw, <<>>} => Len(l) # j.old
  BY JobIs DEF Calling
<1>4. w = IF r.bypass THEN l
          ELSE IF c.op = "text" THEN AfterText(l, c.text) ELSE ShadowAfterKeys(l, c.keys)
  BY DEF ShadowAfterCall
<1>5. T.op = "text" /\ T.text = r.text /\ K.op = "keys" /\ K.keys = r.keys
  BY DEF Text, Keys
<1> HIDE DEF T, K
<1>6. /\ \/ r.text # None /\ c = T
         \/ r.keys # None /\ c = K
      /\ Len(j.todo) > 1 => /\ r.text # None /\ r.keys # None /\ c = T /\ Tail(j.todo) = <<K>>
                            /\ Len(l) = j.old
      /\ Tail(j.todo) = <<>> \/ (r.keys # None /\ Tail(j.todo) = <<K>>)
  <2>1. CASE j.todo = <<T, K>> /\ j.wrote = 0 /\ Len(l) = j.old /\ r.text # None /\ r.keys # None
    <3>1. Head(<<T, K>>) = T /\ Tail(<<T, K>>) = <<K>>
      BY Zenon, OneAndTwo
    <3>. QED
      BY Zenon, <2>1, <3>1
  <2>2. CASE j.todo = <<T>> /\ r.text # None
    <3>1. Len(j.todo) = 1 /\ c = T /\ Tail(j.todo) = <<>>
      BY Zenon, <2>2, OneAndTwo
    <3>2. ~(Len(j.todo) > 1)
      BY <3>1
    <3>. QED
      BY Zenon, <2>2, <3>1, <3>2
  <2>3. CASE j.todo = <<K>> /\ r.keys # None
    <3>1. Len(j.todo) = 1 /\ c = K /\ Tail(j.todo) = <<>>
      BY Zenon, <2>3, OneAndTwo
    <3>2. ~(Len(j.todo) > 1)
      BY <3>1
    <3>. QED
      BY Zenon, <2>3, <3>1, <3>2
  <2>. QED
    <3>1. CASE j.wrote = 0 /\ j.todo = ForwardInput(r) /\ Len(l) = j.old
      BY Zenon, <1>2, <2>1, <2>2, <2>3, <3>1
    <3>2. CASE r.text # None /\ r.keys # None /\ j.todo = <<K>>
      BY Zenon, <2>3, <3>2
    <3>. QED
      BY Zenon, <1>3, <3>1, <3>2
<1>7. c \in Calls /\ Tail(j.todo) \in Seq(Calls)
  <2>1. <<>> \in Seq(Calls) /\ (K \in Calls => <<K>> \in Seq(Calls))
    OBVIOUS
  <2>. QED
    BY Zenon, <1>2, <1>6, <2>1
<1> HIDE DEF w, c
<1>8. ~r.bypass => w = TypeCall(l, c)
  <2>1. CASE r.text # None /\ c = T
    BY Zenon, <1>4, <1>5, <2>1 DEF TypeCall
  <2>2. CASE r.keys # None /\ c = K
    <3>1. c.op # "text" /\ c.keys \in Seq(KeyNames)
      BY <1>1, <1>5, <2>2
    <3>2. TypeKeys(l, c.keys) = ShadowAfterKeys(l, c.keys)
      BY <3>1, TypedAtOnce
    <3>. QED
      BY Zenon, <1>4, <3>1, <3>2 DEF TypeCall
  <2>. QED
    BY <1>6, <2>1, <2>2
<1>9. w \in Lines
  BY <1>4, <1>7, <1>8, TypeCallIs
<1>10. ASSUME Len(j.todo) > 1, ~r.bypass, r.text \notin {Raw, <<>>} PROVE Len(w) # j.old
  <2>1. r.text \in Lines /\ r.text # <<>> /\ c = T
    BY <1>1, <1>6, <1>10
  <2>2. w = l \o r.text
    BY <1>4, <1>5, <1>10, <2>1 DEF AfterText
  <2> DEFINE t == r.text
  <2>3. t \in Seq(Graphemes) /\ t # <<>> /\ l \in Seq(Graphemes)
    BY <2>1 DEF Lines
  <2> HIDE DEF t
  <2>4. Len(l \o t) = Len(l) + Len(t) /\ Len(t) \in Nat \ {0} /\ Len(l) \in Nat
    BY <2>3, EmptySeq
  <2>5. Len(w) # Len(l)
    BY <2>2, <2>4 DEF t
  <2>. QED
    BY <1>6, <1>10, <2>5
<1>11. j.wrote > 0 /\ ~r.bypass /\ r.text \notin {Raw, <<>>} => Len(l) # j.old
  BY <1>1, <1>3
<1>. QED
  BY Zenon, <1>4, <1>6, <1>7, <1>8, <1>9, <1>10, <1>11 DEF w, c, K

\* Either kind of call: the shadow follows the pane, and what is left to do
\* still fits it.
LEMMA CallStep ==
    ASSUME NEW l \in Lines, NEW j \in InputJobs, j.at = "call", Calling(j, l),
           ValidateSendInput(j.req), NEW m \in Nat
    PROVE  LET c == Head(j.todo)
               w == ShadowAfterCall(l, j, c)
           IN  /\ c \in Calls /\ w \in Lines /\ w = (IF j.req.bypass THEN l ELSE TypeCall(l, c))
               /\ ~(Len(j.todo) > 1) /\ j.req.line # None => w = j.req.line
               /\ CalledJob(j, m) \in InputJobs /\ CalledJob(j, m).at = "call"
               /\ CalledJob(j, m).req = j.req /\ CalledJob(j, m).n = j.n
               /\ Len(j.todo) > 1 => Calling(CalledJob(j, m), w)
               /\ j.wrote > 0 /\ (j.req.line # None \/ (~j.req.bypass /\ j.req.text \notin {Raw, <<>>}))
                    => Len(l) # j.old
<1> DEFINE c == Head(j.todo)
           w == ShadowAfterCall(l, j, c)
           k == CalledJob(j, m)
<1>1. /\ c \in Calls /\ Tail(j.todo) \in Seq(Calls)
      /\ w \in Lines /\ w = (IF j.req.bypass THEN l ELSE TypeCall(l, c))
  BY LineCall, ForwardCall
<1>2. /\ k.at = j.at /\ k.req = j.req /\ k.n = j.n /\ k.todo = Tail(j.todo)
      /\ k.wrote = j.wrote + 1 /\ k.old = j.old /\ j.wrote \in Nat
  BY JobIs DEF CalledJob, InputJobs
<1>3. k \in InputJobs
  <2> DEFINE todos == Seq(Calls)
             jobs == [at : {"lock", "call"}, req : InputRequests, n : Nat, wrote : Nat,
                      most : Nat, old : Nat, todo : todos]
  <2>1. InputJobs = jobs
    BY Zenon DEF InputJobs, Calls
  <2>2. Tail(j.todo) \in todos
    BY <1>1
  <2>3. k = [[[j EXCEPT !.todo = Tail(j.todo)] EXCEPT !.wrote = j.wrote + 1] EXCEPT !.most = m]
    BY DEF CalledJob
  <2> HIDE DEF todos, k
  <2>4. j \in jobs /\ j.wrote + 1 \in Nat
    BY <1>2, <2>1
  <2>5. [j EXCEPT !.todo = Tail(j.todo)] \in jobs
    BY <2>2, <2>4
  <2>6. [[j EXCEPT !.todo = Tail(j.todo)] EXCEPT !.wrote = j.wrote + 1] \in jobs
    BY <2>4, <2>5
  <2>7. k \in jobs
    BY <2>3, <2>6
  <2>. QED
    BY <2>1, <2>7
<1> HIDE DEF k
<1>4. k.wrote > 0 /\ k.wrote # 0
  BY <1>2
<1>5. CASE j.req.line # None
  <2>1. /\ ~(Len(j.todo) > 1) => w = j.req.line
        /\ Len(j.todo) > 1 => /\ Tail(j.todo) # <<>>
                              /\ Tail(j.todo) = ReconcileLine(w, j.req.line)
                              /\ Len(w) < j.old
        /\ j.wrote > 0 => Len(l) # j.old
    BY <1>5, LineCall
  <2> HIDE DEF w, c
  <2>2. Len(j.todo) > 1 => Calling(k, w)
    BY <1>2, <1>4, <1>5, <2>1 DEF Calling
  <2>. QED
    BY Zenon, <1>1, <1>2, <1>3, <2>1, <2>2 DEF w, c, k
<1>6. CASE j.req.line = None
  <2>1. /\ Len(j.todo) > 1 =>
                    /\ j.req.text # None /\ j.req.keys # None
                    /\ Tail(j.todo) = <<Keys(j.req.keys)>>
                    /\ ~j.req.bypass /\ j.req.text \notin {Raw, <<>>} => Len(w) # j.old
        /\ j.wrote > 0 /\ ~j.req.bypass /\ j.req.text \notin {Raw, <<>>} => Len(l) # j.old
    BY <1>6, ForwardCall
  <2> HIDE DEF w, c
  <2>2. Len(j.todo) > 1 => Calling(k, w)
    <3>1. <<Keys(j.req.keys)>> # <<>>
      BY OneAndTwo
    <3>. QED
      BY Zenon, <1>2, <1>6, <2>1, <3>1 DEF Calling
  <2>. QED
    BY Zenon, <1>1, <1>2, <1>3, <1>6, <2>1, <2>2 DEF w, c, k
<1>. QED
  BY <1>5, <1>6

-----------------------------------------------------------------------------
(* The steps of an input under the lock.                                   *)

\* LockInput: the input has nothing to call, or calls what its line or its text
\* needs from the shadow as it is under the lock.
LEMMA LockInputKeeps == ASSUME Inv, NEW s \in Sessions, LockInput(s) PROVE Inv'
<1> DEFINE j == job[s]
           p == j.req.pane
           l == shadow[p]
           todo == IF j.req.line # None THEN ReconcileLine(l, j.req.line) ELSE ForwardInput(j.req)
           new == [j EXCEPT !.at = "call", !.todo = todo, !.old = Len(l)]
<1>1. /\ UNCHANGED <<open, known, line, shadow, watched, asked, taken, unsure, faults>>
      /\ \A t \in Sessions : At(t) # "call"
  BY DEF LockInput, InputLocked, herdrVars
<1>2. /\ j # None /\ j \in InputJobs /\ j.at = "lock" /\ j.req \in InputRequests /\ p \in Panes
      /\ l \in Lines /\ Len(l) \in Nat
  <2>1. At(s) = "lock" /\ j \in InputJobs \cup ActionJobs \cup {None}
    BY DEF LockInput, Inv, Typed
  <2>2. j # None /\ j.at = "lock"
    BY <2>1 DEF At
  <2>3. j \in InputJobs /\ j.req \in InputRequests /\ p \in Panes
    BY <2>1, <2>2, JobIs
  <2>4. l \in Lines
    BY <2>3 DEF Inv, Typed
  <2>. QED
    BY <2>2, <2>3, <2>4 DEF Lines
<1>3. ValidateSendInput(j.req) /\ Work(j, asked[s], taken[s], Len(answers[s])) /\ Read(asked[s], answers[s])
      /\ j.wrote = 0
  BY <1>2 DEF Inv, SessionOK, Work
<1>4. ASSUME NEW t \in Sessions, t # s, job'[t] = job[t], answers'[t] = answers[t] PROVE SessionOK(t)'
  BY <1>1, <1>4, Others DEF Inv, Typed
<1>5. Sure'
  BY <1>1 DEF Inv, Sure
<1>6. CASE todo = <<>>
  <2>1. Finish(s, TRUE, 0, 0, Len(l))
    BY <1>6 DEF LockInput
  <2>2. /\ job' = [job EXCEPT ![s] = None]
        /\ answers' \in [Sessions -> Seq(Answers)]
        /\ \A t \in Sessions \ {s} : job'[t] = job[t] /\ answers'[t] = answers[t]
        /\ Work(None, asked[s], taken[s], Len(answers'[s]))
        /\ Read(asked[s], answers'[s])
    BY <1>2, <2>1, FinishIs
  <2>3. job'[s] = None
    BY <2>2 DEF Inv, Typed
  <2>4. Typed'
    BY <1>1, <2>2 DEF Inv, Typed
  <2>5. SessionOK(s)'
    BY <1>1, <2>2, <2>3 DEF SessionOK, Invoking
  <2>6. Locked'
    BY <1>1, <2>2, <2>3 DEF Locked, At
  <2>. QED
    BY <1>4, <1>5, <2>2, <2>4, <2>5, <2>6 DEF Inv
<1>7. CASE todo # <<>>
  <2>1. job' = [job EXCEPT ![s] = new] /\ answers' = answers
    BY <1>7 DEF LockInput
  <2>2. todo \in Seq(Calls)
    <3>1. CASE j.req.line # None
      <4>1. j.req.line \in Lines
        BY <1>2, <3>1 DEF InputRequests
      <4>. QED
        BY <1>2, <3>1, <4>1, ReconcileIs
    <3>2. CASE j.req.line = None
      <4> DEFINE r == j.req
                 T == Text(r.text)
                 K == Keys(r.keys)
      <4>1. /\ r.keys # None => K \in Calls
            /\ r.text # None => T \in Calls
            /\ \/ r.text # None /\ r.keys # None /\ ForwardInput(r) = <<T, K>>
               \/ r.text # None /\ r.keys = None /\ ForwardInput(r) = <<T>>
               \/ r.text = None /\ r.keys # None /\ ForwardInput(r) = <<K>>
        BY <1>2, <1>3, <3>2, ForwardIs
      <4> HIDE DEF T, K
      <4>2. /\ T \in Calls => <<T>> \in Seq(Calls)
            /\ K \in Calls => <<K>> \in Seq(Calls)
            /\ T \in Calls /\ K \in Calls => <<T, K>> \in Seq(Calls)
        OBVIOUS
      <4>3. ForwardInput(r) \in Seq(Calls)
        BY Zenon, <4>1, <4>2
      <4>. QED
        BY <3>2, <4>3
    <3>. QED
      BY <3>1, <3>2
  <2> HIDE DEF todo, l
  <2>3. new \in InputJobs
    <3> DEFINE todos == Seq(Calls)
               jobs == [at : {"lock", "call"}, req : InputRequests, n : Nat, wrote : Nat,
                        most : Nat, old : Nat, todo : todos]
    <3>1. InputJobs = jobs
      BY Zenon DEF InputJobs, Calls
    <3>2. todo \in todos /\ j \in jobs
      BY <1>2, <2>2, <3>1
    <3> HIDE DEF todos, j
    <3>3. [j EXCEPT !.at = "call"] \in jobs
      BY <3>2
    <3>4. [[j EXCEPT !.at = "call"] EXCEPT !.todo = todo] \in jobs
      BY <3>2, <3>3
    <3>5. new \in jobs
      BY <1>2, <3>4
    <3>. QED
      BY <3>1, <3>5
  <2>4. /\ new.at = "call" /\ new.todo = todo /\ new.old = Len(l) /\ new.req = j.req
        /\ new.n = j.n /\ new.wrote = j.wrote
    BY <1>2 DEF InputJobs
  <2> HIDE DEF new
  <2>5. job'[s] = new /\ \A t \in Sessions \ {s} : job'[t] = job[t]
    BY <2>1 DEF Inv, Typed
  <2>6. Typed'
    BY <1>1, <2>1, <2>3 DEF Inv, Typed
  <2>7. Calling(new, l)
    <3>1. j.req.line # None => todo = ReconcileLine(l, j.req.line)
      BY DEF todo
    <3>2. j.req.line = None => todo = ForwardInput(j.req)
      BY DEF todo
    <3>. QED
      BY Zenon, <1>3, <1>7, <2>4, <3>1, <3>2 DEF Calling
  <2>8. Work(new, asked[s], taken[s], Len(answers[s]))
    BY <1>2, <1>3, <2>3, <2>4, JobIs DEF Work
  <2>9. SessionOK(s)'
    <3>1. Invoking(new, open', known')
      BY <2>4 DEF Invoking
    <3>2. Calling(new, shadow'[new.req.pane])
      BY <1>1, <2>4, <2>7 DEF l
    <3>. QED
      BY <1>1, <1>3, <2>1, <2>5, <2>8, <3>1, <3>2 DEF SessionOK
  <2>10. Locked'
    BY <1>1, <2>5 DEF Locked, At
  <2>. QED
    BY <1>4, <1>5, <2>1, <2>5, <2>6, <2>9, <2>10 DEF Inv
<1>. QED
  BY <1>6, <1>7

\* What a call changes, whatever becomes of the request.
LEMMA CallHerdrIs ==
    ASSUME Inv, NEW s \in Sessions, CallHerdr(s)
    PROVE  LET j == job[s]
               p == j.req.pane
               c == Head(j.todo)
           IN  /\ j # None /\ j \in InputJobs /\ j.at = "call" /\ p \in Panes /\ shadow[p] \in Lines
               /\ Calling(j, shadow[p]) /\ ValidateSendInput(j.req)
               /\ UNCHANGED <<open, known, watched, asked, taken>>
               /\ \A t \in Sessions \ {s} : At(t) # "call"
               /\ \E out \in [ok : BOOLEAN, times : Nat], m \in Nat :
                     LET after == IF out.ok THEN ShadowAfterCall(shadow[p], j, c) ELSE shadow[p]
                     IN  /\ shadow' = [shadow EXCEPT ![p] = after] /\ after \in Lines
                         /\ unsure' \subseteq Panes /\ unsure \subseteq unsure'
                         /\ faults' \in 0..MaxFaults
                         /\ line' \in [Panes -> Lines] /\ \A q \in Panes \ {p} : line'[q] = line[q]
                         /\ p \notin unsure' => line'[p] = after
                         /\ IF out.ok /\ Len(j.todo) > 1
                            THEN job' = [job EXCEPT ![s] = CalledJob(j, m)] /\ answers' = answers
                            ELSE Finish(s, out.ok, j.wrote + (IF out.ok THEN 1 ELSE 0), m, Len(after))
<1> DEFINE j == job[s]
           p == j.req.pane
           c == Head(j.todo)
<1>1. /\ j # None /\ j \in InputJobs /\ j.at = "call" /\ p \in Panes /\ shadow[p] \in Lines
      /\ line[p] \in Lines /\ j.most \in Nat
  <2>1. At(s) = "call" /\ j \in InputJobs \cup ActionJobs \cup {None}
    BY DEF CallHerdr, Inv, Typed
  <2>2. j # None /\ j.at = "call"
    BY <2>1 DEF At
  <2>3. j \in InputJobs /\ p \in Panes /\ j.most \in Nat
    BY <2>1, <2>2, JobIs
  <2>4. shadow[p] \in Lines /\ line[p] \in Lines
    BY <2>3 DEF Inv, Typed
  <2>. QED
    BY <2>2, <2>3, <2>4
<1>2. Calling(j, shadow[p]) /\ ValidateSendInput(j.req)
  BY <1>1 DEF Inv, SessionOK, Work
<1>3. \A t \in Sessions \ {s} : At(t) # "call"
  BY DEF CallHerdr, Inv, Locked
<1>4. UNCHANGED <<open, known, watched, asked, taken>>
  BY DEF CallHerdr
<1> DEFINE Most(out)  == IF out.times > j.most THEN out.times ELSE j.most
           After(out) == IF out.ok THEN ShadowAfterCall(shadow[p], j, c) ELSE shadow[p]
<1>5. PICK out \in Call(p \in open, TRUE) :
             /\ Charge(out, p \in open, p)
             /\ line' = TypedInto(p, j, c, out.times)
             /\ shadow' = [shadow EXCEPT ![p] = After(out)]
             /\ IF out.ok /\ Len(j.todo) > 1
                THEN /\ job' = [job EXCEPT ![s] = [j EXCEPT !.todo = Tail(@), !.wrote = @ + 1,
                                                            !.most = Most(out)]]
                     /\ answers' = answers
                ELSE Finish(s, out.ok, j.wrote + (IF out.ok THEN 1 ELSE 0), Most(out), Len(After(out)))
  BY DEF CallHerdr
<1>6. out.ok \in BOOLEAN /\ out.times \in Nat /\ out \in [ok : BOOLEAN, times : Nat]
  <2>1. (p \in open) \in BOOLEAN /\ TRUE \in BOOLEAN
    OBVIOUS
  <2>2. out.ok \in BOOLEAN /\ out.times \in Nat
    BY <2>1, CallIs
  <2>3. \A there, again : \A o \in Call(there, again) : o = [ok |-> o.ok, times |-> o.times]
    BY DEF Call
  <2>4. out = [ok |-> out.ok, times |-> out.times]
    BY <2>3
  <2>. QED
    BY <2>2, <2>4
<1> DEFINE m == Most(out)
           after == After(out)
           w == ShadowAfterCall(shadow[p], j, c)
<1>7. m \in Nat
  BY <1>1, <1>6
<1>8. c \in Calls /\ w \in Lines /\ w = (IF j.req.bypass THEN shadow[p] ELSE TypeCall(shadow[p], c))
  BY <1>1, <1>2, <1>7, CallStep
<1>9. after \in Lines
  BY <1>1, <1>6, <1>8
<1> HIDE DEF j, c, m
<1>10. /\ unsure' \subseteq Panes /\ unsure \subseteq unsure' /\ faults' \in 0..MaxFaults
       /\ p \notin unsure' => Clean(out) /\ p \notin unsure
  <2>1. faults \in 0..MaxFaults /\ MaxFaults \in Nat /\ unsure \subseteq Panes
    BY InputAssumption DEF Inv, Typed
  <2>2. /\ Fault(out, p \in open) => faults < MaxFaults
        /\ faults' = IF Fault(out, p \in open) THEN faults + 1 ELSE faults
        /\ unsure' = IF Clean(out) THEN unsure ELSE unsure \cup {p}
    BY <1>5 DEF Charge
  <2>3. faults' \in 0..MaxFaults
    BY <2>1, <2>2
  <2>4. p \in Panes
    BY <1>1
  <2>. QED
    BY Zenon, <2>1, <2>2, <2>3, <2>4
<1>11. line' \in [Panes -> Lines] /\ \A q \in Panes \ {p} : line'[q] = line[q]
  <2>1. TypeCall(line[p], c) \in Lines /\ TypeCall(TypeCall(line[p], c), c) \in Lines
    BY <1>1, <1>8, TypeCallIs
  <2>2. line \in [Panes -> Lines]
    BY DEF Inv, Typed
  <2>. QED
    BY <1>1, <1>5, <2>1, <2>2 DEF TypedInto
<1>12. ASSUME p \notin unsure' PROVE line'[p] = after
  <2>1. out.times = IF out.ok THEN 1 ELSE 0
    BY <1>10, <1>12 DEF Clean
  <2>2. shadow[p] = line[p]
    BY <1>1, <1>10, <1>12 DEF Inv, Sure
  <2>3. line \in [Panes -> Lines] /\ p \in Panes
    BY <1>1 DEF Inv, Typed
  <2>4. CASE out.ok
    BY <1>5, <1>8, <2>1, <2>2, <2>3, <2>4 DEF TypedInto
  <2>5. CASE ~out.ok
    BY <1>5, <2>1, <2>2, <2>3, <2>5 DEF TypedInto
  <2>. QED
    BY <2>4, <2>5
<1>13. IF out.ok /\ Len(j.todo) > 1
       THEN job' = [job EXCEPT ![s] = CalledJob(j, m)] /\ answers' = answers
       ELSE Finish(s, out.ok, j.wrote + (IF out.ok THEN 1 ELSE 0), m, Len(after))
  BY <1>5 DEF CalledJob, m
<1>14. shadow' = [shadow EXCEPT ![p] = after]
  BY <1>5
<1> HIDE DEF p, after
<1>15. \E o \in [ok : BOOLEAN, times : Nat], k \in Nat :
          LET aft == IF o.ok THEN ShadowAfterCall(shadow[p], j, c) ELSE shadow[p]
          IN  /\ shadow' = [shadow EXCEPT ![p] = aft] /\ aft \in Lines
              /\ unsure' \subseteq Panes /\ unsure \subseteq unsure'
              /\ faults' \in 0..MaxFaults
              /\ line' \in [Panes -> Lines] /\ \A q \in Panes \ {p} : line'[q] = line[q]
              /\ p \notin unsure' => line'[p] = aft
              /\ IF o.ok /\ Len(j.todo) > 1
                 THEN job' = [job EXCEPT ![s] = CalledJob(j, k)] /\ answers' = answers
                 ELSE Finish(s, o.ok, j.wrote + (IF o.ok THEN 1 ELSE 0), k, Len(aft))
  <2>. out \in [ok : BOOLEAN, times : Nat] /\ m \in Nat
    BY <1>6, <1>7 DEF m
  <2>. WITNESS out \in [ok : BOOLEAN, times : Nat], m \in Nat
  <2>. QED
    BY <1>9, <1>10, <1>11, <1>12, <1>13, <1>14 DEF after
<1>. QED
  BY <1>1, <1>2, <1>3, <1>4, <1>15 DEF j, p, c

\* CallHerdr: the call is confirmed and the next one fits, or the input ends.
LEMMA CallHerdrKeeps == ASSUME Inv, NEW s \in Sessions, CallHerdr(s) PROVE Inv'
<1> DEFINE j == job[s]
           p == j.req.pane
           c == Head(j.todo)
           l == shadow[p]
           w == ShadowAfterCall(l, j, c)
<1>1. /\ j # None /\ j \in InputJobs /\ j.at = "call" /\ p \in Panes /\ l \in Lines
      /\ Calling(j, l) /\ ValidateSendInput(j.req)
      /\ UNCHANGED <<open, known, watched, asked, taken>>
      /\ \A t \in Sessions \ {s} : At(t) # "call"
  BY CallHerdrIs
<1>2. PICK out \in [ok : BOOLEAN, times : Nat], m \in Nat :
         LET after == IF out.ok THEN w ELSE l
         IN  /\ shadow' = [shadow EXCEPT ![p] = after] /\ after \in Lines
             /\ unsure' \subseteq Panes /\ unsure \subseteq unsure'
             /\ faults' \in 0..MaxFaults
             /\ line' \in [Panes -> Lines] /\ \A q \in Panes \ {p} : line'[q] = line[q]
             /\ p \notin unsure' => line'[p] = after
             /\ IF out.ok /\ Len(j.todo) > 1
                THEN job' = [job EXCEPT ![s] = CalledJob(j, m)] /\ answers' = answers
                ELSE Finish(s, out.ok, j.wrote + (IF out.ok THEN 1 ELSE 0), m, Len(after))
  BY CallHerdrIs
<1> DEFINE after == IF out.ok THEN w ELSE l
<1>3. /\ shadow' = [shadow EXCEPT ![p] = after] /\ after \in Lines
      /\ unsure' \subseteq Panes /\ unsure \subseteq unsure'
      /\ faults' \in 0..MaxFaults
      /\ line' \in [Panes -> Lines] /\ \A q \in Panes \ {p} : line'[q] = line[q]
      /\ p \notin unsure' => line'[p] = after
      /\ out.ok \in BOOLEAN
  BY <1>2
<1>4. /\ CalledJob(j, m) \in InputJobs /\ CalledJob(j, m).at = "call"
      /\ CalledJob(j, m).req = j.req /\ CalledJob(j, m).n = j.n
      /\ Len(j.todo) > 1 => Calling(CalledJob(j, m), w)
      /\ j.wrote > 0 /\ (j.req.line # None \/ (~j.req.bypass /\ j.req.text \notin {Raw, <<>>}))
            => Len(l) # j.old
  BY <1>1, CallStep
<1>5. Work(j, asked[s], taken[s], Len(answers[s])) /\ Read(asked[s], answers[s]) /\ j.wrote \in Nat
      /\ j.n \in Nat
  BY <1>1, JobIs DEF Inv, SessionOK
<1>6. shadow'[p] = after /\ shadow' \in [Panes -> Lines] /\ \A q \in Panes \ {p} : shadow'[q] = shadow[q]
  BY <1>1, <1>3 DEF Inv, Typed
<1>7. Sure'
  <2> SUFFICES ASSUME NEW q \in Panes, q \notin unsure' PROVE shadow'[q] = line'[q]
    BY DEF Sure
  <2>1. CASE q = p
    BY <1>3, <1>6, <2>1
  <2>2. CASE q # p
    BY <1>3, <1>6, <2>2 DEF Inv, Sure
  <2>. QED
    BY <2>1, <2>2
<1>8. ASSUME NEW t \in Sessions, t # s, job'[t] = job[t], answers'[t] = answers[t] PROVE SessionOK(t)'
  BY <1>1, <1>8, Others DEF Inv, Typed
<1>9. CASE out.ok /\ Len(j.todo) > 1
  <2> DEFINE k == CalledJob(j, m)
  <2>1. job' = [job EXCEPT ![s] = k] /\ answers' = answers /\ after = w
    BY <1>2, <1>9
  <2> HIDE DEF k, after, w, j
  <2>2. job'[s] = k /\ \A t \in Sessions \ {s} : job'[t] = job[t]
    BY <2>1 DEF Inv, Typed
  <2>3. k \in InputJobs /\ k.at = "call" /\ k.req = j.req /\ k.n = j.n /\ Calling(k, w)
    BY <1>4, <1>9 DEF k
  <2>4. Typed'
    BY <1>1, <1>3, <1>6, <2>1, <2>3 DEF Inv, Typed
  <2>5. Work(k, asked[s], taken[s], Len(answers[s]))
    BY <1>1, <1>5, <2>3, JobIs DEF Work
  <2>6. SessionOK(s)'
    <3>1. Invoking(k, open', known')
      BY <2>3 DEF Invoking
    <3>2. Calling(k, shadow'[k.req.pane])
      BY <1>6, <2>1, <2>3
    <3>. QED
      BY <1>1, <1>5, <2>1, <2>2, <2>5, <3>1, <3>2 DEF SessionOK
  <2>7. Locked'
    BY <1>1, <2>2 DEF Locked, At
  <2>. QED
    BY <1>7, <1>8, <2>1, <2>2, <2>4, <2>6, <2>7 DEF Inv
<1>10. CASE ~(out.ok /\ Len(j.todo) > 1)
  <2> DEFINE wrote == j.wrote + (IF out.ok THEN 1 ELSE 0)
             newLen == Len(after)
  <2>1. Finish(s, out.ok, wrote, m, newLen)
    BY <1>2, <1>10
  <2>2. wrote \in Nat /\ newLen \in Nat
    BY <1>3, <1>5 DEF Lines
  <2>3. ASSUME wrote > 0, ~out.ok,
               j.req.line # None \/ (~j.req.bypass /\ j.req.text \notin {Raw, <<>>})
        PROVE  newLen # j.old
    BY <1>4, <1>5, <2>3
  <2> HIDE DEF wrote, newLen, after, w
  <2>4. /\ job' = [job EXCEPT ![s] = None]
        /\ answers' \in [Sessions -> Seq(Answers)]
        /\ \A t \in Sessions \ {s} : job'[t] = job[t] /\ answers'[t] = answers[t]
        /\ Work(None, asked[s], taken[s], Len(answers'[s]))
        /\ Read(asked[s], answers'[s])
    BY <1>1, <1>3, <2>1, <2>2, <2>3, FinishIs
  <2>5. job'[s] = None
    BY <2>4 DEF Inv, Typed
  <2>6. Typed'
    BY <1>1, <1>3, <1>6, <2>4 DEF Inv, Typed
  <2>7. SessionOK(s)'
    BY <1>1, <2>4, <2>5 DEF SessionOK, Invoking
  <2>8. Locked'
    BY <1>1, <2>4, <2>5 DEF Locked, At
  <2>. QED
    BY <1>7, <1>8, <2>4, <2>6, <2>7, <2>8 DEF Inv
<1>. QED
  BY <1>9, <1>10

-----------------------------------------------------------------------------
(* Actions, and the desktop.                                               *)

\* Herdr's panes change: every session but one at work keeps its facts.
LEMMA PanesIs ==
    ASSUME Inv, NEW opened \in SUBSET (Panes \ known), NEW closed, PanesChange(opened, closed)
    PROVE  /\ open' \subseteq known' /\ known' \subseteq Panes /\ line' = line
           /\ known \subseteq known' /\ open' \cap known \subseteq open
BY DEF PanesChange, Inv, Typed

\* The answer to an action.
LEMMA DoneIs ==
    ASSUME Inv, NEW s \in Sessions, job[s] \in ActionJobs, NEW a \in Answers, Done(s, a),
           UNCHANGED <<asked, taken>>
    PROVE  /\ job' = [job EXCEPT ![s] = None]
           /\ answers' \in [Sessions -> Seq(Answers)]
           /\ \A t \in Sessions \ {s} : job'[t] = job[t] /\ answers'[t] = answers[t]
           /\ SessionOK(s)'
           /\ Len(answers'[s]) = taken[s] /\ answers'[s][taken[s]] = a
           /\ asked[s][taken[s]].do = "action"
<1> DEFINE j == job[s]
           q == asked[s]
           n == taken[s]
           old == answers[s]
           ans == answers'[s]
<1>1. job' = [job EXCEPT ![s] = None] /\ answers' = ReplyToInputs(s, 1, a)
  BY DEF Done
<1>2. job'[s] = None /\ \A t \in Sessions \ {s} : job'[t] = job[t]
  BY <1>1 DEF Inv, Typed
<1>3. /\ Work(j, q, n, Len(old)) /\ Read(q, old)
      /\ answers \in [Sessions -> Seq(Answers)] /\ n \in Nat /\ Len(old) \in Nat
      /\ j # None /\ j.n = 1 /\ j.req \in ActionRequests
  <2>1. j.n = 1 /\ j.req \in ActionRequests
    BY DEF ActionJobs
  <2>2. j # None
    BY RequestAssumption
  <2>3. SessionOK(s) /\ answers \in [Sessions -> Seq(Answers)] /\ n \in Nat
    BY DEF Inv, Typed
  <2>4. Len(old) \in Nat
    BY <2>3
  <2>. QED
    BY <2>1, <2>2, <2>3, <2>4 DEF SessionOK
<1>4. n <= Len(q) /\ n = Len(old) + 1 /\ q[n].do = "action"
  BY <1>3 DEF Work, ActionRequests
<1>5. /\ answers' \in [Sessions -> Seq(Answers)]
      /\ \A t \in Sessions \ {s} : answers'[t] = answers[t]
      /\ Len(ans) = Len(old) + 1
      /\ \A i \in 1..(Len(old) + 1) : ans[i] = IF i <= Len(old) THEN old[i] ELSE a
  <2>2. PICK m \in Nat : m = 1
    OBVIOUS
  <2> DEFINE r == ReplyToInputs(s, m, a)
  <2>1. /\ r \in [Sessions -> Seq(Answers)] /\ \A t \in Sessions \ {s} : r[t] = answers[t]
        /\ Len(r[s]) = Len(answers[s]) + m
        /\ \A k \in 1..(Len(answers[s]) + m) :
             r[s][k] = IF k <= Len(answers[s]) THEN answers[s][k] ELSE a
    BY <1>3, ReplyIs, ZenonT(60)
  <2> HIDE DEF r
  <2>. QED
    BY <1>1, <2>1, <2>2 DEF r
<1> HIDE DEF ans, old, q, n, j
<1>6. Len(ans) = n /\ ans[n] = a /\ \A i \in 1..Len(old) : ans[i] = old[i]
  <2>1. n \in 1..(Len(old) + 1) /\ ~(n <= Len(old))
    BY <1>3, <1>4
  <2>2. \A i \in 1..Len(old) : i \in 1..(Len(old) + 1) /\ i <= Len(old)
    BY <1>3
  <2>. QED
    BY <1>4, <1>5, <2>1, <2>2
<1>7. Read(q, ans)
  <2> SUFFICES ASSUME NEW i \in 1..n, q[i].do = "input", ans[i].wrote > 0,
                      q[i].do = "input" => ~q[i].bypass /\ q[i].text \notin {Raw, <<>>}
               PROVE  ans[i].read
    BY <1>6 DEF Read
  <2>1. i # n
    BY <1>4
  <2>2. i \in 1..Len(old)
    BY <1>3, <1>4, <2>1
  <2>. QED
    BY <1>3, <1>6, <2>2 DEF Read
<1>8. Work(None, q, n, Len(ans))
  BY <1>4, <1>6, RequestAssumption DEF Work
<1>9. SessionOK(s)'
  BY <1>2, <1>7, <1>8 DEF SessionOK, Invoking, ans, q, n
<1>. QED
  BY <1>1, <1>2, <1>4, <1>5, <1>6, <1>9 DEF ans, q, n

\* A step of a session outside the lock, in which Herdr may open panes of
\* new ids and close others.
LEMMA StepKeeps ==
    ASSUME Inv, NEW s \in Sessions,
           UNCHANGED <<line, shadow, watched, asked, unsure>>,
           open' \subseteq known', known' \subseteq Panes, known \subseteq known',
           open' \cap known \subseteq open,
           faults' \in 0..MaxFaults, taken' \in [Sessions -> Nat],
           job' \in [Sessions -> InputJobs \cup ActionJobs \cup {None}],
           answers' \in [Sessions -> Seq(Answers)],
           \A t \in Sessions \ {s} :
               job'[t] = job[t] /\ answers'[t] = answers[t] /\ taken'[t] = taken[t],
           job'[s] = None \/ job'[s] \in ActionJobs,
           SessionOK(s)'
    PROVE  Inv'
<1>1. Typed'
  BY DEF Inv, Typed
<1>2. ASSUME NEW t \in Sessions PROVE SessionOK(t)'
  <2>1. CASE t = s
    BY <2>1
  <2>2. CASE t # s
    BY <2>2, Others DEF Inv, Typed
  <2>. QED
    BY <2>1, <2>2
<1>3. At(s)' # "call"
  BY DEF At, ActionJobs
<1>4. Locked' /\ Sure'
  BY <1>3, ZenonT(60) DEF Inv, Locked, Sure, At
<1>. QED
  BY <1>1, <1>2, <1>4 DEF Inv

\* The thread is at an action.
LEMMA ActionAt ==
    ASSUME Inv, NEW s \in Sessions, At(s) \in {"act", "context", "before", "invoke", "after"}
    PROVE  /\ job[s] \in ActionJobs /\ job[s] # None /\ At(s) = job[s].at
           /\ job[s].req \in ActionRequests /\ job[s].req.pane \in Panes \cup {None}
           /\ job[s].n = 1 /\ job[s] \notin InputJobs
           /\ Work(job[s], asked[s], taken[s], Len(answers[s])) /\ Read(asked[s], answers[s])
           /\ Invoking(job[s], open, known)
           /\ \A k \in ActionJobs : k.req = job[s].req =>
                 Work(k, asked[s], taken[s], Len(answers[s]))
<1> DEFINE j == job[s]
<1>1. j \in InputJobs \cup ActionJobs \cup {None} /\ SessionOK(s)
  BY DEF Inv, Typed
<1>2. j # None /\ At(s) = j.at
  BY DEF At
<1>3. j \in ActionJobs /\ j \notin InputJobs
  BY <1>1, <1>2, JobIs
<1>4. /\ j.req \in ActionRequests /\ j.req.pane \in Panes \cup {None} /\ j.n = 1
  BY <1>3 DEF ActionJobs, ActionRequests
<1>5. Work(j, asked[s], taken[s], Len(answers[s])) /\ Read(asked[s], answers[s])
      /\ Invoking(j, open, known)
  BY <1>1 DEF SessionOK
<1>6. ASSUME NEW k \in ActionJobs, k.req = j.req PROVE Work(k, asked[s], taken[s], Len(answers[s]))
  <2>1. k.n = 1 /\ k # None
    BY RequestAssumption DEF ActionJobs
  <2>2. k \notin InputJobs
    BY JobIs DEF InputJobs, ActionJobs
  <2>. QED
    BY <1>2, <1>4, <1>5, <1>6, <2>1, <2>2 DEF Work
<1>. QED
  BY <1>2, <1>3, <1>4, <1>5, <1>6

\* TakeAction: an action is refused, or the thread is at its first call.
LEMMA TakeActionKeeps == ASSUME Inv, NEW s \in Sessions, TakeAction(s) PROVE Inv'
<1> DEFINE i == taken[s] + 1
           q == asked[s]
           r == q[i]
           a == Len(answers[s])
           new == [at |-> IF r.act = "plugin.invoke" THEN "context" ELSE "act",
                   req |-> r, n |-> 1, before |-> {}, since |-> {}, mine |-> {}, context |-> None]
<1>1. /\ job[s] = None /\ i <= Len(q) /\ r.do = "action"
      /\ UNCHANGED <<open, known, line, shadow, watched, asked, unsure, faults>>
      /\ taken' = [taken EXCEPT ![s] = i]
  <2>1. At(s) = "idle"
    BY DEF TakeAction
  <2>2. job[s] = None
    BY <2>1, JobIs DEF At, Inv, Typed
  <2>. QED
    BY <2>2 DEF TakeAction, herdrVars
<1>2. /\ taken[s] \in Nat /\ a = taken[s] /\ q \in Seq(InputRequests \cup ActionRequests)
      /\ answers \in [Sessions -> Seq(Answers)] /\ Read(q, answers[s])
  BY <1>1 DEF Inv, Typed, SessionOK, Work
<1>3. r \in ActionRequests
  <2>1. r \in InputRequests \cup ActionRequests
    BY <1>1, <1>2
  <2>. QED
    BY <1>1, <2>1 DEF InputRequests
<1>4. /\ taken' \in [Sessions -> Nat] /\ taken'[s] = i
      /\ \A t \in Sessions \ {s} : taken'[t] = taken[t]
  BY <1>1, <1>2 DEF Inv, Typed
<1>5. CASE Required[r.act] \subseteq r.given
  <2>1. job' = [job EXCEPT ![s] = new] /\ answers' = answers
    BY <1>5 DEF TakeAction
  <2>2. new \in ActionJobs /\ new.req = r /\ new.at \notin {"invoke", "after"} /\ new.n = 1
    BY <1>3 DEF ActionJobs
  <2> HIDE DEF new, r
  <2>3. new # None /\ new \notin InputJobs
    BY <2>2, JobIs, RequestAssumption DEF ActionJobs, InputJobs
  <2>4. Work(new, q, i, a)
    BY <1>1, <1>2, <2>2, <2>3 DEF Work, r
  <2>5. job'[s] = new /\ job' \in [Sessions -> InputJobs \cup ActionJobs \cup {None}]
        /\ \A t \in Sessions \ {s} : job'[t] = job[t]
    BY <2>1, <2>2 DEF Inv, Typed
  <2>6. new.at # "call"
    BY <2>2 DEF ActionJobs
  <2>7. SessionOK(s)'
    BY <1>1, <1>2, <1>4, <2>1, <2>2, <2>4, <2>5, <2>6 DEF SessionOK, Invoking
  <2>. QED
    BY <1>1, <1>4, <2>1, <2>2, <2>5, <2>7, StepKeeps DEF Inv, Typed
<1>6. CASE ~(Required[r.act] \subseteq r.given)
  <2>1. job' = job /\ answers' = ReplyToInputs(s, 1, Refusal)
    BY <1>6 DEF TakeAction
  <2>2. PICK m \in Nat : m = 1
    OBVIOUS
  <2> DEFINE w == ReplyToInputs(s, m, Refusal)
             ans == w[s]
  <2>3. /\ w \in [Sessions -> Seq(Answers)] /\ \A t \in Sessions \ {s} : w[t] = answers[t]
        /\ Len(ans) = a + m
        /\ \A k \in 1..(a + m) : ans[k] = IF k <= a THEN answers[s][k] ELSE Refusal
    BY <1>2, ReplyIs, RefusalIs, ZenonT(60)
  <2> HIDE DEF w
  <2>4. answers' = w
    BY <2>1, <2>2 DEF w
  <2>5. Len(ans) = i /\ \A k \in 1..i : ans[k] = IF k <= a THEN answers[s][k] ELSE Refusal
    BY <1>2, <2>2, <2>3
  <2> HIDE DEF ans
  <2>6. Read(q, ans)
    BY <1>1, <1>2, <2>5, RefusedIsRead
  <2>7. Work(None, q, i, i)
    BY <1>1, RequestAssumption DEF Work
  <2>8. SessionOK(s)'
    BY <1>1, <1>4, <2>1, <2>4, <2>5, <2>6, <2>7 DEF SessionOK, Invoking, ans
  <2>. QED
    BY <1>1, <1>4, <2>1, <2>3, <2>4, <2>8, StepKeeps DEF Inv, Typed
<1>. QED
  BY <1>5, <1>6

\* An action that is answered: the panes may have changed.
LEMMA DoneKeeps ==
    ASSUME Inv, NEW s \in Sessions, job[s] \in ActionJobs, NEW a \in Answers, Done(s, a),
           UNCHANGED <<line, shadow, watched, asked, taken, unsure>>,
           open' \subseteq known', known' \subseteq Panes, known \subseteq known',
           open' \cap known \subseteq open, faults' \in 0..MaxFaults
    PROVE  Inv'
<1>1. /\ job' = [job EXCEPT ![s] = None]
      /\ answers' \in [Sessions -> Seq(Answers)]
      /\ \A t \in Sessions \ {s} : job'[t] = job[t] /\ answers'[t] = answers[t]
      /\ SessionOK(s)'
  BY DoneIs
<1>2. job'[s] = None /\ job' \in [Sessions -> InputJobs \cup ActionJobs \cup {None}]
      /\ taken' \in [Sessions -> Nat] /\ \A t \in Sessions \ {s} : taken'[t] = taken[t]
  BY <1>1 DEF Inv, Typed
<1>. QED
  BY <1>1, <1>2, StepKeeps

\* Charging a fault keeps within the bound.
LEMMA FaultsIs ==
    ASSUME Inv, NEW out, NEW there,
           Fault(out, there) => faults < MaxFaults,
           faults' = IF Fault(out, there) THEN faults + 1 ELSE faults
    PROVE  faults' \in 0..MaxFaults
<1>1. faults \in 0..MaxFaults /\ MaxFaults \in Nat
  BY InputAssumption DEF Inv, Typed
<1>. QED
  BY <1>1

\* The answer to a request.
LEMMA AnswerIs ==
    ASSUME NEW read \in BOOLEAN, NEW wrote \in Nat, NEW most \in Nat, NEW p \in Panes \cup {None}
    PROVE  Answer(TRUE, read, wrote, most, p) \in Answers
BY DEF Answer, Answers

\* An action's call is answered, and Herdr's panes are new ones or fewer.
LEMMA ActionCallIs ==
    ASSUME Inv, NEW s \in Sessions, ActionCall(s)
    PROVE  /\ faults' \in 0..MaxFaults
           /\ \E opened \in SUBSET (Panes \ known), closed \in SUBSET (Panes \cup {None}) :
                 PanesChange(opened, closed)
           /\ \E a \in Answers : Done(s, a)
<1> DEFINE r == job[s].req
           there == r.pane = None \/ r.pane \in open
<1>1. job[s] \in ActionJobs /\ r.pane \in Panes \cup {None}
  BY ActionAt DEF ActionCall
<1>3. PICK out \in Call(there, r.act # "close"), opened \in SUBSET (Panes \ known) :
        /\ Fault(out, there) => faults < MaxFaults
        /\ faults' = IF Fault(out, there) THEN faults + 1 ELSE faults
        /\ PanesChange(opened, IF r.act = "close" /\ out.times > 0 THEN {r.pane} ELSE {})
        /\ IF ~out.ok THEN Done(s, Refusal)
           ELSE \E p \in IF r.act \in Creates /\ opened # {} THEN opened ELSE {r.pane} :
                    Done(s, Answer(TRUE, FALSE, 1, out.times, p))
  BY DEF ActionCall
<1>4. out.times \in Nat
  <2>1. there \in BOOLEAN /\ (r.act # "close") \in BOOLEAN
    OBVIOUS
  <2>. QED
    BY <2>1, CallIs
<1>5. PICK a \in Answers : Done(s, a)
  <2>1. CASE ~out.ok
    BY <1>3, <2>1, RefusalIs
  <2>2. CASE out.ok
    <3>1. PICK p \in IF r.act \in Creates /\ opened # {} THEN opened ELSE {r.pane} :
             Done(s, Answer(TRUE, FALSE, 1, out.times, p))
      BY <1>3, <2>2
    <3>2. p \in Panes \cup {None}
      BY <1>1, <3>1
    <3>. QED
      BY <1>4, <3>1, <3>2, AnswerIs
  <2>. QED
    BY <2>1, <2>2
<1>6. faults' \in 0..MaxFaults
  BY <1>3, FaultsIs
<1>7. PICK closed \in SUBSET (Panes \cup {None}) : PanesChange(opened, closed)
  BY <1>1, <1>3
<1>. QED
  BY <1>5, <1>6, <1>7

\* ActionCall: a split, a close or a swap of panes.
LEMMA ActionCallKeeps == ASSUME Inv, NEW s \in Sessions, ActionCall(s) PROVE Inv'
<1>1. job[s] \in ActionJobs
  BY ActionAt DEF ActionCall
<1>2. UNCHANGED <<shadow, watched, asked, taken, unsure>>
  BY DEF ActionCall
<1>3. /\ open' \subseteq known' /\ known' \subseteq Panes /\ line' = line
      /\ known \subseteq known' /\ open' \cap known \subseteq open
  BY ActionCallIs, PanesIs
<1>. QED
  BY <1>1, <1>2, <1>3, ActionCallIs, DoneKeeps

\* SnapshotFails: Herdr does not say which panes there are.
LEMMA SnapshotFailsKeeps == ASSUME Inv, NEW s \in Sessions, SnapshotFails(s) PROVE Inv'
<1>1. job[s] \in ActionJobs
  BY ActionAt DEF SnapshotFails
<1>2. UNCHANGED <<open, known, line, shadow, watched, asked, taken, unsure>> /\ Done(s, Refusal)
  BY DEF SnapshotFails, herdrVars
<1>3. faults' \in 0..MaxFaults
  BY InputAssumption DEF SnapshotFails, Inv, Typed
<1>4. open' \subseteq known' /\ known' \subseteq Panes /\ known \subseteq known' /\ open' \cap known \subseteq open
  BY <1>2 DEF Inv, Typed
<1>. QED
  BY <1>1, <1>2, <1>3, <1>4, RefusalIs, DoneKeeps

\* An invocation that goes on.
LEMMA GoesOnKeeps ==
    ASSUME Inv, NEW s \in Sessions, job[s] \in ActionJobs, NEW k \in ActionJobs,
           k.req = job[s].req, job' = [job EXCEPT ![s] = k],
           At(s) \in {"act", "context", "before", "invoke", "after"},
           UNCHANGED <<line, shadow, watched, asked, taken, answers, unsure>>,
           open' \subseteq known', known' \subseteq Panes, known \subseteq known',
           open' \cap known \subseteq open, faults' \in 0..MaxFaults,
           Invoking(k, open', known')
    PROVE  Inv'
<1>1. job'[s] = k /\ job' \in [Sessions -> InputJobs \cup ActionJobs \cup {None}]
      /\ \A t \in Sessions \ {s} : job'[t] = job[t]
  BY DEF Inv, Typed
<1>2. Work(k, asked[s], taken[s], Len(answers[s])) /\ Read(asked[s], answers[s])
  BY ActionAt
<1>3. k.at # "call"
  BY DEF ActionJobs
<1>4. SessionOK(s)'
  BY <1>1, <1>2, <1>3 DEF SessionOK
<1>. QED
  BY <1>1, <1>4, StepKeeps DEF Inv, Typed

\* InvokeContext: the pane of an invocation is looked for.
LEMMA InvokeContextKeeps == ASSUME Inv, NEW s \in Sessions, InvokeContext(s) PROVE Inv'
<1>1. UNCHANGED <<open, known, line, shadow, watched, asked, taken, answers, unsure, faults>>
      /\ At(s) = "context"
  BY DEF InvokeContext, herdrVars
<1>2. PICK focused \in open \cup {None} :
         job' = [job EXCEPT ![s].at = "before",
                            ![s].context = IF job[s].req.pane = None THEN focused
                                           ELSE job[s].req.pane]
  BY DEF InvokeContext
<1> DEFINE j == job[s]
           ctx == IF j.req.pane = None THEN focused ELSE j.req.pane
           k == [[j EXCEPT !.at = "before"] EXCEPT !.context = ctx]
<1>3. j \in ActionJobs /\ j.req.pane \in Panes \cup {None}
  BY <1>1, ActionAt
<1>4. ctx \in Panes \cup {None}
  BY <1>2, <1>3 DEF Inv, Typed
<1>5. job' = [job EXCEPT ![s] = k]
  BY <1>2 DEF Inv, Typed
<1> HIDE DEF ctx
<1>6. k \in ActionJobs /\ k.req = j.req /\ k.at = "before"
  BY <1>3, <1>4 DEF ActionJobs
<1> HIDE DEF k
<1>7. Invoking(k, open', known')
  BY <1>6 DEF Invoking
<1>8. open' \subseteq known' /\ known' \subseteq Panes /\ known \subseteq known'
      /\ open' \cap known \subseteq open /\ faults' \in 0..MaxFaults
  BY <1>1 DEF Inv, Typed
<1>. QED
  BY <1>1, <1>3, <1>5, <1>6, <1>7, <1>8, GoesOnKeeps

\* InvokeBefore: the panes before the invocation are those open now.
LEMMA InvokeBeforeKeeps == ASSUME Inv, NEW s \in Sessions, InvokeBefore(s) PROVE Inv'
<1> DEFINE j == job[s]
           k == [[[j EXCEPT !.at = "invoke"] EXCEPT !.before = open] EXCEPT !.since = known]
<1>1. UNCHANGED <<open, known, line, shadow, watched, asked, taken, answers, unsure, faults>>
      /\ At(s) = "before"
  BY DEF InvokeBefore, herdrVars
<1>2. job' = [job EXCEPT ![s].at = "invoke", ![s].before = open, ![s].since = known]
  BY DEF InvokeBefore, SnapshotPaneIds
<1>3. j \in ActionJobs
  BY <1>1, ActionAt
<1>4. open \subseteq known /\ known \subseteq Panes
  BY DEF Inv, Typed
<1>5. job' = [job EXCEPT ![s] = k]
  BY <1>2 DEF Inv, Typed
<1>6. k \in ActionJobs /\ k.req = j.req /\ k.before = open /\ k.since = known
  BY <1>3, <1>4 DEF ActionJobs
<1> HIDE DEF k
<1>7. Invoking(k, open', known')
  BY <1>1, <1>4, <1>6 DEF Invoking
<1>8. open' \subseteq known' /\ known' \subseteq Panes /\ known \subseteq known'
      /\ open' \cap known \subseteq open /\ faults' \in 0..MaxFaults
  BY <1>1 DEF Inv, Typed
<1>. QED
  BY <1>1, <1>3, <1>5, <1>6, <1>7, <1>8, GoesOnKeeps

\* InvokeCall: Herdr carries the invocation out and may open panes.
LEMMA InvokeCallKeeps == ASSUME Inv, NEW s \in Sessions, InvokeCall(s) PROVE Inv'
<1>1. UNCHANGED <<shadow, watched, asked, taken, unsure>> /\ At(s) = "invoke"
  BY DEF InvokeCall
<1>2. PICK out \in Call(TRUE, TRUE), opened \in SUBSET (Panes \ known), closed \in SUBSET open :
         /\ Fault(out, TRUE) => faults < MaxFaults
         /\ faults' = IF Fault(out, TRUE) THEN faults + 1 ELSE faults
         /\ PanesChange(opened, closed)
         /\ IF out.ok
            THEN /\ job' = [job EXCEPT ![s].at = "after", ![s].mine = opened]
                 /\ answers' = answers
            ELSE Done(s, Refusal)
  BY DEF InvokeCall
<1>3. faults' \in 0..MaxFaults
  BY <1>2, FaultsIs
<1>4. /\ open' \subseteq known' /\ known' \subseteq Panes /\ line' = line
      /\ known \subseteq known' /\ open' \cap known \subseteq open
  BY <1>2, PanesIs
<1> DEFINE j == job[s]
           k == [[j EXCEPT !.at = "after"] EXCEPT !.mine = opened]
<1>5. j \in ActionJobs /\ j # None /\ j.at = "invoke" /\ Invoking(j, open, known)
  BY <1>1, ActionAt
<1>6. CASE out.ok
  <2>1. job' = [job EXCEPT ![s].at = "after", ![s].mine = opened] /\ answers' = answers
    BY <1>2, <1>6
  <2>2. job' = [job EXCEPT ![s] = k]
    BY <2>1 DEF Inv, Typed
  <2>3. k \in ActionJobs /\ k.req = j.req /\ k.before = j.before /\ k.since = j.since
    BY <1>2, <1>5 DEF ActionJobs
  <2> HIDE DEF k, j
  <2>4. Invoking(k, open', known')
    BY <1>4, <1>5, <2>3 DEF Invoking
  <2>. QED
    BY <1>1, <1>3, <1>4, <1>5, <2>1, <2>2, <2>3, <2>4, GoesOnKeeps DEF j
<1>7. CASE ~out.ok
  <2>1. Done(s, Refusal)
    BY <1>2, <1>7
  <2>. QED
    BY <1>1, <1>3, <1>4, <1>5, <2>1, RefusalIs, DoneKeeps
<1>. QED
  BY <1>6, <1>7

\* One new pane, and which it is.
LEMMA AttributeIs ==
    ASSUME NEW before \in SUBSET Panes, NEW after \in SUBSET Panes
    PROVE  /\ Attribute(before, after) \in Panes \cup {None}
           /\ Attribute(before, after) # None => after \ before = {Attribute(before, after)}
           /\ Cardinality(after \ before) = 1 => Attribute(before, after) \in after \ before
<1> DEFINE new == after \ before
<1>1. IsFiniteSet(new)
  BY InputAssumption, FS_Subset
<1>2. ASSUME Cardinality(new) = 1 PROVE \E p : new = {p}
  BY <1>1, <1>2, FS_Singleton
<1>. QED
  BY <1>2 DEF Attribute

\* InvokeAfter: the panes after it are compared with those before.
LEMMA InvokeAfterKeeps == ASSUME Inv, NEW s \in Sessions, InvokeAfter(s) PROVE Inv'
<1> DEFINE p == Attribute(job[s].before, open)
<1>1. UNCHANGED <<open, known, line, shadow, watched, asked, taken, unsure, faults>>
      /\ At(s) = "after" /\ Done(s, Answer(TRUE, FALSE, 1, 1, p))
  BY DEF InvokeAfter, herdrVars, SnapshotPaneIds
<1>2. job[s] \in ActionJobs
  BY <1>1, ActionAt
<1>3. job[s].before \in SUBSET Panes /\ open \in SUBSET Panes
  BY <1>2 DEF ActionJobs, Inv, Typed
<1>4. p \in Panes \cup {None}
  BY <1>3, AttributeIs
<1> HIDE DEF p
<1>5. Answer(TRUE, FALSE, 1, 1, p) \in Answers
  BY <1>4, AnswerIs
<1>6. open' \subseteq known' /\ known' \subseteq Panes /\ known \subseteq known'
      /\ open' \cap known \subseteq open /\ faults' \in 0..MaxFaults
  BY <1>1 DEF Inv, Typed
<1>. QED
  BY <1>1, <1>2, <1>5, <1>6, DoneKeeps

\* Desktop: panes are opened, closed and typed into without the host.
LEMMA DesktopKeeps == ASSUME Inv, Desktop PROVE Inv'
<1>1. UNCHANGED <<shadow, watched, asked, taken, job, answers, unsure, faults>>
  BY DEF Desktop, inputVars
<1>2. PICK opened \in SUBSET (Panes \ known), closed \in SUBSET Panes : PanesChange(opened, closed)
  BY DEF Desktop, Inv, Typed
<1>3. /\ open' \subseteq known' /\ known' \subseteq Panes /\ line' = line
      /\ known \subseteq known' /\ open' \cap known \subseteq open
  BY <1>2, PanesIs
<1>4. Typed'
  BY <1>1, <1>3 DEF Inv, Typed
<1>5. ASSUME NEW t \in Sessions PROVE SessionOK(t)'
  BY <1>1, <1>3, Others
<1>6. Locked' /\ Sure'
  BY <1>1, <1>3 DEF Inv, Locked, Sure, At
<1>. QED
  BY <1>4, <1>5, <1>6 DEF Inv

\* The facts hold before the first request.
LEMMA InitInv == ASSUME Init PROVE Inv
<1>1. PICK l \in StartLines : line = [p \in Panes |-> IF p \in open THEN l ELSE <<>>]
  BY DEF Init
<1>2. l \in Lines /\ <<>> \in Lines
  BY <1>1, InputAssumption DEF Lines
<1>3. /\ open = StartPanes /\ known = open /\ shadow = line /\ watched \in [Sessions -> open]
      /\ asked = [s \in Sessions |-> <<>>] /\ taken = [s \in Sessions |-> 0]
      /\ job = [s \in Sessions |-> None] /\ answers = [s \in Sessions |-> <<>>]
      /\ unsure = {} /\ faults = 0 /\ StartPanes \subseteq Panes
      /\ MaxAsks \in Nat /\ MaxFaults \in Nat
  BY InputAssumption DEF Init
<1>4. Typed
  <2>1. /\ open \subseteq known /\ known \subseteq Panes /\ watched \in [Sessions -> Panes]
        /\ taken \in [Sessions -> Nat]
        /\ job \in [Sessions -> InputJobs \cup ActionJobs \cup {None}]
        /\ unsure \subseteq Panes /\ faults \in 0..MaxFaults
    BY <1>3
  <2>2. line \in [Panes -> Lines] /\ shadow \in [Panes -> Lines]
    BY <1>1, <1>2, <1>3
  <2>3. /\ asked \in [Sessions -> Seq(InputRequests \cup ActionRequests)]
        /\ answers \in [Sessions -> Seq(Answers)]
    BY <1>3
  <2>4. \A s \in Sessions : Len(asked[s]) <= MaxAsks
    BY <1>3
  <2>. QED
    BY <2>1, <2>2, <2>3, <2>4 DEF Typed
<1>5. ASSUME NEW s \in Sessions PROVE SessionOK(s)
  <2>1. job[s] = None /\ asked[s] = <<>> /\ taken[s] = 0 /\ answers[s] = <<>>
    BY <1>3
  <2>2. Work(None, <<>>, 0, Len(<<>>))
    BY RequestAssumption DEF Work
  <2>3. Read(<<>>, <<>>)
    BY DEF Read
  <2>. QED
    BY <2>1, <2>2, <2>3 DEF SessionOK, Invoking
<1>6. Locked /\ Sure
  BY <1>3 DEF Locked, Sure, At
<1>. QED
  BY <1>4, <1>5, <1>6 DEF Inv

\* No step ends them.
LEMMA StepInv == ASSUME Inv, [Next]_vars PROVE Inv'
<1>1. CASE UNCHANGED vars
  BY <1>1 DEF vars, herdrVars, inputVars, Inv, Typed, SessionOK, Work, Calling, Invoking, Read,
              Locked, Sure, At
<1>2. ASSUME NEW s \in Sessions, Ask(s) PROVE Inv'
  BY <1>2, AskKeeps
<1>3. ASSUME NEW s \in Sessions, InputStep(s) PROVE Inv'
  BY <1>3, TakeInputKeeps, LockInputKeeps, CallHerdrKeeps DEF InputStep
<1>4. ASSUME NEW s \in Sessions, ActionStep(s) PROVE Inv'
  BY <1>4, TakeActionKeeps, ActionCallKeeps, InvokeContextKeeps, InvokeBeforeKeeps,
     SnapshotFailsKeeps, InvokeCallKeeps, InvokeAfterKeeps DEF ActionStep
<1>5. CASE Desktop
  BY <1>5, DesktopKeeps
<1>. QED
  BY <1>1, <1>2, <1>3, <1>4, <1>5 DEF Next

\* The facts above hold in every reachable state.
THEOREM InputIsSafe == Spec => []Inv
<1>. QED
  BY InitInv, StepInv, PTL DEF Spec

\* Every variable holds what the code's field can hold, an answer is never
\* given before its request was taken, and a thread in its calls has one.
THEOREM TypeCorrect == Spec => []TypeOK
<1>1. ASSUME Inv, NEW s \in Sessions
      PROVE  /\ watched[s] \in Panes
             /\ Len(asked[s]) <= MaxAsks
             /\ Len(answers[s]) <= taken[s] /\ taken[s] <= Len(asked[s])
             /\ At(s) \in {"idle", "lock", "call", "act", "context", "before", "invoke", "after"}
             /\ At(s) = "call" => job[s].todo # <<>>
  <2>1. /\ Work(job[s], asked[s], taken[s], Len(answers[s]))
        /\ job[s] # None /\ job[s].at = "call" => Calling(job[s], shadow[job[s].req.pane])
    BY <1>1 DEF Inv, SessionOK
  <2>2. /\ watched[s] \in Panes /\ Len(asked[s]) <= MaxAsks
        /\ job[s] \in InputJobs \cup ActionJobs \cup {None} /\ taken[s] \in Nat
        /\ Len(answers[s]) \in Nat
    BY <1>1 DEF Inv, Typed
  <2>3. job[s] # None => job[s].at \in {"lock", "call", "act", "context", "before", "invoke", "after"}
    BY <2>2 DEF InputJobs, ActionJobs
  <2>4. job[s] # None => job[s].n \in Nat
    BY <2>2, JobIs
  <2>5. Len(answers[s]) <= taken[s] /\ taken[s] <= Len(asked[s])
    BY <2>1, <2>2, <2>4 DEF Work
  <2>6. At(s) = "call" => job[s].todo # <<>>
    BY <2>1 DEF At, Calling
  <2>. QED
    BY <2>2, <2>3, <2>5, <2>6 DEF At
<1>2. ASSUME Inv PROVE TypeOK
  <2>1. /\ open \subseteq known /\ known \subseteq Panes
        /\ DOMAIN line = Panes /\ DOMAIN shadow = Panes
        /\ unsure \subseteq Panes /\ faults \in 0..MaxFaults
    BY <1>2 DEF Inv, Typed
  <2>. QED
    BY <1>1, <1>2, <2>1 DEF TypeOK
<1>. QED
  BY <1>2, InputIsSafe, PTL

\* R-10-075: ShadowIsTheLine.  send_input holds the lock over the comparison
\* and its calls, and after each one that Herdr confirms it moves the shadow
\* by what the call types.
THEOREM ShadowIsRight == Spec => []ShadowIsTheLine
<1>1. ASSUME Inv PROVE ShadowIsTheLine
  BY <1>1 DEF Inv, Typed, Sure, ShadowIsTheLine
<1>. QED
  BY <1>1, InputIsSafe, PTL

\* What reconcile_line sends is Backspaces and text.
LEMMA ReconcileIsFine ==
    ASSUME NEW old \in Lines, NEW new \in Lines, NEW i \in 1..Len(ReconcileLine(old, new)),
           ReconcileLine(old, new)[i].op = "keys"
    PROVE  \A k \in 1..Len(ReconcileLine(old, new)[i].keys) : FineKey(ReconcileLine(old, new)[i].keys[k])
<1> DEFINE n == CommonPrefix(old, new)
           d == Len(old) - n
           t == SubSeq(new, n + 1, Len(new))
           text == Text(t)
           B == {Backspaces(m) : m \in Nat} \cup {text}
           chunks == Chunks(d)
           tail == IF n = Len(new) THEN <<>> ELSE <<text>>
           todo == ReconcileLine(old, new)
<1>1. n \in 0..Len(old) /\ Len(old) \in Nat /\ d \in Nat
  BY PrefixIs DEF Lines
<1>2. todo = chunks \o tail
  BY DEF ReconcileLine
<1>3. text.op = "text"
  BY DEF Text
<1> HIDE DEF text, d, n
<1>4. text \in B
  OBVIOUS
<1>5. \A k \in 1..Len(chunks) : chunks[k] \in B
  BY <1>1, ChunksBack
<1>6. chunks \in Seq(Calls)
  BY <1>1, ChunksAre
<1> HIDE DEF B, chunks
<1>7. chunks \in Seq(B)
  BY <1>5, <1>6
<1>8. tail \in Seq(B)
  BY <1>4
<1> HIDE DEF tail
<1>9. todo \in Seq(B)
  BY <1>2, <1>7, <1>8
<1>10. todo[i] \in B
  BY <1>9
<1>11. PICK m \in Nat : todo[i] = Backspaces(m)
  BY <1>3, <1>10 DEF B
<1>. QED
  BY <1>11, BackspacesIs, BackspaceIsFine

\* R-11-227, R-10-071, R-11-055: EveryRequestIsKept.  coalesce_input ends
\* with the last line it merges, reply_to_inputs answers as many as were
\* taken, a written composer line is read again, and what validate_send_input
\* lets through, or reconcile_line makes, are permitted keys.
THEOREM RequestsAreKept == Spec => []EveryRequestIsKept
<1>1. ASSUME Inv PROVE EveryIdAccounted
  <2> SUFFICES ASSUME NEW s \in Sessions
               PROVE  taken[s] = Len(answers[s]) + (IF At(s) = "idle" THEN 0 ELSE job[s].n)
    BY DEF EveryIdAccounted
  <2>1. /\ Work(job[s], asked[s], taken[s], Len(answers[s]))
        /\ job[s] \in InputJobs \cup ActionJobs \cup {None}
        /\ Len(answers[s]) \in Nat
    BY <1>1 DEF Inv, Typed, SessionOK
  <2>2. CASE job[s] = None
    BY <2>1, <2>2 DEF Work, At
  <2>3. CASE job[s] # None
    <3>1. At(s) # "idle"
      BY <2>1, <2>3, JobIs DEF At
    <3>. QED
      BY <2>1, <2>3, <3>1 DEF Work
  <2>. QED
    BY <2>2, <2>3
<1>2. ASSUME Inv PROVE WritesAreRead
  BY <1>2 DEF Inv, SessionOK, Read, WritesAreRead
<1>3. ASSUME Inv, NEW s \in Sessions, At(s) = "call", NEW i \in 1..Len(job[s].todo),
             job[s].todo[i].op = "keys"
      PROVE  \A k \in 1..Len(job[s].todo[i].keys) : FineKey(job[s].todo[i].keys[k])
  <2> DEFINE j == job[s]
             r == j.req
             l == shadow[r.pane]
  <2>1. j # None /\ j.at = "call" /\ j \in InputJobs \cup ActionJobs \cup {None}
    BY <1>3 DEF At, Inv, Typed
  <2>2. j \in InputJobs /\ r \in InputRequests /\ r.pane \in Panes
    BY <2>1, JobIs
  <2>3. ValidateSendInput(r) /\ Calling(j, l) /\ l \in Lines
    BY <1>3, <2>1, <2>2 DEF Inv, Typed, SessionOK, Work
  <2>4. CASE r.line # None
    <3>1. r.line \in Lines
      BY <2>2, <2>4 DEF InputRequests
    <3>2. j.todo = ReconcileLine(l, r.line)
      BY <2>1, <2>3, <2>4 DEF Calling
    <3>. QED
      BY <1>3, <2>3, <3>1, <3>2, ReconcileIsFine
  <2>5. CASE r.line = None
    <3> DEFINE T == Text(r.text)
               K == Keys(r.keys)
    <3>1. /\ \/ r.text # None /\ r.keys # None /\ ForwardInput(r) = <<T, K>>
             \/ r.text # None /\ r.keys = None /\ ForwardInput(r) = <<T>>
             \/ r.text = None /\ r.keys # None /\ ForwardInput(r) = <<K>>
      BY <2>2, <2>3, <2>5, ForwardIs
    <3>2. \/ j.todo = ForwardInput(r)
          \/ r.keys # None /\ j.todo = <<K>>
      BY <2>1, <2>3, <2>5 DEF Calling
    <3>3. T.op = "text" /\ K.keys = r.keys
      BY DEF Text, Keys
    <3> HIDE DEF T, K
    <3>4. j.todo = <<T>> \/ (r.keys # None /\ (j.todo = <<T, K>> \/ j.todo = <<K>>))
      BY Zenon, <3>1, <3>2
    <3>5. j.todo[i] = T \/ (r.keys # None /\ j.todo[i] = K)
      <4>1. CASE j.todo = <<T>>
        BY <1>3, <4>1
      <4>2. CASE r.keys # None /\ j.todo = <<T, K>>
        BY <1>3, <4>2
      <4>3. CASE r.keys # None /\ j.todo = <<K>>
        BY <1>3, <4>3
      <4>. QED
        BY Zenon, <3>4, <4>1, <4>2, <4>3
    <3>6. r.keys # None /\ j.todo[i] = K
      BY <1>3, <3>3, <3>5
    <3>7. \A k \in 1..Len(r.keys) : ValidateKey(r.keys[k])
      BY <2>3, <2>5, <3>6 DEF ValidateSendInput
    <3>8. r.keys \in Seq(KeyNames)
      BY <2>2, <3>6 DEF InputRequests
    <3>9. \A k \in 1..Len(r.keys) : r.keys[k] \in KeyNames
      BY <3>8, ElementOfSeq
    <3>. QED
      BY <3>3, <3>6, <3>7, <3>9, PermittedKeyIsFine
  <2>. QED
    BY <2>4, <2>5
<1>4. ASSUME Inv PROVE OnlyPermittedKeys
  <2>1. \A s \in Sessions : At(s) = "call" =>
            \A c \in {job[s].todo[i] : i \in 1..Len(job[s].todo)} :
                c.op = "keys" => \A i \in 1..Len(c.keys) : FineKey(c.keys[i])
    BY <1>3, <1>4
  <2>. QED
    BY Zenon, <2>1 DEF OnlyPermittedKeys, FineKey, Rank
<1>5. Inv => EveryRequestIsKept
  BY <1>1, <1>2, <1>4 DEF EveryRequestIsKept
<1>. QED
  BY <1>5, InputIsSafe, PTL

-----------------------------------------------------------------------------
(* What a step answers.                                                    *)

\* An input that is taken is answered only to be refused.
LEMMA TakeInputSays ==
    ASSUME Inv, NEW s \in Sessions, TakeInput(s)
    PROVE  /\ \A t \in Sessions \ {s} : answers'[t] = answers[t]
           /\ answers' = answers \/ ~answers'[s][Len(answers'[s])].ok
<1> DEFINE m == CoalesceInput(s, taken[s] + 1) - taken[s]
<1>1. taken[s] + 1 <= Len(asked[s]) /\ taken[s] \in Nat /\ Len(asked[s]) \in Nat
      /\ answers \in [Sessions -> Seq(Answers)]
  BY DEF TakeInput, Inv, Typed
<1>2. CoalesceInput(s, taken[s] + 1) \in (taken[s] + 1)..Len(asked[s])
  BY <1>1, CoalesceIs
<1>3. m \in Nat /\ m > 0
  BY <1>1, <1>2
<1>4. answers' = answers \/ answers' = ReplyToInputs(s, m, Refusal)
  BY DEF TakeInput
<1> HIDE DEF m
<1> DEFINE w == ReplyToInputs(s, m, Refusal)
<1>5. /\ \A t \in Sessions \ {s} : w[t] = answers[t]
      /\ Len(w[s]) = Len(answers[s]) + m
      /\ \A k \in 1..(Len(answers[s]) + m) :
           w[s][k] = IF k <= Len(answers[s]) THEN answers[s][k] ELSE Refusal
  <2>1. answers \in [Sessions -> Seq(Answers)] /\ m \in Nat
    BY <1>1, <1>3
  <2>. QED
    BY <2>1, ReplyIs, RefusalIs, ZenonT(60)
<1> HIDE DEF w
<1>6. Len(answers[s]) \in Nat
  BY <1>1
<1>7. w[s][Len(w[s])] = Refusal
  BY <1>3, <1>5, <1>6
<1>8. ~Refusal.ok
  BY DEF Refusal, Answer
<1>. QED
  BY <1>4, <1>5, <1>7, <1>8 DEF w

\* The request at work is the last of those that were taken.
LEMMA LineAtWork ==
    ASSUME Inv, NEW s \in Sessions, job[s] \in InputJobs, IsLine(asked[s][taken[s]])
    PROVE  /\ job[s].req = asked[s][taken[s]] /\ job[s].req.line # None /\ job[s].req.line \in Lines
           /\ job[s].req.pane \in Panes
<1>1. job[s] # None /\ job[s].req \in InputRequests /\ Work(job[s], asked[s], taken[s], Len(answers[s]))
      /\ job[s].req.pane \in Panes
  BY JobIs DEF Inv, SessionOK
<1>2. job[s].req = asked[s][taken[s]]
  BY <1>1 DEF Work
<1>. QED
  BY <1>1, <1>2 DEF IsLine, InputRequests

\* An input that has nothing to call: the shadow is its line already.
LEMMA LockInputSays ==
    ASSUME Inv, NEW s \in Sessions, LockInput(s)
    PROVE  /\ \A t \in Sessions \ {s} : answers'[t] = answers[t]
           /\ \/ answers' = answers
              \/ /\ Len(answers'[s]) = taken[s] /\ asked' = asked
                 /\ IsLine(asked[s][taken[s]]) =>
                       shadow'[asked[s][taken[s]].pane] = asked[s][taken[s]].line
<1> DEFINE j == job[s]
           l == shadow[j.req.pane]
           todo == IF j.req.line # None THEN ReconcileLine(l, j.req.line) ELSE ForwardInput(j.req)
<1>1. j # None /\ j.at = "lock" /\ j \in InputJobs /\ l \in Lines /\ Len(l) \in Nat
  <2>1. At(s) = "lock" /\ j \in InputJobs \cup ActionJobs \cup {None}
    BY DEF LockInput, Inv, Typed
  <2>2. j # None /\ j.at = "lock"
    BY <2>1 DEF At
  <2>3. j \in InputJobs /\ j.req.pane \in Panes
    BY <2>1, <2>2, JobIs
  <2>4. l \in Lines
    BY <2>3 DEF Inv, Typed
  <2>. QED
    BY <2>2, <2>3, <2>4 DEF Lines
<1>2. CASE todo # <<>>
  BY <1>2 DEF LockInput
<1>3. CASE todo = <<>>
  <2>1. Finish(s, TRUE, 0, 0, Len(l)) /\ shadow' = shadow /\ asked' = asked
    BY <1>3 DEF LockInput
  <2>2. /\ \A t \in Sessions \ {s} : answers'[t] = answers[t]
        /\ Len(answers'[s]) = taken[s]
    BY <1>1, <2>1, FinishIs
  <2>3. ASSUME IsLine(asked[s][taken[s]])
        PROVE  shadow[asked[s][taken[s]].pane] = asked[s][taken[s]].line
    <3>1. j.req = asked[s][taken[s]] /\ j.req.line # None /\ j.req.line \in Lines
      BY <1>1, <2>3, LineAtWork
    <3>2. l = j.req.line
      BY <1>1, <1>3, <3>1, ReconcileIs
    <3>. QED
      BY <3>1, <3>2
  <2>. QED
    BY <2>1, <2>2, <2>3
<1>. QED
  BY <1>2, <1>3

\* An input that is answered ok after its last call: the shadow is its line.
LEMMA CallHerdrSays ==
    ASSUME Inv, NEW s \in Sessions, CallHerdr(s)
    PROVE  /\ \A t \in Sessions \ {s} : answers'[t] = answers[t]
           /\ \/ answers' = answers
              \/ /\ Len(answers'[s]) = taken[s] /\ asked' = asked
                 /\ answers'[s][taken[s]].ok /\ IsLine(asked[s][taken[s]]) =>
                       shadow'[asked[s][taken[s]].pane] = asked[s][taken[s]].line
<1> DEFINE j == job[s]
           p == j.req.pane
           c == Head(j.todo)
           l == shadow[p]
           w == ShadowAfterCall(l, j, c)
<1>1. /\ j # None /\ j \in InputJobs /\ j.at = "call" /\ p \in Panes /\ l \in Lines
      /\ Calling(j, l) /\ ValidateSendInput(j.req) /\ asked' = asked
  BY CallHerdrIs
<1>2. PICK out \in [ok : BOOLEAN, times : Nat], m \in Nat :
         LET after == IF out.ok THEN w ELSE l
         IN  /\ shadow' = [shadow EXCEPT ![p] = after] /\ after \in Lines
             /\ IF out.ok /\ Len(j.todo) > 1
                THEN job' = [job EXCEPT ![s] = CalledJob(j, m)] /\ answers' = answers
                ELSE Finish(s, out.ok, j.wrote + (IF out.ok THEN 1 ELSE 0), m, Len(after))
  BY CallHerdrIs
<1> DEFINE after == IF out.ok THEN w ELSE l
           wrote == j.wrote + (IF out.ok THEN 1 ELSE 0)
           newLen == Len(after)
<1>3. shadow' = [shadow EXCEPT ![p] = after] /\ after \in Lines /\ out.ok \in BOOLEAN
  BY <1>2
<1>4. /\ ~(Len(j.todo) > 1) /\ j.req.line # None => w = j.req.line
      /\ j.wrote > 0 /\ (j.req.line # None \/ (~j.req.bypass /\ j.req.text \notin {Raw, <<>>}))
            => Len(l) # j.old
      /\ j.wrote \in Nat
  BY <1>1, CallStep, JobIs
<1>5. CASE out.ok /\ Len(j.todo) > 1
  BY <1>2, <1>5
<1>6. CASE ~(out.ok /\ Len(j.todo) > 1)
  <2>1. Finish(s, out.ok, wrote, m, newLen)
    BY <1>2, <1>6
  <2>2. wrote \in Nat /\ newLen \in Nat
    BY <1>3, <1>4 DEF Lines
  <2>3. ASSUME wrote > 0, ~out.ok,
               j.req.line # None \/ (~j.req.bypass /\ j.req.text \notin {Raw, <<>>})
        PROVE  newLen # j.old
    BY <1>4, <2>3
  <2> HIDE DEF wrote, newLen, w
  <2>4. /\ \A t \in Sessions \ {s} : answers'[t] = answers[t]
        /\ Len(answers'[s]) = taken[s] /\ answers'[s][taken[s]].ok = out.ok
    BY <1>1, <1>3, <2>1, <2>2, <2>3, FinishIs
  <2>5. ASSUME out.ok, IsLine(asked[s][taken[s]])
        PROVE  shadow'[asked[s][taken[s]].pane] = asked[s][taken[s]].line
    <3>1. j.req = asked[s][taken[s]] /\ j.req.line # None
      BY <1>1, <2>5, LineAtWork
    <3>2. after = j.req.line
      BY <1>4, <1>6, <2>5, <3>1
    <3>3. shadow'[p] = after
      BY <1>1, <1>3 DEF Inv, Typed
    <3>. QED
      BY <3>1, <3>2, <3>3
  <2>. QED
    BY <1>1, <2>4, <2>5
<1>. QED
  BY <1>5, <1>6

\* An action answers itself, and an invocation with what it compared.
LEMMA ActionSays ==
    ASSUME Inv, NEW s \in Sessions, ActionStep(s)
    PROVE  /\ \A t \in Sessions \ {s} : answers'[t] = answers[t]
           /\ \/ answers' = answers
              \/ ~answers'[s][Len(answers'[s])].ok
              \/ asked[s][Len(answers'[s])].do = "action"
           /\ At(s) = "after" =>
                \/ ~answers'[s][Len(answers'[s])].ok
                \/ answers'[s][Len(answers'[s])].pane = Attribute(job[s].before, open)
<1>1. ~Refusal.ok
  BY DEF Refusal, Answer
<1>2. CASE TakeAction(s)
  <2>1. At(s) = "idle"
    BY <1>2 DEF TakeAction
  <2>2. answers' = answers \/ answers' = ReplyToInputs(s, 1, Refusal)
    BY <1>2 DEF TakeAction
  <2>3. PICK m \in Nat : m = 1
    OBVIOUS
  <2> DEFINE w == ReplyToInputs(s, m, Refusal)
  <2>4. /\ \A t \in Sessions \ {s} : w[t] = answers[t]
        /\ Len(w[s]) = Len(answers[s]) + m
        /\ \A k \in 1..(Len(answers[s]) + m) :
             w[s][k] = IF k <= Len(answers[s]) THEN answers[s][k] ELSE Refusal
    BY ReplyIs, RefusalIs, ZenonT(60) DEF Inv, Typed
  <2> HIDE DEF w
  <2>5. answers' = answers \/ answers' = w
    BY <2>2, <2>3 DEF w
  <2>6. Len(answers[s]) \in Nat
    BY DEF Inv, Typed
  <2>7. w[s][Len(w[s])] = Refusal
    BY <2>3, <2>4, <2>6
  <2>. QED
    BY <1>1, <2>1, <2>4, <2>5, <2>7
<1>3. ASSUME NEW a \in Answers, Done(s, a), UNCHANGED <<asked, taken>>,
             At(s) \in {"act", "context", "before", "invoke", "after"},
             At(s) = "after" => ~a.ok \/ a.pane = Attribute(job[s].before, open)
      PROVE  /\ \A t \in Sessions \ {s} : answers'[t] = answers[t]
             /\ asked[s][Len(answers'[s])].do = "action"
             /\ At(s) = "after" =>
                  \/ ~answers'[s][Len(answers'[s])].ok
                  \/ answers'[s][Len(answers'[s])].pane = Attribute(job[s].before, open)
  <2>1. job[s] \in ActionJobs
    BY <1>3, ActionAt
  <2>2. /\ \A t \in Sessions \ {s} : answers'[t] = answers[t]
        /\ Len(answers'[s]) = taken[s] /\ answers'[s][taken[s]] = a
        /\ asked[s][taken[s]].do = "action"
    BY <1>3, <2>1, DoneIs
  <2>. QED
    BY <1>3, <2>2
<1>4. CASE ActionCall(s)
  <2>1. At(s) = "act" /\ UNCHANGED <<asked, taken>>
    BY <1>4 DEF ActionCall
  <2>2. PICK a \in Answers : Done(s, a)
    BY <1>4, ActionCallIs
  <2>. QED
    BY <1>3, <2>1, <2>2
<1>5. CASE SnapshotFails(s)
  BY <1>1, <1>3, <1>5, RefusalIs DEF SnapshotFails
<1>6. CASE InvokeContext(s) \/ InvokeBefore(s)
  BY <1>6 DEF InvokeContext, InvokeBefore
<1>7. CASE InvokeCall(s)
  <2>1. At(s) = "invoke" /\ UNCHANGED <<asked, taken>>
    BY <1>7 DEF InvokeCall
  <2>2. answers' = answers \/ Done(s, Refusal)
    BY <1>7 DEF InvokeCall
  <2>. QED
    BY <1>3, <2>1, <2>2, RefusalIs
<1>8. CASE InvokeAfter(s)
  <2> DEFINE p == Attribute(job[s].before, open)
             a == Answer(TRUE, FALSE, 1, 1, p)
  <2>1. At(s) = "after" /\ UNCHANGED <<asked, taken>> /\ Done(s, a)
    BY <1>8 DEF InvokeAfter, SnapshotPaneIds
  <2>2. job[s] \in ActionJobs
    BY <2>1, ActionAt
  <2>3. job[s].before \in SUBSET Panes /\ open \in SUBSET Panes
    BY <2>2 DEF ActionJobs, Inv, Typed
  <2>4. p \in Panes \cup {None}
    BY <2>3, AttributeIs
  <2>5. a.pane = p
    BY DEF Answer
  <2> HIDE DEF p
  <2>6. a \in Answers
    BY <2>4, AnswerIs
  <2> HIDE DEF a
  <2>. QED
    BY <1>3, <2>1, <2>5, <2>6 DEF p
<1>. QED
  BY <1>2, <1>4, <1>5, <1>6, <1>7, <1>8 DEF ActionStep

\* R-11-248 and R-11-252: AcceptedLineIsShown.  The request that is answered
\* last of those taken is the one that was carried out, and when all its
\* calls are confirmed the shadow is its line; the pane's line is the shadow.
THEOREM AcceptedIsShown == Spec => AcceptedLineIsShown
<1>1. ASSUME Inv, Inv', [Next]_vars, NEW s \in Sessions,
             Len(answers'[s]) > Len(answers[s]), answers'[s][Len(answers'[s])].ok,
             IsLine(asked[s][Len(answers'[s])]),
             asked[s][Len(answers'[s])].pane \in open \ unsure'
      PROVE  line'[asked[s][Len(answers'[s])].pane] = asked[s][Len(answers'[s])].line
  <2> DEFINE n == Len(answers'[s])
             r == asked[s][n]
  <2>1. answers'[s] # answers[s]
    <3>1. Len(answers[s]) \in Nat
      BY <1>1 DEF Inv, Typed
    <3>. QED
      BY <1>1, <3>1
  <2>2. r.do # "action"
    BY <1>1 DEF IsLine
  <2>3. shadow'[r.pane] = r.line
    <3>1. CASE UNCHANGED vars \/ Desktop
      BY <2>1, <3>1 DEF vars, inputVars, Desktop
    <3>2. ASSUME NEW t \in Sessions, Ask(t) PROVE FALSE
      BY <2>1, <3>2 DEF Ask
    <3>3. ASSUME NEW t \in Sessions, TakeInput(t) PROVE FALSE
      BY <1>1, <2>1, <3>3, TakeInputSays
    <3>4. ASSUME NEW t \in Sessions, ActionStep(t) PROVE FALSE
      BY <1>1, <2>1, <2>2, <3>4, ActionSays
    <3>5. ASSUME NEW t \in Sessions, LockInput(t) PROVE shadow'[r.pane] = r.line
      BY <1>1, <2>1, <3>5, LockInputSays
    <3>6. ASSUME NEW t \in Sessions, CallHerdr(t) PROVE shadow'[r.pane] = r.line
      BY <1>1, <2>1, <3>6, CallHerdrSays
    <3>. QED
      BY <1>1, <3>1, <3>2, <3>3, <3>4, <3>5, <3>6 DEF Next, InputStep
  <2>4. r.pane \in Panes \ unsure'
    BY <1>1 DEF Inv, Typed
  <2>. QED
    BY <1>1, <2>3, <2>4 DEF Inv, Sure
<1>2. ASSUME Inv, Inv', [Next]_vars
      PROVE  [\A s \in Sessions :
                LET n == Len(answers'[s])
                IN  n > Len(answers[s]) /\ answers'[s][n].ok /\ IsLine(asked[s][n])
                      => LET p == asked[s][n].pane
                         IN  p \in open \ unsure' => line'[p] = asked[s][n].line]_vars
  BY <1>1, <1>2
<1>. QED
  BY <1>2, InputIsSafe, PTL DEF Spec, AcceptedLineIsShown

\* R-11-217a: InvocationIsAttributed.  The panes of both snapshots are
\* Herdr's, ids are not used again, and exactly one new one is named.
THEOREM InvocationsAreAttributed == Spec => InvocationIsAttributed
<1>1. ASSUME Inv, [Next]_vars, NEW s \in Sessions, At(s) = "after",
             Len(answers'[s]) > Len(answers[s]), answers'[s][Len(answers'[s])].ok
      PROVE  answers'[s][Len(answers'[s])].pane = Attribute(job[s].before, open)
  <2>1. answers'[s] # answers[s]
    <3>1. Len(answers[s]) \in Nat
      BY <1>1 DEF Inv, Typed
    <3>. QED
      BY <1>1, <3>1
  <2>2. CASE UNCHANGED vars \/ Desktop
    BY <2>1, <2>2 DEF vars, inputVars, Desktop
  <2>3. ASSUME NEW t \in Sessions, Ask(t) PROVE FALSE
    BY <2>1, <2>3 DEF Ask
  <2>4. ASSUME NEW t \in Sessions, InputStep(t) PROVE FALSE
    <3>1. At(t) \in {"idle", "lock", "call"}
      BY <2>4 DEF InputStep, TakeInput, LockInput, CallHerdr
    <3>2. t # s
      BY <1>1, <3>1
    <3>. QED
      BY <1>1, <2>1, <2>4, <3>2, TakeInputSays, LockInputSays, CallHerdrSays DEF InputStep
  <2>5. ASSUME NEW t \in Sessions, ActionStep(t)
        PROVE  answers'[s][Len(answers'[s])].pane = Attribute(job[s].before, open)
    BY <1>1, <2>1, <2>5, ActionSays
  <2>. QED
    BY <1>1, <2>2, <2>3, <2>4, <2>5 DEF Next
<1>2. ASSUME Inv, NEW s \in Sessions, At(s) = "after", NEW a, a.pane = Attribute(job[s].before, open)
      PROVE  LET j == job[s]
                 new == known \ j.since
             IN  /\ a.pane # None => a.pane \in new /\ (new \cap open) = {a.pane}
                 /\ Cardinality(j.mine) = 1 /\ new = j.mine /\ j.mine \subseteq open
                      => a.pane \in j.mine
  <2> DEFINE j == job[s]
             new == known \ j.since
  <2>1. /\ j \in ActionJobs /\ j # None /\ j.at = "after" /\ Invoking(j, open, known)
    BY <1>2, ActionAt
  <2>2. j.before \in SUBSET Panes /\ open \in SUBSET Panes /\ open \subseteq known
    BY <1>2, <2>1 DEF ActionJobs, Inv, Typed
  <2>3. j.before \subseteq j.since /\ open \cap j.since \subseteq j.before
    BY <2>1 DEF Invoking
  <2>4. open \ j.before = new \cap open
    BY <2>2, <2>3
  <2>5. /\ a.pane # None => open \ j.before = {a.pane}
        /\ Cardinality(open \ j.before) = 1 => a.pane \in open \ j.before
    BY <1>2, <2>2, AttributeIs
  <2>6. ASSUME Cardinality(j.mine) = 1, new = j.mine, j.mine \subseteq open PROVE a.pane \in j.mine
    <3>1. open \ j.before = j.mine
      BY <2>4, <2>6
    <3>. QED
      BY <2>5, <2>6, <3>1
  <2>. QED
    BY <2>4, <2>5, <2>6
<1>3. ASSUME Inv, [Next]_vars
      PROVE  [\A s \in Sessions :
               At(s) = "after" /\ Len(answers'[s]) > Len(answers[s]) =>
                LET j == job[s]
                    a == answers'[s][Len(answers'[s])]
                    new == known \ j.since
                IN  a.ok =>
                    /\ a.pane # None => a.pane \in new /\ (new \cap open) = {a.pane}
                    /\ Cardinality(j.mine) = 1 /\ new = j.mine /\ j.mine \subseteq open
                         => a.pane \in j.mine]_vars
  BY <1>1, <1>2, <1>3
<1>. QED
  BY <1>3, InputIsSafe, PTL DEF Spec, InvocationIsAttributed
====
