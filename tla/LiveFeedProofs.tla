--------------------------- MODULE LiveFeedProofs ---------------------------
(***************************************************************************)
(* Theorems about LiveFeed, for every value of its constants: the state is *)
(* well typed, nothing a connection is owed is skipped, frames come in the *)
(* order of the stream, no row of the list is there twice, and the list is *)
(* the newest of what has come.                                            *)
(***************************************************************************)
EXTENDS LiveFeed, TLAPS, FiniteSetTheorems, SequenceTheorems, WellFoundedInduction

-----------------------------------------------------------------------------
(* What is in a sequence that has one more, or one less.                     *)
LEMMA InSequence ==
    ASSUME NEW S, NEW s \in Seq(S)
    PROVE  /\ ToSet(s) \subseteq S
           /\ \A x \in ToSet(s) : \E k \in 1 .. Len(s) : s[k] = x
           /\ \A k \in 1 .. Len(s) : s[k] \in ToSet(s)
           /\ s = <<>> => ToSet(s) = {}
  <1>1. /\ Len(s) \in Nat /\ DOMAIN s = 1 .. Len(s)
        /\ \A k \in 1 .. Len(s) : s[k] \in S
    BY LenProperties, ElementOfSeq
  <1>2. ToSet(s) = {s[k] : k \in 1 .. Len(s)}
    BY <1>1 DEF ToSet
  <1>3. s = <<>> => Len(s) = 0
    BY EmptySeq
  <1> QED BY <1>1, <1>2, <1>3

LEMMA InAppend ==
    ASSUME NEW S, NEW s \in Seq(S), NEW e \in S
    PROVE  ToSet(Append(s, e)) = ToSet(s) \cup {e}
  <1> DEFINE t == Append(s, e)
  <1>1. /\ Len(s) \in Nat
        /\ t \in Seq(S) /\ Len(t) = Len(s) + 1
        /\ \A k \in 1 .. Len(s) : t[k] = s[k]
        /\ t[Len(s) + 1] = e
    BY LenProperties, AppendProperties
  <1> HIDE DEF t
  <1>2. /\ ToSet(s) = {s[k] : k \in 1 .. Len(s)}
        /\ ToSet(t) = {t[k] : k \in 1 .. Len(t)}
    BY <1>1, LenProperties DEF ToSet
  <1>3. \A k \in 1 .. Len(t) : k \in 1 .. Len(s) \/ k = Len(s) + 1
    BY <1>1
  <1>4. 1 .. Len(s) \subseteq 1 .. Len(t) /\ Len(s) + 1 \in 1 .. Len(t)
    BY <1>1
  <1>5. ToSet(t) = ToSet(s) \cup {e}
    BY <1>1, <1>2, <1>3, <1>4
  <1> QED BY <1>5 DEF t

LEMMA InTail ==
    ASSUME NEW S, NEW s \in Seq(S), s # <<>>
    PROVE  ToSet(s) = {Head(s)} \cup ToSet(Tail(s))
  <1> DEFINE t == Tail(s)
  <1>1. /\ Len(s) \in Nat \ {0}
        /\ t \in Seq(S) /\ Len(t) = Len(s) - 1
        /\ \A k \in 1 .. Len(t) : t[k] = s[k + 1]
    BY LenProperties, HeadTailProperties, EmptySeq
  <1>2. Head(s) = s[1]
    OBVIOUS
  <1> HIDE DEF t
  <1>3. /\ ToSet(s) = {s[k] : k \in 1 .. Len(s)}
        /\ ToSet(t) = {t[k] : k \in 1 .. Len(t)}
    BY <1>1, LenProperties DEF ToSet
  <1>4. /\ \A k \in 1 .. Len(s) : k = 1 \/ k - 1 \in 1 .. Len(t)
        /\ \A k \in 1 .. Len(t) : k + 1 \in 1 .. Len(s)
        /\ 1 \in 1 .. Len(s)
    BY <1>1
  <1>5. ASSUME NEW k \in 1 .. Len(s) PROVE s[k] = Head(s) \/ s[k] \in ToSet(t)
    <2>1. CASE k = 1
      BY <1>2, <2>1
    <2>2. CASE k - 1 \in 1 .. Len(t)
      <3>1. t[k - 1] = s[k]
        BY <1>1, <2>2
      <3> QED BY <1>3, <2>2, <3>1
    <2> QED BY <1>4, <2>1, <2>2
  <1>6. ASSUME NEW k \in 1 .. Len(t) PROVE t[k] \in ToSet(s)
    BY <1>1, <1>3, <1>4
  <1>7. Head(s) \in ToSet(s)
    BY <1>2, <1>3, <1>4
  <1>8. ToSet(s) = {Head(s)} \cup ToSet(t)
    BY <1>3, <1>5, <1>6, <1>7
  <1> QED BY <1>8 DEF t

(* A sequence that ascends and what is put at its end or taken from its      *)
(* beginning.                                                                *)
LEMMA AscendingAppend ==
    ASSUME NEW S \in SUBSET Int, NEW s \in Seq(S), NEW e \in S, Ascending(s),
           \A x \in ToSet(s) : x < e
    PROVE  Ascending(Append(s, e))
  <1> DEFINE t == Append(s, e)
  <1>1. /\ Len(s) \in Nat
        /\ Len(t) = Len(s) + 1
        /\ \A k \in 1 .. Len(s) : t[k] = s[k]
        /\ t[Len(s) + 1] = e
    BY LenProperties, AppendProperties
  <1>2. \A k \in 1 .. Len(s) : s[k] < e
    BY InSequence
  <1> HIDE DEF t
  <1>3. ASSUME NEW m \in 1 .. Len(t), NEW n \in 1 .. Len(t), m < n PROVE t[m] < t[n]
    <2>1. m \in 1 .. Len(s) /\ t[m] = s[m]
      BY <1>1, <1>3
    <2>2. CASE n \in 1 .. Len(s)
      BY <1>1, <1>3, <2>1, <2>2 DEF Ascending
    <2>3. CASE n = Len(s) + 1
      BY <1>1, <1>2, <2>1, <2>3
    <2> QED BY <1>1, <2>2, <2>3
  <1>4. Ascending(t)
    BY <1>3 DEF Ascending
  <1> QED BY <1>4 DEF t

LEMMA AscendingTail ==
    ASSUME NEW S \in SUBSET Int, NEW s \in Seq(S), s # <<>>, Ascending(s)
    PROVE  /\ Ascending(Tail(s))
           /\ \A x \in ToSet(Tail(s)) : Head(s) < x
  <1> DEFINE t == Tail(s)
  <1>1. /\ Len(s) \in Nat \ {0}
        /\ t \in Seq(S) /\ Len(t) = Len(s) - 1
        /\ \A k \in 1 .. Len(t) : t[k] = s[k + 1]
    BY LenProperties, HeadTailProperties, EmptySeq
  <1>2. Head(s) = s[1]
    OBVIOUS
  <1> HIDE DEF t
  <1>3. Ascending(t)
    <2> SUFFICES ASSUME NEW m \in 1 .. Len(t), NEW n \in 1 .. Len(t), m < n PROVE t[m] < t[n]
      BY DEF Ascending
    <2>1. m + 1 \in 1 .. Len(s) /\ n + 1 \in 1 .. Len(s) /\ m + 1 < n + 1
      BY <1>1
    <2>2. s[m + 1] < s[n + 1]
      BY <2>1 DEF Ascending
    <2> QED BY <1>1, <2>2
  <1>4. ASSUME NEW x \in ToSet(t) PROVE Head(s) < x
    <2>1. PICK k \in 1 .. Len(t) : t[k] = x
      BY <1>1, InSequence
    <2>2. k + 1 \in 1 .. Len(s) /\ 1 \in 1 .. Len(s) /\ 1 < k + 1
      BY <1>1
    <2> QED BY <1>1, <1>2, <2>1, <2>2 DEF Ascending
  <1> QED BY <1>3, <1>4 DEF t

-----------------------------------------------------------------------------
(* A set of numbers has a least one. *)
LEMMA LeastExists ==
    ASSUME NEW S \in SUBSET Nat, S # {}
    PROVE  \E i \in S : \A j \in S : i <= j
  <1>1. PICK x \in S : \A y \in S : ~ (<<y, x>> \in OpToRel(<, Nat))
    BY NatLessThanWellFounded, WFMin, Zenon
  <1>2. \A y \in S : ~ (y < x)
    BY <1>1 DEF OpToRel
  <1> QED BY <1>2

LEMMA EntriesAreNumbers ==
    /\ Len(EventAt) \in Nat
    /\ Entries = 1 .. Len(EventAt)
    /\ Entries \in SUBSET Int
  <1>1. EventAt \in Seq(Nat)
    BY LiveFeedAssumption
  <1>2. Len(EventAt) \in Nat /\ Entries = 1 .. Len(EventAt)
    BY <1>1, LenProperties DEF Entries
  <1> QED BY <1>2

(* The loop over a reply, as far as entry n. *)
PutAt(q, lo, g, n) ==
    IF n = lo THEN q ELSE IF n \in Bad THEN g[n - 1] ELSE Put(g[n - 1], n)

Puts(q, lo, k, g) == g = [n \in lo .. k |-> PutAt(q, lo, g, n)]

LEMMA PutsExist ==
    ASSUME NEW q, NEW lo \in Nat, NEW hi \in Nat, lo <= hi
    PROVE  \E g : Puts(q, lo, hi, g)
  <1> DEFINE Wrong == {k \in lo .. hi : ~ \E g : Puts(q, lo, k, g)}
  <1>1. SUFFICES ASSUME Wrong # {} PROVE FALSE
    OBVIOUS
  <1>2. PICK k \in Wrong : \A j \in Wrong : k <= j
    <2>1. Wrong \in SUBSET Nat /\ Wrong # {}
      BY <1>1
    <2> HIDE DEF Wrong
    <2> QED BY <2>1, LeastExists
  <1>3. CASE k = lo
    <2>1. Puts(q, lo, lo, [n \in lo .. lo |-> q])
      BY DEF Puts, PutAt
    <2> QED BY <1>2, <1>3, <2>1
  <1>4. CASE k # lo
    <2>1. k \in lo + 1 .. hi /\ k - 1 \in lo .. hi /\ k - 1 \notin Wrong
      BY <1>2, <1>4
    <2>2. PICK g : Puts(q, lo, k - 1, g)
      BY <2>1
    <2> DEFINE h == [n \in lo .. k |-> IF n < k THEN g[n] ELSE PutAt(q, lo, g, k)]
    <2>3. ASSUME NEW n \in lo .. k PROVE h[n] = PutAt(q, lo, h, n)
      <3>1. CASE n < k
        <4>1. h[n] = g[n] /\ n \in lo .. k - 1
          BY <2>1, <3>1
        <4>2. n # lo => h[n - 1] = g[n - 1]
          BY <2>1, <3>1
        <4>3. g[n] = PutAt(q, lo, g, n)
          <5> HIDE DEF h
          <5> QED BY <2>2, <4>1 DEF Puts
        <4> HIDE DEF h
        <4> QED BY <4>1, <4>2, <4>3 DEF PutAt
      <3>2. CASE n = k
        <4>1. h[n] = PutAt(q, lo, g, k)
          BY <2>1, <3>2
        <4>2. h[k - 1] = g[k - 1]
          BY <2>1
        <4> HIDE DEF h
        <4> QED BY <3>2, <4>1, <4>2 DEF PutAt
      <3> QED BY <2>1, <3>1, <3>2
    <2>4. DOMAIN h = lo .. k /\ h = [n \in lo .. k |-> h[n]]
      OBVIOUS
    <2> HIDE DEF h
    <2>5. Puts(q, lo, k, h)
      BY <2>3, <2>4 DEF Puts
    <2> QED BY <1>2, <2>5
  <1> QED BY <1>3, <1>4

LEMMA AllArePut ==
    ASSUME NEW q, NEW lo \in Nat, NEW hi \in Nat, lo <= hi
    PROVE  \E g : Puts(q, lo, hi, g) /\ PutAll(q, lo, hi) = g[hi]
  <1> DEFINE F == CHOOSE g : Puts(q, lo, hi, g)
  <1>1. Puts(q, lo, hi, F)
    BY PutsExist
  <1>2. PutAll(q, lo, hi) = F[hi]
    BY DEF PutAll, Puts, PutAt
  <1> QED BY <1>1, <1>2

(* A queue r that q has become with the entries after lo, as far as n: what  *)
(* is left of them is newer than what is not.                                *)
Queued(q, lo, n, r) ==
    LET all == ToSet(q) \cup ((lo + 1 .. n) \ Bad)
    IN  /\ r \in Seq(Entries) /\ Len(r) <= QueueMax
        /\ Ascending(r)
        /\ ToSet(r) \subseteq all
        /\ \A i \in all \ ToSet(r), j \in ToSet(r) : i < j

LEMMA PutIsQueued ==
    ASSUME NEW q \in Seq(Entries), NEW lo \in Nat, NEW n \in lo + 1 .. Len(EventAt), NEW r,
           \A i \in ToSet(q) : i <= lo,
           Queued(q, lo, n - 1, r), n \notin Bad
    PROVE  Queued(q, lo, n, Put(r, n))
  <1> DEFINE all == ToSet(q) \cup ((lo + 1 .. n - 1) \ Bad)
             next == ToSet(q) \cup ((lo + 1 .. n) \ Bad)
             kept == IF Len(r) < QueueMax THEN r ELSE Tail(r)
  <1>1. /\ r \in Seq(Entries) /\ Len(r) \in Nat /\ Len(r) <= QueueMax
        /\ Ascending(r)
        /\ ToSet(r) \subseteq all
        /\ \A i \in all \ ToSet(r), j \in ToSet(r) : i < j
    BY LenProperties DEF Queued
  <1>2. /\ Entries \in SUBSET Int /\ n \in Entries /\ QueueMax \in Nat \ {0}
        /\ ToSet(q) \subseteq Entries
    <2>1. Entries \in SUBSET Int /\ n \in Entries
      BY EntriesAreNumbers
    <2>2. QueueMax \in Nat \ {0}
      BY LiveFeedAssumption
    <2>3. ToSet(q) \subseteq Entries
      BY InSequence
    <2> QED BY <2>1, <2>2, <2>3
  <1>3. next = all \cup {n} /\ \A i \in all : i \in Int /\ i < n
    <2>1. (lo + 1 .. n) \ Bad = ((lo + 1 .. n - 1) \ Bad) \cup {n}
      OBVIOUS
    <2>2. ASSUME NEW i \in ToSet(q) PROVE i \in Int /\ i < n
      <3>1. i \in Int
        BY <1>2
      <3>2. i <= lo
        OBVIOUS
      <3> HIDE DEF all, next, kept
      <3> QED BY <3>1, <3>2
    <2> QED BY <2>1, <2>2
  <1>4. /\ kept \in Seq(Entries) /\ Len(kept) \in Nat /\ Len(kept) + 1 <= QueueMax
        /\ Ascending(kept)
        /\ ToSet(kept) \subseteq ToSet(r)
        /\ \A i \in ToSet(r) \ ToSet(kept), j \in ToSet(kept) : i < j
    <2>1. CASE Len(r) < QueueMax
      BY <1>1, <1>2, <2>1
    <2>2. CASE ~ (Len(r) < QueueMax)
      <3>1. r # <<>> /\ kept = Tail(r)
        BY <1>1, <1>2, <2>2, EmptySeq
      <3>2. Tail(r) \in Seq(Entries) /\ Len(Tail(r)) = Len(r) - 1
        BY <1>1, <3>1, HeadTailProperties
      <3>3. ToSet(r) = {Head(r)} \cup ToSet(Tail(r))
        BY <1>1, <3>1, InTail
      <3>4. Ascending(Tail(r)) /\ \A x \in ToSet(Tail(r)) : Head(r) < x
        BY <1>1, <1>2, <3>1, AscendingTail
      <3>5. Len(r) = QueueMax
        BY <1>1, <1>2, <2>2
      <3> HIDE DEF kept
      <3>6. ToSet(kept) \subseteq ToSet(r)
        BY <3>1, <3>3
      <3>7. \A i \in ToSet(r) \ ToSet(kept), j \in ToSet(kept) : i < j
        BY <3>1, <3>3, <3>4
      <3> QED BY <1>1, <1>2, <3>1, <3>2, <3>4, <3>5, <3>6, <3>7
    <2> QED BY <2>1, <2>2
  <1>5. Put(r, n) = Append(kept, n)
    BY DEF Put
  <1> HIDE DEF kept
  <1>6. ToSet(Append(kept, n)) = ToSet(kept) \cup {n}
    BY <1>2, <1>4, InAppend
  <1>7. Append(kept, n) \in Seq(Entries) /\ Len(Append(kept, n)) <= QueueMax
    BY <1>2, <1>4, AppendProperties
  <1>8. Ascending(Append(kept, n))
    <2>1. \A x \in ToSet(kept) : x < n
      BY <1>1, <1>3, <1>4
    <2> QED BY <1>2, <1>4, <2>1, AscendingAppend
  <1>9. \A i \in next \ ToSet(Append(kept, n)), j \in ToSet(Append(kept, n)) : i < j
    <2> SUFFICES ASSUME NEW i \in next, i \notin ToSet(kept), i # n,
                        NEW j \in ToSet(kept) \cup {n}
                 PROVE  i < j
      BY <1>6
    <2>1. i \in all
      BY <1>3
    <2> HIDE DEF all, next
    <2>2. CASE j = n
      BY <1>3, <2>1, <2>2
    <2>3. CASE j \in ToSet(kept)
      BY <1>1, <1>4, <2>1, <2>3
    <2> QED BY <2>2, <2>3
  <1>10. ToSet(Append(kept, n)) \subseteq next
    BY <1>1, <1>3, <1>4, <1>6
  <1> QED BY <1>5, <1>7, <1>8, <1>9, <1>10 DEF Queued

(* What Publish does to a queue. *)
LEMMA PutAllQueued ==
    ASSUME NEW q \in Seq(Entries), NEW lo \in Nat, NEW hi \in lo .. Len(EventAt),
           \A i \in ToSet(q) : i <= lo, Len(q) <= QueueMax, Ascending(q)
    PROVE  Queued(q, lo, hi, PutAll(q, lo, hi))
  <1>1. Len(EventAt) \in Nat /\ hi \in Nat /\ lo <= hi
    BY EntriesAreNumbers
  <1>2. PICK g : Puts(q, lo, hi, g) /\ PutAll(q, lo, hi) = g[hi]
    BY <1>1, AllArePut
  <1>3. \A n \in lo .. hi : g[n] = PutAt(q, lo, g, n)
    BY <1>2 DEF Puts
  <1> DEFINE Wrong == {n \in lo .. hi : ~ Queued(q, lo, n, g[n])}
  <1>4. SUFFICES ASSUME Wrong # {} PROVE FALSE
    BY <1>1, <1>2
  <1>5. PICK n \in Wrong : \A j \in Wrong : n <= j
    <2>1. Wrong \in SUBSET Nat /\ Wrong # {}
      BY <1>1, <1>4
    <2> HIDE DEF Wrong
    <2> QED BY <2>1, LeastExists
  <1>6. n \in lo .. hi /\ g[n] = PutAt(q, lo, g, n) /\ ~ Queued(q, lo, n, g[n])
    BY <1>3, <1>5
  <1>7. CASE n = lo
    <2>1. g[n] = q
      BY <1>6, <1>7 DEF PutAt
    <2>2. lo + 1 .. lo = {}
      OBVIOUS
    <2>3. Queued(q, lo, lo, q)
      BY <2>2 DEF Queued
    <2> QED BY <1>6, <1>7, <2>1, <2>3
  <1>8. CASE n # lo
    <2>1. n \in lo + 1 .. Len(EventAt) /\ n - 1 \in lo .. hi /\ n - 1 \notin Wrong
      BY <1>1, <1>5, <1>8
    <2>2. Queued(q, lo, n - 1, g[n - 1])
      BY <2>1
    <2>3. CASE n \in Bad
      <3>1. g[n] = g[n - 1]
        BY <1>6, <1>8, <2>3 DEF PutAt
      <3>2. (lo + 1 .. n) \ Bad = (lo + 1 .. n - 1) \ Bad
        BY <2>1, <2>3
      <3>3. Queued(q, lo, n, g[n - 1])
        BY <2>2, <3>2 DEF Queued
      <3> QED BY <1>6, <3>1, <3>3
    <2>4. CASE n \notin Bad
      <3>1. g[n] = Put(g[n - 1], n)
        BY <1>6, <1>8, <2>4 DEF PutAt
      <3>2. Queued(q, lo, n, Put(g[n - 1], n))
        BY <2>1, <2>2, <2>4, PutIsQueued
      <3> QED BY <1>6, <3>1, <3>2
    <2> QED BY <2>3, <2>4
  <1> QED BY <1>7, <1>8

-----------------------------------------------------------------------------
(* The filter of addEvents over what has come, as far as event n.            *)
KeptAt(prev, incoming, g, n) ==
    IF n = 0 THEN <<>>
    ELSE IF incoming[n] \in ToSet(prev) THEN g[n - 1]
    ELSE Append(g[n - 1], incoming[n])

Keeps(prev, incoming, k, g) == g = [n \in 0 .. k |-> KeptAt(prev, incoming, g, n)]

LEMMA KeepsExist ==
    ASSUME NEW prev, NEW incoming, NEW len \in Nat
    PROVE  \E g : Keeps(prev, incoming, len, g)
  <1> DEFINE Wrong == {k \in 0 .. len : ~ \E g : Keeps(prev, incoming, k, g)}
  <1>1. SUFFICES ASSUME Wrong # {} PROVE FALSE
    OBVIOUS
  <1>2. PICK k \in Wrong : \A j \in Wrong : k <= j
    <2>1. Wrong \in SUBSET Nat /\ Wrong # {}
      BY <1>1
    <2> HIDE DEF Wrong
    <2> QED BY <2>1, LeastExists
  <1>3. CASE k = 0
    <2>1. Keeps(prev, incoming, 0, [n \in 0 .. 0 |-> <<>>])
      BY DEF Keeps, KeptAt
    <2> QED BY <1>2, <1>3, <2>1
  <1>4. CASE k # 0
    <2>1. k \in 1 .. len /\ k - 1 \in 0 .. len /\ k - 1 \notin Wrong
      BY <1>2, <1>4
    <2>2. PICK g : Keeps(prev, incoming, k - 1, g)
      BY <2>1
    <2> DEFINE h == [n \in 0 .. k |-> IF n < k THEN g[n] ELSE KeptAt(prev, incoming, g, k)]
    <2>3. ASSUME NEW n \in 0 .. k PROVE h[n] = KeptAt(prev, incoming, h, n)
      <3>1. CASE n < k
        <4>1. h[n] = g[n] /\ n \in 0 .. k - 1
          BY <2>1, <3>1
        <4>2. n # 0 => h[n - 1] = g[n - 1]
          BY <2>1, <3>1
        <4>3. g[n] = KeptAt(prev, incoming, g, n)
          <5> HIDE DEF h
          <5> QED BY <2>2, <4>1 DEF Keeps
        <4> HIDE DEF h
        <4> QED BY <4>1, <4>2, <4>3 DEF KeptAt
      <3>2. CASE n = k
        <4>1. h[n] = KeptAt(prev, incoming, g, k)
          BY <2>1, <3>2
        <4>2. h[k - 1] = g[k - 1]
          BY <2>1
        <4> HIDE DEF h
        <4> QED BY <3>2, <4>1, <4>2 DEF KeptAt
      <3> QED BY <2>1, <3>1, <3>2
    <2>4. DOMAIN h = 0 .. k /\ h = [n \in 0 .. k |-> h[n]]
      OBVIOUS
    <2> HIDE DEF h
    <2>5. Keeps(prev, incoming, k, h)
      BY <2>3, <2>4 DEF Keeps
    <2> QED BY <1>2, <2>5
  <1> QED BY <1>3, <1>4

LEMMA UnseenIsKept ==
    ASSUME NEW prev, NEW incoming, Len(incoming) \in Nat
    PROVE  \E g : /\ Keeps(prev, incoming, Len(incoming), g)
                  /\ Unseen(prev, incoming) = g[Len(incoming)]
  <1> DEFINE F == CHOOSE g : Keeps(prev, incoming, Len(incoming), g)
  <1>1. Keeps(prev, incoming, Len(incoming), F)
    BY KeepsExist
  <1>2. Unseen(prev, incoming) = F[Len(incoming)]
    BY DEF Unseen, Keeps, KeptAt
  <1> QED BY <1>1, <1>2

(* What is kept of the first n events of incoming: those that are not in     *)
(* prev, each of them where it stood among the others.                       *)
Kept(prev, incoming, n, s) ==
    /\ s \in Seq(Events)
    /\ \E at \in [1 .. Len(s) -> 1 .. n] :
          /\ \A k \in 1 .. Len(s) : s[k] = incoming[at[k]]
          /\ \A j, k \in 1 .. Len(s) : j < k => at[j] < at[k]
    /\ \A k \in 1 .. Len(s) : s[k] \notin ToSet(prev)
    /\ \A m \in 1 .. n : incoming[m] \notin ToSet(prev) => incoming[m] \in ToSet(s)

LEMMA KeptGrows ==
    ASSUME NEW prev, NEW incoming \in Seq(Events), NEW n \in 1 .. Len(incoming), NEW s,
           Kept(prev, incoming, n - 1, s), incoming[n] \notin ToSet(prev)
    PROVE  Kept(prev, incoming, n, Append(s, incoming[n]))
  <1> DEFINE t == Append(s, incoming[n])
  <1>1. n \in Nat \ {0} /\ incoming[n] \in Events
    BY LenProperties, ElementOfSeq
  <1>2. s \in Seq(Events) /\ Len(s) \in Nat
    BY LenProperties DEF Kept
  <1>3. /\ t \in Seq(Events) /\ Len(t) = Len(s) + 1
        /\ \A k \in 1 .. Len(s) : t[k] = s[k]
        /\ t[Len(s) + 1] = incoming[n]
    BY <1>1, <1>2, AppendProperties
  <1>4. ToSet(t) = ToSet(s) \cup {incoming[n]}
    BY <1>1, <1>2, InAppend
  <1> HIDE DEF t
  <1>5. PICK at \in [1 .. Len(s) -> 1 .. n - 1] :
           /\ \A k \in 1 .. Len(s) : s[k] = incoming[at[k]]
           /\ \A j, k \in 1 .. Len(s) : j < k => at[j] < at[k]
    BY DEF Kept
  <1> DEFINE to == [k \in 1 .. Len(t) |-> IF k = Len(t) THEN n ELSE at[k]]
  <1>6. \A k \in 1 .. Len(t) : k = Len(t) \/ k \in 1 .. Len(s)
    BY <1>2, <1>3
  <1>7. \A k \in 1 .. Len(s) : at[k] \in 1 .. n - 1 /\ k # Len(t) /\ k \in 1 .. Len(t)
    <2>1. \A k \in 1 .. Len(s) : k # Len(t) /\ k \in 1 .. Len(t)
      BY <1>2, <1>3
    <2> QED BY <1>5, <2>1
  <1>8. /\ to \in [1 .. Len(t) -> 1 .. n]
        /\ to[Len(t)] = n
        /\ \A k \in 1 .. Len(s) : to[k] = at[k]
    BY <1>1, <1>2, <1>3, <1>6, <1>7
  <1> HIDE DEF to
  <1>9. \A k \in 1 .. Len(t) : t[k] = incoming[to[k]]
    BY <1>2, <1>3, <1>5, <1>6, <1>8
  <1>10. ASSUME NEW j \in 1 .. Len(t), NEW k \in 1 .. Len(t), j < k PROVE to[j] < to[k]
    <2>1. j \in 1 .. Len(s) /\ to[j] = at[j] /\ at[j] < n /\ at[j] \in Int
      BY <1>1, <1>2, <1>3, <1>7, <1>8, <1>10
    <2>2. CASE k \in 1 .. Len(s)
      BY <1>5, <1>8, <1>10, <2>1, <2>2
    <2>3. CASE k = Len(t)
      BY <1>8, <2>1, <2>3
    <2> QED BY <1>6, <2>2, <2>3
  <1>11. \A k \in 1 .. Len(t) : t[k] \notin ToSet(prev)
    BY <1>2, <1>3, <1>6 DEF Kept
  <1>12. ASSUME NEW m \in 1 .. n, incoming[m] \notin ToSet(prev)
         PROVE  incoming[m] \in ToSet(t)
    <2>1. CASE m = n
      BY <1>4, <2>1
    <2>2. CASE m \in 1 .. n - 1
      BY <1>4, <1>12, <2>2 DEF Kept
    <2> QED BY <1>1, <2>1, <2>2
  <1>13. Kept(prev, incoming, n, t)
    BY <1>3, <1>8, <1>9, <1>10, <1>11, <1>12 DEF Kept
  <1> QED BY <1>13 DEF t

LEMMA UnseenKept ==
    ASSUME NEW prev, NEW incoming \in Seq(Events)
    PROVE  Kept(prev, incoming, Len(incoming), Unseen(prev, incoming))
  <1>1. Len(incoming) \in Nat
    BY LenProperties
  <1>2. PICK g : /\ Keeps(prev, incoming, Len(incoming), g)
                 /\ Unseen(prev, incoming) = g[Len(incoming)]
    BY <1>1, UnseenIsKept
  <1>3. \A n \in 0 .. Len(incoming) : g[n] = KeptAt(prev, incoming, g, n)
    BY <1>2 DEF Keeps
  <1> DEFINE Wrong == {n \in 0 .. Len(incoming) : ~ Kept(prev, incoming, n, g[n])}
  <1>4. SUFFICES ASSUME Wrong # {} PROVE FALSE
    BY <1>1, <1>2
  <1>5. PICK n \in Wrong : \A j \in Wrong : n <= j
    <2>1. Wrong \in SUBSET Nat /\ Wrong # {}
      BY <1>1, <1>4
    <2> HIDE DEF Wrong
    <2> QED BY <2>1, LeastExists
  <1>6. /\ n \in 0 .. Len(incoming) /\ g[n] = KeptAt(prev, incoming, g, n)
        /\ ~ Kept(prev, incoming, n, g[n])
    BY <1>3, <1>5
  <1>7. CASE n = 0
    <2>1. g[n] = <<>>
      BY <1>6, <1>7 DEF KeptAt
    <2>2. <<>> \in Seq(Events) /\ Len(<<>>) = 0
      BY EmptySeq
    <2>3. 1 .. 0 = {}
      OBVIOUS
    <2>4. \E at : at \in [1 .. 0 -> 1 .. 0]
      <3>1. [x \in 1 .. 0 |-> x] \in [1 .. 0 -> 1 .. 0]
        OBVIOUS
      <3> QED BY <3>1
    <2>5. Kept(prev, incoming, 0, <<>>)
      BY <2>2, <2>3, <2>4 DEF Kept
    <2> QED BY <1>6, <1>7, <2>1, <2>5
  <1>8. CASE n # 0
    <2>1. n \in 1 .. Len(incoming) /\ n - 1 \in 0 .. Len(incoming) /\ n - 1 \notin Wrong
      BY <1>1, <1>5, <1>8
    <2>2. Kept(prev, incoming, n - 1, g[n - 1])
      BY <2>1
    <2>3. CASE incoming[n] \in ToSet(prev)
      <3> DEFINE s == g[n - 1]
      <3>1. g[n] = s
        BY <1>6, <1>8, <2>3 DEF KeptAt
      <3>2. Kept(prev, incoming, n - 1, s)
        BY <2>2
      <3> HIDE DEF s
      <3>3. PICK at \in [1 .. Len(s) -> 1 .. n - 1] :
               /\ \A k \in 1 .. Len(s) : s[k] = incoming[at[k]]
               /\ \A j, k \in 1 .. Len(s) : j < k => at[j] < at[k]
        BY <3>2 DEF Kept
      <3>4. at \in [1 .. Len(s) -> 1 .. n]
        BY <2>1, <3>3
      <3>5. \A m \in 1 .. n : m = n \/ m \in 1 .. n - 1
        BY <2>1
      <3>6. \A m \in 1 .. n : incoming[m] \notin ToSet(prev) => incoming[m] \in ToSet(s)
        BY <2>3, <3>2, <3>5 DEF Kept
      <3>7. Kept(prev, incoming, n, s)
        BY <3>2, <3>3, <3>4, <3>6 DEF Kept
      <3> QED BY <1>6, <3>1, <3>7
    <2>4. CASE incoming[n] \notin ToSet(prev)
      <3>1. g[n] = Append(g[n - 1], incoming[n])
        BY <1>6, <1>8, <2>4 DEF KeptAt
      <3>2. Kept(prev, incoming, n, Append(g[n - 1], incoming[n]))
        BY <2>1, <2>2, <2>4, KeptGrows
      <3> QED BY <1>6, <3>1, <3>2
    <2> QED BY <2>3, <2>4
  <1> QED BY <1>7, <1>8

(* addEvents: what is unseen of incoming, turned round, and then what there  *)
(* was, as far as MaxRows.                                                   *)
LEMMA Reversed ==
    ASSUME NEW S, NEW s \in Seq(S)
    PROVE  /\ Reverse(s) \in Seq(S) /\ Len(Reverse(s)) = Len(s)
           /\ \A k \in 1 .. Len(s) : Reverse(s)[k] = s[Len(s) - k + 1]
           /\ ToSet(Reverse(s)) = ToSet(s)
  <1>1. Len(s) \in Nat /\ DOMAIN s = 1 .. Len(s) /\ \A k \in 1 .. Len(s) : s[k] \in S
    BY LenProperties, ElementOfSeq
  <1> DEFINE r == Reverse(s)
  <1>2. r = [k \in 1 .. Len(s) |-> s[Len(s) - k + 1]]
    BY DEF Reverse
  <1>3. \A k \in 1 .. Len(s) : Len(s) - k + 1 \in 1 .. Len(s)
    BY <1>1
  <1> HIDE DEF r
  <1>4. r \in Seq(S) /\ Len(r) = Len(s)
    BY <1>1, <1>2, <1>3
  <1>5. \A k \in 1 .. Len(s) : r[k] = s[Len(s) - k + 1]
    BY <1>2
  <1>6. /\ ToSet(r) = {r[k] : k \in 1 .. Len(s)}
        /\ ToSet(s) = {s[k] : k \in 1 .. Len(s)}
    BY <1>1, <1>2 DEF ToSet
  <1>7. \A k \in 1 .. Len(s) : r[Len(s) - k + 1] = s[k]
    BY <1>1, <1>3, <1>5
  <1>8. ToSet(r) = ToSet(s)
    BY <1>3, <1>5, <1>6, <1>7
  <1> QED BY <1>4, <1>5, <1>8 DEF r

LEMMA RowsOfAddEvents ==
    ASSUME NEW prev \in Seq(Events), NEW incoming \in Seq(Events), NEW u \in Seq(Events),
           u = Unseen(prev, incoming), NEW r, r = AddEvents(prev, incoming)
    PROVE  /\ r \in Seq(Events)
           /\ Len(r) = IF Len(u) + Len(prev) < MaxRows THEN Len(u) + Len(prev) ELSE MaxRows
           /\ \A k \in 1 .. Len(r) :
                 r[k] = IF k <= Len(u) THEN u[Len(u) - k + 1] ELSE prev[k - Len(u)]
  <1> DEFINE v == Reverse(u)
             all == v \o prev
             n == IF Len(all) < MaxRows THEN Len(all) ELSE MaxRows
  <1>1. /\ Len(prev) \in Nat /\ Len(u) \in Nat
        /\ v \in Seq(Events) /\ Len(v) = Len(u)
        /\ \A k \in 1 .. Len(u) : v[k] = u[Len(u) - k + 1]
    BY LenProperties, Reversed
  <1>2. MaxRows \in Nat \ {0}
    BY LiveFeedAssumption
  <1>3. r = SubSeq(all, 1, n)
    BY DEF AddEvents, Prefix
  <1> HIDE DEF v
  <1>4. /\ all \in Seq(Events) /\ Len(all) = Len(u) + Len(prev)
        /\ \A k \in 1 .. Len(u) + Len(prev) :
              all[k] = IF k <= Len(u) THEN v[k] ELSE prev[k - Len(u)]
    <2>1. /\ all \in Seq(Events) /\ Len(all) = Len(v) + Len(prev)
          /\ \A k \in 1 .. Len(v) + Len(prev) :
                all[k] = IF k <= Len(v) THEN v[k] ELSE prev[k - Len(v)]
      <3>1. v \in Seq(Events) /\ prev \in Seq(Events)
        BY <1>1
      <3> HIDE DEF n
      <3> QED BY <3>1, ConcatProperties, Zenon
    <2> HIDE DEF all
    <2> QED BY <1>1, <2>1
  <1> HIDE DEF all
  <1>5. \A k \in 1 .. Len(all) : all[k] \in Events
    BY <1>4, ElementOfSeq
  <1>6. n \in Nat /\ n <= Len(all) /\ 1 .. n \subseteq 1 .. Len(all)
    BY <1>1, <1>2, <1>4
  <1>7. n = IF Len(u) + Len(prev) < MaxRows THEN Len(u) + Len(prev) ELSE MaxRows
    BY <1>4
  <1> HIDE DEF n
  <1>8. /\ r \in Seq(Events)
        /\ Len(r) = IF 1 <= n THEN n - 1 + 1 ELSE 0
        /\ \A k \in 1 .. n - 1 + 1 : r[k] = all[1 + k - 1]
    BY <1>3, <1>5, <1>6, SubSeqProperties
  <1>9. Len(r) = n /\ \A k \in 1 .. n : r[k] = all[k]
    BY <1>6, <1>8
  <1>10. ASSUME NEW k \in 1 .. n
         PROVE  r[k] = IF k <= Len(u) THEN u[Len(u) - k + 1] ELSE prev[k - Len(u)]
    <2>1. r[k] = IF k <= Len(u) THEN v[k] ELSE prev[k - Len(u)]
      BY <1>4, <1>6, <1>9
    <2>2. k <= Len(u) => v[k] = u[Len(u) - k + 1]
      BY <1>1, <1>6
    <2> QED BY <2>1, <2>2
  <1> QED BY <1>7, <1>8, <1>9, <1>10

LEMMA AddEventsTyped ==
    ASSUME NEW prev \in Seq(Events), NEW incoming \in Seq(Events)
    PROVE  AddEvents(prev, incoming) \in Seq(Events) /\ Len(AddEvents(prev, incoming)) <= MaxRows
  <1> DEFINE u == Unseen(prev, incoming)
             r == AddEvents(prev, incoming)
  <1>1. u \in Seq(Events) /\ Len(u) \in Nat /\ Len(prev) \in Nat /\ MaxRows \in Nat
    BY UnseenKept, LenProperties, LiveFeedAssumption DEF Kept
  <1> HIDE DEF u, r
  <1>2. /\ r \in Seq(Events)
        /\ Len(r) = IF Len(u) + Len(prev) < MaxRows THEN Len(u) + Len(prev) ELSE MaxRows
    BY <1>1, RowsOfAddEvents DEF u, r
  <1>3. r \in Seq(Events) /\ Len(r) <= MaxRows
    BY <1>1, <1>2
  <1> QED BY <1>3 DEF r

(* Nothing is twice in s but what is in dup.                                 *)
OnceBut(s, dup) == \A m, n \in 1 .. Len(s) : (m # n /\ s[m] = s[n]) => s[m] \in dup

(* No row twice but for what came twice in one frame.                        *)
LEMMA AddEventsOnce ==
    ASSUME NEW prev \in Seq(Events), NEW incoming \in Seq(Events), NEW dup,
           OnceBut(prev, dup), OnceBut(incoming, dup),
           NEW r, r = AddEvents(prev, incoming)
    PROVE  OnceBut(r, dup)
  <1> DEFINE u == Unseen(prev, incoming)
  <1>1. Kept(prev, incoming, Len(incoming), u)
    BY UnseenKept
  <1> HIDE DEF u
  <1>2. u \in Seq(Events) /\ Len(u) \in Nat /\ Len(prev) \in Nat /\ Len(incoming) \in Nat
    BY <1>1, LenProperties DEF Kept
  <1>3. PICK at \in [1 .. Len(u) -> 1 .. Len(incoming)] :
           /\ \A k \in 1 .. Len(u) : u[k] = incoming[at[k]]
           /\ \A j, k \in 1 .. Len(u) : j < k => at[j] < at[k]
    BY <1>1 DEF Kept
  <1>4. \A k \in 1 .. Len(u) : u[k] \notin ToSet(prev)
    BY <1>1 DEF Kept
  <1>5. ASSUME NEW j \in 1 .. Len(u), NEW k \in 1 .. Len(u), j < k, u[j] = u[k]
        PROVE  u[j] \in dup
    <2>1. at[j] \in 1 .. Len(incoming) /\ at[k] \in 1 .. Len(incoming) /\ at[j] < at[k]
      BY <1>3, <1>5
    <2>2. incoming[at[j]] = incoming[at[k]] /\ at[j] # at[k]
      BY <1>2, <1>3, <1>5, <2>1
    <2> QED BY <1>3, <2>1, <2>2 DEF OnceBut
  <1>6. /\ Len(r) \in Nat
        /\ Len(r) = IF Len(u) + Len(prev) < MaxRows THEN Len(u) + Len(prev) ELSE MaxRows
        /\ \A k \in 1 .. Len(r) :
              r[k] = IF k <= Len(u) THEN u[Len(u) - k + 1] ELSE prev[k - Len(u)]
    <2>1. u = Unseen(prev, incoming)
      BY DEF u
    <2>2. r \in Seq(Events)
      BY <1>2, <2>1, RowsOfAddEvents
    <2> QED BY <1>2, <2>1, <2>2, RowsOfAddEvents, LenProperties
  <1>7. Len(r) <= Len(u) + Len(prev)
    BY <1>2, <1>6, LiveFeedAssumption
  <1>8. ASSUME NEW m \in 1 .. Len(r), NEW n \in 1 .. Len(r), m < n, r[m] = r[n]
        PROVE  r[m] \in dup
    <2>1. CASE n <= Len(u)
      <3>1. /\ Len(u) - n + 1 \in 1 .. Len(u) /\ Len(u) - m + 1 \in 1 .. Len(u)
            /\ Len(u) - n + 1 < Len(u) - m + 1
        BY <1>2, <1>6, <1>8, <2>1
      <3>2. r[m] = u[Len(u) - m + 1] /\ r[n] = u[Len(u) - n + 1]
        BY <1>2, <1>6, <1>8, <2>1
      <3> QED BY <1>5, <1>8, <3>1, <3>2
    <2>2. CASE m <= Len(u) /\ n > Len(u)
      <3>1. Len(u) - m + 1 \in 1 .. Len(u) /\ n - Len(u) \in 1 .. Len(prev)
        BY <1>2, <1>6, <1>7, <2>2
      <3>2. r[m] = u[Len(u) - m + 1] /\ r[n] = prev[n - Len(u)]
        BY <1>2, <1>6, <2>2
      <3>3. r[n] \in ToSet(prev)
        BY <3>1, <3>2, InSequence
      <3>4. u[Len(u) - m + 1] \notin ToSet(prev)
        BY <1>4, <3>1
      <3> QED BY <1>8, <3>2, <3>3, <3>4, Zenon
    <2>3. CASE m > Len(u)
      <3>1. m - Len(u) \in 1 .. Len(prev) /\ n - Len(u) \in 1 .. Len(prev) /\ m - Len(u) # n - Len(u)
        <4>1. m \in Nat /\ n \in Nat /\ n <= Len(u) + Len(prev) /\ m < n
          BY <1>6, <1>7, <1>8, <1>2
        <4> QED BY <1>2, <2>3, <4>1
      <3>2. r[m] = prev[m - Len(u)] /\ r[n] = prev[n - Len(u)]
        BY <1>2, <1>6, <1>8, <2>3
      <3> QED BY <1>8, <3>1, <3>2 DEF OnceBut
    <2> QED BY <1>2, <1>6, <2>1, <2>2, <2>3
  <1> SUFFICES ASSUME NEW m \in 1 .. Len(r), NEW n \in 1 .. Len(r), m # n, r[m] = r[n]
               PROVE  r[m] \in dup
    BY DEF OnceBut
  <1>9. m < n \/ n < m
    BY <1>6
  <1> QED BY <1>8, <1>9

-----------------------------------------------------------------------------
LEMMA EventsAreNumbers ==
    /\ Events \in SUBSET Int
    /\ IsFiniteSet(Events)
    /\ \A i \in Entries : EventAt[i] \in Events
  <1>1. EventAt \in Seq(Nat) /\ Len(EventAt) \in Nat /\ Entries = DOMAIN EventAt
    BY LiveFeedAssumption, LenProperties DEF Entries
  <1>2. Events = {EventAt[i] : i \in Entries} /\ \A i \in Entries : EventAt[i] \in Nat
    <2>1. \A i \in 1 .. Len(EventAt) : EventAt[i] \in Nat
      BY <1>1, ElementOfSeq
    <2> QED BY <1>1, <2>1, LenProperties DEF Events, Range
  <1>3. IsFiniteSet(Entries)
    <2>1. \A n \in Nat : IsFiniteSet(1 .. n)
      BY FS_Interval
    <2> QED BY <1>1, <2>1, EntriesAreNumbers
  <1>4. EventAt \in Surjection(Entries, Events)
    <2>1. EventAt \in [Entries -> Nat]
      BY <1>1, LenProperties
    <2>2. EventAt \in [Entries -> Events]
      BY <1>2, <2>1
    <2> QED BY <1>2, <2>2 DEF Surjection
  <1>5. IsFiniteSet(Events)
    BY <1>3, <1>4, FS_Surjection
  <1> QED BY <1>2, <1>5

(* How many of S are newer than e. *)
Above(S, e) == {f \in S : e < f}

LEMMA RankFalls ==
    ASSUME NEW S \in SUBSET Int, IsFiniteSet(S), NEW e \in S, NEW f \in S, e < f
    PROVE  Cardinality(Above(S, f)) < Cardinality(Above(S, e))
  <1>1. \A x \in S : Above(S, x) \in SUBSET S
    BY DEF Above
  <1>2. \A x \in S : IsFiniteSet(Above(S, x)) /\ Cardinality(Above(S, x)) \in Nat
    BY <1>1, FS_Subset, FS_CardinalityType
  <1> DEFINE A == Above(S, f) \cup {f}
  <1>3. f \notin Above(S, f) /\ A \subseteq Above(S, e)
    <2>1. e \in Int /\ f \in Int
      OBVIOUS
    <2>2. f \in Above(S, e) /\ f \notin Above(S, f)
      BY <2>1 DEF Above
    <2>3. \A x \in Above(S, f) : x \in Above(S, e)
      BY <2>1 DEF Above
    <2> QED BY <2>2, <2>3
  <1>4. Cardinality(A) = Cardinality(Above(S, f)) + 1
    BY <1>2, <1>3, FS_AddElement
  <1> HIDE DEF A
  <1>5. Cardinality(A) <= Cardinality(Above(S, e))
    BY <1>2, <1>3, FS_Subset
  <1> QED BY <1>2, <1>4, <1>5

(* Newest by what it returns. *)
IsNewest(s, S, n) ==
    /\ s \in Seq(S)
    /\ \A j, k \in 1 .. Len(s) : j < k => s[k] < s[j]
    /\ Len(s) <= n
    /\ \A e \in S : e \in ToSet(s) \/ (Len(s) = n /\ \A k \in 1 .. Len(s) : e < s[k])

LEMMA NewestIsNewest ==
    ASSUME NEW S \in SUBSET Int, IsFiniteSet(S), NEW n \in Nat
    PROVE  IsNewest(Newest(S, n), S, n)
  <1> DEFINE N == Cardinality(S)
             len == IF N < n THEN N ELSE n
             rank == [e \in S |-> Cardinality(Above(S, e))]
             s == [k \in 1 .. len |-> CHOOSE e \in S : Cardinality(Above(S, e)) = k - 1]
  <1>1. N \in Nat
    BY FS_CardinalityType
  <1>2. ASSUME NEW e \in S PROVE rank[e] \in 0 .. N - 1
    <2>1. Above(S, e) \in SUBSET S /\ e \notin Above(S, e)
      BY DEF Above
    <2>2. IsFiniteSet(Above(S, e)) /\ Cardinality(Above(S, e)) <= N
      BY <2>1, FS_Subset
    <2>3. Cardinality(Above(S, e)) \in Nat
      BY <2>2, FS_CardinalityType
    <2>4. N # Cardinality(Above(S, e))
      BY <2>1, FS_Subset
    <2> QED BY <1>1, <2>2, <2>3, <2>4
  <1>3. \A e, f \in S : e < f => rank[f] < rank[e]
    BY RankFalls
  <1>4. \A e \in S : rank[e] = Cardinality(Above(S, e))
    OBVIOUS
  <1>5. rank \in [S -> 0 .. N - 1]
    <2>1. rank = [e \in S |-> rank[e]] /\ DOMAIN rank = S
      OBVIOUS
    <2> HIDE DEF rank
    <2> QED BY <1>2, <2>1
  <1> HIDE DEF rank
  <1>6. \A e, f \in S : rank[e] = rank[f] => e = f
    <2> SUFFICES ASSUME NEW e \in S, NEW f \in S, rank[e] = rank[f], e # f PROVE FALSE
      OBVIOUS
    <2>1. e < f \/ f < e
      OBVIOUS
    <2>2. rank[e] \in Int
      BY <1>2
    <2> QED BY <1>3, <2>1, <2>2
  <1>7. rank \in Injection(S, 0 .. N - 1)
    BY <1>5, <1>6 DEF Injection, IsInjective
  <1>8. IsFiniteSet(0 .. N - 1) /\ Cardinality(0 .. N - 1) = N
    <2>1. \A m \in Int : IsFiniteSet(0 .. m) /\ Cardinality(0 .. m) = IF 0 > m THEN 0 ELSE m - 0 + 1
      BY FS_Interval
    <2>2. N - 1 \in Int
      BY <1>1
    <2>3. IsFiniteSet(0 .. N - 1) /\ Cardinality(0 .. N - 1) = IF 0 > N - 1 THEN 0 ELSE N - 1 - 0 + 1
      BY <2>1, <2>2
    <2> HIDE DEF N
    <2> QED BY <1>1, <2>3
  <1>9. \A m \in 0 .. N - 1 : \E e \in S : rank[e] = m
    <2>1. rank \in Surjection(S, 0 .. N - 1)
      BY <1>7, <1>8, FS_Injection
    <2> QED BY <2>1 DEF Surjection
  <1>10. Newest(S, n) = s
    BY DEF Newest, Above
  <1>11. len \in Nat /\ len <= n /\ len <= N
    BY <1>1
  <1>12. \A k \in 1 .. len : s[k] \in S /\ rank[s[k]] = k - 1
    <2> SUFFICES ASSUME NEW k \in 1 .. len PROVE s[k] \in S /\ rank[s[k]] = k - 1
      OBVIOUS
    <2>1. k - 1 \in 0 .. N - 1
      <3> HIDE DEF N, len
      <3> QED BY <1>1, <1>11
    <2>2. PICK e \in S : rank[e] = k - 1
      BY <1>9, <2>1
    <2>3. s[k] = CHOOSE f \in S : Cardinality(Above(S, f)) = k - 1
      OBVIOUS
    <2> HIDE DEF s
    <2> QED BY <1>4, <2>2, <2>3
  <1>13. s \in Seq(S) /\ Len(s) = len
    <2>1. s = [k \in 1 .. len |-> s[k]]
      OBVIOUS
    <2> HIDE DEF s, len
    <2>2. \A k \in 1 .. len : s[k] \in S
      BY <1>12
    <2> QED BY <1>11, <2>1, <2>2
  <1> HIDE DEF s, len
  <1>14. ASSUME NEW j \in 1 .. len, NEW k \in 1 .. len, j < k PROVE s[k] < s[j]
    <2>1. s[j] \in S /\ s[k] \in S /\ rank[s[j]] = j - 1 /\ rank[s[k]] = k - 1
      BY <1>12
    <2>2. j - 1 \in Int /\ k - 1 \in Int /\ j - 1 < k - 1
      BY <1>11, <1>14
    <2>3. ~ (rank[s[k]] < rank[s[j]]) /\ rank[s[j]] # rank[s[k]]
      BY <2>1, <2>2
    <2>4. ~ (s[j] < s[k]) /\ s[j] # s[k]
      BY <1>3, <2>1, <2>3
    <2>5. s[j] \in Int /\ s[k] \in Int
      BY <2>1
    <2> QED BY <2>4, <2>5
  <1>15. ASSUME NEW e \in S, e \notin ToSet(s)
         PROVE  len = n /\ \A k \in 1 .. len : e < s[k]
    <2>1. rank[e] \in 0 .. N - 1
      BY <1>2
    <2>2. ~ (rank[e] + 1 <= len)
      <3> SUFFICES ASSUME rank[e] + 1 <= len PROVE FALSE
        OBVIOUS
      <3>1. rank[e] + 1 \in 1 .. len
        BY <1>11, <2>1
      <3>2. rank[s[rank[e] + 1]] = rank[e] /\ s[rank[e] + 1] \in S
        BY <1>12, <2>1, <3>1
      <3>3. s[rank[e] + 1] = e
        BY <1>6, <3>2
      <3> QED BY <1>13, <1>15, <3>1, <3>3, InSequence
    <2>3. len < N
      BY <1>1, <1>11, <2>1, <2>2
    <2>4. len = n
      BY <1>1, <2>3 DEF len
    <2>5. ASSUME NEW k \in 1 .. len PROVE e < s[k]
      <3>1. s[k] \in S /\ rank[s[k]] = k - 1
        BY <1>12
      <3>2. ~ (rank[e] < rank[s[k]]) /\ rank[e] # rank[s[k]]
        BY <1>1, <1>11, <2>1, <2>2, <3>1
      <3>3. ~ (s[k] < e) /\ e # s[k]
        BY <1>3, <3>1, <3>2
      <3>4. s[k] \in Int /\ e \in Int
        BY <3>1
      <3> QED BY <3>3, <3>4
    <2> QED BY <2>4, <2>5
  <1> QED BY <1>10, <1>11, <1>13, <1>14, <1>15 DEF IsNewest

(* Two of them do not part: not at a place, nor where one ends.              *)
LEMMA NewestDoNotPart ==
    ASSUME NEW S \in SUBSET Int, NEW n, NEW s, NEW t, IsNewest(s, S, n), IsNewest(t, S, n),
           NEW k \in 1 .. Len(s), k \in 1 .. Len(t), \A j \in 1 .. k - 1 : s[j] = t[j]
    PROVE  ~ (s[k] < t[k])
  <1>1. /\ s \in Seq(S) /\ Len(s) \in Nat
        /\ t \in Seq(S) /\ Len(t) \in Nat
    BY LenProperties DEF IsNewest
  <1>2. /\ \A j \in 1 .. Len(s) : s[j] \in S /\ s[j] \in Int
        /\ \A j \in 1 .. Len(t) : t[j] \in S /\ t[j] \in Int
    BY <1>1, ElementOfSeq
  <1>3. SUFFICES ASSUME s[k] < t[k] PROVE FALSE
    OBVIOUS
  <1>4. CASE t[k] \notin ToSet(s)
    <2>1. t[k] < s[k]
      BY <1>2, <1>4 DEF IsNewest
    <2> QED BY <1>2, <1>3, <2>1
  <1>5. CASE t[k] \in ToSet(s)
    <2>1. PICK m \in 1 .. Len(s) : s[m] = t[k]
      BY <1>1, <1>5, InSequence
    <2>2. CASE m < k
      <3>1. m \in 1 .. k - 1 /\ m \in 1 .. Len(t)
        BY <1>1, <2>2
      <3>2. s[m] = t[m] /\ t[k] < t[m]
        BY <2>2, <3>1 DEF IsNewest
      <3> QED BY <1>2, <2>1, <3>1, <3>2
    <2>3. CASE m = k
      BY <1>2, <1>3, <2>1, <2>3
    <2>4. CASE k < m
      <3>1. s[m] < s[k]
        BY <2>4 DEF IsNewest
      <3> QED BY <1>2, <1>3, <2>1, <3>1
    <2> QED BY <1>1, <2>2, <2>3, <2>4
  <1> QED BY <1>4, <1>5

LEMMA NewestEndTogether ==
    ASSUME NEW S \in SUBSET Int, NEW n \in Nat, NEW s, NEW t,
           IsNewest(s, S, n), IsNewest(t, S, n),
           \A j \in 1 .. Len(s) : j \in 1 .. Len(t) => s[j] = t[j]
    PROVE  ~ (Len(s) < Len(t))
  <1>1. /\ s \in Seq(S) /\ Len(s) \in Nat
        /\ t \in Seq(S) /\ Len(t) \in Nat /\ Len(t) <= n
    BY LenProperties DEF IsNewest
  <1>2. SUFFICES ASSUME Len(s) < Len(t) PROVE FALSE
    OBVIOUS
  <1> DEFINE k == Len(s) + 1
  <1>3. k \in 1 .. Len(t) /\ t[k] \in S
    BY <1>1, <1>2, ElementOfSeq
  <1>4. t[k] \in ToSet(s)
    <2>1. Len(s) # n
      BY <1>1, <1>2
    <2> HIDE DEF k
    <2> QED BY <1>3, <2>1 DEF IsNewest
  <1>5. PICK m \in 1 .. Len(s) : s[m] = t[k]
    <2> HIDE DEF k
    <2> QED BY <1>1, <1>4, InSequence
  <1>6. m \in 1 .. Len(t) /\ m < k
    BY <1>1, <1>2
  <1> HIDE DEF k
  <1>7. s[m] = t[m] /\ t[k] < t[m]
    BY <1>3, <1>6 DEF IsNewest
  <1>8. t[m] \in Int
    BY <1>1, <1>6, ElementOfSeq
  <1> QED BY <1>5, <1>7, <1>8

LEMMA NewestUnique ==
    ASSUME NEW S \in SUBSET Int, IsFiniteSet(S), NEW n \in Nat, NEW s, IsNewest(s, S, n)
    PROVE  s = Newest(S, n)
  <1> DEFINE t == Newest(S, n)
  <1>1. IsNewest(t, S, n)
    BY NewestIsNewest
  <1> HIDE DEF t
  <1>2. /\ s \in Seq(S) /\ Len(s) \in Nat
        /\ t \in Seq(S) /\ Len(t) \in Nat
    BY <1>1, LenProperties DEF IsNewest
  <1>3. /\ \A k \in 1 .. Len(s) : s[k] \in S
        /\ \A k \in 1 .. Len(t) : t[k] \in S
    BY <1>2, ElementOfSeq
  <1> DEFINE Parts == {k \in 1 .. Len(s) : k \in 1 .. Len(t) /\ s[k] # t[k]}
  <1>4. Parts = {}
    <2>1. SUFFICES ASSUME Parts # {} PROVE FALSE
      OBVIOUS
    <2>2. PICK k \in Parts : \A j \in Parts : k <= j
      <3>1. Parts \in SUBSET Nat /\ Parts # {}
        BY <2>1
      <3> HIDE DEF Parts
      <3> QED BY <3>1, LeastExists
    <2>3. k \in 1 .. Len(s) /\ k \in 1 .. Len(t) /\ s[k] # t[k]
      BY <2>2
    <2>4. \A j \in 1 .. k - 1 : s[j] = t[j] /\ t[j] = s[j]
      <3>1. \A j \in 1 .. k - 1 : j \in 1 .. Len(s) /\ j \in 1 .. Len(t) /\ ~ (k <= j)
        BY <1>2, <2>3
      <3> QED BY <2>2, <3>1
    <2> HIDE DEF Parts
    <2>5. ~ (s[k] < t[k])
      BY <1>1, <2>3, <2>4, NewestDoNotPart
    <2>6. ~ (t[k] < s[k])
      BY <1>1, <2>3, <2>4, NewestDoNotPart
    <2>7. s[k] \in Int /\ t[k] \in Int
      BY <1>3, <2>3
    <2> QED BY <2>3, <2>5, <2>6, <2>7
  <1>5. \A j \in 1 .. Len(s) : j \in 1 .. Len(t) => s[j] = t[j]
    BY <1>4
  <1> HIDE DEF Parts
  <1>6. ~ (Len(s) < Len(t)) /\ ~ (Len(t) < Len(s))
    <2>1. \A j \in 1 .. Len(t) : j \in 1 .. Len(s) => t[j] = s[j]
      BY <1>5
    <2> QED BY <1>1, <1>5, <2>1, NewestEndTogether
  <1>7. Len(s) = Len(t)
    BY <1>2, <1>6
  <1>8. s = t
    BY <1>2, <1>5, <1>7, SeqEqual
  <1> QED BY <1>8 DEF t

-----------------------------------------------------------------------------
(* Frames on the wire: what is in them, and their order.                     *)
Frames(w) == UNION {ToSet(w[k]) : k \in 1 .. Len(w)}

WireOrder(w) ==
    /\ \A k \in 1 .. Len(w) : Ascending(w[k])
    /\ \A h, k \in 1 .. Len(w) :
          h < k => \A i \in ToSet(w[h]), j \in ToSet(w[k]) : i < j

LEMMA NoFrames == Frames(<<>>) = {} /\ WireOrder(<<>>)
  <1>1. Len(<<>>) = 0 /\ 1 .. 0 = {}
    BY EmptySeq
  <1> QED BY <1>1 DEF Frames, WireOrder

LEMMA FramesAppend ==
    ASSUME NEW w \in Seq(Seq(Entries)), NEW b \in Seq(Entries)
    PROVE  /\ Append(w, b) \in Seq(Seq(Entries)) /\ Len(Append(w, b)) = Len(w) + 1
           /\ Frames(Append(w, b)) = Frames(w) \cup ToSet(b)
           /\ (/\ WireOrder(w) /\ Ascending(b)
               /\ \A i \in Frames(w), j \in ToSet(b) : i < j) => WireOrder(Append(w, b))
  <1> DEFINE v == Append(w, b)
  <1>1. /\ Len(w) \in Nat
        /\ v \in Seq(Seq(Entries)) /\ Len(v) = Len(w) + 1
        /\ \A k \in 1 .. Len(w) : v[k] = w[k]
        /\ v[Len(w) + 1] = b
    BY LenProperties, AppendProperties
  <1> HIDE DEF v
  <1>2. \A k \in 1 .. Len(v) : k \in 1 .. Len(w) \/ k = Len(w) + 1
    BY <1>1
  <1>3. 1 .. Len(w) \subseteq 1 .. Len(v) /\ Len(w) + 1 \in 1 .. Len(v)
    BY <1>1
  <1>4. ASSUME NEW x \in Frames(v) PROVE x \in Frames(w) \cup ToSet(b)
    <2>1. PICK k \in 1 .. Len(v) : x \in ToSet(v[k])
      BY DEF Frames
    <2> QED BY <1>1, <1>2, <2>1 DEF Frames
  <1>5. ASSUME NEW x \in Frames(w) PROVE x \in Frames(v)
    <2>1. PICK k \in 1 .. Len(w) : x \in ToSet(w[k])
      BY DEF Frames
    <2> QED BY <1>1, <1>3, <2>1 DEF Frames
  <1>6. ToSet(b) \subseteq Frames(v)
    BY <1>1, <1>3 DEF Frames
  <1>7. Frames(v) = Frames(w) \cup ToSet(b)
    BY <1>4, <1>5, <1>6
  <1>8. ASSUME WireOrder(w), Ascending(b), \A i \in Frames(w), j \in ToSet(b) : i < j
        PROVE  WireOrder(v)
    <2>1. \A k \in 1 .. Len(v) : Ascending(v[k])
      BY <1>1, <1>2, <1>8 DEF WireOrder
    <2>2. ASSUME NEW h \in 1 .. Len(v), NEW k \in 1 .. Len(v), h < k,
                 NEW i \in ToSet(v[h]), NEW j \in ToSet(v[k])
          PROVE  i < j
      <3>1. h \in 1 .. Len(w) /\ i \in ToSet(w[h])
        <4>1. h # Len(w) + 1
          BY <1>1, <2>2
        <4>2. h \in 1 .. Len(w)
          BY <1>2, <4>1
        <4>3. v[h] = w[h]
          BY <1>1, <4>2
        <4> QED BY <2>2, <4>2, <4>3
      <3>2. CASE k \in 1 .. Len(w)
        <4>1. j \in ToSet(w[k])
          BY <1>1, <2>2, <3>2
        <4> QED BY <1>8, <2>2, <3>1, <3>2, <4>1 DEF WireOrder
      <3>3. CASE k = Len(w) + 1
        <4>1. j \in ToSet(b) /\ i \in Frames(w)
          BY <1>1, <2>2, <3>1, <3>3 DEF Frames
        <4> QED BY <1>8, <4>1
      <3> QED BY <1>2, <3>2, <3>3
    <2> QED BY <2>1, <2>2 DEF WireOrder
  <1> QED BY <1>1, <1>7, <1>8 DEF v

LEMMA FramesTail ==
    ASSUME NEW w \in Seq(Seq(Entries)), w # <<>>
    PROVE  /\ Head(w) \in Seq(Entries)
           /\ Tail(w) \in Seq(Seq(Entries)) /\ Len(Tail(w)) = Len(w) - 1
           /\ Frames(w) = ToSet(Head(w)) \cup Frames(Tail(w))
           /\ WireOrder(w) =>
                 /\ Ascending(Head(w)) /\ WireOrder(Tail(w))
                 /\ \A i \in ToSet(Head(w)), j \in Frames(Tail(w)) : i < j
  <1> DEFINE v == Tail(w)
             b == Head(w)
  <1>1. /\ Len(w) \in Nat \ {0}
        /\ b \in Seq(Entries)
        /\ v \in Seq(Seq(Entries)) /\ Len(v) = Len(w) - 1
        /\ \A k \in 1 .. Len(v) : v[k] = w[k + 1]
    BY LenProperties, HeadTailProperties, EmptySeq
  <1>2. b = w[1]
    OBVIOUS
  <1> HIDE DEF v, b
  <1>3. /\ \A k \in 1 .. Len(w) : k = 1 \/ (k - 1 \in 1 .. Len(v) /\ v[k - 1] = w[k])
        /\ \A k \in 1 .. Len(v) : k + 1 \in 1 .. Len(w)
        /\ 1 \in 1 .. Len(w)
    <2>1. ASSUME NEW k \in 1 .. Len(w), k # 1
          PROVE  k - 1 \in 1 .. Len(v) /\ v[k - 1] = w[k]
      <3>1. k - 1 \in 1 .. Len(v) /\ k - 1 + 1 = k
        BY <1>1, <2>1
      <3> QED BY <1>1, <3>1
    <2>2. \A k \in 1 .. Len(v) : k + 1 \in 1 .. Len(w)
      BY <1>1
    <2>3. 1 \in 1 .. Len(w)
      BY <1>1
    <2> QED BY <2>1, <2>2, <2>3
  <1>4. ASSUME NEW x \in Frames(w) PROVE x \in ToSet(b) \cup Frames(v)
    <2>1. PICK k \in 1 .. Len(w) : x \in ToSet(w[k])
      BY DEF Frames
    <2>2. CASE k = 1
      BY <1>2, <2>1, <2>2
    <2>3. CASE k # 1
      <3>1. k - 1 \in 1 .. Len(v) /\ x \in ToSet(v[k - 1])
        BY <1>3, <2>1, <2>3
      <3> QED BY <3>1 DEF Frames
    <2> QED BY <2>2, <2>3
  <1>5. ASSUME NEW x \in Frames(v)
        PROVE  \E k \in 1 .. Len(v) : k + 1 \in 1 .. Len(w) /\ x \in ToSet(w[k + 1])
    <2>1. PICK k \in 1 .. Len(v) : x \in ToSet(v[k])
      BY DEF Frames
    <2> QED BY <1>1, <1>3, <2>1
  <1>6. Frames(v) \subseteq Frames(w)
    BY <1>5 DEF Frames
  <1>7. ToSet(b) \subseteq Frames(w)
    BY <1>2, <1>3 DEF Frames
  <1>8. Frames(w) = ToSet(b) \cup Frames(v)
    BY <1>4, <1>6, <1>7
  <1>9. ASSUME WireOrder(w)
        PROVE  /\ Ascending(b) /\ WireOrder(v)
               /\ \A i \in ToSet(b), j \in Frames(v) : i < j
    <2>1. Ascending(b)
      BY <1>2, <1>3, <1>9 DEF WireOrder
    <2>2. \A k \in 1 .. Len(v) : Ascending(v[k])
      BY <1>1, <1>3, <1>9 DEF WireOrder
    <2>3. ASSUME NEW h \in 1 .. Len(v), NEW k \in 1 .. Len(v), h < k,
                 NEW i \in ToSet(v[h]), NEW j \in ToSet(v[k])
          PROVE  i < j
      <3>1. /\ h + 1 \in 1 .. Len(w) /\ k + 1 \in 1 .. Len(w) /\ h + 1 < k + 1
            /\ i \in ToSet(w[h + 1]) /\ j \in ToSet(w[k + 1])
        <4>1. v[h] = w[h + 1] /\ v[k] = w[k + 1]
          BY <1>1
        <4>2. h + 1 \in 1 .. Len(w) /\ k + 1 \in 1 .. Len(w)
          BY <1>3
        <4>3. h + 1 < k + 1
          BY <1>1, <2>3
        <4> QED BY <2>3, <4>1, <4>2, <4>3
      <3> QED BY <1>9, <3>1 DEF WireOrder
    <2>4. ASSUME NEW i \in ToSet(b), NEW j \in Frames(v) PROVE i < j
      <3>1. PICK k \in 1 .. Len(v) : k + 1 \in 1 .. Len(w) /\ j \in ToSet(w[k + 1])
        BY <1>5
      <3>2. 1 \in 1 .. Len(w) /\ 1 < k + 1 /\ i \in ToSet(w[1])
        BY <1>2, <1>3
      <3> QED BY <1>9, <3>1, <3>2 DEF WireOrder
    <2> QED BY <2>1, <2>2, <2>3, <2>4 DEF WireOrder
  <1> QED BY <1>1, <1>8, <1>9 DEF v, b

-----------------------------------------------------------------------------
(* The inductive invariant of the feed.  What is between the reader and the  *)
(* hook never passes last_id, which is why a reader that goes on from it     *)
(* after a lost connection neither skips nor repeats; and while last_id is   *)
(* '$' nothing is on the way, and the id the call was given is past all that *)
(* has been received.                                                        *)
InFlight == Frames(wire) \cup ToSet(batch) \cup ToSet(queue)

Closed ==
    conn = "closed" => wire = <<>> /\ batch = <<>> /\ queue = <<>> /\ lost = {}

Bounds ==
    /\ \A i \in InFlight \cup lost : i <= last
    /\ \A i \in received : i <= added /\ (last # 0 => i <= last)
    /\ reader = "blocked" => IF last = 0 THEN \A i \in received : i <= since
                                         ELSE since = last
    /\ conn = "open" => from <= last
    /\ last # 0 => base <= last

Order ==
    /\ WireOrder(wire) /\ Ascending(batch) /\ Ascending(queue)
    /\ \A i \in Frames(wire), j \in ToSet(batch) \cup ToSet(queue) : i < j
    /\ \A i \in ToSet(batch), j \in ToSet(queue) : i < j
    /\ \A i \in received, j \in InFlight : i < j

Passed ==
    conn = "open" =>
        /\ Owed \subseteq received \cup InFlight \cup lost
        /\ InFlight \subseteq Owed
        /\ \A i \in lost, j \in ToSet(queue) : i < j

FlowInv == TypeOK /\ Closed /\ Bounds /\ Order /\ Passed

LEMMA EmptyTyped ==
    /\ \A S : <<>> \in Seq(S)
    /\ Len(<<>>) = 0 /\ ToSet(<<>>) = {} /\ Ascending(<<>>)
  <1>1. \A S : <<>> \in Seq(S) /\ Len(<<>>) = 0
    BY EmptySeq
  <1>2. <<>> \in Seq(Int)
    BY <1>1
  <1>3. ToSet(<<>>) = {}
    BY <1>2, InSequence
  <1>4. 1 .. 0 = {}
    OBVIOUS
  <1> QED BY <1>1, <1>3, <1>4 DEF Ascending

LEMMA InitFlow == Init => FlowInv
  <1> SUFFICES ASSUME Init PROVE FlowInv
    OBVIOUS
  <1>1. InFlight = {}
    BY NoFrames, EmptyTyped DEF Init, InFlight
  <1>2. TypeOK
    <2>1. Len(EventAt) \in Nat
      BY EntriesAreNumbers
    <2>2. {QueueMax, WireMax, MaxRows} \subseteq Nat \ {0} /\ MaxFaults \in Nat
      BY LiveFeedAssumption
    <2>3. /\ <<>> \in Seq(Entries) /\ <<>> \in Seq(Seq(Entries)) /\ <<>> \in Seq(Events)
          /\ Len(<<>>) = 0
      BY EmptyTyped
    <2>4. /\ added \in 0 .. Len(EventAt) /\ stored \in 0 .. added
          /\ {last, since, base, from} \subseteq 0 .. added /\ faults \in 0 .. MaxFaults
      BY <2>1, <2>2 DEF Init
    <2>5. /\ {queue, batch} \subseteq Seq(Entries) /\ Len(queue) <= QueueMax
          /\ wire \in Seq(Seq(Entries)) /\ Len(wire) <= WireMax
          /\ {list, reply} \subseteq Seq(Events) /\ Len(list) <= MaxRows
      BY <2>2, <2>3 DEF Init
    <2>6. /\ reader \in Readers /\ conn \in {"open", "closed"}
          /\ sender \in {"collect", "send"} /\ rest \in {"asked", "served", "done"}
          /\ {lost, received} \subseteq SUBSET Entries /\ twice \subseteq Events
          /\ late \in BOOLEAN
      BY DEF Init, Readers
    <2> QED BY <2>4, <2>5, <2>6 DEF TypeOK
  <1>3. Closed
    BY DEF Init, Closed
  <1>4. Bounds
    BY <1>1 DEF Init, Bounds
  <1>5. Order
    BY <1>1, NoFrames, EmptyTyped DEF Init, Order
  <1>6. Passed
    BY DEF Init, Passed
  <1> QED BY <1>2, <1>3, <1>4, <1>5, <1>6 DEF FlowInv

LEMMA Counts ==
    ASSUME FlowInv
    PROVE  /\ Len(EventAt) \in Nat /\ added \in 0 .. Len(EventAt)
           /\ added \in Nat /\ last \in Nat /\ since \in Nat /\ base \in Nat /\ from \in Nat
           /\ added <= Len(EventAt)
           /\ last <= added /\ since <= added /\ base <= added /\ from <= added
           /\ faults \in 0 .. MaxFaults
  <1>1. Len(EventAt) \in Nat
    BY EntriesAreNumbers
  <1>2. /\ added \in 0 .. Len(EventAt) /\ {last, since, base, from} \subseteq 0 .. added
        /\ faults \in 0 .. MaxFaults
    BY DEF FlowInv, TypeOK
  <1> QED BY <1>1, <1>2

(* A step that leaves what is on the way as it is.                           *)
LEMMA QuietFlow ==
    ASSUME FlowInv, TypeOK',
           UNCHANGED <<wire, batch, queue, lost, received, last, base, from, conn>>,
           added <= added',
           reader' = "blocked" =>
              IF last = 0 THEN \A i \in received : i <= since' ELSE since' = last
    PROVE  FlowInv'
  <1>1. InFlight' = InFlight
    BY DEF InFlight
  <1>2. Closed'
    BY DEF FlowInv, Closed
  <1>3. Bounds'
    <2>1. \A i \in received : i \in Int /\ added \in Int /\ added' \in Int
      BY EntriesAreNumbers DEF FlowInv, TypeOK
    <2>2. \A i \in received : i <= added' /\ (last # 0 => i <= last)
      BY <2>1 DEF FlowInv, Bounds
    <2> QED BY <1>1, <2>2 DEF FlowInv, Bounds
  <1>4. Order'
    BY <1>1 DEF FlowInv, Order
  <1>5. Passed'
    <2>1. Owed' = Owed
      BY DEF Owed
    <2> QED BY <1>1, <2>1 DEF FlowInv, Passed
  <1> QED BY <1>2, <1>3, <1>4, <1>5 DEF FlowInv

LEMMA FaultTyped ==
    ASSUME FlowInv, Fault \/ UNCHANGED faults
    PROVE  faults' \in 0 .. MaxFaults
  <1>1. faults \in 0 .. MaxFaults /\ MaxFaults \in Nat
    BY LiveFeedAssumption, Counts
  <1> QED BY <1>1 DEF Fault

LEMMA XAddFlow == ASSUME FlowInv, XAdd PROVE FlowInv'
  <1>1. /\ added \in Nat /\ added' = added + 1 /\ added' \in 0 .. Len(EventAt)
    <2>1. added < Len(EventAt) /\ added' = added + 1
      BY DEF XAdd
    <2>2. added \in Nat /\ Len(EventAt) \in Nat
      BY Counts
    <2> QED BY <2>1, <2>2
  <1>2. UNCHANGED <<stored, tail, socket, hook, faults>>
    BY DEF XAdd
  <1>3. TypeOK'
    <2>1. 0 .. added \subseteq 0 .. added'
      BY <1>1
    <2>2. stored' \in 0 .. added' /\ {last', since', base', from'} \subseteq 0 .. added'
      BY <1>2, <2>1 DEF FlowInv, TypeOK, tail, socket
    <2> QED BY <1>1, <1>2, <2>2 DEF FlowInv, TypeOK, tail, socket, hook
  <1>4. added <= added'
    BY <1>1
  <1>5. UNCHANGED <<wire, batch, queue, lost, received, last, base, from, conn, reader, since>>
    BY <1>2 DEF tail, socket, hook
  <1>6. reader' = "blocked" =>
           IF last = 0 THEN \A i \in received : i <= since' ELSE since' = last
    BY <1>5 DEF FlowInv, Bounds
  <1> QED BY <1>3, <1>4, <1>5, <1>6, QuietFlow

LEMMA StoreFlow == ASSUME FlowInv, Store PROVE FlowInv'
  <1>1. stored' \in 0 .. added' /\ UNCHANGED <<added, tail, socket, hook, faults>>
    BY DEF FlowInv, TypeOK, Store
  <1>2. TypeOK'
    BY <1>1 DEF FlowInv, TypeOK, tail, socket, hook
  <1>3. added <= added'
    BY <1>1, Counts
  <1> QED BY <1>1, <1>2, <1>3, QuietFlow DEF tail, socket, hook, FlowInv, Bounds

LEMMA ReaderFlow ==
    ASSUME FlowInv, Ping \/ BlockEnds \/ WakeUp \/ ConnectionLost \/ ReaderDies
    PROVE  FlowInv'
  <1>1. /\ reader' \in Readers /\ reader' # "blocked"
        /\ UNCHANGED <<added, stored, last, since, base, socket, hook>>
    BY DEF Ping, BlockEnds, WakeUp, ConnectionLost, ReaderDies, Readers
  <1>2. faults' \in 0 .. MaxFaults
    <2>1. Fault \/ UNCHANGED faults
      BY DEF Ping, BlockEnds, WakeUp, ConnectionLost, ReaderDies
    <2> QED BY <2>1, FaultTyped
  <1>3. TypeOK'
    BY <1>1, <1>2 DEF FlowInv, TypeOK, socket, hook
  <1>4. added <= added'
    BY <1>1, Counts
  <1> QED BY <1>1, <1>3, <1>4, QuietFlow DEF socket, hook

LEMMA CallFlow == ASSUME FlowInv, Call PROVE FlowInv'
  <1>1. /\ reader' = "blocked" /\ since' = IF last = 0 THEN added ELSE last
        /\ UNCHANGED <<added, stored, last, base, socket, hook, faults>>
    BY DEF Call
  <1>2. since' \in 0 .. added /\ added <= added' /\ reader' \in Readers
    BY <1>1 DEF FlowInv, TypeOK, Readers
  <1>3. TypeOK'
    BY <1>1, <1>2 DEF FlowInv, TypeOK, socket, hook
  <1>4. IF last = 0 THEN \A i \in received : i <= since' ELSE since' = last
    BY <1>1 DEF FlowInv, Bounds
  <1> QED BY <1>1, <1>2, <1>3, <1>4, QuietFlow DEF socket, hook

LEMMA DeadlineFlow == ASSUME FlowInv, Deadline PROVE FlowInv'
  <1>1. /\ sender' = "send" /\ added' = added
        /\ UNCHANGED <<stored, tail, conn, queue, batch, wire, from, lost, hook, faults>>
    BY DEF Deadline
  <1>2. TypeOK'
    BY <1>1 DEF FlowInv, TypeOK, tail, hook
  <1>3. added <= added'
    BY <1>1, Counts
  <1> QED BY <1>1, <1>2, <1>3, QuietFlow DEF tail, hook, FlowInv, Bounds

-----------------------------------------------------------------------------
(* The rows the writer has stored, and those REST returns of them.           *)
Stored == {EventAt[i] : i \in (1 .. stored) \ Bad}

LEMMA ServedIsNewest ==
    ASSUME FlowInv, RestServed
    PROVE  \E S \in SUBSET Events : IsFiniteSet(S) /\ IsNewest(reply', S, Page)
  <1>1. (1 .. stored) \ Bad \subseteq Entries
    BY EntriesAreNumbers DEF FlowInv, TypeOK
  <1>2. Stored \in SUBSET Events
    BY <1>1, EventsAreNumbers DEF Stored
  <1>3. IsFiniteSet(Stored) /\ Stored \in SUBSET Int /\ Page \in Nat
    BY <1>2, EventsAreNumbers, FS_Subset, LiveFeedAssumption
  <1>4. IsNewest(Newest(Stored, Page), Stored, Page)
    BY <1>3, NewestIsNewest
  <1>5. reply' = Newest(Stored, Page)
    BY DEF RestServed, Stored
  <1> QED BY <1>2, <1>3, <1>4, <1>5

LEMMA RestFlow ==
    ASSUME FlowInv, RestServed \/ RestArrives \/ RestFails
    PROVE  FlowInv'
  <1>1. UNCHANGED <<added, stored, tail, socket, received, twice>>
    BY DEF RestServed, RestArrives, RestFails
  <1>2. faults' \in 0 .. MaxFaults /\ rest' \in {"asked", "served", "done"} /\ late' \in BOOLEAN
    <2>1. Fault \/ UNCHANGED faults
      BY DEF RestServed, RestArrives, RestFails
    <2>2. rest' \in {"asked", "served", "done"}
      BY DEF RestServed, RestArrives, RestFails
    <2>3. late' = late \/ late' = (received # {})
      BY DEF RestServed, RestArrives, RestFails
    <2>4. late \in BOOLEAN
      BY DEF FlowInv, TypeOK
    <2>5. late' \in BOOLEAN
      BY <2>3, <2>4, Zenon
    <2> QED BY <2>1, <2>2, <2>5, FaultTyped
  <1>3. reply' \in Seq(Events)
    <2>1. CASE RestServed
      <3>1. PICK S \in SUBSET Events : IsNewest(reply', S, Page)
        BY <2>1, ServedIsNewest
      <3> QED BY <3>1, SeqMonotonic DEF IsNewest
    <2>2. CASE RestArrives
      BY <2>2 DEF FlowInv, TypeOK, RestArrives
    <2>3. CASE RestFails
      BY <2>3, EmptyTyped DEF RestFails
    <2> QED BY <2>1, <2>2, <2>3
  <1>4. list' \in Seq(Events) /\ Len(list') <= MaxRows
    <2>1. list \in Seq(Events) /\ reply \in Seq(Events) /\ Len(list) <= MaxRows
      BY DEF FlowInv, TypeOK
    <2>2. CASE RestArrives
      BY <2>1, <2>2, Reversed, AddEventsTyped DEF RestArrives
    <2>3. CASE RestServed \/ RestFails
      BY <2>1, <2>3 DEF RestServed, RestFails
    <2> QED BY <2>2, <2>3
  <1>5. TypeOK'
    BY <1>1, <1>2, <1>3, <1>4 DEF FlowInv, TypeOK, tail, socket
  <1>6. added <= added'
    BY <1>1, Counts
  <1> QED BY <1>1, <1>5, <1>6, QuietFlow DEF tail, socket, FlowInv, Bounds

-----------------------------------------------------------------------------
(* The steps that move entries on.                                           *)
LEMMA FlowTypes ==
    ASSUME FlowInv
    PROVE  /\ Entries \in SUBSET Int
           /\ wire \in Seq(Seq(Entries)) /\ batch \in Seq(Entries) /\ queue \in Seq(Entries)
           /\ Frames(wire) \subseteq Entries
           /\ ToSet(batch) \subseteq Entries /\ ToSet(queue) \subseteq Entries
           /\ received \subseteq Entries /\ lost \subseteq Entries
           /\ InFlight \subseteq Entries
           /\ {added, last, since, base, from} \subseteq Int
  <1>1. /\ wire \in Seq(Seq(Entries)) /\ batch \in Seq(Entries) /\ queue \in Seq(Entries)
        /\ received \subseteq Entries /\ lost \subseteq Entries
    BY DEF FlowInv, TypeOK
  <1>2. ToSet(batch) \subseteq Entries /\ ToSet(queue) \subseteq Entries
    BY <1>1, InSequence
  <1>3. Frames(wire) \subseteq Entries
    <2>1. \A k \in 1 .. Len(wire) : wire[k] \in Seq(Entries)
      BY <1>1, ElementOfSeq
    <2>2. \A k \in 1 .. Len(wire) : ToSet(wire[k]) \subseteq Entries
      BY <2>1, InSequence
    <2> QED BY <2>2 DEF Frames
  <1>4. {added, last, since, base, from} \subseteq Int
    BY Counts
  <1> QED BY <1>1, <1>2, <1>3, <1>4, EntriesAreNumbers DEF InFlight

LEMMA ReplyPublishes ==
    ASSUME FlowInv, Reply, conn = "open"
    PROVE  /\ last' \in since + 1 .. added
           /\ Queued(queue, since, last', queue')
           /\ lost' = lost \cup
                 ((ToSet(queue) \cup ((since + 1 .. last') \ Bad)) \ ToSet(queue'))
  <1>1. PICK hi \in since + 1 .. added : last' = hi /\ Publish(since, hi)
    BY DEF Reply
  <1>2. /\ queue' = PutAll(queue, since, hi)
        /\ lost' = lost \cup
              ((ToSet(queue) \cup ((since + 1 .. hi) \ Bad)) \ ToSet(queue'))
    BY <1>1 DEF Publish
  <1>3. since \in Nat /\ hi \in since .. Len(EventAt)
    BY <1>1, Counts
  <1>4. \A i \in ToSet(queue) : i <= since
    <2>1. \A i \in ToSet(queue) : i <= last /\ i \in Entries
      BY FlowTypes DEF FlowInv, Bounds, InFlight
    <2>2. CASE last = 0
      BY <2>1, <2>2, EntriesAreNumbers
    <2>3. CASE last # 0
      BY <2>1, <2>3 DEF FlowInv, Bounds, Reply
    <2> QED BY <2>2, <2>3
  <1>5. queue \in Seq(Entries) /\ Len(queue) <= QueueMax /\ Ascending(queue)
    BY DEF FlowInv, TypeOK, Order
  <1>6. Queued(queue, since, hi, PutAll(queue, since, hi))
    BY <1>3, <1>4, <1>5, PutAllQueued
  <1> QED BY <1>1, <1>2, <1>6

(* What is new is past all that was there.                                   *)
LEMMA ReplyIsNew ==
    ASSUME FlowInv, Reply
    PROVE  /\ \A i \in InFlight \cup received \cup lost : i <= since
           /\ last <= since /\ since < last' /\ last' <= added /\ last' \in Entries
           /\ base' <= since /\ (base' = base \/ base' = since)
           /\ conn = "open" => from <= since
           /\ last # 0 => since = last /\ base' = base
  <1>1. /\ reader = "blocked" /\ last' \in since + 1 .. added
        /\ base' = IF last = 0 THEN since ELSE base
    BY DEF Reply
  <1>2. /\ {added, last, since, base, from} \subseteq Nat /\ added <= Len(EventAt)
        /\ Len(EventAt) \in Nat
    BY Counts
  <1>3. /\ IF last = 0 THEN \A i \in received : i <= since ELSE since = last
        /\ conn = "open" => from <= last
        /\ last # 0 => base <= last
        /\ \A i \in InFlight \cup lost : i <= last
        /\ \A i \in received : last # 0 => i <= last
    BY <1>1 DEF FlowInv, Bounds
  <1>4. \A i \in InFlight \cup lost : i \in Int
    BY FlowTypes
  <1>5. last <= since
    BY <1>2, <1>3
  <1>6. \A i \in InFlight \cup lost : i <= since
    BY <1>2, <1>3, <1>4, <1>5
  <1>7. \A i \in received : i <= since
    BY <1>3
  <1>8. last' \in Entries /\ since < last' /\ last' <= added
    BY <1>1, <1>2, EntriesAreNumbers
  <1>9. conn = "open" => from <= since
    BY <1>2, <1>3, <1>5
  <1>10. base' <= since /\ (base' = base \/ base' = since) /\ (last # 0 => since = last /\ base' = base)
    BY <1>1, <1>2, <1>3
  <1> QED BY <1>5, <1>6, <1>7, <1>8, <1>9, <1>10

LEMMA ReplyFlow == ASSUME FlowInv, Reply PROVE FlowInv'
  <1>1. /\ reader' = "call"
        /\ UNCHANGED <<added, stored, since, conn, sender, batch, wire, from, hook, faults>>
    BY DEF Reply
  <1>2. /\ {added, last, since, base, from, last'} \subseteq Nat /\ last' # 0
        /\ since < last' /\ last <= since /\ last' <= added /\ last' \in Entries
    <2>1. since < last' /\ last <= since /\ last' <= added /\ last' \in Entries
      BY ReplyIsNew
    <2>2. {added, last, since, base, from} \subseteq Nat
      BY Counts
    <2>3. last' \in Nat
      BY <2>1, EntriesAreNumbers
    <2> QED BY <2>1, <2>2, <2>3
  <1>3. CASE conn = "closed"
    <2>1. queue' = queue /\ lost' = lost
      BY <1>3 DEF Reply, Publish
    <2>2. TypeOK'
      <3>1. last' \in 0 .. added' /\ base' \in 0 .. added' /\ reader' \in Readers
        BY <1>1, <1>2, Counts, ReplyIsNew DEF Readers
      <3> QED BY <1>1, <2>1, <3>1 DEF FlowInv, TypeOK, hook
    <2>3. InFlight = {} /\ InFlight' = {} /\ lost = {}
      <3>1. wire = <<>> /\ batch = <<>> /\ queue = <<>> /\ lost = {}
        BY <1>3 DEF FlowInv, Closed
      <3> QED BY <1>1, <2>1, <3>1, NoFrames, EmptyTyped DEF InFlight
    <2>4. Closed'
      BY <1>1, <2>1 DEF FlowInv, Closed
    <2>5. Bounds'
      <3>1. \A i \in received : i <= since /\ i \in Int
        BY ReplyIsNew, FlowTypes
      <3>2. \A i \in received : i <= added /\ i <= last'
        BY <1>2, <3>1
      <3>3. base' <= last'
        BY <1>2, ReplyIsNew
      <3> QED BY <1>1, <1>3, <2>1, <2>3, <3>2, <3>3 DEF Bounds, hook
    <2>6. Order'
      BY <1>1, <2>1, <2>3 DEF FlowInv, Order, hook
    <2>7. Passed'
      BY <1>1, <1>3 DEF Passed
    <2> QED BY <2>2, <2>4, <2>5, <2>6, <2>7 DEF FlowInv
  <1>4. CASE conn = "open"
    <2> DEFINE all == ToSet(queue) \cup ((since + 1 .. last') \ Bad)
    <2>1. /\ queue' \in Seq(Entries) /\ Len(queue') <= QueueMax
          /\ Ascending(queue')
          /\ ToSet(queue') \subseteq all
          /\ \A i \in all \ ToSet(queue'), j \in ToSet(queue') : i < j
          /\ lost' = lost \cup (all \ ToSet(queue'))
      BY <1>4, ReplyPublishes DEF Queued
    <2>2. /\ \A i \in InFlight \cup received \cup lost : i \in Int /\ i <= since
          /\ \A i \in all : i \in Entries /\ i \in Int /\ i <= last'
      <3>1. \A i \in InFlight \cup received \cup lost : i \in Int /\ i <= since
        BY FlowTypes, ReplyIsNew
      <3>2. \A i \in since + 1 .. last' : i \in Entries /\ i \in Int /\ i <= last'
        BY <1>2, EntriesAreNumbers
      <3>3. \A i \in ToSet(queue) : i \in Entries /\ i \in Int /\ i <= since
        BY <3>1, FlowTypes DEF InFlight
      <3>4. \A i \in ToSet(queue) : i <= last'
        BY <1>2, <3>3
      <3> QED BY <3>1, <3>2, <3>3, <3>4
    <2>3. \A i \in all : i \in ToSet(queue) \/ (since < i /\ i <= last' /\ i \notin Bad)
      BY <1>2
    <2> HIDE DEF all
    <2>4. TypeOK'
      <3>1. last' \in 0 .. added' /\ base' \in 0 .. added' /\ reader' \in Readers
        BY <1>1, <1>2, Counts, ReplyIsNew DEF Readers
      <3>2. lost' \subseteq Entries
        BY <2>1, <2>2, FlowTypes
      <3> QED BY <1>1, <2>1, <3>1, <3>2 DEF FlowInv, TypeOK, hook
    <2>5. Closed'
      BY <1>1, <1>4 DEF Closed
    <2>6. /\ Frames(wire') = Frames(wire) /\ ToSet(batch') = ToSet(batch)
          /\ InFlight' = Frames(wire) \cup ToSet(batch) \cup ToSet(queue')
      BY <1>1 DEF InFlight
    <2>7. InFlight' \subseteq InFlight \cup all /\ lost' \subseteq lost \cup all
      BY <2>1, <2>6 DEF InFlight
    <2>8. Bounds'
      <3>1. \A i \in InFlight \cup received \cup lost : i <= last'
        BY <1>2, <2>2
      <3>2. \A i \in InFlight' \cup lost' : i <= last'
        BY <2>2, <2>7, <3>1
      <3>3. \A i \in received : i <= added /\ i <= last'
        BY <1>2, <2>2, <3>1
      <3>4. base' <= last' /\ from <= last'
        BY <1>2, <1>4, ReplyIsNew
      <3> QED BY <1>1, <3>2, <3>3, <3>4 DEF Bounds, hook
    <2>9. Order'
      <3>1. ASSUME NEW i \in Frames(wire) \cup ToSet(batch) \cup received, NEW j \in ToSet(queue'),
                   \A x \in ToSet(queue) : i < x
            PROVE  i < j
        <4>1. i \in Int /\ i <= since
          BY <2>2 DEF InFlight
        <4>2. j \in all /\ j \in Int
          BY <2>1, <2>2
        <4> QED BY <1>2, <2>3, <3>1, <4>1, <4>2
      <3>2. /\ WireOrder(wire) /\ Ascending(batch)
            /\ \A i \in Frames(wire), j \in ToSet(batch) : i < j
            /\ \A i \in Frames(wire) \cup ToSet(batch) \cup received, x \in ToSet(queue) : i < x
            /\ \A i \in received, j \in Frames(wire) \cup ToSet(batch) : i < j
        BY DEF FlowInv, Order, InFlight
      <3>3. \A i \in Frames(wire) \cup ToSet(batch) \cup received, j \in ToSet(queue') : i < j
        BY <3>1, <3>2
      <3> QED BY <1>1, <2>1, <2>6, <3>2, <3>3 DEF Order, hook
    <2>10. Passed'
      <3>1. /\ Owed \subseteq received \cup InFlight \cup lost
            /\ InFlight \subseteq Owed
            /\ \A i \in lost, j \in ToSet(queue) : i < j
        BY <1>4 DEF FlowInv, Passed
      <3>2. Owed' \subseteq Owed \cup ((since + 1 .. last') \ Bad)
        <4> SUFFICES ASSUME NEW i \in Owed', i <= since PROVE i \in Owed
          BY <1>2, EntriesAreNumbers DEF Owed
        <4>1. i \in Entries \ Bad /\ from < i /\ base' < i
          BY <1>1 DEF Owed
        <4>2. last # 0 /\ since = last /\ base' = base
          <5>1. i \in Int /\ since \in Int
            BY <1>2, <4>1, EntriesAreNumbers
          <5>2. last = 0 => base' = since
            BY DEF Reply
          <5>3. last # 0
            BY <4>1, <5>1, <5>2
          <5> QED BY <5>3, ReplyIsNew
        <4> QED BY <4>1, <4>2 DEF Owed
      <3>3. ASSUME NEW i \in all PROVE i \in Owed'
        <4>1. CASE i \in ToSet(queue)
          <5>1. i \in Owed
            BY <3>1, <4>1 DEF InFlight
          <5>2. i \in Entries \ Bad /\ from < i /\ base < i /\ i <= last
            BY <5>1 DEF Owed
          <5>3. i \in Int /\ last # 0
            BY <1>2, <5>2, EntriesAreNumbers
          <5> QED BY <1>1, <1>2, <5>2, <5>3, ReplyIsNew DEF Owed
        <4>2. CASE since < i /\ i <= last' /\ i \notin Bad
          <5>1. from <= since /\ base' <= since /\ base' \in Int
            BY <1>2, <1>4, ReplyIsNew
          <5> QED BY <1>1, <1>2, <2>2, <4>2, <5>1 DEF Owed
        <4> QED BY <2>3, <4>1, <4>2
      <3>4. Owed \subseteq Owed'
        <4> SUFFICES ASSUME NEW i \in Owed PROVE i \in Owed'
          OBVIOUS
        <4>1. i \in Entries \ Bad /\ from < i /\ base < i /\ i <= last
          BY DEF Owed
        <4>2. i \in Int /\ last # 0
          BY <1>2, <4>1, EntriesAreNumbers
        <4> QED BY <1>1, <1>2, <4>1, <4>2, ReplyIsNew DEF Owed
      <3>5. InFlight' \subseteq Owed'
        BY <2>7, <3>1, <3>3, <3>4
      <3>6. all \subseteq InFlight' \cup lost' /\ InFlight \subseteq InFlight' \cup lost' /\ lost \subseteq lost'
        <4>1. ToSet(queue) \subseteq all
          BY DEF all
        <4> QED BY <2>1, <2>6, <4>1 DEF InFlight
      <3>7. (since + 1 .. last') \ Bad \subseteq all
        BY DEF all
      <3>8. Owed' \subseteq received \cup InFlight' \cup lost'
        BY <3>1, <3>2, <3>6, <3>7
      <3>9. ASSUME NEW i \in lost', NEW j \in ToSet(queue') PROVE i < j
        <4>1. CASE i \in all \ ToSet(queue')
          BY <2>1, <4>1
        <4>2. CASE i \in lost
          <5>1. j \in all /\ j \in Int /\ i \in Int /\ i <= since
            BY <2>1, <2>2, <4>2
          <5>2. CASE j \in ToSet(queue)
            BY <3>1, <4>2, <5>2
          <5> QED BY <1>2, <2>3, <5>1, <5>2
        <4> QED BY <2>1, <4>1, <4>2
      <3> QED BY <1>1, <3>5, <3>8, <3>9 DEF Passed, hook
    <2> QED BY <2>4, <2>5, <2>8, <2>9, <2>10 DEF FlowInv
  <1>5. conn \in {"open", "closed"}
    BY DEF FlowInv, TypeOK
  <1> QED BY <1>3, <1>4, <1>5

LEMMA CollectFlow == ASSUME FlowInv, Collect PROVE FlowInv'
  <1> DEFINE h == Head(queue)
             q == Tail(queue)
             b == Append(batch, h)
  <1>1. /\ conn = "open" /\ queue # <<>> /\ batch' = b /\ queue' = q
        /\ UNCHANGED <<added, stored, tail, conn, sender, wire, from, lost, hook, faults>>
    BY DEF Collect
  <1>2. /\ h \in Entries /\ q \in Seq(Entries) /\ Len(q) = Len(queue) - 1
        /\ ToSet(queue) = {h} \cup ToSet(q)
    BY <1>1, FlowTypes, HeadTailProperties, InTail
  <1>3. b \in Seq(Entries) /\ ToSet(b) = ToSet(batch) \cup {h}
    BY <1>2, FlowTypes, AppendProperties, InAppend
  <1>4. /\ WireOrder(wire) /\ Ascending(batch) /\ Ascending(queue)
        /\ \A i \in Frames(wire), j \in ToSet(batch) \cup ToSet(queue) : i < j
        /\ \A i \in ToSet(batch), j \in ToSet(queue) : i < j
        /\ \A i \in received, j \in InFlight : i < j
    BY DEF FlowInv, Order
  <1>5. Ascending(q) /\ \A x \in ToSet(q) : h < x
    BY <1>1, <1>4, FlowTypes, AscendingTail
  <1>6. Ascending(b)
    <2>1. \A x \in ToSet(batch) : x < h
      BY <1>2, <1>4
    <2> QED BY <1>2, <1>4, <2>1, FlowTypes, AscendingAppend
  <1>7. Len(q) <= QueueMax
    <2>1. Len(queue) \in Nat /\ Len(queue) <= QueueMax /\ QueueMax \in Nat
      BY LiveFeedAssumption, FlowTypes, LenProperties DEF FlowInv, TypeOK
    <2> QED BY <1>2, <2>1
  <1> HIDE DEF h, q, b
  <1>8. TypeOK'
    BY <1>1, <1>2, <1>3, <1>7 DEF FlowInv, TypeOK, tail, hook
  <1>9. InFlight' = InFlight
    BY <1>1, <1>2, <1>3 DEF InFlight
  <1>10. Closed'
    BY <1>1 DEF Closed
  <1>11. Bounds'
    BY <1>1, <1>9 DEF FlowInv, Bounds, tail, hook
  <1>12. Order'
    BY <1>1, <1>2, <1>3, <1>4, <1>5, <1>6, <1>9 DEF Order, hook
  <1>13. Passed'
    <2>1. Owed' = Owed
      BY <1>1 DEF Owed, tail
    <2>2. \A i \in lost, j \in ToSet(q) : i < j
      BY <1>1, <1>2 DEF FlowInv, Passed
    <2> QED BY <1>1, <1>9, <2>1, <2>2 DEF FlowInv, Passed, hook
  <1> QED BY <1>8, <1>10, <1>11, <1>12, <1>13 DEF FlowInv

LEMMA SendFlow == ASSUME FlowInv, Send PROVE FlowInv'
  <1> DEFINE w == Append(wire, batch)
  <1>1. /\ conn = "open" /\ Len(wire) < WireMax
        /\ wire' = w /\ batch' = <<>> /\ sender' = "collect"
        /\ UNCHANGED <<added, stored, tail, conn, queue, from, lost, hook, faults>>
    BY DEF Send
  <1>2. /\ WireOrder(wire) /\ Ascending(batch) /\ Ascending(queue)
        /\ \A i \in Frames(wire), j \in ToSet(batch) \cup ToSet(queue) : i < j
        /\ \A i \in ToSet(batch), j \in ToSet(queue) : i < j
        /\ \A i \in received, j \in InFlight : i < j
    BY DEF FlowInv, Order
  <1>3. /\ w \in Seq(Seq(Entries)) /\ Len(w) = Len(wire) + 1
        /\ Frames(w) = Frames(wire) \cup ToSet(batch)
        /\ WireOrder(w)
    BY <1>2, FlowTypes, FramesAppend
  <1>4. Len(w) <= WireMax
    <2>1. Len(wire) \in Nat /\ WireMax \in Nat
      BY LiveFeedAssumption, FlowTypes, LenProperties
    <2> QED BY <1>1, <1>3, <2>1
  <1> HIDE DEF w
  <1>5. TypeOK'
    BY <1>1, <1>3, <1>4, EmptyTyped DEF FlowInv, TypeOK, tail, hook
  <1>6. InFlight' = InFlight
    BY <1>1, <1>3, EmptyTyped DEF InFlight
  <1>7. Closed'
    BY <1>1 DEF Closed
  <1>8. Bounds'
    BY <1>1, <1>6 DEF FlowInv, Bounds, tail, hook
  <1>9. Order'
    BY <1>1, <1>2, <1>3, <1>6, EmptyTyped DEF Order, hook
  <1>10. Passed'
    <2>1. Owed' = Owed
      BY <1>1 DEF Owed, tail
    <2> QED BY <1>1, <1>6, <2>1 DEF FlowInv, Passed, hook
  <1> QED BY <1>5, <1>7, <1>8, <1>9, <1>10 DEF FlowInv

LEMMA EventsOfTyped ==
    ASSUME NEW f \in Seq(Entries)
    PROVE  /\ EventsOf(f) \in Seq(Events) /\ Len(EventsOf(f)) = Len(f)
           /\ \A k \in 1 .. Len(f) : EventsOf(f)[k] = EventAt[f[k]]
  <1>1. /\ Len(f) \in Nat /\ DOMAIN f = 1 .. Len(f)
        /\ \A k \in 1 .. Len(f) : f[k] \in Entries
    BY LenProperties, ElementOfSeq
  <1>2. EventsOf(f) = [k \in 1 .. Len(f) |-> EventAt[f[k]]]
    BY <1>1 DEF EventsOf
  <1>3. \A k \in 1 .. Len(f) : EventAt[f[k]] \in Events
    BY <1>1, EventsAreNumbers
  <1> QED BY <1>1, <1>2, <1>3

LEMMA OnMessageFlow == ASSUME FlowInv, OnMessage PROVE FlowInv'
  <1> DEFINE f == Head(wire)
             w == Tail(wire)
  <1>1. /\ conn = "open" /\ wire # <<>>
        /\ list' = AddEvents(list, EventsOf(f))
        /\ twice' = twice \cup {e \in Events : Repeated(f, e)}
        /\ received' = received \cup ToSet(f)
        /\ wire' = w
        /\ UNCHANGED <<added, stored, tail, conn, queue, sender, batch, from, lost,
                       rest, reply, late, faults>>
    BY DEF OnMessage
  <1>2. /\ WireOrder(wire) /\ Ascending(batch) /\ Ascending(queue)
        /\ \A i \in Frames(wire), j \in ToSet(batch) \cup ToSet(queue) : i < j
        /\ \A i \in ToSet(batch), j \in ToSet(queue) : i < j
        /\ \A i \in received, j \in InFlight : i < j
    BY DEF FlowInv, Order
  <1>3. /\ f \in Seq(Entries) /\ w \in Seq(Seq(Entries)) /\ Len(w) = Len(wire) - 1
        /\ Frames(wire) = ToSet(f) \cup Frames(w)
        /\ WireOrder(w)
        /\ \A i \in ToSet(f), j \in Frames(w) : i < j
    BY <1>1, <1>2, FlowTypes, FramesTail
  <1>4. Len(w) <= WireMax
    <2>1. Len(wire) \in Nat /\ WireMax \in Nat /\ Len(wire) <= WireMax
      BY LiveFeedAssumption, FlowTypes, LenProperties DEF FlowInv, TypeOK
    <2> QED BY <1>3, <2>1
  <1> HIDE DEF f, w
  <1>5. list' \in Seq(Events) /\ Len(list') <= MaxRows
    <2>1. list \in Seq(Events) /\ EventsOf(f) \in Seq(Events)
      BY <1>3, EventsOfTyped DEF FlowInv, TypeOK
    <2> QED BY <1>1, <2>1, AddEventsTyped
  <1>6. received' \subseteq Entries /\ twice' \subseteq Events
    <2>1. ToSet(f) \subseteq Entries
      BY <1>3, InSequence
    <2> QED BY <1>1, <2>1 DEF FlowInv, TypeOK
  <1>7. TypeOK'
    BY <1>1, <1>3, <1>4, <1>5, <1>6 DEF FlowInv, TypeOK, tail
  <1>8. InFlight = ToSet(f) \cup InFlight'
    BY <1>1, <1>3 DEF InFlight
  <1>9. Closed'
    BY <1>1 DEF Closed
  <1>10. Bounds'
    <2>1. \A i \in ToSet(f) : i <= last /\ i \in Int
      BY <1>8, FlowTypes DEF FlowInv, Bounds
    <2>2. last \in Int /\ added \in Int /\ last <= added
      BY FlowTypes DEF FlowInv, TypeOK
    <2>3. \A i \in received' : i <= added /\ (last # 0 => i <= last)
      BY <1>1, <2>1, <2>2 DEF FlowInv, Bounds
    <2>4. last = 0 => ToSet(f) = {}
      <3>1. \A i \in ToSet(f) : i > 0
        BY <1>3, InSequence, EntriesAreNumbers
      <3> QED BY <2>1, <3>1
    <2>5. \A i \in InFlight' \cup lost : i <= last
      BY <1>8 DEF FlowInv, Bounds
    <2>6. reader = "blocked" => IF last = 0 THEN \A i \in received' : i <= since
                                            ELSE since = last
      BY <1>1, <2>4 DEF FlowInv, Bounds
    <2> QED BY <1>1, <2>3, <2>5, <2>6 DEF FlowInv, Bounds, tail
  <1>11. Order'
    <2>1. \A i \in ToSet(f), j \in InFlight' : i < j
      BY <1>1, <1>2, <1>3 DEF InFlight
    <2>2. \A i \in received', j \in InFlight' : i < j
      BY <1>1, <1>2, <1>8, <2>1
    <2> QED BY <1>1, <1>2, <1>3, <2>2 DEF Order
  <1>12. Passed'
    <2>1. Owed' = Owed
      BY <1>1 DEF Owed, tail
    <2> QED BY <1>1, <1>8, <2>1 DEF FlowInv, Passed
  <1> QED BY <1>7, <1>9, <1>10, <1>11, <1>12 DEF FlowInv

LEMMA ConnectFlow == ASSUME FlowInv, Connect PROVE FlowInv'
  <1>1. /\ conn = "closed" /\ conn' = "open" /\ from' = last
        /\ UNCHANGED <<added, stored, tail, queue, sender, batch, wire, lost, hook, faults>>
    BY DEF Connect
  <1>2. wire = <<>> /\ batch = <<>> /\ queue = <<>> /\ lost = {}
    BY <1>1 DEF FlowInv, Closed
  <1>3. InFlight = {} /\ InFlight' = {} /\ ToSet(queue) = {}
    BY <1>1, <1>2, NoFrames, EmptyTyped DEF InFlight
  <1>4. TypeOK'
    BY <1>1 DEF FlowInv, TypeOK, tail, hook
  <1>5. Closed'
    BY <1>1 DEF Closed
  <1>6. Bounds'
    <2>1. last <= last
      BY FlowTypes
    <2> QED BY <1>1, <1>3, <2>1 DEF FlowInv, Bounds, tail, hook
  <1>7. Order'
    BY <1>1, <1>3 DEF FlowInv, Order, hook
  <1>8. Passed'
    <2>1. Owed' = {}
      <3>1. \A i \in Entries : ~ (last < i /\ i <= last)
        BY FlowTypes
      <3> QED BY <1>1, <3>1 DEF Owed, tail
    <2> QED BY <1>1, <1>3, <2>1 DEF Passed
  <1> QED BY <1>4, <1>5, <1>6, <1>7, <1>8 DEF FlowInv

LEMMA NoSocketFlow == ASSUME FlowInv, Restart \/ Disconnect PROVE FlowInv'
  <1>1. /\ NoSocket /\ Fault
        /\ UNCHANGED <<added, stored, since, base, hook>>
        /\ \/ reader' = "start" /\ last' = 0
           \/ UNCHANGED <<reader, last>>
    BY DEF Restart, Disconnect, tail
  <1>2. /\ conn' = "closed" /\ sender' = "collect"
        /\ queue' = <<>> /\ batch' = <<>> /\ wire' = <<>> /\ lost' = {}
        /\ from' = from
    BY <1>1 DEF NoSocket
  <1>3. InFlight' = {}
    BY <1>2, NoFrames, EmptyTyped DEF InFlight
  <1>4. TypeOK'
    <2>1. /\ reader' \in Readers /\ last' \in 0 .. added'
      BY <1>1 DEF FlowInv, TypeOK, Readers
    <2>2. /\ {queue', batch'} \subseteq Seq(Entries) /\ Len(queue') <= QueueMax
          /\ wire' \in Seq(Seq(Entries)) /\ Len(wire') <= WireMax
      <3>1. QueueMax \in Nat /\ WireMax \in Nat
        BY LiveFeedAssumption
      <3>2. <<>> \in Seq(Entries) /\ <<>> \in Seq(Seq(Entries)) /\ Len(<<>>) = 0
        BY EmptyTyped
      <3> QED BY <1>2, <3>1, <3>2
    <2>3. faults' \in 0 .. MaxFaults
      BY <1>1, FaultTyped
    <2> QED BY <1>1, <1>2, <2>1, <2>2, <2>3 DEF FlowInv, TypeOK, hook
  <1>5. Closed'
    BY <1>2 DEF Closed
  <1>6. Bounds'
    BY <1>1, <1>2, <1>3 DEF FlowInv, Bounds, hook
  <1>7. Order'
    BY <1>2, <1>3, NoFrames, EmptyTyped DEF Order
  <1>8. Passed'
    BY <1>2 DEF Passed
  <1> QED BY <1>4, <1>5, <1>6, <1>7, <1>8 DEF FlowInv

LEMMA StepFlow == FlowInv /\ [Next]_vars => FlowInv'
  <1> SUFFICES ASSUME FlowInv, [Next]_vars PROVE FlowInv'
    OBVIOUS
  <1>1. CASE XAdd
    BY <1>1, XAddFlow
  <1>2. CASE Store
    BY <1>2, StoreFlow
  <1>3. CASE Ping \/ BlockEnds \/ WakeUp \/ ConnectionLost \/ ReaderDies
    BY <1>3, ReaderFlow
  <1>4. CASE Call
    BY <1>4, CallFlow
  <1>5. CASE Reply
    BY <1>5, ReplyFlow
  <1>6. CASE Collect
    BY <1>6, CollectFlow
  <1>7. CASE Deadline
    BY <1>7, DeadlineFlow
  <1>8. CASE Send
    BY <1>8, SendFlow
  <1>9. CASE Connect
    BY <1>9, ConnectFlow
  <1>10. CASE OnMessage
    BY <1>10, OnMessageFlow
  <1>11. CASE RestServed \/ RestArrives \/ RestFails
    BY <1>11, RestFlow
  <1>12. CASE Restart \/ Disconnect
    BY <1>12, NoSocketFlow
  <1>13. CASE UNCHANGED vars
    <2>1. TypeOK'
      BY <1>13 DEF FlowInv, TypeOK, vars, tail, socket, hook
    <2>2. added <= added'
      BY <1>13, Counts DEF vars
    <2> QED BY <1>13, <2>1, <2>2, QuietFlow DEF vars, tail, socket, hook, FlowInv, Bounds
  <1> QED BY <1>1, <1>2, <1>3, <1>4, <1>5, <1>6, <1>7, <1>8, <1>9, <1>10, <1>11, <1>12, <1>13
          DEF Next, Api, Handler, Browser

LEMMA SpecFlow == Spec => []FlowInv
  BY InitFlow, StepFlow, PTL DEF Spec

-----------------------------------------------------------------------------
(* What NothingSkipped and FramesInOrder say of places is what FlowInv says  *)
(* of the wire, the batch and the queue.                                     *)
LEMMA PlacesAre ==
    ASSUME FlowInv
    PROVE  /\ Len(wire) \in Nat /\ Len(Places) = Len(wire) + 2
           /\ \A k \in 1 .. Len(wire) : Places[k] = wire[k]
           /\ Places[Len(wire) + 1] = batch /\ Places[Len(wire) + 2] = queue
  <1>1. wire \in Seq(Seq(Entries)) /\ <<batch, queue>> \in Seq(Seq(Entries))
    BY FlowTypes
  <1>2. Len(wire) \in Nat /\ Len(<<batch, queue>>) = 2
    BY <1>1, LenProperties
  <1>3. /\ Len(Places) = Len(wire) + 2
        /\ \A k \in 1 .. Len(wire) + 2 :
              Places[k] = IF k <= Len(wire) THEN wire[k] ELSE <<batch, queue>>[k - Len(wire)]
    BY <1>1, <1>2, ConcatProperties DEF Places
  <1>4. \A k \in 1 .. Len(wire) : Places[k] = wire[k]
    BY <1>2, <1>3
  <1>5. Places[Len(wire) + 1] = <<batch, queue>>[1] /\ Places[Len(wire) + 2] = <<batch, queue>>[2]
    BY <1>2, <1>3
  <1> QED BY <1>2, <1>3, <1>4, <1>5

LEMMA UnderWayIs == ASSUME FlowInv PROVE UnderWay = InFlight
  <1>1. /\ Len(wire) \in Nat /\ Len(Places) = Len(wire) + 2
        /\ \A k \in 1 .. Len(wire) : Places[k] = wire[k]
        /\ Places[Len(wire) + 1] = batch /\ Places[Len(wire) + 2] = queue
    BY PlacesAre
  <1>2. \A k \in 1 .. Len(Places) :
           k \in 1 .. Len(wire) \/ k = Len(wire) + 1 \/ k = Len(wire) + 2
    BY <1>1
  <1>3. /\ 1 .. Len(wire) \subseteq 1 .. Len(Places)
        /\ Len(wire) + 1 \in 1 .. Len(Places) /\ Len(wire) + 2 \in 1 .. Len(Places)
    BY <1>1
  <1>4. ASSUME NEW x \in UnderWay PROVE x \in InFlight
    <2>1. PICK k \in 1 .. Len(Places) : x \in ToSet(Places[k])
      BY DEF UnderWay
    <2> QED BY <1>1, <1>2, <2>1 DEF InFlight, Frames
  <1>5. ASSUME NEW x \in Frames(wire) PROVE x \in UnderWay
    <2>1. PICK k \in 1 .. Len(wire) : x \in ToSet(wire[k])
      BY DEF Frames
    <2> QED BY <1>1, <1>3, <2>1 DEF UnderWay
  <1>6. ToSet(batch) \subseteq UnderWay /\ ToSet(queue) \subseteq UnderWay
    BY <1>1, <1>3 DEF UnderWay
  <1> QED BY <1>4, <1>5, <1>6 DEF InFlight

(* The state is well typed: what a connection holds is bounded by its queue, *)
(* what the browser holds by MaxRows (stream.py:69, useLiveFeed.ts:30).      *)
THEOREM TypeCorrect == Spec => []TypeOK
  <1>1. FlowInv => TypeOK
    BY DEF FlowInv
  <1> QED BY <1>1, SpecFlow, PTL

(* Nothing a connection is owed is missing, but for what a full queue let go *)
(* of before anything newer: through lost Redis connections, reconnections   *)
(* of the browser, undecodable entries and any sizes of COUNT, queue, batch  *)
(* and socket (stream.py:66-131).                                            *)
THEOREM NothingIsSkipped == Spec => []NothingSkipped
  <1>1. FlowInv => NothingSkipped
    <2> SUFFICES ASSUME FlowInv PROVE NothingSkipped
      OBVIOUS
    <2>1. UnderWay = InFlight
      BY UnderWayIs
    <2> QED BY <2>1 DEF FlowInv, Passed, NothingSkipped
  <1> QED BY <1>1, SpecFlow, PTL

(* Frames come in the order of the stream, none of them with an entry that   *)
(* came before, on this connection or an earlier one (stream.py:69-77,       *)
(* 113-131).                                                                 *)
THEOREM FramesOrdered == Spec => []FramesInOrder
  <1>1. ASSUME FlowInv PROVE FramesInOrder
    <2>1. /\ Len(wire) \in Nat /\ Len(Places) = Len(wire) + 2
          /\ \A k \in 1 .. Len(wire) : Places[k] = wire[k]
          /\ Places[Len(wire) + 1] = batch /\ Places[Len(wire) + 2] = queue
      BY <1>1, PlacesAre
    <2>2. \A k \in 1 .. Len(Places) :
             k \in 1 .. Len(wire) \/ k = Len(wire) + 1 \/ k = Len(wire) + 2
      BY <2>1
    <2>3. /\ WireOrder(wire) /\ Ascending(batch) /\ Ascending(queue)
          /\ \A i \in Frames(wire), j \in ToSet(batch) \cup ToSet(queue) : i < j
          /\ \A i \in ToSet(batch), j \in ToSet(queue) : i < j
          /\ \A i \in received, j \in InFlight : i < j
      BY <1>1 DEF FlowInv, Order
    <2>4. ASSUME NEW k \in 1 .. Len(Places) PROVE Ascending(Places[k])
      BY <2>1, <2>2, <2>3 DEF WireOrder
    <2>5. ASSUME NEW k \in 1 .. Len(Places), NEW i \in received, NEW j \in ToSet(Places[k])
          PROVE  i < j
      <3>1. j \in UnderWay
        BY <2>5 DEF UnderWay
      <3> QED BY <1>1, <2>3, <3>1, UnderWayIs
    <2>6. ASSUME NEW k \in 1 .. Len(Places), NEW h \in 1 .. k - 1,
                 NEW i \in ToSet(Places[h]), NEW j \in ToSet(Places[k])
          PROVE  i < j
      <3>1. h \in 1 .. Len(wire) \/ h = Len(wire) + 1
        BY <2>1
      <3>2. CASE k \in 1 .. Len(wire)
        <4>1. h \in 1 .. Len(wire) /\ h < k
          BY <2>1, <3>2
        <4> QED BY <2>1, <2>3, <2>6, <3>2, <4>1 DEF WireOrder
      <3>3. CASE h \in 1 .. Len(wire) /\ k \notin 1 .. Len(wire)
        <4>1. i \in Frames(wire)
          BY <2>1, <2>6, <3>3 DEF Frames
        <4>2. j \in ToSet(batch) \cup ToSet(queue)
          BY <2>1, <2>2, <2>6, <3>3
        <4> QED BY <2>3, <4>1, <4>2
      <3>4. CASE h = Len(wire) + 1
        <4>1. k = Len(wire) + 2
          BY <2>1, <2>2, <3>4
        <4> QED BY <2>1, <2>3, <2>6, <3>4, <4>1
      <3> QED BY <3>1, <3>2, <3>3, <3>4
    <2> QED BY <2>4, <2>5, <2>6 DEF FramesInOrder
  <1>2. FlowInv => FramesInOrder
    BY <1>1
  <1> QED BY <1>2, SpecFlow, PTL

-----------------------------------------------------------------------------
(* A reply, and the list by what has come.                                   *)
Descending(s) == \A j, k \in 1 .. Len(s) : j < k => s[k] < s[j]

Fetched == IF rest = "done" THEN ToSet(reply) ELSE {}
Framed == {EventAt[i] : i \in received}

InTime ==
    /\ \A i, j \in received : i < j => EventAt[i] < EventAt[j]
    /\ ~ late
    /\ \A e \in Framed : \A f \in Fetched : e < f => e \in Fetched

(* ListIsNewest alone is not inductive: an event of REST that comes in a     *)
(* frame must still be in the list, or addEvents would take it for new.      *)
RowsInv ==
    /\ Descending(reply) /\ Len(reply) <= Page
    /\ rest = "asked" => reply = <<>>
    /\ rest # "done" => late = FALSE
    /\ OnceBut(list, twice)
    /\ InTime =>
          /\ IsNewest(list, Fetched \cup Framed, MaxRows)
          /\ \A f \in Fetched : (\A e \in Framed : e < f) => f \in ToSet(list)

(* What is unseen is in the order of what came, and all of it is kept.       *)
LEMMA UnseenAscends ==
    ASSUME NEW prev, NEW incoming \in Seq(Events), Ascending(incoming),
           NEW u, u = Unseen(prev, incoming)
    PROVE  /\ u \in Seq(Events) /\ Ascending(u)
           /\ ToSet(u) = ToSet(incoming) \ ToSet(prev)
  <1>1. Kept(prev, incoming, Len(incoming), u)
    BY UnseenKept
  <1>2. u \in Seq(Events) /\ Len(u) \in Nat /\ Len(incoming) \in Nat
    BY <1>1, LenProperties DEF Kept
  <1>3. PICK at \in [1 .. Len(u) -> 1 .. Len(incoming)] :
           /\ \A k \in 1 .. Len(u) : u[k] = incoming[at[k]]
           /\ \A j, k \in 1 .. Len(u) : j < k => at[j] < at[k]
    BY <1>1 DEF Kept
  <1>4. ASSUME NEW j \in 1 .. Len(u), NEW k \in 1 .. Len(u), j < k PROVE u[j] < u[k]
    <2>1. at[j] \in 1 .. Len(incoming) /\ at[k] \in 1 .. Len(incoming) /\ at[j] < at[k]
      BY <1>3, <1>4
    <2>2. incoming[at[j]] < incoming[at[k]]
      BY <2>1 DEF Ascending
    <2> QED BY <1>3, <2>2
  <1>5. ASSUME NEW x \in ToSet(u) PROVE x \in ToSet(incoming) \ ToSet(prev)
    <2>1. PICK k \in 1 .. Len(u) : u[k] = x
      BY <1>2, InSequence
    <2>2. x \notin ToSet(prev)
      BY <1>1, <2>1 DEF Kept
    <2>3. at[k] \in 1 .. Len(incoming) /\ x = incoming[at[k]]
      BY <1>3, <2>1
    <2>4. x \in ToSet(incoming)
      BY <2>3, InSequence
    <2> QED BY <2>2, <2>4
  <1>6. ASSUME NEW x \in ToSet(incoming), x \notin ToSet(prev) PROVE x \in ToSet(u)
    <2>1. PICK m \in 1 .. Len(incoming) : incoming[m] = x
      BY InSequence
    <2> QED BY <1>1, <1>6, <2>1 DEF Kept
  <1>7. ToSet(u) = ToSet(incoming) \ ToSet(prev)
    BY <1>5, <1>6
  <1> QED BY <1>2, <1>4, <1>7 DEF Ascending

(* New events on top of the newest of S give the newest of all.              *)
LEMMA AddEventsNewest ==
    ASSUME NEW S \in SUBSET Events, NEW prev \in Seq(Events), IsNewest(prev, S, MaxRows),
           NEW incoming \in Seq(Events), NEW u \in Seq(Events), u = Unseen(prev, incoming),
           Ascending(u), ToSet(u) = ToSet(incoming) \ ToSet(prev),
           \A x \in ToSet(u), y \in S : y < x,
           NEW r, r = AddEvents(prev, incoming)
    PROVE  IsNewest(r, S \cup ToSet(incoming), MaxRows)
  <1> DEFINE T == S \cup ToSet(incoming)
             row(k) == IF k <= Len(u) THEN u[Len(u) - k + 1] ELSE prev[k - Len(u)]
             len == Len(u) + Len(prev)
  <1>1. /\ Len(u) \in Nat /\ Len(prev) \in Nat /\ len \in Nat /\ MaxRows \in Nat
        /\ Events \in SUBSET Int
    BY LenProperties, LiveFeedAssumption, EventsAreNumbers
  <1>2. /\ r \in Seq(Events)
        /\ Len(r) = IF len < MaxRows THEN len ELSE MaxRows
        /\ \A k \in 1 .. Len(r) : r[k] = row(k)
    <2>1. /\ r \in Seq(Events)
          /\ Len(r) = IF Len(u) + Len(prev) < MaxRows THEN Len(u) + Len(prev) ELSE MaxRows
          /\ \A k \in 1 .. Len(r) :
                r[k] = IF k <= Len(u) THEN u[Len(u) - k + 1] ELSE prev[k - Len(u)]
      <3> HIDE DEF T, row, len
      <3>1. prev \in Seq(Events) /\ incoming \in Seq(Events) /\ u \in Seq(Events)
        OBVIOUS
      <3>2. u = Unseen(prev, incoming) /\ r = AddEvents(prev, incoming)
        OBVIOUS
      <3>3. r \in Seq(Events)
        BY <3>1, <3>2, RowsOfAddEvents
      <3>4. Len(r) = IF Len(u) + Len(prev) < MaxRows THEN Len(u) + Len(prev) ELSE MaxRows
        BY <3>1, <3>2, RowsOfAddEvents
      <3>5. ASSUME NEW k \in 1 .. Len(r)
            PROVE  r[k] = IF k <= Len(u) THEN u[Len(u) - k + 1] ELSE prev[k - Len(u)]
        BY <3>1, <3>2, RowsOfAddEvents
      <3> QED BY <3>3, <3>4, <3>5
    <2> QED BY <2>1
  <1>3. Len(r) \in Nat /\ Len(r) <= MaxRows /\ Len(r) <= len /\ (Len(r) = len \/ Len(r) = MaxRows)
    BY <1>1, <1>2
  <1>4. /\ prev \in Seq(S) /\ Descending(prev)
        /\ \A e \in S : e \in ToSet(prev) \/
              (Len(prev) = MaxRows /\ \A k \in 1 .. Len(prev) : e < prev[k])
    BY DEF IsNewest, Descending
  <1>5. \A k \in 1 .. Len(u) : u[k] \in ToSet(u) /\ u[k] \in Int
    BY <1>1, InSequence
  <1>6. \A k \in 1 .. Len(prev) : prev[k] \in S /\ prev[k] \in Int
    BY <1>1, <1>4, ElementOfSeq
  <1>7. ASSUME NEW k \in 1 .. len
        PROVE  \/ k <= Len(u) /\ Len(u) - k + 1 \in 1 .. Len(u) /\ row(k) = u[Len(u) - k + 1]
               \/ k > Len(u) /\ k - Len(u) \in 1 .. Len(prev) /\ row(k) = prev[k - Len(u)]
    BY <1>1
  <1>8. ASSUME NEW k \in 1 .. len PROVE row(k) \in T /\ row(k) \in Int
    <2>1. \A x \in ToSet(u) : x \in T
      OBVIOUS
    <2>2. \A x \in S : x \in T
      OBVIOUS
    <2> HIDE DEF T, row
    <2> QED BY <1>5, <1>6, <1>7, <2>1, <2>2
  <1>9. ASSUME NEW j \in 1 .. len, NEW k \in 1 .. len, j < k PROVE row(k) < row(j)
    <2>1. CASE k <= Len(u)
      <3>1. /\ Len(u) - k + 1 \in 1 .. Len(u) /\ Len(u) - j + 1 \in 1 .. Len(u)
            /\ Len(u) - k + 1 < Len(u) - j + 1
            /\ row(k) = u[Len(u) - k + 1] /\ row(j) = u[Len(u) - j + 1]
        BY <1>1, <1>9, <2>1
      <3> HIDE DEF row
      <3> QED BY <3>1 DEF Ascending
    <2>2. CASE j <= Len(u) /\ k > Len(u)
      <3>1. /\ Len(u) - j + 1 \in 1 .. Len(u) /\ row(j) = u[Len(u) - j + 1]
            /\ k - Len(u) \in 1 .. Len(prev) /\ row(k) = prev[k - Len(u)]
        BY <1>1, <2>2
      <3> HIDE DEF row
      <3> QED BY <1>5, <1>6, <3>1
    <2>3. CASE j > Len(u)
      <3>1. /\ j - Len(u) \in 1 .. Len(prev) /\ row(j) = prev[j - Len(u)]
            /\ k - Len(u) \in 1 .. Len(prev) /\ row(k) = prev[k - Len(u)]
            /\ j - Len(u) < k - Len(u)
        BY <1>1, <1>9, <2>3
      <3> HIDE DEF row
      <3> QED BY <1>4, <3>1 DEF Descending
    <2> QED BY <1>1, <2>1, <2>2, <2>3
  <1>10. ASSUME NEW x \in T
         PROVE  \/ \E k \in 1 .. len : row(k) = x
                \/ Len(prev) = MaxRows /\ \A k \in 1 .. len : x < row(k)
    <2>1. CASE x \in ToSet(u)
      <3>1. PICK k \in 1 .. Len(u) : u[k] = x
        BY <2>1, InSequence
      <3>2. Len(u) - k + 1 \in 1 .. len /\ Len(u) - k + 1 <= Len(u) /\ Len(u) - (Len(u) - k + 1) + 1 = k
        BY <1>1
      <3> QED BY <3>1, <3>2
    <2>2. CASE x \in ToSet(prev)
      <3>1. PICK k \in 1 .. Len(prev) : prev[k] = x
        BY <2>2, InSequence
      <3>2. Len(u) + k \in 1 .. len /\ ~ (Len(u) + k <= Len(u)) /\ Len(u) + k - Len(u) = k
        BY <1>1
      <3> QED BY <3>1, <3>2
    <2>3. CASE x \in S /\ x \notin ToSet(prev)
      <3>1. Len(prev) = MaxRows /\ \A k \in 1 .. Len(prev) : x < prev[k]
        BY <1>4, <2>3
      <3>2. \A k \in 1 .. Len(u) : x < u[k]
        BY <1>5, <2>3
      <3> HIDE DEF row, len
      <3>3. \A k \in 1 .. len : x < row(k)
        BY <1>7, <3>1, <3>2
      <3> QED BY <3>1, <3>3
    <2> QED BY <2>1, <2>2, <2>3
  <1> HIDE DEF row, T, len
  <1>11. 1 .. Len(r) \subseteq 1 .. len
    BY <1>1, <1>3
  <1>12. r \in Seq(T)
    <2>1. \A k \in 1 .. Len(r) : r[k] \in T
      BY <1>2, <1>8, <1>11
    <2>2. r = [k \in 1 .. Len(r) |-> r[k]]
      <3>1. r \in [1 .. Len(r) -> Events]
        BY <1>2, LenProperties
      <3> QED BY <3>1
    <2> QED BY <1>3, <2>1, <2>2
  <1>13. \A j, k \in 1 .. Len(r) : j < k => r[k] < r[j]
    BY <1>2, <1>9, <1>11
  <1>14. ASSUME NEW x \in T, x \notin ToSet(r)
         PROVE  Len(r) = MaxRows /\ \A k \in 1 .. Len(r) : x < r[k]
    <2>1. CASE Len(prev) = MaxRows /\ \A k \in 1 .. len : x < row(k)
      <3>1. MaxRows <= len
        BY <1>1, <2>1 DEF len
      <3>2. Len(r) = MaxRows
        BY <1>1, <1>3, <3>1
      <3> QED BY <1>2, <1>11, <2>1, <3>2
    <2>2. CASE \E k \in 1 .. len : row(k) = x
      <3>1. PICK k \in 1 .. len : row(k) = x
        BY <2>2
      <3>2. k \notin 1 .. Len(r)
        BY <1>2, <1>14, <3>1, InSequence
      <3>3. Len(r) < k
        BY <1>1, <1>3, <3>2
      <3>4. Len(r) = MaxRows
        BY <1>1, <1>3, <3>3
      <3>5. \A j \in 1 .. Len(r) : j \in 1 .. len /\ j < k /\ r[j] = row(j)
        BY <1>1, <1>2, <1>3, <1>11, <3>3
      <3> QED BY <1>9, <3>1, <3>4, <3>5
    <2> QED BY <1>10, <2>1, <2>2
  <1>15. IsNewest(r, T, MaxRows)
    BY <1>3, <1>12, <1>13, <1>14 DEF IsNewest
  <1> QED BY <1>15 DEF T

LEMMA EmptyOnce == \A dup : OnceBut(<<>>, dup)
  <1>1. 1 .. Len(<<>>) = {}
    BY EmptyTyped
  <1> QED BY <1>1 DEF OnceBut

LEMMA InitRows == Init => RowsInv
  <1> SUFFICES ASSUME Init PROVE RowsInv
    OBVIOUS
  <1>1. /\ list = <<>> /\ rest = "asked" /\ reply = <<>>
        /\ received = {} /\ twice = {} /\ late = FALSE
    BY DEF Init
  <1>2. Fetched = {} /\ Framed = {} /\ Page \in Nat /\ MaxRows \in Nat
    BY <1>1, LiveFeedAssumption DEF Fetched, Framed
  <1>3. 1 .. Len(<<>>) = {} /\ Len(<<>>) = 0 /\ <<>> \in Seq({})
    BY EmptyTyped
  <1>4. IsNewest(<<>>, {}, MaxRows)
    BY <1>2, <1>3 DEF IsNewest
  <1> QED BY <1>1, <1>2, <1>3, <1>4, EmptyOnce DEF RowsInv, Descending

LEMMA QuietRows == ASSUME RowsInv, UNCHANGED hook PROVE RowsInv'
  <1>1. /\ list' = list /\ rest' = rest /\ reply' = reply
        /\ received' = received /\ twice' = twice /\ late' = late
    BY DEF hook
  <1>2. Fetched' = Fetched /\ Framed' = Framed
    BY <1>1 DEF Fetched, Framed
  <1>3. InTime' = InTime
    BY <1>1, <1>2 DEF InTime
  <1> QED BY <1>1, <1>2, <1>3 DEF RowsInv

(* Until the answer has come, what REST has found is of no consequence.      *)
LEMMA UnfetchedRows ==
    ASSUME RowsInv, FlowInv, RestServed \/ RestFails
    PROVE  RowsInv'
  <1>1. /\ rest # "done" /\ rest' # "asked"
        /\ list' = list /\ received' = received /\ twice' = twice /\ late' = late
        /\ rest' = "done" => reply' = <<>>
    BY DEF RestServed, RestFails, FlowInv, TypeOK
  <1>2. 1 .. Len(<<>>) = {} /\ Len(<<>>) = 0 /\ ToSet(<<>>) = {} /\ Page \in Nat
    BY EmptyTyped, LiveFeedAssumption
  <1>3. Fetched = {} /\ Fetched' = {} /\ Framed' = Framed
    BY <1>1, <1>2 DEF Fetched, Framed
  <1>4. InTime' = InTime
    BY <1>1, <1>3 DEF InTime
  <1>5. Descending(reply') /\ Len(reply') <= Page
    <2>1. CASE RestServed
      <3>1. PICK S \in SUBSET Events : IsNewest(reply', S, Page)
        BY <2>1, ServedIsNewest
      <3> QED BY <3>1 DEF IsNewest, Descending
    <2>2. CASE RestFails
      <3>1. reply' = <<>>
        BY <2>2 DEF RestFails
      <3> QED BY <1>2, <3>1 DEF Descending
    <2> QED BY <2>1, <2>2
  <1> QED BY <1>1, <1>3, <1>4, <1>5 DEF RowsInv

LEMMA ReversedAscends ==
    ASSUME NEW s \in Seq(Events), Descending(s)
    PROVE  Ascending(Reverse(s))
  <1>1. /\ Len(s) \in Nat /\ Len(Reverse(s)) = Len(s)
        /\ \A k \in 1 .. Len(s) : Reverse(s)[k] = s[Len(s) - k + 1]
    BY LenProperties, Reversed
  <1>2. ASSUME NEW j \in 1 .. Len(s), NEW k \in 1 .. Len(s), j < k
        PROVE  Reverse(s)[j] < Reverse(s)[k]
    <2>1. /\ Len(s) - j + 1 \in 1 .. Len(s) /\ Len(s) - k + 1 \in 1 .. Len(s)
          /\ Len(s) - k + 1 < Len(s) - j + 1
      BY <1>1, <1>2
    <2>2. s[Len(s) - j + 1] < s[Len(s) - k + 1]
      BY <2>1 DEF Descending
    <2> QED BY <1>1, <2>2
  <1> QED BY <1>1, <1>2 DEF Ascending

(* What ascends holds nothing twice.                                         *)
LEMMA AscendingOnce ==
    ASSUME NEW s \in Seq(Events), Ascending(s), NEW dup
    PROVE  OnceBut(s, dup)
  <1>1. Len(s) \in Nat /\ \A k \in 1 .. Len(s) : s[k] \in Int
    BY EventsAreNumbers, ElementOfSeq, LenProperties
  <1>2. \A m, n \in 1 .. Len(s) : m < n => s[m] < s[n]
    BY DEF Ascending
  <1>3. \A m, n \in 1 .. Len(s) : m # n => m < n \/ n < m
    BY <1>1
  <1> QED BY <1>1, <1>2, <1>3 DEF OnceBut

LEMMA RestArrivesRows == ASSUME RowsInv, FlowInv, RestArrives PROVE RowsInv'
  <1> DEFINE incoming == Reverse(reply)
             u == Unseen(list, incoming)
             r == AddEvents(list, incoming)
  <1>1. /\ rest = "served" /\ rest' = "done" /\ list' = r /\ late' = (received # {})
        /\ reply' = reply /\ received' = received /\ twice' = twice
    BY DEF RestArrives, socket
  <1>2. /\ list \in Seq(Events) /\ reply \in Seq(Events)
        /\ Descending(reply) /\ Len(reply) <= Page /\ MaxRows \in Nat /\ Page <= MaxRows
    BY LiveFeedAssumption DEF FlowInv, TypeOK, RowsInv
  <1>3. incoming \in Seq(Events) /\ Ascending(incoming) /\ ToSet(incoming) = ToSet(reply)
    BY <1>2, Reversed, ReversedAscends
  <1> HIDE DEF incoming
  <1>4. u \in Seq(Events) /\ Ascending(u) /\ ToSet(u) = ToSet(incoming) \ ToSet(list)
    BY <1>3, UnseenAscends
  <1>5. OnceBut(r, twice)
    <2>1. OnceBut(incoming, twice)
      BY <1>3, AscendingOnce
    <2>2. OnceBut(list, twice)
      BY DEF RowsInv
    <2> HIDE DEF u, r
    <2>3. r = AddEvents(list, incoming)
      BY DEF r
    <2>4. list \in Seq(Events) /\ incoming \in Seq(Events)
      BY <1>2, <1>3
    <2> QED BY <2>1, <2>2, <2>3, <2>4, AddEventsOnce
  <1>6. ASSUME InTime'
        PROVE  /\ IsNewest(list', (Fetched \cup Framed)', MaxRows)
               /\ \A f \in Fetched' : (\A e \in Framed' : e < f) => f \in ToSet(list')
    <2>1. received = {}
      BY <1>1, <1>6 DEF InTime
    <2>2. Fetched = {} /\ Framed = {} /\ Fetched' = ToSet(reply) /\ Framed' = {}
      BY <1>1, <2>1 DEF Fetched, Framed
    <2>3. InTime
      BY <1>1, <2>1, <2>2 DEF InTime, RowsInv
    <2>4. IsNewest(list, {}, MaxRows)
      BY <2>2, <2>3 DEF RowsInv
    <2>5. Len(list) = 0 /\ ToSet(list) = {}
      <3>1. list \in Seq({})
        BY <2>4 DEF IsNewest
      <3>2. Len(list) \in Nat /\ \A k \in 1 .. Len(list) : list[k] \in {}
        BY <3>1, LenProperties, ElementOfSeq
      <3>3. ToSet(list) \subseteq {}
        BY <3>1, InSequence
      <3> QED BY <3>2, <3>3
    <2>6. IsNewest(r, ToSet(incoming), MaxRows)
      <3> HIDE DEF u, r
      <3>1. u = Unseen(list, incoming) /\ r = AddEvents(list, incoming)
        BY DEF u, r
      <3>2. {} \in SUBSET Events /\ \A x \in ToSet(u), y \in {} : y < x
        OBVIOUS
      <3>3. IsNewest(r, {} \cup ToSet(incoming), MaxRows)
        BY <1>2, <1>3, <1>4, <2>4, <3>1, <3>2, AddEventsNewest
      <3> QED BY <3>3
    <2>7. ToSet(reply) \subseteq ToSet(r)
      <3>1. Len(u) \in Nat /\ Len(reply) \in Nat
        BY <1>2, <1>4, LenProperties
      <3>2. Kept(list, incoming, Len(incoming), u)
        BY <1>3, UnseenKept
      <3>3. Len(incoming) = Len(reply)
        BY <1>2, Reversed DEF incoming
      <3> HIDE DEF u, r
      <3>4. PICK at \in [1 .. Len(u) -> 1 .. Len(incoming)] :
               \A j, k \in 1 .. Len(u) : j < k => at[j] < at[k]
        BY <3>2 DEF Kept
      <3>5. Len(u) <= Len(incoming)
        <4>1. \A j, k \in 1 .. Len(u) : at[j] = at[k] => j = k
          <5> SUFFICES ASSUME NEW j \in 1 .. Len(u), NEW k \in 1 .. Len(u), j < k PROVE at[j] # at[k]
            BY <3>1
          <5>1. at[j] < at[k] /\ at[j] \in Int
            BY <3>1, <3>3, <3>4
          <5> QED BY <5>1
        <4>2. at \in Injection(1 .. Len(u), 1 .. Len(incoming))
          BY <3>4, <4>1 DEF Injection, IsInjective
        <4>3. \A n \in Nat : IsFiniteSet(1 .. n) /\ Cardinality(1 .. n) = n
          <5>1. \A n \in Nat : IsFiniteSet(1 .. n) /\ Cardinality(1 .. n) = IF 1 > n THEN 0 ELSE n - 1 + 1
            BY FS_Interval
          <5> QED BY <5>1
        <4>4. IsFiniteSet(1 .. Len(incoming))
          BY <3>1, <3>3, <4>3
        <4>5. Cardinality(1 .. Len(u)) <= Cardinality(1 .. Len(incoming))
          BY <4>2, <4>4, FS_Injection
        <4>6. Cardinality(1 .. Len(u)) = Len(u) /\ Cardinality(1 .. Len(incoming)) = Len(incoming)
          BY <3>1, <3>3, <4>3
        <4> QED BY <4>5, <4>6
      <3>6. Len(u) <= MaxRows
        BY <1>2, <3>1, <3>3, <3>5, LiveFeedAssumption
      <3>7. u = Unseen(list, incoming) /\ r = AddEvents(list, incoming)
        BY DEF u, r
      <3>8. r \in Seq(Events)
        BY <1>2, <1>3, <1>4, <3>7, RowsOfAddEvents
      <3>9. Len(r) = IF Len(u) + Len(list) < MaxRows THEN Len(u) + Len(list) ELSE MaxRows
        BY <1>2, <1>3, <1>4, <3>7, RowsOfAddEvents
      <3>10. Len(r) = Len(u)
        BY <1>2, <2>5, <3>1, <3>6, <3>9
      <3>11. ASSUME NEW k \in 1 .. Len(r)
             PROVE  r[k] = IF k <= Len(u) THEN u[Len(u) - k + 1] ELSE list[k - Len(u)]
        BY <1>2, <1>3, <1>4, <3>7, RowsOfAddEvents
      <3>12. ASSUME NEW x \in ToSet(reply) PROVE x \in ToSet(r)
        <4>1. x \in ToSet(u)
          BY <1>3, <1>4, <2>5
        <4>2. PICK k \in 1 .. Len(u) : u[k] = x
          BY <1>4, <4>1, InSequence
        <4>3. /\ Len(u) - k + 1 \in 1 .. Len(r) /\ Len(u) - k + 1 <= Len(u)
              /\ Len(u) - (Len(u) - k + 1) + 1 = k
          BY <3>1, <3>10
        <4>4. r[Len(u) - k + 1] = x
          BY <3>11, <4>2, <4>3
        <4> QED BY <3>8, <4>3, <4>4, InSequence
      <3> QED BY <3>12
    <2>8. (Fetched \cup Framed)' = ToSet(incoming)
      BY <1>3, <2>2
    <2> HIDE DEF r
    <2> QED BY <1>1, <2>2, <2>6, <2>7, <2>8
  <1> HIDE DEF r, u
  <1> QED BY <1>1, <1>2, <1>5, <1>6 DEF RowsInv

LEMMA OnMessageRows == ASSUME RowsInv, FlowInv, OnMessage PROVE RowsInv'
  <1> DEFINE f == Head(wire)
             incoming == EventsOf(f)
             u == Unseen(list, incoming)
             r == AddEvents(list, incoming)
  <1>1. /\ wire # <<>>
        /\ list' = r
        /\ twice' = twice \cup {e \in Events : Repeated(f, e)}
        /\ received' = received \cup ToSet(f)
        /\ UNCHANGED <<rest, reply, late>>
    BY DEF OnMessage
  <1>2. /\ WireOrder(wire) /\ \A i \in received, j \in Frames(wire) : i < j
        /\ wire \in Seq(Seq(Entries)) /\ received \subseteq Entries
        /\ list \in Seq(Events) /\ Len(list) <= MaxRows /\ MaxRows \in Nat
    BY LiveFeedAssumption DEF FlowInv, Order, InFlight, TypeOK
  <1>3. /\ f \in Seq(Entries) /\ Len(f) \in Nat /\ DOMAIN f = 1 .. Len(f)
        /\ Ascending(f) /\ ToSet(f) \subseteq Frames(wire)
    BY <1>1, <1>2, FramesTail, LenProperties
  <1> HIDE DEF f
  <1>4. /\ incoming \in Seq(Events) /\ Len(incoming) = Len(f)
        /\ \A k \in 1 .. Len(f) : incoming[k] = EventAt[f[k]]
    BY <1>3, EventsOfTyped
  <1>5. ToSet(incoming) = {EventAt[i] : i \in ToSet(f)}
    <2> HIDE DEF incoming
    <2>1. \A x \in ToSet(incoming) : \E k \in 1 .. Len(f) : incoming[k] = x
      BY <1>4, InSequence
    <2>2. \A i \in ToSet(f) : \E k \in 1 .. Len(f) : f[k] = i
      BY <1>3, InSequence
    <2>3. \A k \in 1 .. Len(f) : incoming[k] \in ToSet(incoming) /\ f[k] \in ToSet(f)
      BY <1>3, <1>4, InSequence
    <2>4. \A x \in ToSet(incoming) : \E i \in ToSet(f) : EventAt[i] = x
      BY <1>4, <2>1, <2>3
    <2>5. \A i \in ToSet(f) : EventAt[i] \in ToSet(incoming)
      BY <1>4, <2>2, <2>3
    <2> QED BY <2>4, <2>5
  <1> HIDE DEF incoming, u, r
  <1>6. u = Unseen(list, incoming) /\ r = AddEvents(list, incoming)
    BY DEF u, r
  <1> DEFINE dup == twice \cup {e \in Events : Repeated(f, e)}
  <1>7. OnceBut(r, dup)
    <2>1. ASSUME NEW m \in 1 .. Len(incoming), NEW n \in 1 .. Len(incoming),
                 m < n, incoming[m] = incoming[n]
          PROVE  incoming[m] \in dup
      <3>1. m \in DOMAIN f /\ n \in DOMAIN f
        BY <1>3, <1>4
      <3>2. incoming[m] = EventAt[f[m]] /\ incoming[n] = EventAt[f[n]]
        BY <1>4
      <3>3. Repeated(f, incoming[m])
        BY <2>1, <3>1, <3>2 DEF Repeated
      <3>4. incoming[m] \in Events
        BY <1>4, ElementOfSeq
      <3> QED BY <1>1, <3>3, <3>4
    <2>2. OnceBut(list, dup)
      BY DEF RowsInv, OnceBut
    <2>3. list \in Seq(Events) /\ incoming \in Seq(Events)
      BY <1>2, <1>4
    <2>4. OnceBut(incoming, dup)
      <3> HIDE DEF dup
      <3> SUFFICES ASSUME NEW m \in 1 .. Len(incoming), NEW n \in 1 .. Len(incoming),
                          m # n, incoming[m] = incoming[n]
                   PROVE  incoming[m] \in dup
        BY DEF OnceBut
      <3>1. m < n \/ n < m
        BY <1>3, <1>4
      <3> QED BY <2>1, <3>1
    <2> HIDE DEF dup
    <2> QED BY <1>6, <2>2, <2>3, <2>4, AddEventsOnce
  <1>8. Fetched' = Fetched /\ Framed' = Framed \cup ToSet(incoming)
    BY <1>1, <1>5 DEF Fetched, Framed
  <1>9. ASSUME InTime'
        PROVE  /\ IsNewest(r, (Fetched \cup Framed) \cup ToSet(incoming), MaxRows)
               /\ \A g \in Fetched : (\A e \in Framed \cup ToSet(incoming) : e < g) => g \in ToSet(r)
    <2>1. /\ \A i, j \in received \cup ToSet(f) : i < j => EventAt[i] < EventAt[j]
          /\ ~ late
          /\ \A e \in Framed \cup ToSet(incoming) : \A g \in Fetched : e < g => e \in Fetched
      BY <1>1, <1>8, <1>9 DEF InTime
    <2>2. InTime
      BY <2>1 DEF InTime
    <2>3. /\ IsNewest(list, Fetched \cup Framed, MaxRows)
          /\ \A g \in Fetched : (\A e \in Framed : e < g) => g \in ToSet(list)
      BY <2>2 DEF RowsInv
    <2>4. Fetched \cup Framed \in SUBSET Events /\ Events \in SUBSET Int
      <3>1. reply \in Seq(Events)
        BY DEF FlowInv, TypeOK
      <3>2. ToSet(reply) \subseteq Events
        BY <3>1, InSequence
      <3>3. Framed \subseteq Events
        BY <1>2, EventsAreNumbers DEF Framed
      <3> QED BY <3>2, <3>3, EventsAreNumbers DEF Fetched
    <2>5. Ascending(incoming)
      <3>1. ASSUME NEW j \in 1 .. Len(f), NEW k \in 1 .. Len(f), j < k
            PROVE  incoming[j] < incoming[k]
        <4>1. f[j] < f[k]
          BY <1>3, <3>1 DEF Ascending
        <4>2. f[j] \in ToSet(f) /\ f[k] \in ToSet(f)
          BY <1>3, InSequence
        <4> QED BY <1>4, <2>1, <4>1, <4>2
      <3> QED BY <1>4, <3>1 DEF Ascending
    <2>6. u \in Seq(Events) /\ Ascending(u) /\ ToSet(u) = ToSet(incoming) \ ToSet(list)
      BY <1>4, <1>6, <2>5, UnseenAscends
    <2>7. ASSUME NEW x \in ToSet(u), NEW y \in Framed PROVE y < x
      <3>1. PICK j \in ToSet(f) : x = EventAt[j]
        BY <1>5, <2>6
      <3>2. PICK i \in received : y = EventAt[i]
        BY DEF Framed
      <3>3. i < j
        BY <1>2, <1>3, <3>1, <3>2
      <3> QED BY <2>1, <3>1, <3>2, <3>3
    <2>8. ASSUME NEW x \in ToSet(u), NEW y \in Fetched PROVE y < x
      <3>1. x \in ToSet(incoming) /\ x \notin ToSet(list)
        BY <2>6
      <3>2. x \notin Fetched
        BY <2>3, <2>7, <3>1
      <3>3. ~ (x < y) /\ x # y
        BY <2>1, <3>1, <3>2
      <3>4. x \in Int /\ y \in Int
        <4>1. x \in Events
          BY <2>6, InSequence
        <4> QED BY <2>4, <4>1
      <3> QED BY <3>3, <3>4
    <2>9. \A x \in ToSet(u), y \in Fetched \cup Framed : y < x
      BY <2>7, <2>8
    <2>10. IsNewest(r, (Fetched \cup Framed) \cup ToSet(incoming), MaxRows)
      <3> DEFINE S == Fetched \cup Framed
      <3>1. S \in SUBSET Events /\ IsNewest(list, S, MaxRows) /\ \A x \in ToSet(u), y \in S : y < x
        BY <2>3, <2>4, <2>9
      <3> HIDE DEF S
      <3>2. IsNewest(r, S \cup ToSet(incoming), MaxRows)
        BY <1>2, <1>4, <1>6, <2>6, <3>1, AddEventsNewest
      <3> QED BY <3>2 DEF S
    <2>11. ASSUME NEW g \in Fetched, \A e \in Framed \cup ToSet(incoming) : e < g
           PROVE  g \in ToSet(r)
      <3>1. g \in ToSet(list)
        BY <2>3, <2>11
      <3>2. ToSet(u) = {}
        <4> SUFFICES ASSUME NEW x \in ToSet(u) PROVE FALSE
          OBVIOUS
        <4>1. x < g /\ g < x
          BY <2>6, <2>8, <2>11
        <4>2. x \in Int /\ g \in Int
          BY <2>4, <2>6, InSequence
        <4> QED BY <4>1, <4>2
      <3>3. Len(u) = 0 /\ Len(list) \in Nat
        <4>1. Len(u) \in Nat /\ Len(list) \in Nat /\ \A k \in 1 .. Len(u) : u[k] \in ToSet(u)
          BY <1>2, <2>6, LenProperties, InSequence
        <4> QED BY <3>2, <4>1
      <3>4. r \in Seq(Events)
        BY <1>2, <1>4, <1>6, <2>6, RowsOfAddEvents
      <3>5. Len(r) = IF Len(u) + Len(list) < MaxRows THEN Len(u) + Len(list) ELSE MaxRows
        BY <1>2, <1>4, <1>6, <2>6, RowsOfAddEvents
      <3>6. ASSUME NEW k \in 1 .. Len(r)
            PROVE  r[k] = IF k <= Len(u) THEN u[Len(u) - k + 1] ELSE list[k - Len(u)]
        BY <1>2, <1>4, <1>6, <2>6, RowsOfAddEvents
      <3>7. Len(r) = Len(list)
        BY <1>2, <3>3, <3>5
      <3>8. PICK k \in 1 .. Len(list) : list[k] = g
        BY <1>2, <3>1, InSequence
      <3>9. k \in 1 .. Len(r) /\ ~ (k <= Len(u)) /\ k - Len(u) = k
        BY <3>3, <3>7
      <3>10. r[k] = g
        BY <3>6, <3>8, <3>9
      <3> QED BY <3>4, <3>9, <3>10, InSequence
    <2> QED BY <2>10, <2>11
  <1>10. InTime' =>
            /\ IsNewest(list', (Fetched \cup Framed)', MaxRows)
            /\ \A g \in Fetched' : (\A e \in Framed' : e < g) => g \in ToSet(list')
    <2>1. (Fetched \cup Framed)' = (Fetched \cup Framed) \cup ToSet(incoming)
      BY <1>8
    <2> QED BY <1>1, <1>8, <1>9, <2>1
  <1> QED BY <1>1, <1>7, <1>10 DEF RowsInv

LEMMA StepRows == RowsInv /\ FlowInv /\ [Next]_vars => RowsInv'
  <1> SUFFICES ASSUME RowsInv, FlowInv, [Next]_vars PROVE RowsInv'
    OBVIOUS
  <1>1. CASE UNCHANGED hook
    BY <1>1, QuietRows
  <1>2. CASE RestServed \/ RestFails
    BY <1>2, UnfetchedRows
  <1>3. CASE RestArrives
    BY <1>3, RestArrivesRows
  <1>4. CASE OnMessage
    BY <1>4, OnMessageRows
  <1>5. UNCHANGED hook \/ RestServed \/ RestFails \/ RestArrives \/ OnMessage
    BY DEF Next, Api, Handler, Browser, vars, XAdd, Store, Ping, Call, Reply, BlockEnds, WakeUp,
           Collect, Deadline, Send, Connect, ConnectionLost, ReaderDies, Restart, Disconnect
  <1> QED BY <1>1, <1>2, <1>3, <1>4, <1>5

LEMMA SpecRows == Spec => [](FlowInv /\ RowsInv)
  <1>1. Init => RowsInv
    BY InitRows
  <1>2. RowsInv /\ FlowInv /\ [Next]_vars => RowsInv'
    BY StepRows
  <1> QED BY <1>1, <1>2, SpecFlow, PTL DEF Spec

(* No event is in two rows of the list unless one frame held it twice, by    *)
(* whatever ways it came (useLiveFeed.ts:21-31).                             *)
THEOREM NoRowIsTwice == Spec => []NoRowTwice
  <1>1. ASSUME FlowInv, RowsInv PROVE NoRowTwice
    <2>1. list \in Seq(Events)
      BY <1>1 DEF FlowInv, TypeOK
    <2>2. DOMAIN list = 1 .. Len(list)
      BY <2>1, LenProperties
    <2> QED BY <1>1, <2>2 DEF RowsInv, OnceBut, NoRowTwice
  <1>2. FlowInv /\ RowsInv => NoRowTwice
    BY <1>1
  <1> QED BY <1>2, SpecRows, PTL

(* With frames in the order of time and REST answering first, and from where *)
(* the frames begin, the list is the newest of all that has come, newest     *)
(* first: through overflow, reconnections and repeated deliveries, and       *)
(* however many of the rows of REST have been pushed out (useLiveFeed.ts:    *)
(* 6-8, 24-31).                                                              *)
THEOREM ListIsTheNewest == Spec => []ListIsNewest
  <1>1. ASSUME FlowInv, RowsInv, InTime PROVE list = Newest(Fetched \cup Framed, MaxRows)
    <2> DEFINE S == Fetched \cup Framed
    <2>1. S \in SUBSET Events
      <3>1. reply \in Seq(Events) /\ received \subseteq Entries
        BY <1>1 DEF FlowInv, TypeOK
      <3>2. ToSet(reply) \subseteq Events
        BY <3>1, InSequence
      <3>3. Framed \subseteq Events
        BY <3>1, EventsAreNumbers DEF Framed
      <3> QED BY <3>2, <3>3 DEF Fetched
    <2>2. S \in SUBSET Int /\ IsFiniteSet(S) /\ MaxRows \in Nat
      BY <2>1, EventsAreNumbers, FS_Subset, LiveFeedAssumption
    <2>3. IsNewest(list, S, MaxRows)
      BY <1>1 DEF RowsInv
    <2> HIDE DEF S
    <2>4. list = Newest(S, MaxRows)
      BY <2>2, <2>3, NewestUnique
    <2> QED BY <2>4 DEF S
  <1>2. ASSUME FlowInv, RowsInv PROVE ListIsNewest
    BY <1>1, <1>2 DEF ListIsNewest, InTime, Fetched, Framed
  <1>3. FlowInv /\ RowsInv => ListIsNewest
    BY <1>2
  <1> QED BY <1>3, SpecRows, PTL
=============================================================================
