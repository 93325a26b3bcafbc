--------------------------- MODULE ProducerProofs ---------------------------
(***************************************************************************)
(* Proofs about the producer side of Source: what its queues hold, what    *)
(* s.inflight counts, what the offset syncs name, in which order records   *)
(* reach the target, and that the replicator implements Mirror.            *)
(***************************************************************************)
EXTENDS SourceProofs

(***************************************************************************)
(* One queue.                                                              *)
(***************************************************************************)

\* Queue q holds the record at offset o.
Holds(q, o) == \E i \in DOMAIN q : q[i].off = o

\* No record is in the queue twice.
HeldOnce(q) == \A i, j \in DOMAIN q : q[i].off = q[j].off => i = j

\* The marks m say of every record of the queue which attempt is in it.
Marked(p, q, m) ==
    \A i \in DOMAIN q : m[<<p, q[i].off>>] = IF q[i].retry THEN "waiting" ELSE "no"

\* Records the consumer, at position n, has not returned are unknown to the producer.
Unread(p, q, m, n) ==
    \A o \in Offsets : o >= n => ~Holds(q, o) /\ m[<<p, o>>] = "no"

\* First attempts are in source order, behind them everything that is retried.
FirstsAscend(q) ==
    \A i, j \in DOMAIN q : ~q[i].retry =>
        /\ ~q[j].retry /\ i < j => q[i].off < q[j].off
        /\ q[j].retry => q[j].off < q[i].off
BackoffsBehind(p, q, m) ==
    \A i \in DOMAIN q : \A o \in Offsets :
        ~q[i].retry /\ m[<<p, o>>] = "backoff" => o < q[i].off

Marks == [Records -> {"no", "waiting", "backoff"}]

\* The queue q of partition p, with the marks m and the consumer at n, is in order.
Orderly(p, q, m, n) ==
    /\ HeldOnce(q)
    /\ Marked(p, q, m)
    /\ Unread(p, q, m, n)
    /\ FirstsAscend(q)
    /\ BackoffsBehind(p, q, m)

\* The entries of a queue and their offsets.
LEMMA EntryFacts ==
    ASSUME NEW q \in Seq(Entries), NEW i \in DOMAIN q
    PROVE  /\ i \in Nat
           /\ q[i] \in Entries /\ q[i].off \in Offsets /\ q[i].off \in Nat
           /\ q[i].retry \in BOOLEAN
<1>1. q[i] \in Entries /\ i \in Nat
  BY ElementOfSeq, LenProperties
<1>2. q[i].off \in Offsets /\ q[i].retry \in BOOLEAN
  BY <1>1 DEF Entries
<1> QED
  BY <1>1, <1>2, SourceAssumption DEF Offsets

\* Marks of another partition play no part in the order of a queue.
LEMMA OtherPartition ==
    ASSUME NEW p \in Partitions, NEW q \in Seq(Entries), NEW m \in Marks, NEW n,
           NEW r \in Records, r[1] # p, NEW v, Orderly(p, q, m, n)
    PROVE  Orderly(p, q, [m EXCEPT ![r] = v], n)
<1>1. \A o \in Offsets : [m EXCEPT ![r] = v][<<p, o>>] = m[<<p, o>>]
  BY DEF Marks, Records
<1>2. \A i \in DOMAIN q : q[i].off \in Offsets
  BY EntryFacts
<1> QED
  BY <1>1, <1>2 DEF Orderly, Marked, Unread, BackoffsBehind

\* The tail of a queue.
LEMMA TailFacts ==
    ASSUME NEW q \in Seq(Entries), q # <<>>
    PROVE  /\ Tail(q) \in Seq(Entries)
           /\ 1 \in DOMAIN q /\ Head(q) = q[1]
           /\ \A i \in DOMAIN Tail(q) : i \in Nat \ {0} /\ i + 1 \in DOMAIN q /\ Tail(q)[i] = q[i + 1]
           /\ \A i \in DOMAIN q : i = 1 \/ (i - 1 \in DOMAIN Tail(q) /\ Tail(q)[i - 1] = q[i])
<1>1. /\ Tail(q) \in Seq(Entries) /\ Head(q) = q[1]
      /\ Len(q) \in Nat /\ Len(q) > 0 /\ Len(Tail(q)) = Len(q) - 1
      /\ \A i \in 1 .. Len(Tail(q)) : Tail(q)[i] = q[i + 1]
      /\ DOMAIN q = 1 .. Len(q) /\ DOMAIN Tail(q) = 1 .. Len(Tail(q))
  BY HeadTailProperties, LenProperties, EmptySeq
<1> QED
  BY <1>1

\* A promise takes the head off its queue.  Its record leaves the producer, or
\* backs off, which only a retry does.
LEMMA TailKeeps ==
    ASSUME NEW p \in Partitions, NEW q \in Seq(Entries), q # <<>>, NEW m \in Marks,
           NEW n, Orderly(p, q, m, n), NEW v \in {"no", "backoff"},
           v = "backoff" => Head(q).retry
    PROVE  /\ Orderly(p, Tail(q), [m EXCEPT ![<<p, Head(q).off>>] = v], n)
           /\ \A o : Holds(Tail(q), o) <=> Holds(q, o) /\ o # Head(q).off
<1> DEFINE h == Head(q).off
           t == Tail(q)
           m2 == [m EXCEPT ![<<p, h>>] = v]
<1>1. /\ t \in Seq(Entries)
      /\ 1 \in DOMAIN q /\ Head(q) = q[1]
      /\ \A i \in DOMAIN t : i \in Nat \ {0} /\ i + 1 \in DOMAIN q /\ t[i] = q[i + 1]
      /\ \A i \in DOMAIN q : i = 1 \/ (i - 1 \in DOMAIN t /\ t[i - 1] = q[i])
  BY TailFacts
<1>2. h \in Offsets /\ h \in Nat /\ h = q[1].off /\ <<p, h>> \in Records
  BY <1>1, EntryFacts DEF Records
<1>3. \A o \in Offsets : m2[<<p, o>>] = IF o = h THEN v ELSE m[<<p, o>>]
  BY <1>2 DEF Marks, Records
<1>4. /\ \A i \in DOMAIN t : /\ t[i].off \in Offsets /\ t[i].off \in Nat
                             /\ t[i].retry \in BOOLEAN
      /\ \A i \in DOMAIN q : q[i].off \in Offsets /\ q[i].off \in Nat /\ i \in Nat
  BY <1>1, EntryFacts
<1>5. HeldOnce(q) /\ Marked(p, q, m) /\ Unread(p, q, m, n) /\ FirstsAscend(q)
      /\ BackoffsBehind(p, q, m)
  BY DEF Orderly
<1> HIDE DEF h, t, m2
<1>6. \A i \in DOMAIN t : t[i].off # h
  BY <1>1, <1>2, <1>5 DEF HeldOnce
<1>7. \A o : Holds(t, o) <=> Holds(q, o) /\ o # h
  <2> TAKE o
  <2>1. Holds(t, o) => Holds(q, o) /\ o # h
    BY <1>1, <1>6 DEF Holds
  <2>2. Holds(q, o) /\ o # h => Holds(t, o)
    BY <1>1, <1>2 DEF Holds
  <2> QED
    BY <2>1, <2>2
<1>8. HeldOnce(t)
  <2> SUFFICES ASSUME NEW i \in DOMAIN t, NEW j \in DOMAIN t, t[i].off = t[j].off
               PROVE  i = j
    BY DEF HeldOnce
  <2>1. i + 1 = j + 1
    BY <1>1, <1>5 DEF HeldOnce
  <2> QED
    BY <1>1, <2>1
<1>9. Marked(p, t, m2)
  BY <1>1, <1>3, <1>4, <1>5, <1>6 DEF Marked
<1>10. Unread(p, t, m2, n)
  <2> SUFFICES ASSUME NEW o \in Offsets, o >= n PROVE ~Holds(t, o) /\ m2[<<p, o>>] = "no"
    BY DEF Unread
  <2>1. ~Holds(q, o) /\ m[<<p, o>>] = "no"
    BY <1>5 DEF Unread
  <2>2. o # h
    BY <1>1, <1>2, <2>1 DEF Holds
  <2> QED
    BY <1>3, <1>7, <2>1, <2>2
<1>11. FirstsAscend(t)
  <2> SUFFICES ASSUME NEW i \in DOMAIN t, NEW j \in DOMAIN t, ~t[i].retry
               PROVE  /\ ~t[j].retry /\ i < j => t[i].off < t[j].off
                      /\ t[j].retry => t[j].off < t[i].off
    BY DEF FirstsAscend
  <2>1. /\ i \in Nat /\ i + 1 \in DOMAIN q /\ t[i] = q[i + 1]
        /\ j \in Nat /\ j + 1 \in DOMAIN q /\ t[j] = q[j + 1]
    BY <1>1
  <2>2. i < j => i + 1 < j + 1
    BY <2>1
  <2> QED
    BY <1>5, <2>1, <2>2 DEF FirstsAscend
<1>12. BackoffsBehind(p, t, m2)
  <2> SUFFICES ASSUME NEW i \in DOMAIN t, NEW o \in Offsets, ~t[i].retry, m2[<<p, o>>] = "backoff"
               PROVE  o < t[i].off
    BY DEF BackoffsBehind
  <2>1. i + 1 \in DOMAIN q /\ t[i] = q[i + 1]
    BY <1>1
  <2>2. CASE o = h
    <3>1. q[1].retry
      BY <1>1, <1>3, <2>2
    <3> QED
      BY <1>1, <1>2, <1>5, <2>1, <2>2, <3>1 DEF FirstsAscend
  <2>3. CASE o # h
    BY <1>3, <1>5, <2>1, <2>3 DEF BackoffsBehind
  <2> QED
    BY <2>2, <2>3
<1>13. Orderly(p, t, m2, n)
  BY <1>8, <1>9, <1>10, <1>11, <1>12 DEF Orderly
<1> QED
  BY <1>7, <1>13 DEF h, t, m2

\* A retry is put at the end of the queue of its partition.
LEMMA AppendKeeps ==
    ASSUME NEW p \in Partitions, NEW q \in Seq(Entries), NEW m \in Marks, NEW n \in Nat,
           Orderly(p, q, m, n), NEW o \in Offsets, o < n, ~Holds(q, o),
           \A i \in DOMAIN q : ~q[i].retry => o < q[i].off
    PROVE  /\ Append(q, NewEntry(o, TRUE)) \in Seq(Entries)
           /\ Orderly(p, Append(q, NewEntry(o, TRUE)), [m EXCEPT ![<<p, o>>] = "waiting"], n)
           /\ \A x : Holds(Append(q, NewEntry(o, TRUE)), x) <=> Holds(q, x) \/ x = o
<1> DEFINE e == NewEntry(o, TRUE)
           a == Append(q, e)
           m2 == [m EXCEPT ![<<p, o>>] = "waiting"]
<1>1. e \in Entries /\ e.off = o /\ e.retry = TRUE
  BY NewEntryType DEF NewEntry
<1>2. o \in Nat /\ <<p, o>> \in Records
  BY SourceAssumption DEF Offsets, Records
<1>3. \A x \in Offsets : m2[<<p, x>>] = IF x = o THEN "waiting" ELSE m[<<p, x>>]
  BY <1>2 DEF Marks, Records
<1> HIDE DEF e
<1>4. a \in Seq(Entries) /\ Len(q) \in Nat /\ DOMAIN q = 1 .. Len(q)
      /\ DOMAIN a = 1 .. Len(q) + 1 /\ a[Len(q) + 1] = e
      /\ \A i \in 1 .. Len(q) : a[i] = q[i]
  BY <1>1, AppendProperties, LenProperties
<1> DEFINE k == Len(q) + 1
<1>5. /\ k \in DOMAIN a /\ a[k].off = o /\ a[k].retry = TRUE
      /\ \A i \in DOMAIN q : i \in DOMAIN a /\ i \in Nat /\ i < k /\ a[i] = q[i]
      /\ \A i \in DOMAIN a : i = k \/ i \in DOMAIN q
  BY <1>1, <1>4
<1>6. \A i \in DOMAIN q : q[i].off \in Offsets /\ q[i].off \in Nat /\ q[i].off # o
  BY EntryFacts DEF Holds
<1>7. HeldOnce(q) /\ Marked(p, q, m) /\ Unread(p, q, m, n) /\ FirstsAscend(q)
      /\ BackoffsBehind(p, q, m)
  BY DEF Orderly
<1> HIDE DEF k, a, m2
<1>8. \A x : Holds(a, x) <=> Holds(q, x) \/ x = o
  <2> TAKE x
  <2>1. Holds(a, x) => Holds(q, x) \/ x = o
    BY <1>5 DEF Holds
  <2>2. Holds(q, x) \/ x = o => Holds(a, x)
    BY <1>5 DEF Holds
  <2> QED
    BY <2>1, <2>2
<1>9. HeldOnce(a)
  BY <1>5, <1>6, <1>7 DEF HeldOnce
<1>10. Marked(p, a, m2)
  BY <1>3, <1>5, <1>6, <1>7 DEF Marked
<1>11. Unread(p, a, m2, n)
  <2> SUFFICES ASSUME NEW x \in Offsets, x >= n PROVE ~Holds(a, x) /\ m2[<<p, x>>] = "no"
    BY DEF Unread
  <2>1. x # o
    BY <1>2
  <2> QED
    BY <1>3, <1>7, <1>8, <2>1 DEF Unread
<1>12. FirstsAscend(a)
  <2> SUFFICES ASSUME NEW i \in DOMAIN a, NEW j \in DOMAIN a, ~a[i].retry
               PROVE  /\ ~a[j].retry /\ i < j => a[i].off < a[j].off
                      /\ a[j].retry => a[j].off < a[i].off
    BY DEF FirstsAscend
  <2>1. i \in DOMAIN q /\ a[i] = q[i]
    BY <1>5
  <2>2. CASE j = k
    BY <1>5, <2>1, <2>2
  <2>3. CASE j \in DOMAIN q
    BY <1>5, <1>7, <2>1, <2>3 DEF FirstsAscend
  <2> QED
    BY <1>5, <2>2, <2>3
<1>13. BackoffsBehind(p, a, m2)
  <2> SUFFICES ASSUME NEW i \in DOMAIN a, NEW x \in Offsets,
                      ~a[i].retry, m2[<<p, x>>] = "backoff"
               PROVE  x < a[i].off
    BY DEF BackoffsBehind
  <2>1. i \in DOMAIN q /\ a[i] = q[i]
    BY <1>5
  <2>2. m[<<p, x>>] = "backoff"
    BY <1>3
  <2> QED
    BY <1>7, <2>1, <2>2 DEF BackoffsBehind
<1>14. Orderly(p, a, m2, n)
  BY <1>9, <1>10, <1>11, <1>12, <1>13 DEF Orderly
<1> QED
  BY <1>4, <1>8, <1>14 DEF a, e, m2

\* The order of a queue is that of its offsets and attempts: results do not matter.
LEMMA SettleKeeps ==
    ASSUME NEW p \in Partitions, NEW q \in Seq(Entries), NEW m, NEW n, Orderly(p, q, m, n),
           NEW i \in DOMAIN q, NEW res \in {"ok", "err"}, NEW at \in Nat
    PROVE  /\ Orderly(p, Settle(q, i, res, at), m, n)
           /\ \A o : Holds(Settle(q, i, res, at), o) <=> Holds(q, o)
<1> DEFINE s == Settle(q, i, res, at)
<1>1. /\ DOMAIN s = DOMAIN q
      /\ \A j \in DOMAIN q : s[j].off = q[j].off /\ s[j].retry = q[j].retry
  <2>1. \A j \in DOMAIN q : q[j] \in Entries
    BY EntryFacts
  <2> QED
    BY <2>1 DEF Settle, Entries
<1> HIDE DEF s
<1>2. \A o : Holds(s, o) <=> Holds(q, o)
  BY <1>1 DEF Holds
<1>3. HeldOnce(s) /\ Marked(p, s, m) /\ Unread(p, s, m, n)
  BY <1>1, <1>2 DEF Orderly, HeldOnce, Marked, Unread
<1>4. FirstsAscend(s)
  BY <1>1 DEF Orderly, FirstsAscend
<1>5. BackoffsBehind(p, s, m)
  BY <1>1 DEF Orderly, BackoffsBehind
<1>6. Orderly(p, s, m, n)
  BY <1>3, <1>4, <1>5 DEF Orderly
<1> QED
  BY <1>2, <1>6 DEF s

\* A poll puts the records it returns behind all others, in their order.
LEMMA BatchKeeps ==
    ASSUME NEW p \in Partitions, NEW q \in Seq(Entries), NEW m,
           NEW n \in 0 .. LogEnd, NEW n2 \in 0 .. LogEnd, n <= n2, Orderly(p, q, m, n),
           NEW b \in Seq(Entries),
           b = [i \in 1 .. n2 - n |-> NewEntry(n + i - 1, FALSE)]
    PROVE  /\ Orderly(p, q \o b, m, n2)
           /\ \A o : Holds(q \o b, o) <=> Holds(q, o) \/ o \in n .. n2 - 1
<1> DEFINE c == q \o b
           k == Len(q)
<1>1. k \in Nat /\ DOMAIN q = 1 .. k /\ n \in Nat /\ n2 \in Nat /\ n2 - n \in Nat
  BY LenProperties, SourceAssumption
<1>2. DOMAIN b = 1 .. n2 - n
      /\ \A i \in 1 .. n2 - n : b[i].off = n + i - 1 /\ b[i].retry = FALSE
  BY DEF NewEntry
<1>3. Len(b) = n2 - n
  BY <1>1, <1>2, LenProperties
<1>4. /\ DOMAIN c = 1 .. k + (n2 - n)
      /\ \A i \in 1 .. k : c[i] = q[i]
      /\ \A i \in k + 1 .. k + (n2 - n) : c[i] = b[i - k]
  <2>1. /\ c \in Seq(Entries) /\ Len(c) = k + Len(b)
        /\ \A i \in 1 .. k + Len(b) : c[i] = IF i <= k THEN q[i] ELSE b[i - k]
    BY ConcatProperties
  <2>2. DOMAIN c = 1 .. Len(c)
    BY <2>1, LenProperties
  <2> HIDE DEF c, k
  <2>3. DOMAIN c = 1 .. k + (n2 - n)
    BY <1>3, <2>1, <2>2
  <2>4. \A i \in 1 .. k : i \in 1 .. k + Len(b) /\ i <= k
    BY <1>1, <1>3
  <2>5. \A i \in k + 1 .. k + (n2 - n) : i \in 1 .. k + Len(b) /\ ~(i <= k)
    BY <1>1, <1>3
  <2> QED
    BY <2>1, <2>3, <2>4, <2>5
<1> HIDE DEF c, k
<1>5. /\ \A i \in DOMAIN c : i \in Nat /\ (i \in DOMAIN q \/ i > k)
      /\ \A i \in DOMAIN q : i \in DOMAIN c /\ i <= k /\ c[i] = q[i]
      /\ \A i \in DOMAIN c : i > k =>
           c[i].off = n + (i - k) - 1 /\ c[i].retry = FALSE
      /\ \A o \in n .. n2 - 1 : k + (o - n) + 1 \in DOMAIN c
  <2>1. \A i \in DOMAIN c : i \in Nat /\ (i \in DOMAIN q \/ i > k)
    BY <1>1, <1>4
  <2>2. \A i \in DOMAIN q : i \in DOMAIN c /\ i <= k /\ c[i] = q[i]
    BY <1>1, <1>4
  <2>3. ASSUME NEW i \in DOMAIN c, i > k
        PROVE  c[i].off = n + (i - k) - 1 /\ c[i].retry = FALSE
    <3>1. i \in k + 1 .. k + (n2 - n) /\ i - k \in 1 .. n2 - n
      BY <1>1, <1>4, <2>3
    <3> QED
      BY <1>2, <1>4, <3>1
  <2>4. \A o \in n .. n2 - 1 : k + (o - n) + 1 \in DOMAIN c
    BY <1>1, <1>4
  <2> QED
    BY <2>1, <2>2, <2>3, <2>4
<1>6. HeldOnce(q) /\ Marked(p, q, m) /\ Unread(p, q, m, n) /\ FirstsAscend(q)
      /\ BackoffsBehind(p, q, m)
  BY DEF Orderly
<1>7. \A i \in DOMAIN q : q[i].off \in Offsets /\ q[i].off \in Nat /\ q[i].off < n
  <2> SUFFICES ASSUME NEW i \in DOMAIN q
               PROVE  q[i].off \in Offsets /\ q[i].off \in Nat /\ q[i].off < n
    OBVIOUS
  <2>1. q[i].off \in Offsets /\ q[i].off \in Nat
    BY EntryFacts
  <2>2. ~(q[i].off >= n)
    BY <1>6, <2>1 DEF Unread, Holds
  <2> QED
    BY <1>1, <2>1, <2>2
<1>8. \A i \in DOMAIN c : i > k => /\ c[i].off \in Nat /\ c[i].off \in Offsets
                                    /\ n <= c[i].off /\ c[i].off < n2
  <2> SUFFICES ASSUME NEW i \in DOMAIN c, i > k
               PROVE  /\ c[i].off \in Nat /\ c[i].off \in Offsets
                      /\ n <= c[i].off /\ c[i].off < n2
    OBVIOUS
  <2>1. i \in k + 1 .. k + (n2 - n) /\ c[i].off = n + (i - k) - 1
    BY <1>1, <1>4, <1>5
  <2> QED
    BY <1>1, <2>1, SourceAssumption DEF Offsets
<1>9. \A o : Holds(c, o) <=> Holds(q, o) \/ o \in n .. n2 - 1
  <2> TAKE o
  <2>1. Holds(c, o) => Holds(q, o) \/ o \in n .. n2 - 1
    <3> SUFFICES ASSUME NEW i \in DOMAIN c, c[i].off = o PROVE Holds(q, o) \/ o \in n .. n2 - 1
      BY DEF Holds
    <3>1. CASE i \in DOMAIN q
      BY <1>5, <3>1 DEF Holds
    <3>2. CASE i > k
      BY <1>1, <1>8, <3>2
    <3> QED
      BY <1>5, <3>1, <3>2
  <2>2. Holds(q, o) => Holds(c, o)
    BY <1>5 DEF Holds
  <2>3. o \in n .. n2 - 1 => Holds(c, o)
    <3> SUFFICES ASSUME o \in n .. n2 - 1 PROVE Holds(c, o)
      OBVIOUS
    <3> DEFINE i == k + (o - n) + 1
    <3>1. i \in DOMAIN c
      BY <1>5
    <3>2. i > k /\ n + (i - k) - 1 = o
      <4>1. o \in Int /\ o >= n
        BY <1>1
      <4> QED
        BY <1>1, <4>1
    <3> HIDE DEF i
    <3>3. c[i].off = o
      BY <1>5, <3>1, <3>2
    <3> QED
      BY <3>1, <3>3 DEF Holds
  <2> QED
    BY <2>1, <2>2, <2>3
<1>10. HeldOnce(c)
  <2> SUFFICES ASSUME NEW i \in DOMAIN c, NEW j \in DOMAIN c, c[i].off = c[j].off PROVE i = j
    BY DEF HeldOnce
  <2>1. CASE i \in DOMAIN q /\ j \in DOMAIN q
    BY <1>5, <1>6, <2>1 DEF HeldOnce
  <2>2. CASE i > k /\ j > k
    BY <1>1, <1>5, <2>2
  <2>3. CASE (i \in DOMAIN q /\ j > k) \/ (j \in DOMAIN q /\ i > k)
    BY <1>1, <1>5, <1>7, <1>8, <2>3
  <2> QED
    BY <1>5, <2>1, <2>2, <2>3
<1>11. Marked(p, c, m)
  <2> SUFFICES ASSUME NEW i \in DOMAIN c
               PROVE  m[<<p, c[i].off>>] = IF c[i].retry THEN "waiting" ELSE "no"
    BY DEF Marked
  <2>1. CASE i \in DOMAIN q
    BY <1>5, <1>6, <2>1 DEF Marked
  <2>2. CASE i > k
    BY <1>1, <1>5, <1>6, <1>8, <2>2 DEF Unread
  <2> QED
    BY <1>5, <2>1, <2>2
<1>12. Unread(p, c, m, n2)
  <2> SUFFICES ASSUME NEW o \in Offsets, o >= n2 PROVE ~Holds(c, o) /\ m[<<p, o>>] = "no"
    BY DEF Unread
  <2>1. o >= n /\ o \notin n .. n2 - 1
    BY <1>1, SourceAssumption DEF Offsets
  <2> QED
    BY <1>6, <1>9, <2>1 DEF Unread
<1>13. FirstsAscend(c)
  <2> SUFFICES ASSUME NEW i \in DOMAIN c, NEW j \in DOMAIN c, ~c[i].retry
               PROVE  /\ ~c[j].retry /\ i < j => c[i].off < c[j].off
                      /\ c[j].retry => c[j].off < c[i].off
    BY DEF FirstsAscend
  <2>1. CASE i \in DOMAIN q /\ j \in DOMAIN q
    BY <1>5, <1>6, <2>1 DEF FirstsAscend
  <2>2. CASE i > k /\ j > k
    BY <1>1, <1>5, <2>2
  <2>3. CASE i \in DOMAIN q /\ j > k
    BY <1>1, <1>5, <1>7, <1>8, <2>3
  <2>4. CASE i > k /\ j \in DOMAIN q
    BY <1>1, <1>5, <1>7, <1>8, <2>4
  <2> QED
    BY <1>5, <2>1, <2>2, <2>3, <2>4
<1>14. BackoffsBehind(p, c, m)
  <2> SUFFICES ASSUME NEW i \in DOMAIN c, NEW o \in Offsets,
                      ~c[i].retry, m[<<p, o>>] = "backoff"
               PROVE  o < c[i].off
    BY DEF BackoffsBehind
  <2>1. o < n /\ o \in Nat
    BY <1>1, <1>6, SourceAssumption DEF Unread, Offsets
  <2>2. CASE i \in DOMAIN q
    BY <1>5, <1>6, <2>2 DEF BackoffsBehind
  <2>3. CASE i > k
    BY <1>1, <1>8, <2>1, <2>3
  <2> QED
    BY <1>5, <2>2, <2>3
<1>15. Orderly(p, c, m, n2)
  BY <1>10, <1>11, <1>12, <1>13, <1>14 DEF Orderly
<1> QED
  BY <1>9, <1>15 DEF c

(***************************************************************************)
(* All queues, and what s.inflight counts.                                 *)
(***************************************************************************)

QueuesOrderly == \A p \in Partitions : Orderly(p, buffer[p], retrying, position[p])

\* s.inflight counts the records in the queues and those that back off.
CountedExactly ==
    \A p \in Partitions : \A o \in Offsets :
        <<p, o>> \in inflight <=> Holds(buffer[p], o) \/ retrying[<<p, o>>] = "backoff"

\* The inductive invariant of the producer.
ProducerInv ==
    /\ TypeOK
    /\ proc = "up" => QueuesOrderly /\ CountedExactly

\* A step that leaves the producer alone preserves ProducerInv.
LEMMA ProducerFrame ==
    ASSUME ProducerInv, TypeOK', proc' = "up" => proc = "up",
           UNCHANGED <<buffer, retrying, position, inflight>>
    PROVE  ProducerInv'
BY DEF ProducerInv, QueuesOrderly, CountedExactly

\* A new process has empty queues and nothing in flight.
LEMMA ProducerStart ==
    ASSUME Start, TypeOK'
    PROVE  ProducerInv'
<1>1. /\ buffer' = [p \in Partitions |-> <<>>]
      /\ retrying' = [r \in Records |-> "no"]
      /\ inflight' = {}
  BY DEF Start
<1>2. \A p \in Partitions : \A o \in Offsets : retrying'[<<p, o>>] = "no"
  BY <1>1 DEF Records
<1>3. \A p \in Partitions : \A o : ~Holds(buffer'[p], o)
  BY <1>1 DEF Holds
<1>4. ASSUME NEW p \in Partitions
      PROVE  Orderly(p, buffer'[p], retrying', position'[p])
  <2>1. buffer'[p] = <<>>
    BY <1>1
  <2>2. HeldOnce(buffer'[p]) /\ Marked(p, buffer'[p], retrying') /\ FirstsAscend(buffer'[p])
        /\ BackoffsBehind(p, buffer'[p], retrying')
    BY <2>1 DEF HeldOnce, Marked, FirstsAscend, BackoffsBehind
  <2>3. Unread(p, buffer'[p], retrying', position'[p])
    BY <1>2, <1>3 DEF Unread
  <2> QED
    BY <2>2, <2>3 DEF Orderly
<1>5. CountedExactly'
  BY <1>1, <1>2, <1>3 DEF CountedExactly
<1> QED
  BY <1>4, <1>5 DEF ProducerInv, QueuesOrderly

\* A poll hands the records it returns to the producer and counts each once.
LEMMA ProducerPoll ==
    ASSUME ProducerInv, PollAndProduce, TypeOK'
    PROVE  ProducerInv'
<1>1. PICK next \in [Partitions -> 0 .. LogEnd] :
        /\ \A p \in Partitions : next[p] \in position[p] .. position[p] + MaxPoll
        /\ position' = next
        /\ inflight' = inflight \cup Polled(next)
        /\ buffer' = [p \in Partitions |-> buffer[p] \o Batch(p, next)]
  BY DEF PollAndProduce
<1>2. TypeOK /\ proc = "up" /\ UNCHANGED retrying /\ QueuesOrderly /\ CountedExactly
  BY DEF ProducerInv, PollAndProduce
<1>3. ASSUME NEW p \in Partitions
      PROVE  /\ Orderly(p, buffer'[p], retrying, position'[p])
             /\ \A o : Holds(buffer'[p], o)
                        <=> Holds(buffer[p], o) \/ o \in position[p] .. next[p] - 1
  <2>1. position[p] \in 0 .. LogEnd /\ next[p] \in 0 .. LogEnd /\ position[p] <= next[p]
        /\ buffer[p] \in Seq(Entries) /\ Orderly(p, buffer[p], retrying, position[p])
    BY <1>1, <1>2, SourceAssumption DEF TypeOK, QueuesOrderly
  <2> DEFINE b == Batch(p, next)
  <2>2. b = [i \in 1 .. next[p] - position[p] |-> NewEntry(position[p] + i - 1, FALSE)]
    BY DEF Batch
  <2>3. b \in Seq(Entries)
    BY <1>2, <2>1, <2>2, PolledEntries
  <2>4. buffer'[p] = buffer[p] \o b
    BY <1>1
  <2> DEFINE q == buffer[p]
             n == position[p]
             n2 == next[p]
  <2> HIDE DEF b
  <2>5. /\ q \in Seq(Entries) /\ n \in 0 .. LogEnd /\ n2 \in 0 .. LogEnd /\ n <= n2
        /\ Orderly(p, q, retrying, n)
        /\ b = [i \in 1 .. n2 - n |-> NewEntry(n + i - 1, FALSE)]
    BY <2>1, <2>2
  <2> HIDE DEF q, n, n2
  <2>6. /\ Orderly(p, q \o b, retrying, n2)
        /\ \A o : Holds(q \o b, o) <=> Holds(q, o) \/ o \in n .. n2 - 1
    BY <2>3, <2>5, BatchKeeps
  <2> QED
    BY <1>1, <2>4, <2>6 DEF q, n, n2
<1>4. ASSUME NEW p \in Partitions, NEW o \in Offsets
      PROVE  <<p, o>> \in inflight' <=> Holds(buffer'[p], o) \/ retrying[<<p, o>>] = "backoff"
  <2>1. <<p, o>> \in Polled(next) <=> position[p] <= o /\ o < next[p]
    BY DEF Polled, Records
  <2>2. position[p] \in Nat /\ next[p] \in Nat /\ o \in Nat
    BY <1>1, <1>2, SourceAssumption DEF TypeOK, Offsets
  <2>3. o \in position[p] .. next[p] - 1 <=> position[p] <= o /\ o < next[p]
    BY <2>2
  <2>4. <<p, o>> \in inflight <=> Holds(buffer[p], o) \/ retrying[<<p, o>>] = "backoff"
    BY <1>2 DEF CountedExactly
  <2> QED
    BY <1>1, <1>3, <2>1, <2>3, <2>4
<1>5. QueuesOrderly'
  BY <1>2, <1>3 DEF QueuesOrderly
<1>6. CountedExactly'
  BY <1>2, <1>4 DEF CountedExactly
<1> QED
  BY <1>5, <1>6 DEF ProducerInv

\* The broker settles one entry of one queue.
LEMMA BrokerEffect ==
    ASSUME TypeOK, Broker
    PROVE  \E p \in Partitions : \E i \in DOMAIN buffer[p] :
             \E res \in {"ok", "err"} : \E at \in Nat :
               /\ Unsettled(p, i)
               /\ buffer' = [buffer EXCEPT ![p] = Settle(buffer[p], i, res, at)]
               /\ \/ /\ target' = [target EXCEPT ![p] = Append(target[p], buffer[p][i].off)]
                     /\ at = Len(target[p])
                  \/ target' = target /\ res = "err"
<1>1. PICK p \in Partitions :
        \E i \in DOMAIN buffer[p] : BrokerWrite(p, i) \/ BrokerReject(p, i)
  BY DEF Broker
<1>2. PICK i \in DOMAIN buffer[p] : BrokerWrite(p, i) \/ BrokerReject(p, i)
  BY <1>1
<1>3. Len(target[p]) \in Nat
  BY LenProperties DEF TypeOK
<1>4. CASE BrokerWrite(p, i)
  BY <1>3, <1>4 DEF BrokerWrite
<1>5. CASE BrokerReject(p, i)
  <2>1. Unsettled(p, i) /\ target' = target
        /\ buffer' = [buffer EXCEPT ![p] = Settle(buffer[p], i, "err", 0)]
    BY <1>5 DEF BrokerReject
  <2> QED
    BY <2>1
<1> QED
  BY <1>2, <1>4, <1>5

\* The broker disturbs no queue.
LEMMA ProducerBroker ==
    ASSUME ProducerInv, Broker, TypeOK'
    PROVE  ProducerInv'
<1>1. TypeOK /\ proc = "up" /\ UNCHANGED <<proc, retrying, position, inflight>>
      /\ QueuesOrderly /\ CountedExactly
  BY DEF ProducerInv, Broker, procVars, loopVars
<1>2. PICK p \in Partitions : \E i \in DOMAIN buffer[p] :
        \E res \in {"ok", "err"} : \E at \in Nat :
          buffer' = [buffer EXCEPT ![p] = Settle(buffer[p], i, res, at)]
  BY <1>1, BrokerEffect
<1>3. PICK i \in DOMAIN buffer[p], res \in {"ok", "err"}, at \in Nat :
        buffer' = [buffer EXCEPT ![p] = Settle(buffer[p], i, res, at)]
  BY <1>2
<1>4. \A q \in Partitions : Orderly(q, buffer[q], retrying, position[q])
                             /\ buffer[q] \in Seq(Entries)
  BY <1>1 DEF QueuesOrderly, TypeOK
<1>5. /\ Orderly(p, Settle(buffer[p], i, res, at), retrying, position[p])
      /\ \A o : Holds(Settle(buffer[p], i, res, at), o) <=> Holds(buffer[p], o)
  BY <1>4, SettleKeeps
<1>6. \A q \in Partitions :
        buffer'[q] = IF q = p THEN Settle(buffer[p], i, res, at) ELSE buffer[q]
  BY <1>1, <1>3 DEF TypeOK
<1>7. \A q \in Partitions : /\ Orderly(q, buffer'[q], retrying, position[q])
                             /\ \A o : Holds(buffer'[q], o) <=> Holds(buffer[q], o)
  BY <1>4, <1>5, <1>6
<1> QED
  BY <1>1, <1>7 DEF ProducerInv, QueuesOrderly, CountedExactly

\* The three things a promise of p does with the record r at the head of the queue.
Leaves(p, r) ==
    /\ buffer' = [buffer EXCEPT ![p] = Tail(@)]
    /\ retrying' = [retrying EXCEPT ![r] = "no"]
    /\ inflight' = inflight \ {r}
BacksOff(p, r) ==
    /\ Head(buffer[p]).retry
    /\ buffer' = [buffer EXCEPT ![p] = Tail(@)]
    /\ retrying' = [retrying EXCEPT ![r] = "backoff"]
    /\ inflight' = inflight
Retried(p, r) ==
    /\ ~Head(buffer[p]).retry
    /\ buffer' = [buffer EXCEPT ![p] = Append(Tail(@), NewEntry(r[2], TRUE))]
    /\ retrying' = [retrying EXCEPT ![r] = "waiting"]
    /\ inflight' = inflight

\* A promise does one of the three.
LEMMA PromiseKinds ==
    ASSUME TypeOK, NEW p \in Partitions, buffer[p] # <<>>,
           Orderly(p, buffer[p], retrying, position[p]),
           Acked(p) \/ FirstFailed(p) \/ RetryAcked(p) \/ RetryFailed(p)
    PROVE  LET r == <<p, Head(buffer[p]).off>> IN Leaves(p, r) \/ BacksOff(p, r) \/ Retried(p, r)
<1> DEFINE e == Head(buffer[p])
           r == <<p, e.off>>
<1>1. r \in Records /\ 1 \in DOMAIN buffer[p] /\ e = buffer[p][1] /\ r[2] = e.off
  BY HeadFacts
<1>2. retrying[r] = IF e.retry THEN "waiting" ELSE "no"
  BY <1>1 DEF Orderly, Marked
<1>3. retrying \in [Records -> {"no", "waiting", "backoff"}]
  BY DEF TypeOK
<1> HIDE DEF r
<1>4. CASE Acked(p)
  <2>1. /\ buffer' = [buffer EXCEPT ![p] = Tail(@)]
        /\ ~e.retry /\ inflight' = inflight \ {r} /\ retrying' = retrying
    BY <1>4 DEF Acked, r
  <2>2. retrying' = [retrying EXCEPT ![r] = "no"]
    BY <1>1, <1>2, <1>3, <2>1
  <2> QED
    BY <2>1, <2>2 DEF Leaves, r
<1>5. CASE RetryAcked(p)
  BY <1>5 DEF RetryAcked, Leaves, r
<1>6. CASE FirstFailed(p)
  <2>1. CASE cancelled \/ MaxRetries < 0
    BY <1>6, <2>1 DEF FirstFailed, GiveUp, Leaves, r
  <2>2. CASE ~(cancelled \/ MaxRetries < 0)
    BY <1>1, <1>6, <2>2 DEF FirstFailed, Retried, r
  <2> QED
    BY <2>1, <2>2
<1>7. CASE RetryFailed(p)
  <2>1. e.retry /\ buffer' = [buffer EXCEPT ![p] = Tail(@)]
    BY <1>7 DEF RetryFailed
  <2>2. \/ inflight' = inflight \ {r} /\ retrying' = [retrying EXCEPT ![r] = "no"]
        \/ inflight' = inflight /\ retrying' = [retrying EXCEPT ![r] = "backoff"]
    BY <1>7 DEF RetryFailed, GiveUp, r
  <2> QED
    BY <2>1, <2>2 DEF Leaves, BacksOff, r
<1> QED
  BY <1>4, <1>5, <1>6, <1>7 DEF r

\* The queue of one partition and the mark of one of its records change: what is
\* to be shown is about them alone.
LEMMA ProducerLocal ==
    ASSUME ProducerInv, TypeOK', proc = "up", UNCHANGED position,
           NEW p \in Partitions, NEW o \in Offsets, NEW v \in {"no", "waiting", "backoff"},
           NEW q \in Seq(Entries),
           buffer' = [buffer EXCEPT ![p] = q],
           retrying' = [retrying EXCEPT ![<<p, o>>] = v],
           inflight' = inflight \/ inflight' = inflight \ {<<p, o>>},
           Orderly(p, q, [retrying EXCEPT ![<<p, o>>] = v], position[p]),
           \A x \in Offsets : x # o => (Holds(q, x) <=> Holds(buffer[p], x)),
           <<p, o>> \in inflight' <=> Holds(q, o) \/ v = "backoff"
    PROVE  ProducerInv'
<1>1. TypeOK /\ QueuesOrderly /\ CountedExactly
  BY DEF ProducerInv
<1>2. <<p, o>> \in Records /\ retrying \in Marks
  BY <1>1 DEF Records, TypeOK, Marks
<1>3. \A s \in Partitions : buffer'[s] = IF s = p THEN q ELSE buffer[s]
  BY <1>1 DEF TypeOK
<1>4. \A r \in Records : retrying'[r] = IF r = <<p, o>> THEN v ELSE retrying[r]
  BY <1>2 DEF Marks
<1>5. QueuesOrderly'
  <2> SUFFICES ASSUME NEW s \in Partitions
               PROVE  Orderly(s, buffer'[s], retrying', position[s])
    BY DEF QueuesOrderly
  <2>1. CASE s = p
    BY <1>3, <2>1
  <2>2. CASE s # p
    <3>1. Orderly(s, buffer[s], retrying, position[s]) /\ buffer[s] \in Seq(Entries)
      BY <1>1 DEF QueuesOrderly, TypeOK
    <3>2. <<p, o>>[1] # s
      BY <2>2
    <3>3. Orderly(s, buffer[s], [retrying EXCEPT ![<<p, o>>] = v], position[s])
      BY <1>2, <3>1, <3>2, OtherPartition
    <3> QED
      BY <1>3, <2>2, <3>3
  <2> QED
    BY <2>1, <2>2
<1>6. CountedExactly'
  <2> SUFFICES ASSUME NEW s \in Partitions, NEW x \in Offsets
               PROVE  <<s, x>> \in inflight'
                        <=> Holds(buffer'[s], x) \/ retrying'[<<s, x>>] = "backoff"
    BY DEF CountedExactly
  <2>1. <<s, x>> \in Records
    BY DEF Records
  <2>2. CASE s = p /\ x = o
    BY <1>3, <1>4, <2>1, <2>2
  <2>3. CASE ~(s = p /\ x = o)
    <3>1. <<s, x>> # <<p, o>>
      BY <2>3
    <3>2. /\ <<s, x>> \in inflight' <=> <<s, x>> \in inflight
          /\ retrying'[<<s, x>>] = retrying[<<s, x>>]
      BY <1>4, <2>1, <3>1
    <3>3. Holds(buffer'[s], x) <=> Holds(buffer[s], x)
      BY <1>3, <2>3
    <3> QED
      BY <1>1, <3>2, <3>3 DEF CountedExactly
  <2> QED
    BY <2>2, <2>3
<1> QED
  BY <1>5, <1>6 DEF ProducerInv

\* Promises preserve ProducerInv.
LEMMA ProducerPromise ==
    ASSUME ProducerInv, Promise, TypeOK'
    PROVE  ProducerInv'
<1>1. PICK p \in Partitions :
        /\ buffer[p] # <<>>
        /\ Acked(p) \/ FirstFailed(p) \/ RetryAcked(p) \/ RetryFailed(p)
  BY DEF Promise
<1>2. TypeOK /\ proc = "up" /\ UNCHANGED position /\ QueuesOrderly /\ CountedExactly
  BY DEF ProducerInv, Promise, loopVars
<1> DEFINE q == buffer[p]
           e == Head(q)
           o == e.off
           n == position[p]
<1>3. q \in Seq(Entries) /\ q # <<>> /\ Orderly(p, q, retrying, n) /\ retrying \in Marks
      /\ n \in Nat
  BY <1>1, <1>2, SourceAssumption DEF TypeOK, QueuesOrderly, Marks
<1>4. /\ Tail(q) \in Seq(Entries) /\ 1 \in DOMAIN q /\ e = q[1]
      /\ \A i \in DOMAIN Tail(q) : i \in Nat \ {0} /\ i + 1 \in DOMAIN q /\ Tail(q)[i] = q[i + 1]
  BY <1>3, TailFacts
<1>5. o \in Offsets /\ o \in Nat /\ Holds(q, o)
  BY <1>3, <1>4, EntryFacts DEF Holds
<1>6. Leaves(p, <<p, o>>) \/ BacksOff(p, <<p, o>>) \/ Retried(p, <<p, o>>)
  BY <1>1, <1>2, <1>3, PromiseKinds
<1>7. <<p, o>> \in inflight
  BY <1>2, <1>5 DEF CountedExactly
<1> HIDE DEF q, e, o, n
<1>8. o < n
  <2>1. o >= n => ~Holds(q, o)
    BY <1>3, <1>5 DEF Orderly, Unread
  <2> QED
    BY <1>3, <1>5, <2>1
<1>9. CASE Leaves(p, <<p, o>>)
  <2>1. /\ Orderly(p, Tail(q), [retrying EXCEPT ![<<p, o>>] = "no"], n)
        /\ \A x : Holds(Tail(q), x) <=> Holds(q, x) /\ x # o
    BY <1>3, TailKeeps DEF o, e
  <2>2. /\ buffer' = [buffer EXCEPT ![p] = Tail(q)]
        /\ retrying' = [retrying EXCEPT ![<<p, o>>] = "no"]
        /\ inflight' = inflight \ {<<p, o>>}
    BY <1>9 DEF Leaves, q
  <2>3. <<p, o>> \in inflight' <=> Holds(Tail(q), o) \/ "no" = "backoff"
    BY <2>1, <2>2
  <2>4. Orderly(p, Tail(q), [retrying EXCEPT ![<<p, o>>] = "no"], position[p])
    BY <2>1 DEF n
  <2>5. \A x \in Offsets : x # o => (Holds(Tail(q), x) <=> Holds(buffer[p], x))
    BY <2>1 DEF q
  <2> QED
    BY <1>2, <1>4, <1>5, <2>2, <2>3, <2>4, <2>5, ProducerLocal
<1>10. CASE BacksOff(p, <<p, o>>)
  <2>1. /\ Orderly(p, Tail(q), [retrying EXCEPT ![<<p, o>>] = "backoff"], n)
        /\ \A x : Holds(Tail(q), x) <=> Holds(q, x) /\ x # o
    <3>1. Head(q).retry
      BY <1>10 DEF BacksOff, q
    <3> QED
      BY <1>3, <3>1, TailKeeps DEF o, e
  <2>2. /\ buffer' = [buffer EXCEPT ![p] = Tail(q)]
        /\ retrying' = [retrying EXCEPT ![<<p, o>>] = "backoff"]
        /\ inflight' = inflight
    BY <1>10 DEF BacksOff, q
  <2>3. <<p, o>> \in inflight' <=> Holds(Tail(q), o) \/ "backoff" = "backoff"
    BY <1>7, <2>2
  <2>4. Orderly(p, Tail(q), [retrying EXCEPT ![<<p, o>>] = "backoff"], position[p])
    BY <2>1 DEF n
  <2>5. \A x \in Offsets : x # o => (Holds(Tail(q), x) <=> Holds(buffer[p], x))
    BY <2>1 DEF q
  <2> QED
    BY <1>2, <1>4, <1>5, <2>2, <2>3, <2>4, <2>5, ProducerLocal
<1>11. CASE Retried(p, <<p, o>>)
  <2> DEFINE a == Append(Tail(q), NewEntry(o, TRUE))
             m == [retrying EXCEPT ![<<p, o>>] = "no"]
  <2>1. /\ Orderly(p, Tail(q), m, n)
        /\ \A x : Holds(Tail(q), x) <=> Holds(q, x) /\ x # o
    BY <1>3, TailKeeps DEF o, e
  <2>2. m \in Marks
    BY <1>3 DEF Marks
  <2>3. \A i \in DOMAIN Tail(q) : ~Tail(q)[i].retry => o < Tail(q)[i].off
    <3> SUFFICES ASSUME NEW i \in DOMAIN Tail(q), ~Tail(q)[i].retry PROVE o < Tail(q)[i].off
      OBVIOUS
    <3>1. i \in Nat \ {0} /\ i + 1 \in DOMAIN q /\ Tail(q)[i] = q[i + 1] /\ 1 < i + 1
      BY <1>4
    <3>2. ~q[1].retry
      BY <1>4, <1>11 DEF Retried, e, q
    <3> QED
      BY <1>3, <1>4, <3>1, <3>2 DEF Orderly, FirstsAscend, o
  <2>4. /\ a \in Seq(Entries)
        /\ Orderly(p, a, [m EXCEPT ![<<p, o>>] = "waiting"], n)
        /\ \A x : Holds(a, x) <=> Holds(Tail(q), x) \/ x = o
    <3>1. ~Holds(Tail(q), o)
      BY <2>1
    <3> HIDE DEF m
    <3> QED
      BY <1>3, <1>4, <1>5, <1>8, <2>1, <2>2, <2>3, <3>1, AppendKeeps
  <2>5. [m EXCEPT ![<<p, o>>] = "waiting"] = [retrying EXCEPT ![<<p, o>>] = "waiting"]
    BY <1>3 DEF Marks
  <2>6. /\ buffer' = [buffer EXCEPT ![p] = a]
        /\ retrying' = [retrying EXCEPT ![<<p, o>>] = "waiting"]
        /\ inflight' = inflight
    BY <1>11 DEF Retried, q
  <2> HIDE DEF a, m
  <2>7. <<p, o>> \in inflight' <=> Holds(a, o) \/ "waiting" = "backoff"
    BY <1>7, <2>4, <2>6
  <2>8. Orderly(p, a, [retrying EXCEPT ![<<p, o>>] = "waiting"], position[p])
    BY <2>4, <2>5 DEF n
  <2>9. \A x \in Offsets : x # o => (Holds(a, x) <=> Holds(buffer[p], x))
    BY <2>1, <2>4 DEF q
  <2> QED
    BY <1>2, <1>5, <2>4, <2>6, <2>7, <2>8, <2>9, ProducerLocal
<1> QED
  BY <1>6, <1>9, <1>10, <1>11

\* The end of a backoff preserves ProducerInv.
LEMMA ProducerBackoff ==
    ASSUME ProducerInv, Backoff, TypeOK'
    PROVE  ProducerInv'
<1>1. PICK r \in Records :
        /\ retrying[r] = "backoff"
        /\ \/ GiveUp(r) /\ UNCHANGED buffer
           \/ /\ buffer' = [buffer EXCEPT ![r[1]] = Append(@, NewEntry(r[2], TRUE))]
              /\ retrying' = [retrying EXCEPT ![r] = "waiting"]
              /\ inflight' = inflight
  BY DEF Backoff
<1>2. TypeOK /\ proc = "up" /\ UNCHANGED position /\ QueuesOrderly /\ CountedExactly
  BY DEF ProducerInv, Backoff, loopVars
<1>3. PICK p \in Partitions, o \in Offsets : r = <<p, o>>
  BY DEF Records
<1> DEFINE q == buffer[p]
           n == position[p]
<1>4. q \in Seq(Entries) /\ Orderly(p, q, retrying, n) /\ retrying \in Marks /\ n \in Nat
  BY <1>2, SourceAssumption DEF TypeOK, QueuesOrderly, Marks
<1>5. o \in Nat /\ <<p, o>> \in inflight
  BY <1>1, <1>2, <1>3, SourceAssumption DEF Offsets, CountedExactly
<1>6. buffer = [buffer EXCEPT ![p] = q]
  BY <1>2 DEF TypeOK
<1> HIDE DEF q, n
<1>7. ~Holds(q, o)
  <2> SUFFICES ASSUME NEW i \in DOMAIN q, q[i].off = o PROVE FALSE
    BY DEF Holds
  <2>1. retrying[<<p, o>>] \in {"waiting", "no"}
    BY <1>4 DEF Orderly, Marked
  <2> QED
    BY <1>1, <1>3, <2>1
<1>8. o < n
  <2>1. o >= n => retrying[<<p, o>>] = "no"
    BY <1>4 DEF Orderly, Unread
  <2> QED
    BY <1>1, <1>3, <1>4, <1>5, <2>1
<1>9. \A i \in DOMAIN q : ~q[i].retry => o < q[i].off
  BY <1>1, <1>3, <1>4 DEF Orderly, BackoffsBehind
<1>10. CASE GiveUp(r) /\ UNCHANGED buffer
  <2>1. /\ buffer' = [buffer EXCEPT ![p] = q]
        /\ retrying' = [retrying EXCEPT ![<<p, o>>] = "no"]
        /\ inflight' = inflight \ {<<p, o>>}
    BY <1>3, <1>6, <1>10 DEF GiveUp
  <2>2. Orderly(p, q, [retrying EXCEPT ![<<p, o>>] = "no"], n)
    <3> DEFINE m == [retrying EXCEPT ![<<p, o>>] = "no"]
    <3>1. \A x \in Offsets : m[<<p, x>>] = IF x = o THEN "no" ELSE retrying[<<p, x>>]
      BY <1>4 DEF Marks, Records
    <3>2. \A i \in DOMAIN q : q[i].off \in Offsets /\ q[i].off # o
      BY <1>4, <1>7, EntryFacts DEF Holds
    <3> HIDE DEF m
    <3>3. Marked(p, q, m)
      BY <1>4, <3>1, <3>2 DEF Orderly, Marked
    <3>4. Unread(p, q, m, n)
      BY <1>4, <3>1 DEF Orderly, Unread
    <3>5. BackoffsBehind(p, q, m)
      BY <1>4, <3>1 DEF Orderly, BackoffsBehind
    <3>6. Orderly(p, q, m, n)
      BY <1>4, <3>3, <3>4, <3>5 DEF Orderly
    <3> QED
      BY <3>6 DEF m
  <2>3. <<p, o>> \in inflight' <=> Holds(q, o) \/ "no" = "backoff"
    BY <1>7, <2>1
  <2>4. \A x \in Offsets : x # o => (Holds(q, x) <=> Holds(buffer[p], x))
    BY DEF q
  <2> QED
    BY <1>2, <1>4, <2>1, <2>2, <2>3, <2>4, ProducerLocal DEF n
<1>11. CASE /\ buffer' = [buffer EXCEPT ![r[1]] = Append(@, NewEntry(r[2], TRUE))]
            /\ retrying' = [retrying EXCEPT ![r] = "waiting"]
            /\ inflight' = inflight
  <2> DEFINE a == Append(q, NewEntry(o, TRUE))
  <2>1. /\ a \in Seq(Entries)
        /\ Orderly(p, a, [retrying EXCEPT ![<<p, o>>] = "waiting"], n)
        /\ \A x : Holds(a, x) <=> Holds(q, x) \/ x = o
    BY <1>4, <1>7, <1>8, <1>9, AppendKeeps
  <2>2. /\ buffer' = [buffer EXCEPT ![p] = a]
        /\ retrying' = [retrying EXCEPT ![<<p, o>>] = "waiting"]
        /\ inflight' = inflight
    BY <1>3, <1>11 DEF q
  <2> HIDE DEF a
  <2>3. <<p, o>> \in inflight' <=> Holds(a, o) \/ "waiting" = "backoff"
    BY <1>5, <2>1, <2>2
  <2>4. Orderly(p, a, [retrying EXCEPT ![<<p, o>>] = "waiting"], position[p])
    BY <2>1 DEF n
  <2>5. \A x \in Offsets : x # o => (Holds(a, x) <=> Holds(buffer[p], x))
    BY <2>1 DEF q
  <2> QED
    BY <1>2, <2>1, <2>2, <2>3, <2>4, <2>5, ProducerLocal
<1> QED
  BY <1>1, <1>10, <1>11

\* ProducerInv is inductive.
LEMMA ProducerStep == ProducerInv /\ [Next]_vars => ProducerInv'
<1> SUFFICES ASSUME ProducerInv, [Next]_vars PROVE ProducerInv'
  OBVIOUS
<1>0. TypeOK'
  BY TypeStep DEF ProducerInv
<1>1. CASE Start
  BY <1>0, <1>1, ProducerStart
<1>2. CASE PollAndProduce
  BY <1>0, <1>2, ProducerPoll
<1>3. CASE Broker
  BY <1>0, <1>3, ProducerBroker
<1>4. CASE Promise
  BY <1>0, <1>4, ProducerPromise
<1>5. CASE Backoff
  BY <1>0, <1>5, ProducerBackoff
<1>6. CASE \/ Crash \/ UpdateTopics \/ Select \/ PollNothing \/ FlushAndCheck \/ DrainAndSwap
           \/ Commit \/ SyncWritten \/ DLQProduced \/ StopBegin \/ StopEnd \/ UNCHANGED vars
  <2>1. UNCHANGED <<buffer, retrying, position, inflight>> /\ (proc' = "up" => proc = "up")
    BY <1>6 DEF Crash, UpdateTopics, Select, PollNothing, FlushAndCheck, DrainAndSwap, Commit,
                SyncWritten, DLQProduced, StopBegin, StopEnd, vars, procVars, loopVars, prodVars
  <2> QED
    BY <1>0, <2>1, ProducerFrame
<1> QED
  BY <1>1, <1>2, <1>3, <1>4, <1>5, <1>6 DEF Next

\* ProducerInv holds throughout.
LEMMA AlwaysProducerInv == Spec => []ProducerInv
<1>1. Init => ProducerInv
  <2>1. Init => proc # "up"
    BY DEF Init
  <2> QED
    BY <2>1, TypeInit DEF ProducerInv
<1> QED
  BY <1>1, ProducerStep, PTL DEF Spec

\* s.inflight counts exactly the records whose callback will still call Done, each
\* once, whatever first attempts, retries and backoffs are under way: inflight.Wait
\* returns neither too early nor never, and no Done is one too many.
THEOREM InflightExact == Spec => []InflightIsExact
<1>1. ProducerInv => InflightIsExact
  <2> SUFFICES ASSUME TypeOK, QueuesOrderly, CountedExactly
               PROVE  /\ inflight = Owed
                      /\ \A p \in Partitions : \A i, j \in DOMAIN buffer[p] :
                           /\ buffer[p][i].off = buffer[p][j].off => i = j
                           /\ retrying[<<p, buffer[p][i].off>>] =
                                  IF buffer[p][i].retry THEN "waiting" ELSE "no"
    BY DEF ProducerInv, InflightIsExact
  <2>1. \A r \in inflight : r \in Owed
    <3> SUFFICES ASSUME NEW r \in inflight PROVE r \in Owed
      OBVIOUS
    <3>1. PICK p \in Partitions, o \in Offsets : r = <<p, o>>
      BY DEF TypeOK, Records
    <3>2. CASE Holds(buffer[p], o)
      <4>1. PICK i \in DOMAIN buffer[p] : buffer[p][i].off = o
        BY <3>2 DEF Holds
      <4>2. r \in {<<p, buffer[p][k].off>> : k \in DOMAIN buffer[p]}
        BY <3>1, <4>1
      <4> QED
        BY <4>2 DEF Owed
    <3>3. CASE retrying[<<p, o>>] = "backoff"
      <4>1. r \in {s \in Records : retrying[s] = "backoff"}
        BY <3>1, <3>3 DEF Records
      <4> QED
        BY <4>1 DEF Owed
    <3> QED
      BY <3>1, <3>2, <3>3 DEF CountedExactly
  <2>2. \A r \in Owed : r \in inflight
    <3> SUFFICES ASSUME NEW r \in Owed PROVE r \in inflight
      OBVIOUS
    <3>1. CASE r \in Records /\ retrying[r] = "backoff"
      BY <3>1 DEF CountedExactly, Records
    <3>2. ASSUME NEW p \in Partitions, r \in {<<p, buffer[p][i].off>> : i \in DOMAIN buffer[p]}
          PROVE  r \in inflight
      <4>1. PICK i \in DOMAIN buffer[p] : r = <<p, buffer[p][i].off>>
        BY <3>2
      <4>2. buffer[p][i].off \in Offsets
        BY EntryFacts DEF TypeOK
      <4> QED
        BY <4>1, <4>2 DEF CountedExactly, Holds
    <3>3. \/ r \in UNION {{<<p, buffer[p][i].off>> : i \in DOMAIN buffer[p]} : p \in Partitions}
          \/ r \in {s \in Records : retrying[s] = "backoff"}
      BY DEF Owed
    <3>4. \/ \E p \in Partitions : r \in {<<p, buffer[p][i].off>> : i \in DOMAIN buffer[p]}
          \/ r \in Records /\ retrying[r] = "backoff"
      BY <3>3
    <3> QED
      BY <3>1, <3>2, <3>4
  <2>3. inflight = Owed
    BY <2>1, <2>2
  <2> QED
    BY <2>3 DEF QueuesOrderly, Orderly, HeldOnce, Marked
<1> QED
  BY <1>1, AlwaysProducerInv, PTL

(***************************************************************************)
(* Offset syncs.                                                           *)
(***************************************************************************)

\* Offset at of the target partition p is a copy of source record o.
CopyAt(p, o, at) == at + 1 \in DOMAIN target[p] /\ target[p][at + 1] = o

\* An acknowledgement in a producer queue carries the offset of the copy it is about.
AckedAtCopy ==
    \A p \in Partitions : \A i \in DOMAIN buffer[p] :
        buffer[p][i].res = "ok" => CopyAt(p, buffer[p][i].off, buffer[p][i].at)

AllSyncs == syncTopic \cup syncWrites \cup {lastSync[p] : p \in Partitions}

SyncInv == TypeOK /\ AckedAtCopy /\ SyncsPointAtCopies

\* The targets only grow: what is at an offset stays there.
LEMMA CopyStays ==
    ASSUME TypeOK, [Next]_vars, NEW p \in Partitions, NEW o, NEW at, CopyAt(p, o, at)
    PROVE  CopyAt(p, o, at)'
<1>1. CASE UNCHANGED target
  BY <1>1 DEF CopyAt
<1>2. CASE Broker
  <2>0. PICK q \in Partitions : \E i \in DOMAIN buffer[q] :
          target' = target \/ target' = [target EXCEPT ![q] = Append(target[q], buffer[q][i].off)]
    BY <1>2, BrokerEffect
  <2>1. PICK i \in DOMAIN buffer[q] :
          target' = target \/ target' = [target EXCEPT ![q] = Append(target[q], buffer[q][i].off)]
    BY <2>0
  <2>2. buffer[q][i].off \in Offsets /\ target[p] \in Seq(Offsets)
    BY EntryFacts DEF TypeOK
  <2>3. target'[p] = target[p] \/ target'[p] = Append(target[p], buffer[q][i].off)
    BY <2>1 DEF TypeOK
  <2>4. at + 1 \in DOMAIN target'[p] /\ target'[p][at + 1] = o
    BY <2>2, <2>3, AppendProperties, LenProperties DEF CopyAt
  <2> QED
    BY <2>4 DEF CopyAt
<1>3. Broker \/ UNCHANGED target
  BY DEF Next, vars, clusterVars, Start, Crash, UpdateTopics, Select, PollNothing,
         PollAndProduce, FlushAndCheck, DrainAndSwap, Commit, Promise, Backoff,
         SyncWritten, DLQProduced, StopBegin, StopEnd
<1> QED
  BY <1>1, <1>2, <1>3

\* The entries of a queue after a step that is not the broker's: they were there, or
\* they are not settled yet, and retries or records the consumer had not returned.
LEMMA EntryOrigin ==
    ASSUME TypeOK, [Next]_vars, ~Broker, NEW p \in Partitions, NEW i \in DOMAIN buffer'[p]
    PROVE  \/ \E j \in DOMAIN buffer[p] : buffer'[p][i] = buffer[p][j]
           \/ /\ buffer'[p][i].res = "sent"
              /\ buffer'[p][i].retry \/ position[p] <= buffer'[p][i].off
<1>0. buffer \in [Partitions -> Seq(Entries)] /\ buffer[p] \in Seq(Entries)
  BY DEF TypeOK
<1>1. CASE UNCHANGED buffer
  BY <1>1
<1>2. CASE Start
  <2>1. buffer'[p] = <<>>
    BY <1>2 DEF Start
  <2> QED
    BY <2>1
<1>3. CASE PollAndProduce
  <2>1. PICK next \in [Partitions -> 0 .. LogEnd] :
          /\ \A q \in Partitions : next[q] \in position[q] .. position[q] + MaxPoll
          /\ buffer' = [q \in Partitions |-> buffer[q] \o Batch(q, next)]
    BY <1>3 DEF PollAndProduce
  <2> DEFINE b == Batch(p, next)
  <2>2. position[p] <= next[p]
    BY <2>1, SourceAssumption DEF TypeOK
  <2>3. /\ b \in Seq(Entries)
        /\ \A k \in DOMAIN b : b[k].res = "sent" /\ position[p] <= b[k].off
    <3>1. b \in Seq(Entries)
      BY <2>2, PolledEntries DEF Batch
    <3>2. position[p] \in Int
      BY SourceAssumption DEF TypeOK
    <3> QED
      BY <3>1, <3>2 DEF Batch, NewEntry
  <2>4. buffer'[p] = buffer[p] \o b
    BY <2>1
  <2> HIDE DEF b
  <2>5. \/ i \in DOMAIN buffer[p] /\ buffer'[p][i] = buffer[p][i]
        \/ i - Len(buffer[p]) \in DOMAIN b /\ buffer'[p][i] = b[i - Len(buffer[p])]
    BY <1>0, <2>3, <2>4, ConcatProperties, LenProperties
  <2> QED
    BY <2>3, <2>5
<1>4. CASE Promise
  <2>1. PICK q \in Partitions :
          /\ buffer[q] # <<>>
          /\ Acked(q) \/ FirstFailed(q) \/ RetryAcked(q) \/ RetryFailed(q)
    BY <1>4 DEF Promise
  <2> DEFINE t == Tail(buffer[q])
             o == Head(buffer[q]).off
  <2>2. /\ p # q => buffer'[p] = buffer[p]
        /\ buffer'[q] = t \/ buffer'[q] = Append(t, NewEntry(o, TRUE))
    BY <2>1, PromiseEffect
  <2>3. /\ t \in Seq(Entries) /\ o \in Offsets
        /\ \A j \in DOMAIN t : j + 1 \in DOMAIN buffer[q] /\ t[j] = buffer[q][j + 1]
    BY <2>1, HeadFacts DEF Entries
  <2> HIDE DEF t, o
  <2>4. CASE p # q
    BY <2>2, <2>4
  <2>5. CASE p = q
    <3>1. (i \in DOMAIN t /\ buffer'[p][i] = t[i]) \/ buffer'[p][i] = NewEntry(o, TRUE)
      BY <2>2, <2>3, <2>5, AppendNew
    <3>2. NewEntry(o, TRUE).res = "sent" /\ NewEntry(o, TRUE).retry
      BY DEF NewEntry
    <3> QED
      BY <2>3, <2>5, <3>1, <3>2
  <2> QED
    BY <2>4, <2>5
<1>5. CASE Backoff
  <2>1. PICK r \in Records :
          \/ UNCHANGED buffer
          \/ buffer' = [buffer EXCEPT ![r[1]] = Append(buffer[r[1]], NewEntry(r[2], TRUE))]
    BY <1>5 DEF Backoff
  <2>2. PICK q \in Partitions, o \in Offsets : r = <<q, o>>
    BY DEF Records
  <2>3. CASE buffer'[p] = buffer[p]
    BY <2>3
  <2>4. CASE buffer'[p] = Append(buffer[p], NewEntry(o, TRUE))
    <3>1. i \in DOMAIN Append(buffer[p], NewEntry(o, TRUE))
      BY <2>4
    <3>2. (i \in DOMAIN buffer[p] /\ buffer'[p][i] = buffer[p][i])
            \/ buffer'[p][i] = NewEntry(o, TRUE)
      BY <1>0, <2>4, <3>1, AppendNew
    <3>3. NewEntry(o, TRUE).res = "sent" /\ NewEntry(o, TRUE).retry
      BY DEF NewEntry
    <3> QED
      BY <3>2, <3>3
  <2> QED
    BY <1>0, <2>1, <2>2, <2>3, <2>4
<1>6. UNCHANGED buffer \/ Start \/ PollAndProduce \/ Promise \/ Backoff
  BY DEF Next, vars, prodVars, Crash, UpdateTopics, Select, PollNothing, FlushAndCheck,
         DrainAndSwap, Commit, SyncWritten, DLQProduced, StopBegin, StopEnd
<1> QED
  BY <1>1, <1>2, <1>3, <1>4, <1>5, <1>6

\* A sync is made of an acknowledgement at the head of a queue, and moved on from there.
LEMMA SyncOrigin ==
    ASSUME TypeOK, [Next]_vars, NEW s \in AllSyncs'
    PROVE  \/ s \in AllSyncs
           \/ s = NoSync
           \/ \E p \in Partitions : \E i \in DOMAIN buffer[p] :
                /\ buffer[p][i].res = "ok"
                /\ s = [part |-> p, up |-> buffer[p][i].off, down |-> buffer[p][i].at]
<1>1. CASE UNCHANGED <<syncTopic, syncWrites, lastSync>>
  BY <1>1 DEF AllSyncs
<1>2. CASE Start
  BY <1>2 DEF Start, clusterVars, AllSyncs
<1>3. CASE SyncWritten
  BY <1>3 DEF SyncWritten, AllSyncs
<1>4. CASE Promise
  <2>1. PICK p \in Partitions :
          /\ buffer[p] # <<>>
          /\ Acked(p) \/ FirstFailed(p) \/ RetryAcked(p) \/ RetryFailed(p)
    BY <1>4 DEF Promise
  <2> DEFINE e == Head(buffer[p])
             new == [part |-> p, up |-> e.off, down |-> e.at]
  <2>2. 1 \in DOMAIN buffer[p] /\ e = buffer[p][1]
    BY <2>1, HeadFacts
  <2>3. lastSync \in [Partitions -> Syncs \cup {NoSync}] /\ UNCHANGED syncTopic
    BY <1>4 DEF TypeOK, Promise, clusterVars
  <2>4. \/ UNCHANGED <<syncWrites, lastSync>>
        \/ /\ e.res = "ok"
           /\ lastSync' = [lastSync EXCEPT ![p] = new]
           /\ syncWrites' = syncWrites \/ syncWrites' = syncWrites \cup {new}
    BY <2>1 DEF Acked, FirstFailed, RetryAcked, RetryFailed, HandleSync, CountSync
  <2> HIDE DEF e, new
  <2>5. CASE UNCHANGED <<syncWrites, lastSync>>
    BY <2>3, <2>5 DEF AllSyncs
  <2>6. CASE /\ e.res = "ok"
             /\ lastSync' = [lastSync EXCEPT ![p] = new]
             /\ syncWrites' = syncWrites \/ syncWrites' = syncWrites \cup {new}
    <3>1. s \in AllSyncs \/ s = new
      BY <2>3, <2>6 DEF AllSyncs
    <3> QED
      BY <2>2, <2>6, <3>1 DEF new
  <2> QED
    BY <2>4, <2>5, <2>6
<1>5. UNCHANGED <<syncTopic, syncWrites, lastSync>> \/ Start \/ SyncWritten \/ Promise
  BY DEF Next, vars, clusterVars, prodVars, Crash, UpdateTopics, Select, PollNothing,
         PollAndProduce, FlushAndCheck, DrainAndSwap, Commit, Broker, Backoff, DLQProduced,
         StopBegin, StopEnd
<1> QED
  BY <1>1, <1>2, <1>3, <1>4, <1>5

\* SyncInv is inductive.
LEMMA SyncInvStep == SyncInv /\ [Next]_vars => SyncInv'
<1> SUFFICES ASSUME SyncInv, [Next]_vars PROVE SyncInv'
  OBVIOUS
<1>0. TypeOK /\ TypeOK' /\ AckedAtCopy /\ SyncsPointAtCopies
  BY TypeStep DEF SyncInv
<1>1. AckedAtCopy'
  <2> SUFFICES ASSUME NEW p \in Partitions, NEW i \in DOMAIN buffer'[p], buffer'[p][i].res = "ok"
               PROVE  CopyAt(p, buffer[p][i].off, buffer[p][i].at)'
    BY DEF AckedAtCopy
  <2>1. ASSUME NEW j \in DOMAIN buffer[p], buffer'[p][i] = buffer[p][j]
        PROVE  CopyAt(p, buffer[p][i].off, buffer[p][i].at)'
    <3>1. PICK o, at : o = buffer[p][j].off /\ at = buffer[p][j].at
      OBVIOUS
    <3>2. CopyAt(p, o, at)
      BY <1>0, <2>1, <3>1 DEF AckedAtCopy
    <3>3. CopyAt(p, o, at)'
      BY <1>0, <3>2, CopyStays
    <3> QED
      BY <2>1, <3>1, <3>3
  <2>2. CASE ~Broker
    <3>1. \E j \in DOMAIN buffer[p] : buffer'[p][i] = buffer[p][j]
      BY <1>0, <2>2, EntryOrigin
    <3> QED
      BY <2>1, <3>1
  <2>3. CASE Broker
    <3>1. PICK q \in Partitions : \E k \in DOMAIN buffer[q] :
            \E res \in {"ok", "err"} : \E at \in Nat :
              /\ buffer' = [buffer EXCEPT ![q] = Settle(buffer[q], k, res, at)]
              /\ \/ /\ target' = [target EXCEPT ![q] = Append(target[q], buffer[q][k].off)]
                    /\ at = Len(target[q])
                 \/ target' = target /\ res = "err"
      BY <1>0, <2>3, BrokerEffect
    <3>2. PICK k \in DOMAIN buffer[q], res \in {"ok", "err"}, at \in Nat :
              /\ buffer' = [buffer EXCEPT ![q] = Settle(buffer[q], k, res, at)]
              /\ \/ /\ target' = [target EXCEPT ![q] = Append(target[q], buffer[q][k].off)]
                    /\ at = Len(target[q])
                 \/ target' = target /\ res = "err"
      BY <3>1
    <3>3. CASE p # q
      <4>1. buffer'[p] = buffer[p]
        BY <1>0, <3>2, <3>3 DEF TypeOK
      <4> QED
        BY <2>1, <4>1
    <3>4. CASE p = q
      <4> DEFINE b == buffer[p]
                 o == b[k].off
      <4>1. b \in Seq(Entries) /\ \A j \in DOMAIN b : b[j] \in Entries
        BY <1>0, EntryFacts DEF TypeOK
      <4>2. buffer'[p] = Settle(b, k, res, at) /\ k \in DOMAIN b
        BY <1>0, <3>2, <3>4 DEF TypeOK
      <4>3. /\ DOMAIN buffer'[p] = DOMAIN b
            /\ \A j \in DOMAIN b : j # k => buffer'[p][j] = b[j]
            /\ buffer'[p][k].off = o /\ buffer'[p][k].res = res /\ buffer'[p][k].at = at
        BY <4>1, <4>2 DEF Settle, Entries
      <4>4. CASE i # k
        BY <2>1, <4>3, <4>4
      <4>5. CASE i = k
        <5>1. target' = [target EXCEPT ![p] = Append(target[p], o)] /\ at = Len(target[p])
          BY <3>2, <3>4, <4>3, <4>5
        <5>2. o \in Offsets /\ target[p] \in Seq(Offsets) /\ target'[p] = Append(target[p], o)
          BY <1>0, <4>1, <4>2, <5>1 DEF TypeOK, Entries
        <5> HIDE DEF o, b
        <5>3. at + 1 \in DOMAIN target'[p] /\ target'[p][at + 1] = o
          BY <5>1, <5>2, AppendProperties, LenProperties
        <5> QED
          BY <4>3, <4>5, <5>3 DEF CopyAt
      <4> QED
        BY <4>4, <4>5
    <3> QED
      BY <3>3, <3>4
  <2> QED
    BY <2>2, <2>3
<1>2. SyncsPointAtCopies'
  <2> SUFFICES ASSUME NEW s \in AllSyncs', s # NoSync
               PROVE  CopyAt(s.part, s.up, s.down)'
    BY DEF SyncsPointAtCopies, AllSyncs, CopyAt
  <2>1. s.part \in Partitions
    BY <1>0 DEF TypeOK, AllSyncs, Syncs
  <2>2. CopyAt(s.part, s.up, s.down)
    <3>1. CASE s \in AllSyncs
      BY <1>0, <3>1 DEF SyncsPointAtCopies, AllSyncs, CopyAt
    <3>2. ASSUME NEW p \in Partitions, NEW i \in DOMAIN buffer[p], buffer[p][i].res = "ok",
                 s = [part |-> p, up |-> buffer[p][i].off, down |-> buffer[p][i].at]
          PROVE  CopyAt(s.part, s.up, s.down)
      BY <1>0, <3>2 DEF AckedAtCopy
    <3> QED
      BY <1>0, <3>1, <3>2, SyncOrigin
  <2> QED
    BY <1>0, <2>1, <2>2, CopyStays
<1> QED
  BY <1>0, <1>1, <1>2 DEF SyncInv

\* Every offset sync, in the store, being written or in the topic, names a copy of
\* exactly its source record, for any interleaving of acknowledgements, retries,
\* lost answers, duplicates and restarts.
THEOREM SyncsAreTrue == Spec => []SyncsPointAtCopies
<1>1. Init => SyncInv
  <2> SUFFICES ASSUME Init PROVE SyncInv
    OBVIOUS
  <2>1. AckedAtCopy
    BY DEF Init, AckedAtCopy
  <2>2. \A p \in Partitions : lastSync[p] = NoSync
    BY DEF Init
  <2>3. SyncsPointAtCopies
    BY <2>2 DEF Init, SyncsPointAtCopies
  <2> QED
    BY <2>1, <2>3, TypeInit DEF SyncInv
<1>2. SyncInv => SyncsPointAtCopies
  BY DEF SyncInv
<1> QED
  BY <1>1, <1>2, SyncInvStep, PTL DEF Spec

(***************************************************************************)
(* The refinement of Mirror.                                               *)
(***************************************************************************)

\* What is in flight is not committed.
InflightUncommitted == proc = "up" => \A r \in inflight : committed[r[1]] <= r[2]

\* A record may only be given up before it is committed: that takes what makes a
\* commit safe, what s.inflight counts, and how the two are related.
MirrorInv == SettledInv /\ ProducerInv /\ InflightUncommitted

\* MirrorInv is inductive.
LEMMA MirrorInvStep == MirrorInv /\ [Next]_vars => MirrorInv'
<1> SUFFICES ASSUME MirrorInv, [Next]_vars PROVE MirrorInv'
  OBVIOUS
<1>0. SettledInv' /\ ProducerInv'
  BY SettledStep, ProducerStep DEF MirrorInv
<1>1. TypeOK /\ SettledInv /\ InflightUncommitted
  BY DEF MirrorInv, SettledInv
<1>2. CASE Start
  BY <1>0, <1>2 DEF Start, MirrorInv, InflightUncommitted
<1>3. CASE PollAndProduce
  <2>1. PICK next \in [Partitions -> 0 .. LogEnd] : inflight' = inflight \cup Polled(next)
    BY <1>3 DEF PollAndProduce
  <2>2. proc = "up" /\ UNCHANGED committed
    BY <1>3 DEF PollAndProduce, clusterVars
  <2> SUFFICES ASSUME NEW r \in inflight' PROVE committed[r[1]] <= r[2]
    BY <1>0, <2>2 DEF MirrorInv, InflightUncommitted
  <2>3. CASE r \in inflight
    BY <1>1, <2>2, <2>3 DEF InflightUncommitted
  <2>4. CASE r \in Polled(next)
    <3>1. r[1] \in Partitions /\ r[2] \in Nat /\ position[r[1]] <= r[2]
      BY <2>4, SourceAssumption DEF Polled, Records, Offsets
    <3>2. /\ committed[r[1]] <= position[r[1]]
          /\ committed[r[1]] \in Int /\ position[r[1]] \in Int
      BY <1>1, <2>2, <3>1, SourceAssumption DEF SettledInv, NeverBehind, TypeOK
    <3> QED
      BY <3>1, <3>2
  <2> QED
    BY <2>1, <2>3, <2>4
<1>4. CASE Commit \/ StopEnd
  <2>1. inflight' = inflight /\ inflight = {}
    BY <1>1, <1>4 DEF Commit, StopEnd, Drained, SettledInv, QuietAtCommit, prodVars
  <2> QED
    BY <1>0, <2>1 DEF MirrorInv, InflightUncommitted
<1>5. CASE Promise
  <2>1. PICK p \in Partitions :
          /\ buffer[p] # <<>>
          /\ Acked(p) \/ FirstFailed(p) \/ RetryAcked(p) \/ RetryFailed(p)
    BY <1>5 DEF Promise
  <2>2. inflight' \subseteq inflight
    BY <1>1, <2>1, PromiseEffect
  <2>3. UNCHANGED <<committed, proc>>
    BY <1>5 DEF Promise, clusterVars, procVars
  <2> QED
    BY <1>0, <1>1, <2>2, <2>3 DEF MirrorInv, InflightUncommitted
<1>6. CASE ~(Start \/ PollAndProduce \/ Commit \/ StopEnd \/ Promise)
  <2>1. /\ inflight' \subseteq inflight /\ committed' = committed
        /\ proc' = "up" => proc = "up"
    BY <1>6 DEF Next, vars, clusterVars, procVars, prodVars, Crash, UpdateTopics, Select,
                PollNothing, FlushAndCheck, DrainAndSwap, Broker, Backoff, GiveUp, SyncWritten,
                DLQProduced, StopBegin
  <2> QED
    BY <1>0, <1>1, <2>1 DEF MirrorInv, InflightUncommitted
<1> QED
  BY <1>0, <1>2, <1>3, <1>4, <1>5, <1>6 DEF MirrorInv

\* The records with a copy on the target, as the refinement maps them.
Copied == {r \in Records : OnTarget(r[1], r[2])}

\* A record that is given up was in flight, so it is not committed.
LEMMA GiveUpAbandons ==
    ASSUME MirrorInv, proc = "up", NEW r \in Records, r \in inflight, GiveUp(r),
           UNCHANGED <<committed, target>>
    PROVE  Abstract!Abandon
<1>1. committed[r[1]] <= r[2] /\ gaveUp' = gaveUp \cup {r}
  BY DEF MirrorInv, InflightUncommitted, GiveUp
<1>2. r \in Abstract!Records /\ r[2] >= committed[r[1]]
  BY <1>1, SourceAssumption DEF Abstract!Records, Records, Offsets, MirrorInv, SettledInv, TypeOK
<1>3. UNCHANGED Copied
  BY DEF Copied, OnTarget
<1> QED
  BY <1>1, <1>2, <1>3 DEF Abstract!Abandon, Copied

\* A step that leaves committed offsets, targets and given-up records alone is a stutter.
LEMMA MirrorStutters ==
    ASSUME UNCHANGED <<committed, target, gaveUp>>
    PROVE  UNCHANGED Abstract!mirrorVars
BY DEF Abstract!mirrorVars, OnTarget

\* A commit, of the loop or of Stop, advances over settled records.
LEMMA CommitAdvances ==
    ASSUME MirrorInv, MirrorInv', proc = "up", committed' \in {committed, position},
           UNCHANGED <<target, gaveUp>>
    PROVE  Abstract!Advance
<1>1. TypeOK /\ TypeOK' /\ NeverBehind /\ CommittedIsSettled'
  BY DEF MirrorInv, SettledInv
<1>2. committed' \in [Partitions -> 0 .. LogEnd]
  BY <1>1 DEF TypeOK
<1>3. \A p \in Partitions : committed[p] <= committed'[p]
  BY <1>1, SourceAssumption DEF TypeOK, NeverBehind
<1>4. ASSUME NEW p \in Partitions, NEW o \in 0 .. committed'[p] - 1
      PROVE  <<p, o>> \in Copied \cup gaveUp
  <2>1. OnTarget(p, o)' \/ <<p, o>> \in gaveUp
    BY <1>1 DEF CommittedIsSettled
  <2>2. OnTarget(p, o)' <=> OnTarget(p, o)
    BY DEF OnTarget
  <2>3. <<p, o>> \in Records
    BY <1>2, SourceAssumption DEF Records, Offsets
  <2> QED
    BY <2>1, <2>2, <2>3 DEF Copied
<1>5. UNCHANGED Copied
  BY DEF Copied, OnTarget
<1> QED
  BY <1>2, <1>3, <1>4, <1>5 DEF Abstract!Advance, Copied

\* A broker step copies one record, or changes nothing the mirror speaks of.
LEMMA BrokerCopies ==
    ASSUME TypeOK, [Next]_vars, Broker
    PROVE  Abstract!Copy \/ UNCHANGED Abstract!mirrorVars
<1>0. PICK p \in Partitions : \E i \in DOMAIN buffer[p] :
        target' = target \/ target' = [target EXCEPT ![p] = Append(target[p], buffer[p][i].off)]
  BY BrokerEffect
<1>1. PICK i \in DOMAIN buffer[p] :
        target' = target \/ target' = [target EXCEPT ![p] = Append(target[p], buffer[p][i].off)]
  BY <1>0
<1>2. UNCHANGED <<committed, gaveUp>>
  BY DEF Broker
<1>3. CASE target' = target
  BY <1>2, <1>3, MirrorStutters
<1>4. CASE target' = [target EXCEPT ![p] = Append(target[p], buffer[p][i].off)]
  <2> DEFINE o == buffer[p][i].off
             log == Append(target[p], o)
  <2>1. o \in Offsets /\ target[p] \in Seq(Offsets)
    BY EntryFacts DEF TypeOK
  <2>2. \A q \in Partitions : target'[q] = IF q = p THEN log ELSE target[q]
    BY <1>4 DEF TypeOK
  <2> HIDE DEF o
  <2>3. /\ DOMAIN target[p] = 1 .. Len(target[p]) /\ Len(target[p]) \in Nat
        /\ DOMAIN log = 1 .. Len(target[p]) + 1
        /\ \A k \in 1 .. Len(target[p]) : log[k] = target[p][k]
        /\ log[Len(target[p]) + 1] = o
    BY <2>1, AppendProperties, LenProperties
  <2> HIDE DEF log
  <2>4. \A x : OnTarget(p, x)' <=> OnTarget(p, x) \/ x = o
    <3> TAKE x
    <3>1. OnTarget(p, x)' <=> \E k \in DOMAIN log : log[k] = x
      BY <2>2 DEF OnTarget
    <3>2. (\E k \in DOMAIN log : log[k] = x) <=> OnTarget(p, x) \/ x = o
      BY <2>3 DEF OnTarget
    <3> QED
      BY <3>1, <3>2
  <2>5. \A q \in Partitions : q # p => \A x : OnTarget(q, x)' <=> OnTarget(q, x)
    BY <2>2 DEF OnTarget
  <2>6. <<p, o>> \in Records
    BY <2>1 DEF Records
  <2>7. \A r \in Records : r \in Copied' <=> r \in Copied \cup {<<p, o>>}
    BY <2>4, <2>5 DEF Copied, Records
  <2>8. Copied' = Copied \cup {<<p, o>>}
    BY <2>6, <2>7 DEF Copied
  <2>9. <<p, o>> \in Abstract!Records
    BY <2>6 DEF Abstract!Records, Records, Offsets
  <2> QED
    BY <1>2, <2>8, <2>9 DEF Abstract!Copy, Copied
<1> QED
  BY <1>1, <1>3, <1>4

\* Each step of the replicator is a step of the mirror or a stutter.
LEMMA MirrorStep ==
    ASSUME MirrorInv, MirrorInv', [Next]_vars
    PROVE  [Abstract!Next]_Abstract!mirrorVars
<1>0. TypeOK /\ ProducerInv
  BY DEF MirrorInv, ProducerInv
<1>1. CASE Start
  <2>1. /\ gaveUp' = {r \in gaveUp : r[2] < committed[r[1]]}
        /\ UNCHANGED <<committed, target>>
    BY <1>1 DEF Start, clusterVars
  <2>2. Abstract!Restart
    BY <2>1 DEF Abstract!Restart, OnTarget
  <2> QED
    BY <2>2 DEF Abstract!Next
<1>2. CASE Commit \/ StopEnd
  <2>1. /\ proc = "up" /\ committed' \in {committed, position}
        /\ UNCHANGED <<target, gaveUp>>
    BY <1>2 DEF Commit, StopEnd, prodVars
  <2> QED
    BY <2>1, CommitAdvances DEF Abstract!Next
<1>3. CASE Broker
  BY <1>0, <1>3, BrokerCopies DEF Abstract!Next
<1>4. CASE Promise
  <2>1. PICK p \in Partitions :
          /\ buffer[p] # <<>>
          /\ Acked(p) \/ FirstFailed(p) \/ RetryAcked(p) \/ RetryFailed(p)
    BY <1>4 DEF Promise
  <2> DEFINE o == Head(buffer[p]).off
             r == <<p, o>>
  <2>2. proc = "up" /\ UNCHANGED <<committed, target>>
    BY <1>4 DEF Promise, clusterVars
  <2>3. r \in Records /\ 1 \in DOMAIN buffer[p] /\ Head(buffer[p]) = buffer[p][1]
    BY <1>0, <2>1, HeadFacts
  <2>4. r \in inflight
    BY <1>0, <2>2, <2>3 DEF ProducerInv, CountedExactly, Holds, Records
  <2>5. gaveUp' = gaveUp \/ GiveUp(r)
    BY <2>1 DEF Acked, FirstFailed, RetryAcked, RetryFailed
  <2> HIDE DEF r, o
  <2>6. CASE gaveUp' = gaveUp
    BY <2>2, <2>6, MirrorStutters
  <2>7. CASE GiveUp(r)
    BY <2>2, <2>3, <2>4, <2>7, GiveUpAbandons DEF Abstract!Next
  <2> QED
    BY <2>5, <2>6, <2>7
<1>5. CASE Backoff
  <2>1. PICK r \in Records : retrying[r] = "backoff" /\ (gaveUp' = gaveUp \/ GiveUp(r))
    BY <1>5 DEF Backoff
  <2>2. proc = "up" /\ UNCHANGED <<committed, target>>
    BY <1>5 DEF Backoff, clusterVars
  <2>3. r \in inflight
    BY <1>0, <2>1, <2>2 DEF ProducerInv, CountedExactly, Records
  <2>4. CASE gaveUp' = gaveUp
    BY <2>2, <2>4, MirrorStutters
  <2>5. CASE GiveUp(r)
    BY <2>2, <2>3, <2>5, GiveUpAbandons DEF Abstract!Next
  <2> QED
    BY <2>1, <2>4, <2>5
<1>6. CASE \/ Crash \/ UpdateTopics \/ Select \/ PollNothing \/ PollAndProduce
           \/ FlushAndCheck \/ DrainAndSwap \/ SyncWritten \/ DLQProduced \/ StopBegin
           \/ UNCHANGED vars
  <2>1. UNCHANGED <<committed, target, gaveUp>>
    BY <1>6 DEF Crash, UpdateTopics, Select, PollNothing, PollAndProduce, FlushAndCheck,
                DrainAndSwap, SyncWritten, DLQProduced, StopBegin, vars, clusterVars, prodVars
  <2> QED
    BY <2>1, MirrorStutters
<1> QED
  BY <1>1, <1>2, <1>3, <1>4, <1>5, <1>6 DEF Next

\* The replicator implements the abstract mirror, for any number of partitions,
\* records, retries and restarts: a record is given up only before it is committed,
\* and the committed offsets advance only over records copied or given up.
THEOREM RefinesMirror == Spec => ImplementsMirror
<1>1. Init => Abstract!Init
  <2> SUFFICES ASSUME Init PROVE Abstract!Init
    OBVIOUS
  <2>1. \A p \in Partitions : target[p] = <<>>
    BY DEF Init
  <2>2. Copied = {}
    BY <2>1 DEF Copied, OnTarget, Records
  <2> QED
    BY <2>2 DEF Init, Abstract!Init, Copied
<1>2. Init => MirrorInv
  <2>1. Init => InflightUncommitted /\ proc # "up"
    BY DEF Init, InflightUncommitted
  <2> QED
    BY <2>1, SettledInit, TypeInit DEF MirrorInv, ProducerInv
<1>3. MirrorInv /\ MirrorInv' /\ [Next]_vars => [Abstract!Next]_Abstract!mirrorVars
  BY MirrorStep
<1> QED
  BY <1>1, <1>2, <1>3, MirrorInvStep, PTL DEF Spec, ImplementsMirror, Abstract!Spec

(***************************************************************************)
(* Order on the target.                                                    *)
(***************************************************************************)

\* In the first process, first attempts that the broker has not settled are ahead
\* of everything on the target, and so is what the consumer has yet to return.
FirstsAhead ==
    proc = "up" /\ starts = 1 => \A p \in Partitions : \A k \in DOMAIN target[p] :
        /\ target[p][k] < position[p]
        /\ \A i \in DOMAIN buffer[p] : ~buffer[p][i].retry /\ buffer[p][i].res = "sent"
                                          => target[p][k] < buffer[p][i].off

\* Before the first process nothing runs and nothing is on the target.
NothingYet == starts = 0 => proc # "up" /\ \A p \in Partitions : target[p] = <<>>

OrderInv == ProducerInv /\ FirstsAhead /\ NothingYet

\* What the broker writes is ahead of no unsettled first attempt.
LEMMA WritesInOrder ==
    ASSUME ProducerInv, proc = "up", NEW p \in Partitions, NEW i \in DOMAIN buffer[p],
           Unsettled(p, i)
    PROVE  /\ buffer[p][i].off \in Offsets
           /\ buffer[p][i].off < position[p]
           /\ \A j \in DOMAIN buffer[p] :
                j # i /\ ~buffer[p][j].retry /\ buffer[p][j].res = "sent"
                  => buffer[p][i].off < buffer[p][j].off
<1> DEFINE q == buffer[p]
<1>1. q \in Seq(Entries) /\ Orderly(p, q, retrying, position[p]) /\ position[p] \in Nat
  BY SourceAssumption DEF ProducerInv, TypeOK, QueuesOrderly
<1>2. q[i].res = "sent" /\ \A j \in 1 .. i - 1 : q[j].res # "sent"
  BY DEF Unsettled
<1> HIDE DEF q
<1>3. i \in DOMAIN q
  BY DEF q
<1>4. \A j \in DOMAIN q : j \in Nat \ {0} /\ q[j].off \in Offsets /\ q[j].off \in Nat
  BY <1>1, EntryFacts, LenProperties
<1>5. q[i].off < position[p]
  <2>1. Holds(q, q[i].off)
    BY <1>3 DEF Holds
  <2>2. ~(q[i].off >= position[p])
    BY <1>1, <1>3, <1>4, <2>1 DEF Orderly, Unread
  <2> QED
    BY <1>1, <1>3, <1>4, <2>2
<1>6. ASSUME NEW j \in DOMAIN q, j # i, ~q[j].retry, q[j].res = "sent"
      PROVE  q[i].off < q[j].off
  <2>1. i < j
    BY <1>2, <1>3, <1>4, <1>6
  <2> QED
    BY <1>1, <1>3, <1>6, <2>1 DEF Orderly, FirstsAscend
<1> QED
  BY <1>3, <1>4, <1>5, <1>6 DEF q

\* OrderInv is inductive.
LEMMA OrderInvStep == OrderInv /\ [Next]_vars => OrderInv'
<1> SUFFICES ASSUME OrderInv, [Next]_vars PROVE OrderInv'
  OBVIOUS
<1>0. ProducerInv /\ ProducerInv' /\ TypeOK /\ FirstsAhead /\ NothingYet
  BY ProducerStep DEF OrderInv, ProducerInv
<1>1. CASE Start
  <2>1. proc' = "up" /\ starts' = starts + 1 /\ UNCHANGED target /\ starts \in Nat
    BY <1>0, <1>1, SourceAssumption DEF Start, clusterVars, TypeOK
  <2>2. NothingYet'
    BY <2>1 DEF NothingYet
  <2>3. FirstsAhead'
    <3> SUFFICES ASSUME starts' = 1, NEW p \in Partitions, NEW k \in DOMAIN target[p]
                 PROVE  FALSE
      BY <2>1 DEF FirstsAhead
    <3>1. target[p] = <<>>
      BY <1>0, <2>1 DEF NothingYet
    <3> QED
      BY <3>1
  <2> QED
    BY <1>0, <2>2, <2>3 DEF OrderInv
<1>2. CASE Broker
  <2>0. PICK p \in Partitions : \E i \in DOMAIN buffer[p] :
          \E res \in {"ok", "err"} : \E at \in Nat :
            /\ Unsettled(p, i)
            /\ buffer' = [buffer EXCEPT ![p] = Settle(buffer[p], i, res, at)]
            /\ \/ target' = [target EXCEPT ![p] = Append(target[p], buffer[p][i].off)]
               \/ target' = target
    BY <1>0, <1>2, BrokerEffect
  <2>1. PICK i \in DOMAIN buffer[p], res \in {"ok", "err"}, at \in Nat :
            /\ Unsettled(p, i)
            /\ buffer' = [buffer EXCEPT ![p] = Settle(buffer[p], i, res, at)]
            /\ \/ target' = [target EXCEPT ![p] = Append(target[p], buffer[p][i].off)]
               \/ target' = target
    BY <2>0
  <2>2. proc = "up" /\ proc' = "up" /\ starts' = starts /\ position' = position
    BY <1>2 DEF Broker, procVars, loopVars
  <2>3. NothingYet'
    BY <1>0, <2>2 DEF NothingYet
  <2>4. ASSUME starts = 1, NEW s \in Partitions, NEW k \in DOMAIN target'[s]
        PROVE  /\ target'[s][k] < position[s]
               /\ \A j \in DOMAIN buffer'[s] : ~buffer'[s][j].retry /\ buffer'[s][j].res = "sent"
                                                  => target'[s][k] < buffer'[s][j].off
    <3> DEFINE q == buffer[s]
    <3>1. q \in Seq(Entries) /\ (\A j \in DOMAIN q : q[j] \in Entries)
          /\ target[s] \in Seq(Offsets)
      BY <1>0, EntryFacts DEF TypeOK
    <3>2. /\ DOMAIN buffer'[s] = DOMAIN q
          /\ \A j \in DOMAIN q : buffer'[s][j].res = "sent" =>
               buffer'[s][j] = q[j] /\ (s = p => j # i)
      <4>1. CASE s # p
        BY <1>0, <2>1, <4>1 DEF TypeOK
      <4>2. CASE s = p
        <5>1. buffer'[s] = Settle(q, i, res, at) /\ i \in DOMAIN q
          BY <1>0, <2>1, <4>2 DEF TypeOK
        <5>2. /\ DOMAIN buffer'[s] = DOMAIN q
              /\ \A j \in DOMAIN q : j # i => buffer'[s][j] = q[j]
              /\ buffer'[s][i].res = res
          BY <3>1, <5>1 DEF Settle, Entries
        <5> QED
          BY <5>2
      <4> QED
        BY <4>1, <4>2
    <3>3. CASE k \in DOMAIN target[s] /\ target'[s][k] = target[s][k]
      BY <1>0, <2>2, <2>4, <3>2, <3>3 DEF FirstsAhead
    <3>4. CASE s = p /\ target'[s][k] = buffer[p][i].off
      <4>1. /\ buffer[p][i].off < position[p]
            /\ \A j \in DOMAIN buffer[p] :
                 j # i /\ ~buffer[p][j].retry /\ buffer[p][j].res = "sent"
                   => buffer[p][i].off < buffer[p][j].off
        BY <1>0, <2>1, <2>2, WritesInOrder
      <4> QED
        BY <3>2, <3>4, <4>1
    <3>5. CASE target'[s] = target[s]
      BY <3>3, <3>5
    <3>6. CASE target'[s] # target[s]
      <4>1. s = p /\ target'[s] = Append(target[s], buffer[p][i].off)
        BY <1>0, <2>1, <3>6 DEF TypeOK
      <4>2. buffer[p][i].off \in Offsets
        BY <1>0, <2>1, <2>2, WritesInOrder
      <4>3. \/ k \in DOMAIN target[s] /\ target'[s][k] = target[s][k]
            \/ target'[s][k] = buffer[p][i].off
        BY <3>1, <4>1, <4>2, AppendProperties, LenProperties
      <4> QED
        BY <3>3, <3>4, <4>1, <4>3
    <3> QED
      BY <3>5, <3>6
  <2> QED
    BY <1>0, <2>2, <2>3, <2>4 DEF OrderInv, FirstsAhead
<1>3. CASE ~(Start \/ Broker)
  <2>1. UNCHANGED <<target, starts>> /\ (proc' = "up" => proc = "up")
    BY <1>3 DEF Next, vars, clusterVars, procVars, Crash, UpdateTopics, Select, PollNothing,
                PollAndProduce, FlushAndCheck, DrainAndSwap, Commit, Promise, Backoff,
                SyncWritten, DLQProduced, StopBegin, StopEnd
  <2>2. NothingYet'
    BY <1>0, <2>1 DEF NothingYet
  <2>3. \A p \in Partitions : position[p] \in Nat /\ position'[p] \in Nat
                              /\ position[p] <= position'[p]
    <3>1. \A p \in Partitions : position[p] \in Nat /\ position'[p] \in Nat
      BY <1>0, SourceAssumption DEF ProducerInv, TypeOK
    <3>2. CASE PollAndProduce
      BY <3>1, <3>2, SourceAssumption DEF PollAndProduce
    <3>3. CASE ~PollAndProduce
      <4>1. position' = position
        BY <1>3, <3>3 DEF Next, vars, loopVars, Crash, UpdateTopics, Select, PollNothing,
                FlushAndCheck, DrainAndSwap, Commit, Promise, Backoff,
                SyncWritten, DLQProduced, StopBegin, StopEnd
      <4> QED
        BY <3>1, <4>1
    <3> QED
      BY <3>2, <3>3
  <2>4. ASSUME proc = "up", starts = 1, NEW p \in Partitions, NEW k \in DOMAIN target[p]
        PROVE  /\ target[p][k] < position'[p]
               /\ \A i \in DOMAIN buffer'[p] : ~buffer'[p][i].retry /\ buffer'[p][i].res = "sent"
                                                  => target[p][k] < buffer'[p][i].off
    <3>1. /\ target[p][k] < position[p]
          /\ \A i \in DOMAIN buffer[p] : ~buffer[p][i].retry /\ buffer[p][i].res = "sent"
                                            => target[p][k] < buffer[p][i].off
      BY <1>0, <2>4 DEF FirstsAhead
    <3>2. target[p][k] \in Nat
      <4>1. target[p] \in Seq(Offsets)
        BY <1>0 DEF TypeOK
      <4>2. target[p][k] \in Offsets
        BY <4>1, ElementOfSeq, LenProperties
      <4> QED
        BY <4>2, SourceAssumption DEF Offsets
    <3>3. ASSUME NEW i \in DOMAIN buffer'[p], ~buffer'[p][i].retry, buffer'[p][i].res = "sent"
          PROVE  target[p][k] < buffer'[p][i].off
      <4>1. buffer'[p][i].off \in Nat
        BY <1>0, EntryFacts DEF ProducerInv, TypeOK
      <4>2. CASE \E j \in DOMAIN buffer[p] : buffer'[p][i] = buffer[p][j]
        BY <3>1, <3>3, <4>2
      <4>3. CASE position[p] <= buffer'[p][i].off
        BY <2>3, <3>1, <3>2, <4>1, <4>3
      <4> QED
        BY <1>0, <1>3, <3>3, <4>2, <4>3, EntryOrigin
    <3> QED
      BY <2>3, <3>1, <3>2, <3>3
  <2>5. FirstsAhead'
    BY <2>1, <2>4 DEF FirstsAhead
  <2> QED
    BY <1>0, <2>2, <2>5 DEF OrderInv
<1> QED
  BY <1>1, <1>2, <1>3

\* In a process that starts on an empty target a record overtakes another of its
\* partition only when the other one failed and Retry is producing it again: the
\* producer, the polls and the callbacks reorder nothing by themselves.
THEOREM OnlyRetriesReorder == Spec => ReorderedOnlyByRetries
<1>1. Init => OrderInv
  <2>1. Init => FirstsAhead /\ NothingYet /\ proc # "up"
    BY DEF Init, FirstsAhead, NothingYet
  <2> QED
    BY <2>1, TypeInit DEF OrderInv, ProducerInv
<1> DEFINE Only == \A p \in Partitions :
             LET o == target'[p][Len(target'[p])] IN
             /\ starts = 1 /\ Len(target'[p]) > Len(target[p])
             /\ ~OnTarget(p, o)
             /\ \E i \in DOMAIN target[p] : target[p][i] > o
             => retrying[<<p, o>>] = "waiting"
<1>2. OrderInv /\ [Next]_vars => [Only]_vars
  <2> SUFFICES ASSUME OrderInv, Next, NEW p \in Partitions,
                      starts = 1, Len(target'[p]) > Len(target[p]),
                      NEW k \in DOMAIN target[p], target[p][k] > target'[p][Len(target'[p])]
               PROVE  retrying[<<p, target'[p][Len(target'[p])]>>] = "waiting"
    BY DEF OrderInv
  <2>0. ProducerInv /\ TypeOK /\ FirstsAhead
    BY DEF OrderInv, ProducerInv
  <2>1. target[p] \in Seq(Offsets) /\ Len(target[p]) \in Nat
    BY <2>0, LenProperties DEF TypeOK
  <2>2. target' # target
    BY <2>1
  <2>3. Broker
    BY <2>2 DEF Next, clusterVars, Start, Crash, UpdateTopics, Select, PollNothing,
         PollAndProduce, FlushAndCheck, DrainAndSwap, Commit, Promise, Backoff,
         SyncWritten, DLQProduced, StopBegin, StopEnd
  <2>4. proc = "up"
    BY <2>3 DEF Broker
  <2>5. PICK s \in Partitions : \E i \in DOMAIN buffer[s] :
          /\ Unsettled(s, i)
          /\ \/ target' = [target EXCEPT ![s] = Append(target[s], buffer[s][i].off)]
             \/ target' = target
    BY <2>0, <2>3, BrokerEffect
  <2>6. PICK i \in DOMAIN buffer[s] :
          /\ Unsettled(s, i)
          /\ \/ target' = [target EXCEPT ![s] = Append(target[s], buffer[s][i].off)]
             \/ target' = target
    BY <2>5
  <2>7. s = p /\ target'[p] = Append(target[p], buffer[p][i].off)
    <3>1. target' = [target EXCEPT ![s] = Append(target[s], buffer[s][i].off)]
      BY <2>2, <2>6
    <3>2. DOMAIN target = Partitions
      BY <2>0 DEF TypeOK
    <3>3. target'[p] # target[p]
      BY <2>1
    <3>4. s = p
      BY <3>1, <3>2, <3>3
    <3> QED
      BY <3>1, <3>2, <3>4
  <2>8. buffer[p][i].off \in Offsets /\ buffer[p][i].off \in Nat /\ buffer[p][i].retry \in BOOLEAN
    BY <2>0, <2>6, <2>7, EntryFacts DEF TypeOK
  <2>9. target'[p][Len(target'[p])] = buffer[p][i].off
    BY <2>1, <2>7, <2>8, AppendProperties
  <2>10. target[p][k] > buffer[p][i].off /\ target[p][k] \in Nat
    <3>1. target[p][k] \in Offsets
      BY <2>1, ElementOfSeq, LenProperties
    <3> QED
      BY <2>9, <3>1, SourceAssumption DEF Offsets
  <2>11. buffer[p][i].retry
    <3> SUFFICES ASSUME ~buffer[p][i].retry PROVE FALSE
      OBVIOUS
    <3>1. buffer[p][i].res = "sent"
      BY <2>6, <2>7 DEF Unsettled
    <3>2. target[p][k] < buffer[p][i].off
      BY <2>0, <2>4, <2>6, <2>7, <3>1 DEF FirstsAhead
    <3> QED
      BY <2>8, <2>10, <3>2
  <2>12. retrying[<<p, buffer[p][i].off>>] = "waiting"
    BY <2>0, <2>4, <2>6, <2>7, <2>11 DEF ProducerInv, QueuesOrderly, Orderly, Marked
  <2> QED
    BY <2>9, <2>12
<1> QED
  BY <1>1, <1>2, OrderInvStep, PTL DEF Spec, ReorderedOnlyByRetries
=============================================================================
