------------------------------ MODULE RingLemmas ------------------------------
(***************************************************************************)
(* Lemmas about a ring of n buffers with a read and a write index, as the   *)
(* recorder (recorder.c:29-31) and the web camera (webcamera.c:35-37) have  *)
(* one: index r names the buffer that was handed out last, index w the one  *)
(* that was filled last, and what lies after r up to w is a queue.          *)
(***************************************************************************)
EXTENDS Integers, SequenceTheorems, TLAPS

RingLen(r, w, n) == (w + n - r) % n
RingQueue(f, r, w, n) == [i \in 1..RingLen(r, w, n) |-> f[(r + i) % n]]

\* A queue with one more at its end.
PutOn(q, b) == Append(q, b)

\* The index after p.
After(p, n) == IF p + 1 >= n THEN 0 ELSE p + 1

\* A sum of two indices wraps at most once.
LEMMA Wrapped ==
    ASSUME NEW n \in Nat \ {0}, NEW r \in 0..(n - 1), NEW i \in 0..(n - 1)
    PROVE  (r + i) % n = IF r + i < n THEN r + i ELSE r + i - n
OBVIOUS

LEMMA AfterIsNext ==
    ASSUME NEW n \in Nat \ {0, 1}, NEW r \in 0..(n - 1)
    PROVE  /\ After(r, n) \in 0..(n - 1)
           /\ After(r, n) = (r + 1) % n
           /\ After(r, n) # r
<1>1. 1 \in 0..(n - 1)
  OBVIOUS
<1>2. (r + 1) % n = IF r + 1 < n THEN r + 1 ELSE r + 1 - n
  BY <1>1, Wrapped
<1> QED
  BY <1>2 DEF After

LEMMA RingLenIs ==
    ASSUME NEW n \in Nat \ {0}, NEW r \in 0..(n - 1), NEW w \in 0..(n - 1)
    PROVE  RingLen(r, w, n) = IF w >= r THEN w - r ELSE w + n - r
BY DEF RingLen

LEMMA RingLenBounds ==
    ASSUME NEW n \in Nat \ {0}, NEW r \in 0..(n - 1), NEW w \in 0..(n - 1)
    PROVE  /\ RingLen(r, w, n) \in 0..(n - 1)
           /\ RingLen(r, w, n) = 0 <=> r = w
BY RingLenIs

LEMMA RingIsSeq ==
    ASSUME NEW n \in Nat \ {0}, NEW r \in 0..(n - 1), NEW w \in 0..(n - 1),
           NEW S, NEW f \in [0..(n - 1) -> S]
    PROVE  /\ RingQueue(f, r, w, n) \in Seq(S)
           /\ Len(RingQueue(f, r, w, n)) = RingLen(r, w, n)
<1> DEFINE q == RingQueue(f, r, w, n)
<1>1. RingLen(r, w, n) \in 0..(n - 1)
  BY RingLenBounds
<1>2. \A i \in 1..RingLen(r, w, n): (r + i) % n \in 0..(n - 1)
  <2> TAKE i \in 1..RingLen(r, w, n)
  <2>1. i \in 0..(n - 1)
    BY <1>1
  <2>2. (r + i) % n = IF r + i < n THEN r + i ELSE r + i - n
    BY <2>1, Wrapped
  <2> QED
    BY <2>1, <2>2
<1>3. q \in [1..RingLen(r, w, n) -> S]
  BY <1>2 DEF RingQueue
<1> HIDE DEF q
<1> QED
  BY <1>1, <1>3, SeqDef, LenProperties, SMT

\* A ring that is not full takes one more at its end; the buffer handed out last
\* is left alone.
LEMMA RingPut ==
    ASSUME NEW n \in Nat \ {0, 1}, NEW r \in 0..(n - 1), NEW w \in 0..(n - 1),
           NEW S, NEW f \in [0..(n - 1) -> S], NEW b \in S,
           NEW v, v = After(w, n), v # r,
           NEW g \in [0..(n - 1) -> S],
           g[v] = b, \A i \in 0..(n - 1): i # v => g[i] = f[i]
    PROVE  /\ RingLen(r, w, n) < n - 1
           /\ RingQueue(g, r, v, n) = PutOn(RingQueue(f, r, w, n), b)
           /\ g[r] = f[r]
<1> DEFINE k == RingLen(r, w, n)
           q == RingQueue(f, r, w, n)
<1>1. v \in 0..(n - 1) /\ v # r /\ v = IF w + 1 >= n THEN 0 ELSE w + 1
  BY AfterIsNext DEF After
<1>2. k \in 0..(n - 1) /\ k = IF w >= r THEN w - r ELSE w + n - r
  BY RingLenIs, RingLenBounds
<1> HIDE DEF k, q
<1>3. RingLen(r, v, n) = k + 1 /\ k < n - 1
  <2>1. RingLen(r, v, n) = IF v >= r THEN v - r ELSE v + n - r
    BY <1>1, RingLenIs
  <2>2. (IF v >= r THEN v - r ELSE v + n - r) = k + 1 /\ k < n - 1
    BY <1>1, <1>2
  <2> QED
    BY <2>1, <2>2
<1>4. (r + (k + 1)) % n = v
  <2>1. k + 1 \in 0..(n - 1)
    BY <1>2, <1>3
  <2>2. (r + (k + 1)) % n = IF r + (k + 1) < n THEN r + (k + 1) ELSE r + (k + 1) - n
    BY <2>1, Wrapped
  <2> QED
    BY <1>1, <1>2, <2>2
<1>5. \A i \in 1..k: (r + i) % n \in 0..(n - 1) /\ (r + i) % n # v
  <2> TAKE i \in 1..k
  <2>1. i \in 0..(n - 1)
    BY <1>2
  <2>2. (r + i) % n = IF r + i < n THEN r + i ELSE r + i - n
    BY <2>1, Wrapped
  <2> QED
    BY <1>1, <1>2, <1>3, <2>2
<1>6. g[r] = f[r] /\ g[v] = b
  BY <1>1
<1>7. q \in Seq(S) /\ Len(q) = k /\ q = [i \in 1..k |-> f[(r + i) % n]]
  <2>1. q \in Seq(S) /\ Len(q) = k
    BY RingIsSeq DEF k, q
  <2>2. q = [i \in 1..k |-> f[(r + i) % n]]
    BY DEF RingQueue, k, q
  <2> QED
    BY <2>1, <2>2
<1>8. Append(q, b) = [i \in 1..(k + 1) |-> IF i = k + 1 THEN b ELSE q[i]]
  BY <1>2, <1>7
<1>9. \A i \in 1..(k + 1): g[(r + i) % n] = IF i = k + 1 THEN b ELSE q[i]
  <2> TAKE i \in 1..(k + 1)
  <2>1. CASE i = k + 1
    BY <1>4, <1>6, <2>1
  <2>2. CASE i # k + 1
    <3>1. i \in 1..k
      BY <1>2, <2>2
    <3>2. g[(r + i) % n] = f[(r + i) % n]
      BY <1>5, <3>1, <1>1
    <3>3. q[i] = f[(r + i) % n]
      BY <1>7, <3>1
    <3> QED
      BY <2>2, <3>2, <3>3
  <2> QED
    BY <2>1, <2>2
<1>10. RingQueue(g, r, v, n) = [i \in 1..(k + 1) |-> g[(r + i) % n]]
  BY <1>3 DEF RingQueue
<1>11. RingQueue(g, r, v, n) = Append(q, b)
  BY <1>8, <1>9, <1>10
<1> QED
  BY <1>3, <1>6, <1>11 DEF k, q, PutOn

\* Moving the read index takes the head.
LEMMA RingTake ==
    ASSUME NEW n \in Nat \ {0, 1}, NEW r \in 0..(n - 1), NEW w \in 0..(n - 1),
           NEW S, NEW f \in [0..(n - 1) -> S],
           r # w
    PROVE  /\ RingQueue(f, r, w, n) # << >>
           /\ f[After(r, n)] = Head(RingQueue(f, r, w, n))
           /\ RingQueue(f, After(r, n), w, n) = Tail(RingQueue(f, r, w, n))
<1> DEFINE u == After(r, n)
           k == RingLen(r, w, n)
           q == RingQueue(f, r, w, n)
<1>1. /\ u \in 0..(n - 1) /\ u = (r + 1) % n
      /\ u = IF r + 1 >= n THEN 0 ELSE r + 1
  BY AfterIsNext DEF After
<1> HIDE DEF u, q
<1>2. k \in 1..(n - 1) /\ k = IF w >= r THEN w - r ELSE w + n - r
  <2>1. k = IF w >= r THEN w - r ELSE w + n - r
    BY RingLenIs
  <2> HIDE DEF k
  <2> QED
    BY <2>1
<1> HIDE DEF k
<1>3. RingLen(u, w, n) = k - 1
  <2>1. RingLen(u, w, n) = IF w >= u THEN w - u ELSE w + n - u
    BY <1>1, RingLenIs
  <2>2. u = IF r + 1 >= n THEN 0 ELSE r + 1
    BY <1>1
  <2>3. (IF w >= u THEN w - u ELSE w + n - u) = k - 1
    BY <1>2, <2>2
  <2> QED
    BY <2>1, <2>3
<1>4. \A i \in 1..(k - 1): (u + i) % n = (r + (i + 1)) % n
  <2> TAKE i \in 1..(k - 1)
  <2>1. i \in 0..(n - 1) /\ i + 1 \in 0..(n - 1)
    BY <1>2
  <2>2. (u + i) % n = IF u + i < n THEN u + i ELSE u + i - n
    BY <1>1, <2>1, Wrapped
  <2>3. (r + (i + 1)) % n = IF r + (i + 1) < n THEN r + (i + 1) ELSE r + (i + 1) - n
    BY <2>1, Wrapped
  <2> QED
    BY <1>1, <1>2, <2>2, <2>3
<1>5. q \in Seq(S) /\ Len(q) = k /\ q = [i \in 1..k |-> f[(r + i) % n]]
  <2>1. q \in Seq(S) /\ Len(q) = k
    BY RingIsSeq DEF k, q
  <2>2. q = [i \in 1..k |-> f[(r + i) % n]]
    BY DEF RingQueue, k, q
  <2> QED
    BY <2>1, <2>2
<1>6. RingQueue(f, u, w, n) = [i \in 1..(k - 1) |-> f[(u + i) % n]]
  BY <1>3 DEF RingQueue
<1> HIDE DEF q
<1>7. q # << >>
  BY <1>2, <1>5, EmptySeq
<1>8. Head(q) = f[u]
  BY <1>1, <1>2, <1>5
<1>9. Tail(q) = [i \in 1..(k - 1) |-> q[i + 1]]
  BY <1>2, <1>5, <1>7
<1>10. \A i \in 1..(k - 1): q[i + 1] = f[(u + i) % n]
  BY <1>2, <1>4, <1>5
<1> QED
  BY <1>6, <1>7, <1>8, <1>9, <1>10 DEF u, k, q

=============================================================================
