------------------------ MODULE StoragePipeline_proofs ------------------------
(***************************************************************************)
(* What is proved of StoragePipeline, for any tenants, queues, workload,   *)
(* limits and choices of the host.                                         *)
(*                                                                         *)
(* Every step takes a command from the head of one station of its queue's  *)
(* way to the tail of the next one; of another queue's way it is a station *)
(* that gains or loses a 0.  The first part says of any way what such      *)
(* moves preserve, the second that the actions are such moves.             *)
(***************************************************************************)
EXTENDS StoragePipeline, SequenceTheorems, FiniteSetTheorems, TLAPS

-----------------------------------------------------------------------------
(* Stations: what appending, taking and cutting do to numbers and order.    *)

LEMMA NumbersAre ==
  ASSUME NEW a \in Seq(Nat)
  PROVE  Numbers(a) \subseteq Nat \ {0}
  BY DEF Numbers, Range

LEMMA NumberAt ==
  ASSUME NEW a \in Seq(Nat), NEW i \in 1 .. Len(a), a[i] # 0
  PROVE  a[i] \in Numbers(a)
  BY DEF Numbers, Range

LEMMA PlaceOf ==
  ASSUME NEW a \in Seq(Nat), NEW y \in Numbers(a)
  PROVE  \E i \in 1 .. Len(a) : a[i] = y
  BY DEF Numbers, Range

LEMMA AppendKeeps ==
  ASSUME NEW a \in Seq(Nat), NEW x \in Nat
  PROVE  /\ Append(a, x) \in Seq(Nat)
         /\ Numbers(Append(a, x)) = Numbers(a) \cup ({x} \ {0})
         /\ Ascending(a) /\ (x # 0 => \A m \in Numbers(a) : m < x) => Ascending(Append(a, x))
<1>1. /\ Append(a, x) \in Seq(Nat)
      /\ Len(Append(a, x)) = Len(a) + 1
      /\ Len(a) \in Nat
      /\ DOMAIN Append(a, x) = 1 .. Len(a) + 1 /\ DOMAIN a = 1 .. Len(a)
      /\ \A i \in 1 .. Len(a) : Append(a, x)[i] = a[i]
      /\ Append(a, x)[Len(a) + 1] = x
  BY AppendProperties, LenProperties
<1>2. Numbers(Append(a, x)) = Numbers(a) \cup ({x} \ {0})
  <2>1. ASSUME NEW y \in Numbers(Append(a, x)), y # x
        PROVE  y \in Numbers(a)
    <3>1. y # 0
      BY <1>1, NumbersAre
    <3>2. PICK i \in 1 .. Len(Append(a, x)) : Append(a, x)[i] = y
      BY <1>1, PlaceOf
    <3>3. i \in 1 .. Len(a) /\ a[i] = y
      BY <1>1, <2>1, <3>2
    <3> QED
      BY <3>1, <3>3, NumberAt
  <2>2. ASSUME NEW y \in Numbers(a)
        PROVE  y \in Numbers(Append(a, x))
    <3>1. y # 0
      BY NumbersAre
    <3>2. PICK i \in 1 .. Len(a) : a[i] = y
      BY PlaceOf
    <3>3. i \in 1 .. Len(Append(a, x)) /\ Append(a, x)[i] = y
      BY <1>1, <3>2
    <3> QED
      BY <1>1, <3>1, <3>3, NumberAt
  <2>3. x # 0 => x \in Numbers(Append(a, x))
    <3>1. Len(a) + 1 \in 1 .. Len(Append(a, x))
      BY <1>1
    <3> QED
      BY <1>1, <3>1, NumberAt
  <2>4. 0 \notin Numbers(Append(a, x))
    BY <1>1, NumbersAre
  <2> QED
    BY <2>1, <2>2, <2>3, <2>4
<1>3. ASSUME Ascending(a), x # 0 => \A m \in Numbers(a) : m < x
      PROVE  Ascending(Append(a, x))
  <2>1. SUFFICES ASSUME NEW i \in 1 .. Len(a) + 1, NEW j \in 1 .. Len(a) + 1, i < j,
                        Append(a, x)[i] # 0, Append(a, x)[j] # 0
                 PROVE  Append(a, x)[i] < Append(a, x)[j]
    BY <1>1 DEF Ascending
  <2>2. i \in 1 .. Len(a) /\ Append(a, x)[i] = a[i]
    BY <1>1, <2>1
  <2>3. CASE j \in 1 .. Len(a)
    BY <1>1, <1>3, <2>1, <2>2, <2>3 DEF Ascending
  <2>4. CASE j = Len(a) + 1
    <3>1. a[i] \in Numbers(a)
      BY <2>1, <2>2, NumberAt
    <3> QED
      BY <1>1, <1>3, <2>1, <2>2, <2>4, <3>1
  <2> QED
    BY <1>1, <2>3, <2>4
<1> QED
  BY <1>1, <1>2, <1>3

LEMMA TailKeeps ==
  ASSUME NEW a \in Seq(Nat), a # <<>>
  PROVE  /\ Head(a) \in Nat /\ Tail(a) \in Seq(Nat)
         /\ Numbers(a) = Numbers(Tail(a)) \cup ({Head(a)} \ {0})
         /\ Ascending(a) => /\ Ascending(Tail(a))
                            /\ Head(a) # 0 => \A m \in Numbers(Tail(a)) : Head(a) < m
<1>1. /\ Head(a) \in Nat /\ Head(a) = a[1]
      /\ Tail(a) \in Seq(Nat)
      /\ Len(a) \in Nat \ {0}
      /\ Len(Tail(a)) = Len(a) - 1
      /\ DOMAIN Tail(a) = 1 .. Len(a) - 1 /\ DOMAIN a = 1 .. Len(a)
      /\ \A i \in 1 .. Len(a) - 1 : Tail(a)[i] = a[i + 1]
  BY HeadTailProperties, LenProperties, EmptySeq
<1>2. Numbers(a) = Numbers(Tail(a)) \cup ({Head(a)} \ {0})
  <2>1. ASSUME NEW y \in Numbers(a), y # Head(a)
        PROVE  y \in Numbers(Tail(a))
    <3>1. y # 0
      BY NumbersAre
    <3>2. PICK i \in 1 .. Len(a) : a[i] = y
      BY PlaceOf
    <3>3. i # 1
      BY <1>1, <2>1, <3>2
    <3>4. i - 1 \in 1 .. Len(Tail(a)) /\ i - 1 \in 1 .. Len(a) - 1 /\ (i - 1) + 1 = i
      BY <1>1, <3>3
    <3>5. Tail(a)[i - 1] = y
      BY <1>1, <3>2, <3>4
    <3> QED
      BY <1>1, <3>1, <3>4, <3>5, NumberAt
  <2>2. ASSUME NEW y \in Numbers(Tail(a))
        PROVE  y \in Numbers(a)
    <3>1. y # 0
      BY <1>1, NumbersAre
    <3>2. PICK i \in 1 .. Len(Tail(a)) : Tail(a)[i] = y
      BY <1>1, PlaceOf
    <3>3. i + 1 \in 1 .. Len(a) /\ a[i + 1] = y
      BY <1>1, <3>2
    <3> QED
      BY <3>1, <3>3, NumberAt
  <2>3. Head(a) # 0 => Head(a) \in Numbers(a)
    <3>1. 1 \in 1 .. Len(a)
      BY <1>1
    <3> QED
      BY <1>1, <3>1, NumberAt
  <2>4. 0 \notin Numbers(a)
    BY NumbersAre
  <2> QED
    BY <2>1, <2>2, <2>3, <2>4
<1>3. ASSUME Ascending(a)
      PROVE  Ascending(Tail(a))
  <2>1. SUFFICES ASSUME NEW i \in 1 .. Len(a) - 1, NEW j \in 1 .. Len(a) - 1, i < j,
                        Tail(a)[i] # 0, Tail(a)[j] # 0
                 PROVE  Tail(a)[i] < Tail(a)[j]
    BY <1>1 DEF Ascending
  <2>2. i + 1 \in 1 .. Len(a) /\ j + 1 \in 1 .. Len(a) /\ i + 1 < j + 1
    BY <1>1, <2>1
  <2> QED
    BY <1>1, <1>3, <2>1, <2>2 DEF Ascending
<1>4. ASSUME Ascending(a), Head(a) # 0, NEW m \in Numbers(Tail(a))
      PROVE  Head(a) < m
  <2>1. PICK i \in 1 .. Len(Tail(a)) : Tail(a)[i] = m
    BY <1>1, <1>4, PlaceOf
  <2>2. i \in 1 .. Len(a) - 1
    BY <1>1, <2>1
  <2>3. 1 \in 1 .. Len(a) /\ i + 1 \in 1 .. Len(a) /\ 1 < i + 1 /\ a[i + 1] = m
    BY <1>1, <2>1, <2>2
  <2>4. m # 0
    BY <1>1, <1>4, NumbersAre
  <2> QED
    BY <1>1, <1>4, <2>1, <2>3, <2>4 DEF Ascending
<1> QED
  BY <1>1, <1>2, <1>3, <1>4

LEMMA EmptyStation == <<>> \in Seq(Nat) /\ Numbers(<<>>) = {} /\ Ascending(<<>>)
  BY EmptySeq DEF Numbers, Ascending, Range

\* A station cut in two and put on the end of another.
LEMMA ConcatKeeps ==
  ASSUME NEW a \in Seq(Nat), NEW b \in Seq(Nat)
  PROVE  /\ a \o b \in Seq(Nat)
         /\ Numbers(a \o b) = Numbers(a) \cup Numbers(b)
         /\ Ascending(a) /\ Ascending(b) /\ (\A m \in Numbers(a), n \in Numbers(b) : m < n)
              => Ascending(a \o b)
<1>1. /\ a \o b \in Seq(Nat)
      /\ Len(a) \in Nat /\ Len(b) \in Nat
      /\ DOMAIN (a \o b) = 1 .. Len(a) + Len(b)
      /\ DOMAIN a = 1 .. Len(a) /\ DOMAIN b = 1 .. Len(b)
      /\ Len(a \o b) = Len(a) + Len(b)
      /\ \A i \in 1 .. Len(a) : (a \o b)[i] = a[i]
      /\ \A i \in 1 .. Len(b) : (a \o b)[Len(a) + i] = b[i]
  BY ConcatProperties, LenProperties
<1>2. \A i \in 1 .. Len(a) + Len(b) :
        i \in 1 .. Len(a) \/ \E j \in 1 .. Len(b) : i = Len(a) + j
  <2>1. ASSUME NEW i \in 1 .. Len(a) + Len(b), i \notin 1 .. Len(a)
        PROVE  i - Len(a) \in 1 .. Len(b) /\ i = Len(a) + (i - Len(a))
    BY <1>1, <2>1
  <2> QED
    BY <2>1
<1>3. Numbers(a \o b) = Numbers(a) \cup Numbers(b)
  <2>1. ASSUME NEW y \in Numbers(a \o b)
        PROVE  y \in Numbers(a) \cup Numbers(b)
    <3>1. y # 0
      BY <1>1, NumbersAre
    <3>2. PICK i \in 1 .. Len(a) + Len(b) : (a \o b)[i] = y
      BY <1>1, PlaceOf
    <3>3. CASE i \in 1 .. Len(a)
      BY <1>1, <3>1, <3>2, <3>3, NumberAt
    <3>4. ASSUME NEW j \in 1 .. Len(b), i = Len(a) + j
          PROVE  y \in Numbers(b)
      BY <1>1, <3>1, <3>2, <3>4, NumberAt
    <3> QED
      BY <1>2, <3>3, <3>4
  <2>2. ASSUME NEW y \in Numbers(a)
        PROVE  y \in Numbers(a \o b)
    <3>1. y # 0
      BY NumbersAre
    <3>2. PICK i \in 1 .. Len(a) : a[i] = y
      BY PlaceOf
    <3>3. i \in 1 .. Len(a \o b) /\ (a \o b)[i] = y
      BY <1>1, <3>2
    <3> QED
      BY <1>1, <3>1, <3>3, NumberAt
  <2>3. ASSUME NEW y \in Numbers(b)
        PROVE  y \in Numbers(a \o b)
    <3>1. y # 0
      BY NumbersAre
    <3>2. PICK i \in 1 .. Len(b) : b[i] = y
      BY PlaceOf
    <3>3. Len(a) + i \in 1 .. Len(a \o b) /\ (a \o b)[Len(a) + i] = y
      BY <1>1, <3>2
    <3> QED
      BY <1>1, <3>1, <3>3, NumberAt
  <2> QED
    BY <2>1, <2>2, <2>3
<1>4. ASSUME Ascending(a), Ascending(b), \A m \in Numbers(a), n \in Numbers(b) : m < n
      PROVE  Ascending(a \o b)
  <2>1. SUFFICES ASSUME NEW i \in 1 .. Len(a) + Len(b), NEW j \in 1 .. Len(a) + Len(b), i < j,
                        (a \o b)[i] # 0, (a \o b)[j] # 0
                 PROVE  (a \o b)[i] < (a \o b)[j]
    BY <1>1 DEF Ascending
  <2>2. CASE i \in 1 .. Len(a) /\ j \in 1 .. Len(a)
    BY <1>1, <1>4, <2>1, <2>2 DEF Ascending
  <2>3. ASSUME i \in 1 .. Len(a), NEW l \in 1 .. Len(b), j = Len(a) + l
        PROVE  (a \o b)[i] < (a \o b)[j]
    <3>1. a[i] \in Numbers(a)
      BY <1>1, <2>1, <2>3, NumberAt
    <3>2. b[l] \in Numbers(b)
      BY <1>1, <2>1, <2>3, NumberAt
    <3> QED
      BY <1>1, <1>4, <2>3, <3>1, <3>2
  <2>4. ASSUME NEW k \in 1 .. Len(b), i = Len(a) + k, NEW l \in 1 .. Len(b), j = Len(a) + l
        PROVE  (a \o b)[i] < (a \o b)[j]
    <3>1. k < l
      BY <1>1, <2>1, <2>4
    <3> QED
      BY <1>1, <1>4, <2>1, <2>4, <3>1 DEF Ascending
  <2>5. ASSUME NEW k \in 1 .. Len(b), i = Len(a) + k
        PROVE  \E l \in 1 .. Len(b) : j = Len(a) + l
    BY <1>1, <1>2, <2>1, <2>5
  <2> QED
    BY <1>2, <2>2, <2>3, <2>4, <2>5
<1> QED
  BY <1>1, <1>3, <1>4

LEMMA CutKeeps ==
  ASSUME NEW a \in Seq(Nat), NEW n \in 0 .. Len(a), Ascending(a)
  PROVE  LET front == [i \in 1 .. n |-> a[i]]
             rest == SubSeq(a, n + 1, Len(a))
         IN /\ front \in Seq(Nat) /\ rest \in Seq(Nat)
            /\ Numbers(a) = Numbers(front) \cup Numbers(rest)
            /\ Ascending(front) /\ Ascending(rest)
            /\ \A x \in Numbers(front), y \in Numbers(rest) : x < y
<1> DEFINE front == [i \in 1 .. n |-> a[i]]
           rest == SubSeq(a, n + 1, Len(a))
           size == Len(a)
<1>1. /\ size \in Nat /\ n \in Nat /\ n <= size /\ DOMAIN a = 1 .. size /\ size = Len(a)
      /\ \A i \in 1 .. size : a[i] \in Nat
  BY LenProperties, ElementOfSeq
<1>2. /\ front \in Seq(Nat) /\ DOMAIN front = 1 .. n /\ Len(front) = n
      /\ \A i \in 1 .. n : front[i] = a[i]
  <2>1. front \in [1 .. n -> Nat]
    BY <1>1
  <2> QED
    BY <1>1, <2>1, SeqDef
<1>3. /\ rest \in Seq(Nat)
      /\ Len(rest) = (IF n + 1 <= size THEN size - (n + 1) + 1 ELSE 0)
      /\ \A i \in 1 .. size - (n + 1) + 1 : rest[i] = a[n + 1 + i - 1]
  <2>1. \A i \in n + 1 .. size : a[i] \in Nat
    BY <1>1
  <2> QED
    BY <1>1, <2>1, SubSeqProperties
<1> HIDE DEF front, rest, size
<1>4. /\ Len(rest) = size - n /\ DOMAIN rest = 1 .. size - n
      /\ \A i \in 1 .. size - n : rest[i] = a[n + i]
  <2>1. \A p, q \in Nat : q <= p =>
          p - (q + 1) + 1 = p - q /\ (~(q + 1 <= p) => p - q = 0)
    OBVIOUS
  <2>2. Len(rest) = size - n
    BY <1>1, <1>3, <2>1
  <2>3. \A i \in 1 .. size - n : n + 1 + i - 1 = n + i
    BY <1>1
  <2> QED
    BY <1>1, <1>3, <2>1, <2>2, <2>3, LenProperties
<1>5. /\ \A i \in 1 .. size : i \in 1 .. n \/ (i - n \in 1 .. size - n /\ rest[i - n] = a[i])
      /\ \A i \in 1 .. size - n : n + i \in 1 .. size
      /\ \A i \in 1 .. n : i \in 1 .. size
  BY <1>1, <1>4
<1>6. Numbers(a) = Numbers(front) \cup Numbers(rest)
  <2>1. ASSUME NEW y \in Numbers(a)
        PROVE  y \in Numbers(front) \cup Numbers(rest)
    <3>1. y # 0
      BY NumbersAre
    <3>2. PICK i \in 1 .. size : a[i] = y
      BY <1>1, PlaceOf
    <3>3. CASE i \in 1 .. n
      BY <1>2, <3>1, <3>2, <3>3, NumberAt
    <3>4. CASE i - n \in 1 .. size - n /\ rest[i - n] = a[i]
      BY <1>3, <1>4, <3>1, <3>2, <3>4, NumberAt
    <3> QED
      BY <1>5, <3>3, <3>4
  <2>2. ASSUME NEW y \in Numbers(front)
        PROVE  y \in Numbers(a)
    <3>1. y # 0
      BY <1>2, NumbersAre
    <3>2. PICK i \in 1 .. n : front[i] = y
      BY <1>2, PlaceOf
    <3> QED
      BY <1>1, <1>2, <1>5, <3>1, <3>2, NumberAt
  <2>3. ASSUME NEW y \in Numbers(rest)
        PROVE  y \in Numbers(a)
    <3>1. y # 0
      BY <1>3, NumbersAre
    <3>2. PICK i \in 1 .. size - n : rest[i] = y
      BY <1>3, <1>4, PlaceOf
    <3> QED
      BY <1>1, <1>4, <1>5, <3>1, <3>2, NumberAt
  <2> QED
    BY <2>1, <2>2, <2>3
<1>7. Ascending(front)
  BY <1>1, <1>2, <1>5 DEF Ascending
<1>8. Ascending(rest)
  <2>1. SUFFICES ASSUME NEW i \in 1 .. size - n, NEW j \in 1 .. size - n, i < j,
                        rest[i] # 0, rest[j] # 0
                 PROVE  rest[i] < rest[j]
    BY <1>4 DEF Ascending
  <2>2. n + i \in 1 .. size /\ n + j \in 1 .. size /\ n + i < n + j
    BY <1>1, <1>5, <2>1
  <2> QED
    BY <1>1, <1>4, <2>1, <2>2 DEF Ascending
<1>9. ASSUME NEW x \in Numbers(front), NEW y \in Numbers(rest)
      PROVE  x < y
  <2>1. PICK i \in 1 .. n : front[i] = x
    BY <1>2, PlaceOf
  <2>2. PICK j \in 1 .. size - n : rest[j] = y
    BY <1>3, <1>4, PlaceOf
  <2>3. i < n + j /\ i \in 1 .. size /\ n + j \in 1 .. size
    BY <1>1, <1>5
  <2>4. a[i] = x /\ a[n + j] = y /\ x # 0 /\ y # 0
    BY <1>2, <1>3, <1>4, <2>1, <2>2, NumbersAre
  <2> QED
    BY <1>1, <2>3, <2>4 DEF Ascending
<1> QED
  BY <1>2, <1>3, <1>6, <1>7, <1>8, <1>9 DEF front, rest, size

-----------------------------------------------------------------------------
(* Ways: what may happen to two neighbouring stations, to one, and at the   *)
(* end the host feeds.                                                      *)

Ways(n) == [1 .. n -> Seq(Nat)]

LEMMA PairKeeps ==
  ASSUME NEW N \in Nat, NEW w \in Ways(N), NEW v \in Ways(N), NEW last, InOrder(w, last),
         NEW k \in 1 .. N, k + 1 \in 1 .. N,
         \A j \in 1 .. N : j # k /\ j # k + 1 => v[j] = w[j],
         Numbers(v[k]) \cup Numbers(v[k + 1]) = Numbers(w[k]) \cup Numbers(w[k + 1]),
         Ascending(v[k]), Ascending(v[k + 1]),
         \A m \in Numbers(v[k]), n \in Numbers(v[k + 1]) : m < n
  PROVE  InOrder(v, last)
<1>1. DOMAIN w = 1 .. N /\ DOMAIN v = 1 .. N
  BY DEF Ways
<1>2. UNION { Numbers(v[j]) : j \in DOMAIN v } = 1 .. last
  <2>1. UNION { Numbers(v[j]) : j \in 1 .. N } = UNION { Numbers(w[j]) : j \in 1 .. N }
    <3>1. ASSUME NEW j \in 1 .. N, NEW x \in Numbers(v[j])
          PROVE  \E i \in 1 .. N : x \in Numbers(w[i])
      BY <3>1
    <3>2. ASSUME NEW j \in 1 .. N, NEW x \in Numbers(w[j])
          PROVE  \E i \in 1 .. N : x \in Numbers(v[i])
      BY <3>2
    <3> QED
      BY <3>1, <3>2
  <2> QED
    BY <1>1, <2>1 DEF InOrder
<1>3. \A j \in DOMAIN v : Ascending(v[j])
  BY <1>1 DEF InOrder
<1>4. ASSUME NEW i \in 1 .. N, NEW j \in 1 .. N, i < j,
             NEW m \in Numbers(v[i]), NEW n \in Numbers(v[j])
      PROVE  m < n
  <2>0. \A a, b \in 1 .. N : a < b => \A x \in Numbers(w[a]), y \in Numbers(w[b]) : x < y
    BY <1>1 DEF InOrder
  <2>1. CASE i = k /\ j = k + 1
    BY <1>4, <2>1
  <2>2. CASE i \in {k, k + 1} /\ j \notin {k, k + 1}
    <3>1. k < j /\ k + 1 < j
      BY <1>4, <2>2
    <3>2. m \in Numbers(w[k]) \cup Numbers(w[k + 1]) /\ n \in Numbers(w[j])
      BY <1>4, <2>2
    <3> QED
      BY <2>0, <3>1, <3>2
  <2>3. CASE i \notin {k, k + 1} /\ j \in {k, k + 1}
    <3>1. i < k /\ i < k + 1
      BY <1>4, <2>3
    <3>2. n \in Numbers(w[k]) \cup Numbers(w[k + 1]) /\ m \in Numbers(w[i])
      BY <1>4, <2>3
    <3> QED
      BY <2>0, <3>1, <3>2
  <2>4. CASE i \notin {k, k + 1} /\ j \notin {k, k + 1}
    BY <1>4, <2>0, <2>4
  <2>5. i \in {k, k + 1} /\ j \in {k, k + 1} => i = k /\ j = k + 1
    BY <1>4
  <2> QED
    BY <2>1, <2>2, <2>3, <2>4, <2>5
<1> QED
  BY <1>1, <1>2, <1>3, <1>4 DEF InOrder

LEMMA SingleKeeps ==
  ASSUME NEW N \in Nat, NEW w \in Ways(N), NEW v \in Ways(N), NEW last, InOrder(w, last),
         NEW k \in 1 .. N, \A j \in 1 .. N : j # k => v[j] = w[j],
         Numbers(v[k]) = Numbers(w[k]), Ascending(v[k])
  PROVE  InOrder(v, last)
<1>1. DOMAIN w = 1 .. N /\ DOMAIN v = 1 .. N
  BY DEF Ways
<1>2. \A j \in 1 .. N : Numbers(v[j]) = Numbers(w[j]) /\ Ascending(v[j])
  BY <1>1 DEF InOrder
<1>3. { Numbers(v[j]) : j \in DOMAIN v } = { Numbers(w[j]) : j \in DOMAIN w }
  BY <1>1, <1>2
<1> QED
  BY <1>1, <1>2, <1>3 DEF InOrder

LEMMA NumbersOnTheWay ==
  ASSUME NEW N \in Nat, NEW w \in Ways(N), NEW last, InOrder(w, last)
  PROVE  /\ \A k \in 1 .. N : Numbers(w[k]) \subseteq 1 .. last
         /\ \A x \in 1 .. last : \E k \in 1 .. N : x \in Numbers(w[k])
  BY DEF InOrder, Ways

LEMMA EndGrows ==
  ASSUME NEW N \in Nat \ {0}, NEW w \in Ways(N), NEW v \in Ways(N), NEW last \in Nat,
         InOrder(w, last), \A j \in 1 .. N : j # N => v[j] = w[j],
         v[N] = Append(w[N], last + 1)
  PROVE  InOrder(v, last + 1)
<1>1. DOMAIN w = 1 .. N /\ DOMAIN v = 1 .. N /\ N \in 1 .. N /\ w[N] \in Seq(Nat)
  BY DEF Ways
<1>2. /\ \A k \in 1 .. N : Numbers(w[k]) \subseteq 1 .. last
      /\ \A x \in 1 .. last : \E k \in 1 .. N : x \in Numbers(w[k])
  BY NumbersOnTheWay
<1>3. /\ Numbers(v[N]) = Numbers(w[N]) \cup {last + 1}
      /\ Ascending(v[N])
  <2>1. Ascending(w[N])
    BY <1>1 DEF InOrder
  <2>2. \A m \in Numbers(w[N]) : m \in 1 .. last
    BY <1>1, <1>2
  <2>3. \A m \in Numbers(w[N]) : m < last + 1
    BY <2>2
  <2> QED
    BY <1>1, <2>1, <2>3, AppendKeeps
<1>4. UNION { Numbers(v[j]) : j \in DOMAIN v } = 1 .. last + 1
  <2>1. ASSUME NEW j \in 1 .. N, NEW x \in Numbers(v[j])
        PROVE  x \in 1 .. last + 1
    <3>1. x \in Numbers(w[j]) \/ x = last + 1
      BY <1>3, <2>1
    <3>2. x \in 1 .. last \/ x = last + 1
      BY <1>2, <3>1
    <3> QED
      BY <3>2
  <2>2. ASSUME NEW x \in 1 .. last + 1
        PROVE  \E j \in 1 .. N : x \in Numbers(v[j])
    <3>1. CASE x = last + 1
      BY <1>1, <1>3, <3>1
    <3>2. CASE x \in 1 .. last
      <4>1. PICK k \in 1 .. N : x \in Numbers(w[k])
        BY <1>2, <3>2
      <4> QED
        BY <1>3, <4>1
    <3> QED
      BY <3>1, <3>2
  <2> QED
    BY <1>1, <2>1, <2>2
<1>5. \A j \in DOMAIN v : Ascending(v[j])
  BY <1>1, <1>3 DEF InOrder
<1>6. ASSUME NEW i \in 1 .. N, NEW j \in 1 .. N, i < j,
             NEW m \in Numbers(v[i]), NEW n \in Numbers(v[j])
      PROVE  m < n
  <2>0. \A a, b \in 1 .. N : a < b => \A x \in Numbers(w[a]), y \in Numbers(w[b]) : x < y
    BY <1>1 DEF InOrder
  <2>1. i # N /\ m \in Numbers(w[i]) /\ m \in 1 .. last
    BY <1>2, <1>6
  <2>2. CASE n \in Numbers(w[j])
    BY <1>6, <2>0, <2>1, <2>2
  <2>3. CASE n = last + 1
    BY <2>1, <2>3
  <2> QED
    BY <1>3, <1>6, <2>2, <2>3
<1> QED
  BY <1>1, <1>4, <1>5, <1>6 DEF InOrder

-----------------------------------------------------------------------------
(* A whole way and its part inside the members: what was submitted, and     *)
(* what of it the Arbitration IP was given.                                 *)

Entered(way) == [k \in 1 .. 7 |-> way[k]]
Whole(way, given, last) ==
  /\ way \in Ways(9) /\ given \in Nat /\ last \in Nat
  /\ InOrder(way, last) /\ InOrder(Entered(way), given)

LEMMA EnteredIsWay ==
  ASSUME NEW w \in Ways(9)
  PROVE  /\ Entered(w) \in Ways(7)
         /\ \A k \in 1 .. 7 : Entered(w)[k] = w[k]
  BY DEF Entered, Ways

LEMMA PairKeepsWhole ==
  ASSUME NEW w, NEW v \in Ways(9), NEW given, NEW last, Whole(w, given, last),
         NEW k \in 1 .. 8, k # 7,
         \A j \in 1 .. 9 : j # k /\ j # k + 1 => v[j] = w[j],
         Numbers(v[k]) \cup Numbers(v[k + 1]) = Numbers(w[k]) \cup Numbers(w[k + 1]),
         Ascending(v[k]), Ascending(v[k + 1]),
         \A m \in Numbers(v[k]), n \in Numbers(v[k + 1]) : m < n
  PROVE  Whole(v, given, last)
<1>1. w \in Ways(9) /\ InOrder(w, last) /\ InOrder(Entered(w), given) /\ given \in Nat /\ last \in Nat
  BY DEF Whole
<1>2. InOrder(v, last)
  <2>1. k \in 1 .. 9 /\ k + 1 \in 1 .. 9
    OBVIOUS
  <2> QED
    BY <1>1, <2>1, PairKeeps
<1>3. InOrder(Entered(v), given)
  <2>1. /\ Entered(w) \in Ways(7) /\ Entered(v) \in Ways(7)
        /\ \A j \in 1 .. 7 : Entered(w)[j] = w[j] /\ Entered(v)[j] = v[j]
    BY <1>1, EnteredIsWay
  <2>2. CASE k = 8
    <3>1. \A j \in 1 .. 7 : v[j] = w[j]
      BY <2>2
    <3>2. Entered(v) = Entered(w)
      BY <3>1 DEF Entered
    <3> QED
      BY <1>1, <3>2
  <2>3. CASE k \in 1 .. 6
    <3>1. k \in 1 .. 7 /\ k + 1 \in 1 .. 7 /\ \A j \in 1 .. 7 : j \in 1 .. 9
      BY <2>3
    <3>2. \A j \in 1 .. 7 : j # k /\ j # k + 1 => Entered(v)[j] = Entered(w)[j]
      BY <2>1, <3>1
    <3>3. /\ Entered(v)[k] = v[k] /\ Entered(v)[k + 1] = v[k + 1]
          /\ Entered(w)[k] = w[k] /\ Entered(w)[k + 1] = w[k + 1]
      BY <2>1, <3>1
    <3> HIDE DEF Entered
    <3> QED
      BY <1>1, <2>1, <3>1, <3>2, <3>3, PairKeeps
  <2> QED
    BY <2>2, <2>3
<1> QED
  BY <1>1, <1>2, <1>3 DEF Whole

LEMMA SingleKeepsWhole ==
  ASSUME NEW w, NEW v \in Ways(9), NEW given, NEW last, Whole(w, given, last),
         NEW k \in 1 .. 9, \A j \in 1 .. 9 : j # k => v[j] = w[j],
         Numbers(v[k]) = Numbers(w[k]), Ascending(v[k])
  PROVE  Whole(v, given, last)
<1>1. w \in Ways(9) /\ InOrder(w, last) /\ InOrder(Entered(w), given) /\ given \in Nat /\ last \in Nat
  BY DEF Whole
<1>2. InOrder(v, last)
  BY <1>1, SingleKeeps
<1>3. InOrder(Entered(v), given)
  <2>1. /\ Entered(w) \in Ways(7) /\ Entered(v) \in Ways(7)
        /\ \A j \in 1 .. 7 : Entered(w)[j] = w[j] /\ Entered(v)[j] = v[j]
    BY <1>1, EnteredIsWay
  <2>2. CASE k \notin 1 .. 7
    <3>1. \A j \in 1 .. 7 : v[j] = w[j]
      BY <2>2
    <3>2. Entered(v) = Entered(w)
      BY <3>1 DEF Entered
    <3> QED
      BY <1>1, <3>2
  <2>3. CASE k \in 1 .. 7
    <3>1. \A j \in 1 .. 7 : j # k => Entered(v)[j] = Entered(w)[j]
      BY <2>1
    <3>2. Entered(v)[k] = v[k] /\ Entered(w)[k] = w[k]
      BY <2>1, <2>3
    <3> QED
      BY <1>1, <2>1, <2>3, <3>1, <3>2, SingleKeeps
  <2> QED
    BY <2>2, <2>3
<1> QED
  BY <1>1, <1>2, <1>3 DEF Whole

LEMMA SubmitKeepsWhole ==
  ASSUME NEW w, NEW v \in Ways(9), NEW given, NEW last, Whole(w, given, last),
         \A j \in 1 .. 8 : v[j] = w[j], v[9] = Append(w[9], last + 1)
  PROVE  Whole(v, given, last + 1)
<1>1. w \in Ways(9) /\ InOrder(w, last) /\ InOrder(Entered(w), given) /\ given \in Nat /\ last \in Nat
  BY DEF Whole
<1>2. InOrder(v, last + 1)
  <2>1. PICK N \in Nat \ {0} : N = 9
    OBVIOUS
  <2>2. w \in Ways(N) /\ v \in Ways(N) /\ v[N] = Append(w[N], last + 1)
    BY <1>1, <2>1
  <2>3. \A j \in 1 .. N : j # N => v[j] = w[j]
    BY <2>1
  <2> QED
    BY <1>1, <2>2, <2>3, EndGrows
<1>3. Entered(v) = Entered(w)
  BY DEF Entered
<1> QED
  BY <1>1, <1>2, <1>3 DEF Whole

\* What stands next before the Arbitration IP is the number it gives next.
LEMMA NextIsGiven ==
  ASSUME NEW w, NEW given, NEW last, Whole(w, given, last),
         NEW x \in Nat \ {0}, Numbers(w[8]) = {x}
  PROVE  x = given + 1 /\ given < last
<1>1. w \in Ways(9) /\ InOrder(w, last) /\ InOrder(Entered(w), given) /\ given \in Nat /\ last \in Nat
  BY DEF Whole
<1>2. /\ \A k \in 1 .. 7 : Numbers(w[k]) \subseteq 1 .. given
      /\ \A y \in 1 .. given : \E k \in 1 .. 7 : y \in Numbers(w[k])
  <2>1. Entered(w) \in Ways(7) /\ \A k \in 1 .. 7 : Entered(w)[k] = w[k]
    BY <1>1, EnteredIsWay
  <2>2. PICK e \in Ways(7) : InOrder(e, given) /\ \A k \in 1 .. 7 : e[k] = w[k]
    BY <1>1, <2>1
  <2>3. /\ \A k \in 1 .. 7 : Numbers(e[k]) \subseteq 1 .. given
        /\ \A y \in 1 .. given : \E k \in 1 .. 7 : y \in Numbers(e[k])
    BY <2>2, NumbersOnTheWay
  <2> QED
    BY <2>2, <2>3
<1>3. /\ \A k \in 1 .. 9 : Numbers(w[k]) \subseteq 1 .. last
      /\ \A y \in 1 .. last : \E k \in 1 .. 9 : y \in Numbers(w[k])
      /\ \A k, l \in 1 .. 9 : k < l => \A m \in Numbers(w[k]), n \in Numbers(w[l]) : m < n
  <2>1. \A k, l \in 1 .. 9 : k < l => \A m \in Numbers(w[k]), n \in Numbers(w[l]) : m < n
    BY <1>1 DEF InOrder, Ways
  <2> QED
    BY <1>1, <2>1, NumbersOnTheWay
<1>4. x \in 1 .. last
  BY <1>3
<1>5. x \notin 1 .. given
  <2>1. SUFFICES ASSUME x \in 1 .. given
                 PROVE  FALSE
    OBVIOUS
  <2>2. PICK k \in 1 .. 7 : x \in Numbers(w[k])
    BY <1>2, <2>1
  <2>3. k \in 1 .. 9 /\ 8 \in 1 .. 9 /\ k < 8 /\ x \in Numbers(w[8])
    OBVIOUS
  <2>4. x < x
    BY <1>3, <2>2, <2>3
  <2> QED
    BY <2>4
<1>6. given + 1 <= x /\ given + 1 \in 1 .. last
  BY <1>1, <1>4, <1>5
<1>7. PICK k \in 1 .. 9 : given + 1 \in Numbers(w[k])
  BY <1>3, <1>6
<1>8. k \notin 1 .. 7
  <2>1. given + 1 \notin 1 .. given
    BY <1>1
  <2> QED
    BY <1>2, <1>7, <2>1
<1>9. CASE k = 8
  BY <1>1, <1>6, <1>7, <1>9
<1>10. CASE k = 9
  <2>1. x < given + 1
    BY <1>3, <1>7, <1>10
  <2> QED
    BY <1>1, <1>6, <2>1
<1> QED
  BY <1>8, <1>9, <1>10

LEMMA EnterKeepsWhole ==
  ASSUME NEW w, NEW v \in Ways(9), NEW given, NEW last, Whole(w, given, last),
         \A j \in 1 .. 9 : j # 7 /\ j # 8 => v[j] = w[j],
         Numbers(w[8]) = {given + 1}, v[7] = Append(w[7], given + 1), v[8] = <<>>
  PROVE  Whole(v, given + 1, last)
<1>1. w \in Ways(9) /\ InOrder(w, last) /\ InOrder(Entered(w), given) /\ given \in Nat /\ last \in Nat
  BY DEF Whole
<1>2. /\ Entered(w) \in Ways(7) /\ Entered(v) \in Ways(7)
      /\ \A j \in 1 .. 7 : Entered(w)[j] = w[j] /\ Entered(v)[j] = v[j]
  BY <1>1, EnteredIsWay
<1>3. w[7] \in Seq(Nat)
  BY <1>1 DEF Ways
<1>4. InOrder(Entered(v), given + 1)
  <2>1. PICK N \in Nat \ {0} : N = 7
    OBVIOUS
  <2>2. /\ Entered(w) \in Ways(N) /\ Entered(v) \in Ways(N) /\ N \in 1 .. 7
        /\ v[N] = Append(w[N], given + 1)
    BY <1>2, <2>1
  <2>3. Entered(v)[N] = Append(Entered(w)[N], given + 1)
    BY <1>2, <2>2
  <2>4. \A j \in 1 .. N : j # N => Entered(v)[j] = Entered(w)[j]
    BY <1>2, <2>1
  <2> QED
    BY <1>1, <2>2, <2>3, <2>4, EndGrows
<1>5. /\ Numbers(v[7]) = Numbers(w[7]) \cup {given + 1} /\ Ascending(v[7])
      /\ Numbers(v[8]) = {} /\ Ascending(v[8])
  <2>1. Ascending(v[7])
    <3>1. 7 \in DOMAIN Entered(v) /\ Entered(v)[7] = v[7]
      BY <1>2 DEF Ways
    <3>2. Ascending(Entered(v)[7])
      BY <1>4, <3>1 DEF InOrder
    <3> QED
      BY <3>1, <3>2
  <2> QED
    BY <1>1, <1>3, <2>1, AppendKeeps, EmptyStation
<1>6. InOrder(v, last)
  <2>1. PICK k \in 1 .. 9 : k = 7
    OBVIOUS
  <2>2. k + 1 = 8 /\ k + 1 \in 1 .. 9 /\ v[k] = v[7] /\ w[k] = w[7]
    BY <2>1
  <2>3. v[k + 1] = v[8] /\ w[k + 1] = w[8]
    BY <2>2
  <2>4. Numbers(v[k]) \cup Numbers(v[k + 1]) = Numbers(w[k]) \cup Numbers(w[k + 1])
    BY <1>5, <2>2, <2>3
  <2>5. /\ \A m \in Numbers(v[k]), n \in Numbers(v[k + 1]) : m < n
        /\ Ascending(v[k]) /\ Ascending(v[k + 1])
    BY <1>5, <2>2, <2>3
  <2>6. \A j \in 1 .. 9 : j # k /\ j # k + 1 => v[j] = w[j]
    BY <2>1
  <2>7. PICK N \in Nat : N = 9
    OBVIOUS
  <2>8. w \in Ways(N) /\ v \in Ways(N) /\ k \in 1 .. N /\ k + 1 \in 1 .. N
    BY <1>1, <2>2, <2>7
  <2>9. \A j \in 1 .. N : j # k /\ j # k + 1 => v[j] = w[j]
    BY <2>6, <2>7
  <2> QED
    BY <1>1, <2>4, <2>5, <2>8, <2>9, PairKeeps
<1> QED
  BY <1>1, <1>4, <1>6 DEF Whole

-----------------------------------------------------------------------------
(* The moves the actions make.                                              *)

LEMMA StationOfWhole ==
  ASSUME NEW w, NEW given, NEW last, Whole(w, given, last), NEW k \in 1 .. 9
  PROVE  /\ w[k] \in Seq(Nat) /\ Ascending(w[k])
         /\ \A l \in 1 .. 9 : k < l => \A m \in Numbers(w[k]), n \in Numbers(w[l]) : m < n
  BY DEF Whole, Ways, InOrder

\* The head of a station goes on to the next one,
LEMMA HeadGoesOn ==
  ASSUME NEW w, NEW v \in Ways(9), NEW given, NEW last, Whole(w, given, last),
         NEW k \in 1 .. 8, k # 7,
         \A j \in 1 .. 9 : j # k /\ j # k + 1 => v[j] = w[j],
         w[k + 1] # <<>>, v[k] = Append(w[k], Head(w[k + 1])), v[k + 1] = Tail(w[k + 1])
  PROVE  Whole(v, given, last)
<1> DEFINE a == w[k]
           b == w[k + 1]
<1>1. k \in 1 .. 9 /\ k + 1 \in 1 .. 9 /\ k < k + 1
  OBVIOUS
<1>2. /\ a \in Seq(Nat) /\ b \in Seq(Nat) /\ Ascending(a) /\ Ascending(b)
      /\ \A m \in Numbers(a), n \in Numbers(b) : m < n
  BY <1>1, StationOfWhole
<1>3. b # <<>> /\ v[k] = Append(a, Head(b)) /\ v[k + 1] = Tail(b)
  OBVIOUS
<1> HIDE DEF a, b
<1>4. /\ Head(b) \in Nat /\ Tail(b) \in Seq(Nat)
      /\ Numbers(b) = Numbers(Tail(b)) \cup ({Head(b)} \ {0})
      /\ Ascending(Tail(b))
      /\ Head(b) # 0 => \A m \in Numbers(Tail(b)) : Head(b) < m
  BY <1>2, <1>3, TailKeeps
<1>5. Head(b) # 0 => \A m \in Numbers(a) : m < Head(b)
  BY <1>2, <1>4
<1>6. Numbers(v[k]) = Numbers(a) \cup ({Head(b)} \ {0}) /\ Ascending(v[k])
  BY <1>2, <1>3, <1>4, <1>5, AppendKeeps
<1>7. Numbers(v[k]) \cup Numbers(v[k + 1]) = Numbers(a) \cup Numbers(b)
  BY <1>3, <1>4, <1>6
<1>8. ASSUME NEW m \in Numbers(v[k]), NEW n \in Numbers(v[k + 1])
      PROVE  m < n
  BY <1>2, <1>3, <1>4, <1>6
<1>9. Ascending(v[k + 1])
  BY <1>3, <1>4
<1> QED
  BY <1>6, <1>7, <1>8, <1>9, PairKeepsWhole DEF a, b

\* a number of another queue leaves a station, or comes to one.
LEMMA OtherLeaves ==
  ASSUME NEW w, NEW v \in Ways(9), NEW given, NEW last, Whole(w, given, last),
         NEW k \in 1 .. 9, \A j \in 1 .. 9 : j # k => v[j] = w[j],
         w[k] # <<>>, Head(w[k]) = 0, v[k] = Tail(w[k])
  PROVE  Whole(v, given, last)
<1>1. w[k] \in Seq(Nat) /\ Ascending(w[k])
  BY StationOfWhole
<1>2. Numbers(v[k]) = Numbers(w[k]) /\ Ascending(v[k])
  <2>1. PICK a \in Seq(Nat) : a = w[k]
    BY <1>1
  <2>2. a # <<>> /\ Head(a) = 0 /\ v[k] = Tail(a) /\ Ascending(a)
    BY <1>1, <2>1
  <2>3. Numbers(a) = Numbers(Tail(a)) \cup ({Head(a)} \ {0}) /\ Ascending(Tail(a))
    BY <2>2, TailKeeps
  <2> QED
    BY <2>1, <2>2, <2>3
<1> QED
  BY <1>2, SingleKeepsWhole

LEMMA OtherComes ==
  ASSUME NEW w, NEW v \in Ways(9), NEW given, NEW last, Whole(w, given, last),
         NEW k \in 1 .. 9, \A j \in 1 .. 9 : j # k => v[j] = w[j],
         v[k] = Append(w[k], 0)
  PROVE  Whole(v, given, last)
<1>1. w[k] \in Seq(Nat) /\ Ascending(w[k])
  BY StationOfWhole
<1>2. Numbers(v[k]) = Numbers(w[k]) /\ Ascending(v[k])
  <2>1. PICK a \in Seq(Nat) : a = w[k]
    BY <1>1
  <2>2. v[k] = Append(a, 0) /\ Ascending(a) /\ 0 \in Nat
    BY <1>1, <2>1
  <2>3. Numbers(Append(a, 0)) = Numbers(a) \cup ({0} \ {0}) /\ Ascending(Append(a, 0))
    BY <2>2, AppendKeeps
  <2> QED
    BY <2>1, <2>2, <2>3
<1> QED
  BY <1>2, SingleKeepsWhole

\* A batch goes from its queue to the issued ones; in the way of another queue it
\* is so many zeros.
LEMMA BatchGoesOn ==
  ASSUME NEW w, NEW v \in Ways(9), NEW given, NEW last, Whole(w, given, last),
         \A j \in 1 .. 9 : j # 6 /\ j # 7 => v[j] = w[j],
         NEW b \in Seq(Nat), w[7] = b, NEW front \in Seq(Nat), NEW n \in 0 .. Len(b),
         DOMAIN front = 1 .. n, \A i \in 1 .. n : front[i] = b[i],
         v[6] = w[6] \o front, v[7] = SubSeq(b, n + 1, Len(b))
  PROVE  Whole(v, given, last)
<1> DEFINE a == w[6]
           rest == SubSeq(b, n + 1, Len(b))
<1>1. 6 \in 1 .. 9 /\ 7 \in 1 .. 9 /\ 6 < 7
  OBVIOUS
<1>2. a \in Seq(Nat) /\ b \in Seq(Nat) /\ Ascending(a) /\ Ascending(b)
  BY <1>1, StationOfWhole
<1>3. \A x \in Numbers(a), y \in Numbers(b) : x < y
  BY <1>1, StationOfWhole
<1>4. v[6] = a \o front /\ v[7] = rest /\ n \in 0 .. Len(b) /\ \A i \in 1 .. n : front[i] = b[i]
  OBVIOUS
<1> HIDE DEF a
<1>5. /\ front \in Seq(Nat) /\ rest \in Seq(Nat)
      /\ Numbers(b) = Numbers(front) \cup Numbers(rest)
      /\ Ascending(front) /\ Ascending(rest)
      /\ \A x \in Numbers(front), y \in Numbers(rest) : x < y
  <2> DEFINE cut == [i \in 1 .. n |-> b[i]]
  <2>1. /\ cut \in Seq(Nat) /\ rest \in Seq(Nat)
        /\ Numbers(b) = Numbers(cut) \cup Numbers(rest)
        /\ Ascending(cut) /\ Ascending(rest)
        /\ \A x \in Numbers(cut), y \in Numbers(rest) : x < y
    BY <1>2, <1>4, CutKeeps
  <2>2. front = cut
    <3>1. DOMAIN cut = 1 .. n /\ \A i \in 1 .. n : cut[i] = front[i]
      BY <1>4
    <3> HIDE DEF cut
    <3>2. Len(cut) = n /\ Len(front) = n
      BY <1>4, <2>1, <3>1, LenProperties
    <3> QED
      BY <2>1, <3>1, <3>2, SeqEqual
  <2> QED
    BY <2>1, <2>2
<1> HIDE DEF rest
<1>6. Numbers(v[6]) = Numbers(a) \cup Numbers(front) /\ Ascending(v[6])
  BY <1>2, <1>3, <1>4, <1>5, ConcatKeeps
<1>7. Numbers(v[6]) \cup Numbers(v[7]) = Numbers(a) \cup Numbers(b)
  BY <1>4, <1>5, <1>6
<1>8. \A x \in Numbers(v[6]), y \in Numbers(v[7]) : x < y
  BY <1>3, <1>4, <1>5, <1>6
<1>9. PICK k \in 1 .. 8 : k = 6
  OBVIOUS
<1>10. /\ k # 7 /\ v[k] = v[6] /\ v[k + 1] = v[7] /\ w[k] = a /\ w[k + 1] = b
       /\ \A j \in 1 .. 9 : j # k /\ j # k + 1 => v[j] = w[j]
  <2>1. k + 1 = 7
    BY <1>9
  <2>2. \A j \in 1 .. 9 : j # k /\ j # k + 1 => v[j] = w[j]
    BY <1>9, <2>1
  <2>3. v[k + 1] = v[7] /\ w[k + 1] = w[7]
    BY <2>1
  <2>4. k # 7
    BY <1>9
  <2>5. v[k] = v[6]
    BY <1>9
  <2>6. w[k] = w[6]
    BY <1>9
  <2> QED
    BY <2>2, <2>3, <2>4, <2>5, <2>6 DEF a
<1>11. /\ Ascending(v[k]) /\ Ascending(v[k + 1])
       /\ Numbers(v[k]) \cup Numbers(v[k + 1]) = Numbers(w[k]) \cup Numbers(w[k + 1])
       /\ \A x \in Numbers(v[k]), y \in Numbers(v[k + 1]) : x < y
  BY <1>4, <1>5, <1>6, <1>7, <1>8, <1>10
<1> QED
  BY <1>10, <1>11, PairKeepsWhole

LEMMA OtherBatchComes ==
  ASSUME NEW w, NEW v \in Ways(9), NEW given, NEW last, Whole(w, given, last),
         \A j \in 1 .. 9 : j # 6 => v[j] = w[j],
         NEW zeros \in Seq(Nat), \A i \in DOMAIN zeros : zeros[i] = 0, v[6] = w[6] \o zeros
  PROVE  Whole(v, given, last)
<1>1. w[6] \in Seq(Nat) /\ Ascending(w[6])
  <2>1. PICK k \in 1 .. 9 : k = 6
    OBVIOUS
  <2> QED
    BY <2>1, StationOfWhole
<1>2. Numbers(zeros) = {} /\ Ascending(zeros)
  BY DEF Numbers, Range, Ascending
<1>3. Numbers(v[6]) = Numbers(w[6]) /\ Ascending(v[6])
  <2>1. \A x \in Numbers(w[6]), y \in Numbers(zeros) : x < y
    BY <1>2
  <2>2. Numbers(w[6] \o zeros) = Numbers(w[6]) \cup Numbers(zeros) /\ Ascending(w[6] \o zeros)
    BY <1>1, <1>2, <2>1, ConcatKeeps
  <2> QED
    BY <1>2, <2>2
<1>4. PICK k \in 1 .. 9 : k = 6
  OBVIOUS
<1> QED
  BY <1>3, <1>4, SingleKeepsWhole

-----------------------------------------------------------------------------
(* What the stations of a queue show of a sequence of commands or entries.  *)

Shown(number, held) == [i \in DOMAIN held |-> number[held[i]]]
CommandNumber(s) == [c \in Command |-> IF c.sq = s THEN c.n ELSE 0]
EntryNumber(s) == [e \in Entry |-> IF e.kind = "command" /\ e.sq = s THEN e.n ELSE 0]

LEMMA ShownProperties ==
  ASSUME NEW S, NEW number \in [S -> Nat], NEW held \in Seq(S)
  PROVE  /\ Shown(number, held) \in Seq(Nat)
         /\ \A c \in S : Shown(number, Append(held, c)) = Append(Shown(number, held), number[c])
         /\ held # <<>> =>
              /\ Shown(number, held) # <<>>
              /\ Head(Shown(number, held)) = number[Head(held)]
              /\ Shown(number, Tail(held)) = Tail(Shown(number, held))
<1>1. Len(held) \in Nat /\ DOMAIN held = 1 .. Len(held) /\ \A i \in 1 .. Len(held) : held[i] \in S
  BY LenProperties, ElementOfSeq
<1>2. /\ Shown(number, held) \in Seq(Nat)
      /\ Len(Shown(number, held)) = Len(held)
      /\ \A i \in 1 .. Len(held) : Shown(number, held)[i] = number[held[i]]
  <2>1. Shown(number, held) \in [1 .. Len(held) -> Nat]
    BY <1>1 DEF Shown
  <2> QED
    BY <1>1, <2>1, SeqDef DEF Shown
<1>3. ASSUME NEW c \in S
      PROVE  Shown(number, Append(held, c)) = Append(Shown(number, held), number[c])
  <2> DEFINE a == Append(held, c)
  <2>1. /\ a \in Seq(S) /\ Len(a) = Len(held) + 1 /\ DOMAIN a = 1 .. Len(held) + 1
        /\ \A i \in 1 .. Len(held) : a[i] = held[i]
        /\ a[Len(held) + 1] = c
    BY AppendProperties, LenProperties
  <2> HIDE DEF a
  <2>2. /\ Shown(number, a) \in Seq(Nat) /\ Len(Shown(number, a)) = Len(held) + 1
        /\ \A i \in 1 .. Len(held) + 1 : Shown(number, a)[i] = number[a[i]]
    <3>1. Shown(number, a) \in [1 .. Len(held) + 1 -> Nat]
      <4>1. \A i \in 1 .. Len(held) + 1 : a[i] \in S
        BY <2>1, ElementOfSeq
      <4> QED
        BY <2>1, <4>1 DEF Shown
    <3> QED
      BY <1>1, <2>1, <3>1, SeqDef DEF Shown
  <2> DEFINE b == Append(Shown(number, held), number[c])
  <2>3. /\ b \in Seq(Nat) /\ Len(b) = Len(held) + 1
        /\ \A i \in 1 .. Len(held) : b[i] = number[held[i]]
        /\ b[Len(held) + 1] = number[c]
    BY <1>2, AppendProperties
  <2> HIDE DEF b
  <2>4. ASSUME NEW i \in 1 .. Len(held) + 1
        PROVE  Shown(number, a)[i] = b[i]
    <3>1. CASE i \in 1 .. Len(held)
      <4>1. a[i] = held[i]
        BY <2>1, <3>1
      <4>2. b[i] = number[held[i]]
        BY <2>3, <3>1
      <4>3. Shown(number, a)[i] = number[a[i]]
        BY <2>2
      <4> QED
        BY <4>1, <4>2, <4>3
    <3>2. CASE i = Len(held) + 1
      <4>1. a[i] = c
        BY <2>1, <3>2
      <4>2. b[i] = number[c]
        BY <2>3, <3>2
      <4>3. Shown(number, a)[i] = number[a[i]]
        BY <2>2
      <4> QED
        BY <4>1, <4>2, <4>3
    <3> QED
      BY <1>1, <3>1, <3>2
  <2> QED
    BY <2>2, <2>3, <2>4, SeqEqual DEF a, b
<1>4. ASSUME held # <<>>
      PROVE  /\ Shown(number, held) # <<>>
             /\ Head(Shown(number, held)) = number[Head(held)]
             /\ Shown(number, Tail(held)) = Tail(Shown(number, held))
  <2> DEFINE t == Tail(held)
             shown == Shown(number, held)
  <2>1. /\ t \in Seq(S) /\ Len(held) \in Nat \ {0} /\ Len(t) = Len(held) - 1
        /\ DOMAIN t = 1 .. Len(held) - 1 /\ Head(held) = held[1]
        /\ \A i \in 1 .. Len(held) - 1 : t[i] = held[i + 1]
    BY <1>4, HeadTailProperties, LenProperties, EmptySeq
  <2>2. /\ shown \in Seq(Nat) /\ Len(shown) = Len(held) /\ shown # <<>>
        /\ Head(shown) = shown[1]
    BY <1>2, <2>1
  <2>3. /\ Tail(shown) \in Seq(Nat) /\ Len(Tail(shown)) = Len(held) - 1
        /\ \A i \in 1 .. Len(held) - 1 : Tail(shown)[i] = shown[i + 1]
    BY <2>2, HeadTailProperties
  <2>4. Head(shown) = number[Head(held)]
    BY <1>2, <2>1, <2>2
  <2> HIDE DEF t
  <2>5. /\ Shown(number, t) \in Seq(Nat) /\ Len(Shown(number, t)) = Len(held) - 1
        /\ \A i \in 1 .. Len(held) - 1 : Shown(number, t)[i] = number[t[i]]
    <3>1. Shown(number, t) \in [1 .. Len(held) - 1 -> Nat]
      <4>1. \A i \in 1 .. Len(held) - 1 : t[i] \in S
        BY <2>1, ElementOfSeq
      <4> QED
        BY <2>1, <4>1 DEF Shown
    <3>2. Len(held) - 1 \in Nat
      BY <2>1
    <3> QED
      BY <2>1, <3>1, <3>2, SeqDef DEF Shown
  <2>6. ASSUME NEW i \in 1 .. Len(held) - 1
        PROVE  Shown(number, t)[i] = Tail(shown)[i]
    <3>1. i + 1 \in 1 .. Len(held)
      BY <2>1
    <3> QED
      BY <1>2, <2>1, <2>3, <2>5, <3>1
  <2>7. Shown(number, t) = Tail(shown)
    BY <2>3, <2>5, <2>6, SeqEqual
  <2> QED
    BY <2>2, <2>4, <2>7 DEF t
<1> QED
  BY <1>2, <1>3, <1>4

LEMMA OwnProperties ==
  ASSUME NEW s \in Sq, NEW held \in Seq(Command)
  PROVE  /\ Own(s, held) \in Seq(Nat)
         /\ \A c \in Command : Own(s, Append(held, c)) = Append(Own(s, held), CommandNumber(s)[c])
         /\ held # <<>> =>
              /\ Own(s, held) # <<>>
              /\ Head(Own(s, held)) = CommandNumber(s)[Head(held)]
              /\ Own(s, Tail(held)) = Tail(Own(s, held))
<1>1. CommandNumber(s) \in [Command -> Nat]
  BY DEF CommandNumber, Command
<1>2. ASSUME NEW some \in Seq(Command)
      PROVE  Own(s, some) = Shown(CommandNumber(s), some)
  <2>1. \A i \in DOMAIN some : some[i] \in Command
    BY LenProperties, ElementOfSeq
  <2> QED
    BY <2>1 DEF Own, Shown, CommandNumber
<1>3. \A c \in Command : Append(held, c) \in Seq(Command)
  BY AppendProperties
<1>4. held # <<>> => Tail(held) \in Seq(Command)
  BY HeadTailProperties
<1>5. /\ Own(s, held) = Shown(CommandNumber(s), held)
      /\ \A c \in Command : Own(s, Append(held, c)) = Shown(CommandNumber(s), Append(held, c))
      /\ held # <<>> => Own(s, Tail(held)) = Shown(CommandNumber(s), Tail(held))
  BY <1>2, <1>3, <1>4
<1> QED
  BY <1>1, <1>5, ShownProperties

LEMMA OwnConcat ==
  ASSUME NEW s \in Sq, NEW a \in Seq(Command), NEW b \in Seq(Command)
  PROVE  Own(s, a \o b) = Own(s, a) \o Own(s, b)
<1>1. a \o b \in Seq(Command) /\ Own(s, a \o b) \in Seq(Nat) /\ Own(s, a) \in Seq(Nat) /\ Own(s, b) \in Seq(Nat)
  BY ConcatProperties, OwnProperties
<1> DEFINE p == Len(a)
           q == Len(b)
<1>2. /\ p \in Nat /\ q \in Nat /\ Len(a \o b) = p + q
      /\ DOMAIN a = 1 .. p /\ DOMAIN b = 1 .. q /\ DOMAIN (a \o b) = 1 .. p + q
      /\ \A i \in 1 .. p + q : (a \o b)[i] = IF i <= p THEN a[i] ELSE b[i - p]
  BY ConcatProperties, LenProperties
<1> HIDE DEF p, q
<1>3. /\ \A i \in 1 .. p : Own(s, a)[i] = IF a[i].sq = s THEN a[i].n ELSE 0
      /\ \A i \in 1 .. q : Own(s, b)[i] = IF b[i].sq = s THEN b[i].n ELSE 0
      /\ \A i \in 1 .. p + q : Own(s, a \o b)[i] = IF (a \o b)[i].sq = s THEN (a \o b)[i].n ELSE 0
      /\ DOMAIN Own(s, a) = 1 .. p /\ DOMAIN Own(s, b) = 1 .. q /\ DOMAIN Own(s, a \o b) = 1 .. p + q
  BY <1>2 DEF Own
<1>4. PICK x \in Seq(Nat), y \in Seq(Nat), z \in Seq(Nat) : x = Own(s, a) /\ y = Own(s, b) /\ z = Own(s, a \o b)
  BY <1>1
<1>5. Len(x) = p /\ Len(y) = q /\ Len(z) = p + q
  BY <1>2, <1>3, <1>4, LenProperties
<1>6. /\ x \o y \in Seq(Nat) /\ Len(x \o y) = p + q
      /\ \A i \in 1 .. p + q : (x \o y)[i] = IF i <= p THEN x[i] ELSE y[i - p]
  BY <1>5, ConcatProperties
<1>7. ASSUME NEW i \in 1 .. p + q
      PROVE  z[i] = (x \o y)[i]
  <2>1. CASE i <= p
    <3>1. i \in 1 .. p
      BY <1>2, <2>1
    <3> QED
      BY <1>2, <1>3, <1>4, <1>6, <2>1, <3>1
  <2>2. CASE ~(i <= p)
    <3>1. i - p \in 1 .. q
      BY <1>2, <2>2
    <3> QED
      BY <1>2, <1>3, <1>4, <1>6, <2>2, <3>1
  <2> QED
    BY <2>1, <2>2
<1>8. z = x \o y
  BY <1>5, <1>6, <1>7, SeqEqual
<1> QED
  BY <1>4, <1>8

\* A batch from the head of a queue, as the way of s shows it.
LEMMA OwnBatch ==
  ASSUME NEW s \in Sq, NEW q \in Sq, NEW numbers \in Seq(Nat), NEW batch \in Seq(Command),
         \A i \in DOMAIN batch : batch[i] = [sq |-> q, n |-> numbers[i]]
  PROVE  /\ Own(s, batch) \in Seq(Nat) /\ DOMAIN Own(s, batch) = DOMAIN batch
         /\ \A i \in DOMAIN batch : Own(s, batch)[i] = IF q = s THEN numbers[i] ELSE 0
  BY OwnProperties DEF Own

LEMMA SubmissionsProperties ==
  ASSUME NEW s \in Sq, NEW held \in Seq(Entry)
  PROVE  /\ Submissions(s, held) \in Seq(Nat)
         /\ \A e \in Entry : Submissions(s, Append(held, e)) = Append(Submissions(s, held), EntryNumber(s)[e])
         /\ held # <<>> =>
              /\ Submissions(s, held) # <<>>
              /\ Head(Submissions(s, held)) = EntryNumber(s)[Head(held)]
              /\ Submissions(s, Tail(held)) = Tail(Submissions(s, held))
<1>1. EntryNumber(s) \in [Entry -> Nat]
  BY DEF EntryNumber, Entry
<1>2. ASSUME NEW some \in Seq(Entry)
      PROVE  Submissions(s, some) = Shown(EntryNumber(s), some)
  <2>1. \A i \in DOMAIN some : some[i] \in Entry
    BY LenProperties, ElementOfSeq
  <2> QED
    BY <2>1 DEF Submissions, Shown, EntryNumber
<1>3. \A e \in Entry : Append(held, e) \in Seq(Entry)
  BY AppendProperties
<1>4. held # <<>> => Tail(held) \in Seq(Entry)
  BY HeadTailProperties
<1>5. /\ Submissions(s, held) = Shown(EntryNumber(s), held)
      /\ \A e \in Entry : Submissions(s, Append(held, e)) = Shown(EntryNumber(s), Append(held, e))
      /\ held # <<>> => Submissions(s, Tail(held)) = Shown(EntryNumber(s), Tail(held))
  BY <1>2, <1>3, <1>4
<1> QED
  BY <1>1, <1>5, ShownProperties

\* A hand is a station of at most one.
LEMMA HandProperties ==
  ASSUME NEW s \in Sq
  PROVE  /\ One(None) = <<>>
         /\ \A x : x # None => One(x) = <<x>>
         /\ Own(s, <<>>) = <<>> /\ Submissions(s, <<>>) = <<>>
         /\ \A c \in Command :
              /\ Own(s, One(c)) = Append(<<>>, CommandNumber(s)[c])
              /\ Own(s, One(c)) # <<>> /\ Tail(Own(s, One(c))) = <<>>
              /\ Head(Own(s, One(c))) = CommandNumber(s)[c]
         /\ \A e \in Entry :
              /\ Submissions(s, One(e)) = Append(<<>>, EntryNumber(s)[e])
              /\ Submissions(s, One(e)) # <<>> /\ Tail(Submissions(s, One(e))) = <<>>
              /\ Head(Submissions(s, One(e))) = EntryNumber(s)[e]
<1>1. One(None) = <<>> /\ \A x : x # None => One(x) = <<x>>
  BY DEF One
<1>2. Own(s, <<>>) = <<>> /\ Submissions(s, <<>>) = <<>>
  BY DEF Own, Submissions
<1>3. \A x : Append(<<>>, x) = <<x>> /\ <<x>> # <<>> /\ Head(<<x>>) = x /\ Tail(<<x>>) = <<>>
  OBVIOUS
<1>4. ASSUME NEW c \in Command
      PROVE  Own(s, One(c)) = Append(<<>>, CommandNumber(s)[c])
  <2>1. One(c) = Append(<<>>, c)
    BY <1>1, <1>3, EmptyHandAssumption
  <2>2. Own(s, Append(<<>>, c)) = Append(Own(s, <<>>), CommandNumber(s)[c])
    BY OwnProperties, EmptySeq
  <2> QED
    BY <1>2, <2>1, <2>2
<1>5. ASSUME NEW e \in Entry
      PROVE  Submissions(s, One(e)) = Append(<<>>, EntryNumber(s)[e])
  <2>1. One(e) = Append(<<>>, e)
    BY <1>1, <1>3, EmptyHandAssumption
  <2>2. Submissions(s, Append(<<>>, e)) = Append(Submissions(s, <<>>), EntryNumber(s)[e])
    BY SubmissionsProperties, EmptySeq
  <2> QED
    BY <1>2, <2>1, <2>2
<1> QED
  BY <1>1, <1>2, <1>3, <1>4, <1>5

-----------------------------------------------------------------------------
(* Types.                                                                   *)

CommandsOf(t) == { c \in Command : CommandTenant[c] = t }

\* Beyond TypeOK: what the Arbitration IP keeps, that what is pending for a tenant
\* is that tenant's, and that the host keeps to its workload.
MemberTypes ==
  /\ enqueued \in [Sq -> Nat] /\ queue \in [Sq -> Seq(Nat)]
  /\ \A t \in Tenant : pending[t] \in Seq(CommandsOf(t))
  /\ \A s \in Sq : submitted[s] <= Workload[s]
Types == TypeOK /\ MemberTypes

LEMMA TypesBegin == Init => Types
<1>1. ASSUME Init
      PROVE  Types
  <2>1. \A S : <<>> \in Seq(S)
    BY EmptySeq
  <2>2. MemberTypes
    BY <1>1, <2>1, StorageAssumption DEF Init, Arb!Init, Service!Init, MemberTypes
  <2>3. issued \in Seq(Command) /\ issuedSeen \in 0 .. Len(issued)
    BY <1>1, <2>1 DEF Init, Arb!Init
  <2>4. /\ inbox \in Seq(Command) /\ pending \in [Tenant -> Seq(Command)]
        /\ serving = None /\ completed \in Seq(Command)
    BY <1>1, <2>1 DEF Init, Service!Init
  <2>5. intake \in Seq(Entry) /\ submitted \in [Sq -> Nat]
    BY <1>1, <2>1 DEF Init
  <2> QED
    BY <1>1, <2>2, <2>3, <2>4, <2>5 DEF Init, Types, TypeOK
<1> QED
  BY <1>1

\* What a state keeps for a step that leaves the rest alone.
LEMMA TypesOfHost ==
  ASSUME Types, Host
  PROVE  Types'
<1>1. ASSUME NEW s \in Sq, Submit(s)
      PROVE  Types'
  <2>1. [kind |-> "command", sq |-> s, n |-> submitted[s] + 1] \in Entry
    BY DEF Types, TypeOK, Entry
  <2>2. intake' \in Seq(Entry)
    BY <1>1, <2>1, AppendProperties DEF Submit, Types, TypeOK
  <2>3. \A q \in Sq : submitted'[q] <= Workload[q]
    <3>1. /\ submitted \in [Sq -> Nat] /\ submitted' = [submitted EXCEPT ![s] = @ + 1]
          /\ submitted[s] < Workload[s] /\ Workload \in [Sq -> Nat]
          /\ \A q \in Sq : submitted[q] <= Workload[q]
      BY <1>1, StorageAssumption DEF Submit, Types, TypeOK, MemberTypes
    <3>2. submitted[s] + 1 <= Workload[s]
      BY <3>1
    <3> QED
      BY <3>1, <3>2
  <2> QED
    BY <1>1, <2>2, <2>3 DEF Submit, Types, TypeOK, MemberTypes, arbVars, dispatchVars, serviceVars,
       memberVars, monitorVars
<1>2. ASSUME NEW t \in QosHost, NEW enough \in BOOLEAN, ConfigureQos(t, enough)
      PROVE  Types'
  <2>1. [kind |-> "qos_config", tenant |-> t, enough |-> enough] \in Entry
    BY StorageAssumption DEF Entry
  <2>2. intake' \in Seq(Entry)
    BY <1>2, <2>1, AppendProperties DEF ConfigureQos, Types, TypeOK
  <2> QED
    BY <1>2, <2>2 DEF ConfigureQos, Types, TypeOK, MemberTypes, arbVars, dispatchVars, serviceVars,
       memberVars, monitorVars
<1>3. ASSUME SetCompletionReady
      PROVE  Types'
  BY <1>3 DEF SetCompletionReady, Types, TypeOK, MemberTypes, hostVars, intakeVars, arbVars,
     dispatchVars, serviceVars, monitorVars
<1> QED
  BY <1>1, <1>2, <1>3 DEF Host

LEMMA TypesOfIntake ==
  ASSUME Types, IntakeBridge
  PROVE  Types'
<1> USE DEF IntakeFrame, Types, TypeOK, MemberTypes, hostVars, dispatchVars, serviceVars, monitorVars
<1>1. CASE TakeEntry
  <2>1. Head(intake) \in Entry /\ Tail(intake) \in Seq(Entry) /\ Head(intake) # None
    BY <1>1, HeadTailProperties, EmptyHandAssumption DEF TakeEntry
  <2>2. Head(intake).kind \in {"command", "qos_config"}
    BY <2>1 DEF Entry
  <2>3. /\ taken' = Head(intake) /\ intake' = Tail(intake)
        /\ intakePc' = IF Head(intake).kind = "command" THEN "FORWARD_TO_ARBITRATION" ELSE "APPLY_QOS_CONFIG"
    BY <1>1 DEF TakeEntry
  <2> QED
    BY <1>1, <2>1, <2>2, <2>3 DEF TakeEntry, arbVars
<1>2. CASE ForwardToArbitration
  <2>0. taken \in Entry /\ taken.kind = "command" /\ Arb!Enqueue(taken.sq)
    BY <1>2 DEF ForwardToArbitration
  <2>1. PICK s \in Sq : taken.sq = s /\ Arb!Enqueue(s)
    BY <2>0 DEF Entry
  <2>2. Append(queue[s], enqueued[s] + 1) \in Seq(Nat)
    BY AppendProperties
  <2>3. queue' \in [Sq -> Seq(Nat)] /\ enqueued' \in [Sq -> Nat]
    BY <2>1, <2>2 DEF Arb!Enqueue
  <2> QED
    BY <1>2, <2>3 DEF ForwardToArbitration, Arb!Enqueue
<1>3. CASE ApplyQosConfig
  <2>1. taken \in Entry /\ taken.kind = "qos_config"
    BY <1>3 DEF ApplyQosConfig
  <2>2. taken.enough \in BOOLEAN
    BY <1>3, <2>1 DEF ApplyQosConfig, Entry
  <2> QED
    BY <1>3, <2>2 DEF ApplyQosConfig, arbVars
<1>4. CASE ReturnToIdle
  BY <1>4 DEF ReturnToIdle, arbVars
<1> QED
  BY <1>1, <1>2, <1>3, <1>4 DEF IntakeBridge

LEMMA TypesOfArbitration ==
  ASSUME Types, NEW s \in Sq, ArbGrant(s) \/ ArbIssue(s) \/ ArbEndGrant(s)
  PROVE  Types'
<1> USE DEF ArbFrame, Types, TypeOK, MemberTypes, hostVars, intakeVars, dispatchVars, serviceVars,
            memberVars, monitorVars
<1>1. CASE ArbGrant(s)
  BY <1>1 DEF ArbGrant, Arb!Grant
<1>2. CASE ArbEndGrant(s)
  BY <1>2 DEF ArbEndGrant, Arb!EndGrant
<1>3. CASE ArbIssue(s)
  <2>1. PICK n \in 1 .. Len(queue[s]) : Arb!IssueBatch(s, n)
    BY <1>3 DEF ArbIssue
  <2> DEFINE batch == [i \in 1 .. n |-> [sq |-> s, n |-> queue[s][i]]]
  <2>2. batch \in Seq(Command)
    <3>1. \A i \in 1 .. n : queue[s][i] \in Nat
      BY ElementOfSeq
    <3>2. batch \in [1 .. n -> Command] /\ n \in Nat
      BY <3>1 DEF Command
    <3> HIDE DEF batch
    <3> QED
      BY <3>2, SeqDef
  <2>3. issued' = issued \o batch
    BY <2>1 DEF Arb!IssueBatch
  <2> HIDE DEF batch
  <2>4. issued' \in Seq(Command) /\ Len(issued') = Len(issued) + Len(batch)
        /\ Len(batch) \in Nat /\ Len(issued) \in Nat
    BY <2>2, <2>3, ConcatProperties, LenProperties
  <2>5. issuedSeen \in 0 .. Len(issued')
    BY <2>4
  <2>6. SubSeq(queue[s], n + 1, Len(queue[s])) \in Seq(Nat)
    <3>1. \A i \in n + 1 .. Len(queue[s]) : queue[s][i] \in Nat
      BY ElementOfSeq
    <3>2. n + 1 \in Int /\ Len(queue[s]) \in Int
      BY LenProperties
    <3> QED
      BY <3>1, <3>2, SubSeqProperties
  <2>7. queue' \in [Sq -> Seq(Nat)] /\ UNCHANGED enqueued
    BY <2>1, <2>6 DEF Arb!IssueBatch
  <2> QED
    BY <1>3, <2>4, <2>5, <2>7 DEF ArbIssue
<1> QED
  BY <1>1, <1>2, <1>3

LEMMA TypesOfDispatch ==
  ASSUME Types, DispatchBridge
  PROVE  Types'
<1> USE DEF DispatchFrame, Types, TypeOK, MemberTypes, hostVars, intakeVars, arbVars, memberVars, monitorVars
<1>1. CASE PollIssued
  <2>1. issuedSeen + 1 \in 1 .. Len(issued) /\ issued[issuedSeen + 1] \in Command
    BY <1>1, ElementOfSeq DEF PollIssued
  <2> QED
    BY <1>1, <2>1, EmptyHandAssumption DEF PollIssued, serviceVars
<1>2. CASE ForwardToCompletion
  <2>1. inbox' \in Seq(Command)
    BY <1>2, AppendProperties DEF ForwardToCompletion, Service!Submit
  <2> QED
    BY <1>2, <2>1 DEF ForwardToCompletion, Service!Submit
<1>3. CASE ForwardAccepted
  BY <1>3 DEF ForwardAccepted, serviceVars
<1> QED
  BY <1>1, <1>2, <1>3 DEF DispatchBridge

LEMMA TypesOfCompletion ==
  ASSUME Types, CplAccept \/ CplFinish \/ \E t \in Tenant : CplBegin(t)
  PROVE  Types'
<1> USE DEF CplFrame, Types, TypeOK, MemberTypes, hostVars, intakeVars, arbVars, dispatchVars, memberVars,
            monitorVars
<1>1. CASE CplAccept
  <2>1. /\ inbox # <<>> /\ Head(inbox) \in Command /\ Tail(inbox) \in Seq(Command)
    BY <1>1, HeadTailProperties DEF CplAccept, Service!Accept
  <2>2. CommandTenant[Head(inbox)] \in Tenant
    BY <2>1, StorageAssumption DEF CommandTenant, Command
  <2>3. pending' \in [Tenant -> Seq(Command)]
    BY <1>1, <2>1, <2>2, AppendProperties DEF CplAccept, Service!Accept
  <2>4. ASSUME NEW t \in Tenant
        PROVE  pending'[t] \in Seq(CommandsOf(t))
    <3>1. CASE t = CommandTenant[Head(inbox)]
      <4>1. Head(inbox) \in CommandsOf(t)
        BY <2>1, <3>1 DEF CommandsOf
      <4>2. pending'[t] = Append(pending[t], Head(inbox))
        BY <1>1, <3>1 DEF CplAccept, Service!Accept
      <4> QED
        BY <4>1, <4>2, AppendProperties
    <3>2. CASE t # CommandTenant[Head(inbox)]
      BY <1>1, <3>2 DEF CplAccept, Service!Accept
    <3> QED
      BY <3>1, <3>2
  <2> QED
    BY <1>1, <2>1, <2>3, <2>4 DEF CplAccept, Service!Accept
<1>2. CASE CplFinish
  <2>1. completed' \in Seq(Command) /\ serving' = None
    BY <1>2, AppendProperties DEF CplFinish, Service!Finish
  <2> QED
    BY <1>2, <2>1 DEF CplFinish, Service!Finish
<1>3. ASSUME NEW t \in Tenant, CplBegin(t)
      PROVE  Types'
  <2>1. Head(pending[t]) \in Command /\ Tail(pending[t]) \in Seq(Command)
    BY <1>3, HeadTailProperties DEF CplBegin, Service!Begin
  <2>2. pending' = [pending EXCEPT ![t] = Tail(@)] /\ pending[t] # <<>>
    BY <1>3 DEF CplBegin, Service!Begin
  <2>3. ASSUME NEW u \in Tenant
        PROVE  pending'[u] \in Seq(CommandsOf(u))
    <3>1. CASE u = t
      BY <2>2, <3>1, HeadTailProperties
    <3>2. CASE u # t
      BY <2>2, <3>2
    <3> QED
      BY <3>1, <3>2
  <2> QED
    BY <1>3, <2>1, <2>3 DEF CplBegin, Service!Begin
<1> QED
  BY <1>1, <1>2, <1>3

LEMMA TypesOfMonitor ==
  ASSUME Types, BackpressureMonitor
  PROVE  Types'
<1> USE DEF MonitorFrame, Types, TypeOK, MemberTypes, hostVars, intakeVars, arbVars, dispatchVars,
            serviceVars, memberVars
<1>1. CASE SampleBacklog
  BY <1>1 DEF SampleBacklog
<1>2. CASE ApplyThrottle
  BY <1>2 DEF ApplyThrottle
<1> QED
  BY <1>1, <1>2 DEF BackpressureMonitor

-----------------------------------------------------------------------------
(* The invariant.                                                           *)

Inv == Types /\ \A s \in Sq : Whole(Stations(s), enqueued[s], submitted[s])

\* What a queue's stations are in a state of the right types.
StationTypes(s) ==
  /\ Own(s, completed) \in Seq(Nat) /\ Own(s, One(serving)) \in Seq(Nat)
  /\ Own(s, pending[TenantOf[s]]) \in Seq(Nat) /\ Own(s, inbox) \in Seq(Nat)
  /\ Own(s, One(carried)) \in Seq(Nat)
  /\ Own(s, SubSeq(issued, issuedSeen + 1, Len(issued))) \in Seq(Nat)
  /\ queue[s] \in Seq(Nat)
  /\ Submissions(s, One(taken)) \in Seq(Nat) /\ Submissions(s, intake) \in Seq(Nat)

LEMMA HandsAreStations ==
  ASSUME NEW s \in Sq
  PROVE  /\ \A c \in Command \cup {None} : Own(s, One(c)) \in Seq(Nat)
         /\ \A e \in Entry \cup {None} : Submissions(s, One(e)) \in Seq(Nat)
<1>1. <<>> \in Seq(Nat)
  BY EmptySeq
<1>2. \A c \in Command : Own(s, One(c)) \in Seq(Nat)
  <2>1. \A c \in Command : CommandNumber(s)[c] \in Nat
    BY DEF CommandNumber, Command
  <2> QED
    BY <1>1, <2>1, HandProperties, AppendProperties
<1>3. \A e \in Entry : Submissions(s, One(e)) \in Seq(Nat)
  <2>1. \A e \in Entry : EntryNumber(s)[e] \in Nat
    BY DEF EntryNumber, Entry
  <2> QED
    BY <1>1, <2>1, HandProperties, AppendProperties
<1> QED
  BY <1>1, <1>2, <1>3, HandProperties

\* What is behind the cursor.
LEMMA UnseenProperties ==
  ASSUME NEW trace \in Seq(Command), NEW seen \in 0 .. Len(trace)
  PROVE  LET unseen(n) == SubSeq(trace, n + 1, Len(trace))
         IN /\ unseen(seen) \in Seq(Command)
            /\ seen < Len(trace) =>
                 /\ unseen(seen) # <<>> /\ Head(unseen(seen)) = trace[seen + 1]
                 /\ Tail(unseen(seen)) = unseen(seen + 1)
            /\ \A more \in Seq(Command) :
                 SubSeq(trace \o more, seen + 1, Len(trace \o more)) = unseen(seen) \o more
<1> DEFINE size == Len(trace)
           unseen(n) == SubSeq(trace, n + 1, Len(trace))
<1>1. size \in Nat /\ seen \in Nat /\ seen <= size /\ \A i \in 1 .. size : trace[i] \in Command
  BY LenProperties, ElementOfSeq
<1>2. /\ unseen(seen) \in Seq(Command)
      /\ Len(unseen(seen)) = (IF seen + 1 <= size THEN size - (seen + 1) + 1 ELSE 0)
      /\ \A i \in 1 .. size - (seen + 1) + 1 : unseen(seen)[i] = trace[seen + 1 + i - 1]
  <2>1. \A i \in seen + 1 .. size : trace[i] \in Command
    BY <1>1
  <2> QED
    BY <1>1, <2>1, SubSeqProperties
<1>3. ASSUME seen < size
      PROVE  /\ unseen(seen) # <<>> /\ Head(unseen(seen)) = trace[seen + 1]
             /\ Tail(unseen(seen)) = unseen(seen + 1)
  <2>1. seen + 1 \in 1 .. size /\ size \in seen + 1 .. size
    BY <1>1, <1>3
  <2>2. Head(unseen(seen)) = trace[seen + 1] /\ Tail(unseen(seen)) = unseen(seen + 1)
    BY <2>1, HeadTailOfSubSeq
  <2>3. Len(unseen(seen)) # 0
    <3> HIDE DEF unseen, size
    <3>1. size - (seen + 1) + 1 # 0
      BY <1>1, <1>3
    <3> QED
      BY <1>1, <1>2, <2>1, <3>1
  <2> QED
    BY <2>2, <2>3, EmptySeq
<1>4. ASSUME NEW more \in Seq(Command)
      PROVE  SubSeq(trace \o more, seen + 1, Len(trace \o more)) = unseen(seen) \o more
  <2> DEFINE all == trace \o more
             rest == SubSeq(all, seen + 1, Len(all))
             extra == Len(more)
             both == unseen(seen) \o more
  <2>1. /\ all \in Seq(Command) /\ Len(all) = size + extra /\ extra \in Nat
        /\ \A i \in 1 .. size + extra : all[i] = IF i <= size THEN trace[i] ELSE more[i - size]
    BY ConcatProperties, LenProperties
  <2>2. \A i \in 1 .. size + extra : all[i] \in Command
    BY <2>1, ElementOfSeq
  <2> HIDE DEF all, size, extra
  <2> PICK total \in Nat : total = Len(all) /\ total = size + extra
    BY <1>1, <2>1
  <2>3. /\ rest \in Seq(Command)
        /\ Len(rest) = (IF seen + 1 <= total THEN total - (seen + 1) + 1 ELSE 0)
        /\ \A i \in 1 .. total - (seen + 1) + 1 : rest[i] = all[seen + 1 + i - 1]
    <3> DEFINE cut == SubSeq(all, seen + 1, total)
    <3>1. \A i \in seen + 1 .. total : all[i] \in Command
      BY <1>1, <2>1, <2>2
    <3>2. seen + 1 \in Int /\ total \in Int
      BY <1>1
    <3>3. /\ cut \in Seq(Command)
          /\ Len(cut) = (IF seen + 1 <= total THEN total - (seen + 1) + 1 ELSE 0)
          /\ \A i \in 1 .. total - (seen + 1) + 1 : cut[i] = all[seen + 1 + i - 1]
      BY <3>1, <3>2, SubSeqProperties
    <3>4. rest = cut
      OBVIOUS
    <3> HIDE DEF rest, cut
    <3> QED
      BY <3>3, <3>4
  <2> HIDE DEF rest, unseen
  <2>4. Len(unseen(seen)) = size - seen /\ \A i \in 1 .. size - seen : unseen(seen)[i] = trace[seen + i]
    <3>1. size - (seen + 1) + 1 = size - seen /\ (~(seen + 1 <= size) => size - seen = 0)
      BY <1>1
    <3>2. \A i \in 1 .. size - seen : seen + 1 + i - 1 = seen + i
      BY <1>1
    <3> QED
      BY <1>1, <1>2, <3>1, <3>2
  <2>5. /\ both \in Seq(Command) /\ Len(both) = (size - seen) + extra
        /\ \A i \in 1 .. (size - seen) + extra :
             both[i] = IF i <= size - seen THEN unseen(seen)[i] ELSE more[i - (size - seen)]
    <3>1. PICK first \in Seq(Command) : first = unseen(seen) /\ Len(first) = size - seen
      BY <1>2, <2>4
    <3>2. both = first \o more /\ Len(more) = extra
      BY <3>1 DEF extra
    <3>3. /\ first \o more \in Seq(Command) /\ Len(first \o more) = Len(first) + Len(more)
          /\ \A i \in 1 .. Len(first) + Len(more) :
               (first \o more)[i] = IF i <= Len(first) THEN first[i] ELSE more[i - Len(first)]
      BY ConcatProperties
    <3> HIDE DEF both
    <3> QED
      BY <3>1, <3>2, <3>3
  <2> HIDE DEF both
  <2>6. /\ total - (seen + 1) + 1 = (size - seen) + extra
        /\ ~(seen + 1 <= total) => (size - seen) + extra = 0
    BY <1>1, <2>1
  <2>7. Len(rest) = (size - seen) + extra
    BY <2>3, <2>6
  <2>8. ASSUME NEW i \in 1 .. (size - seen) + extra
        PROVE  rest[i] = both[i]
    <3>1. /\ seen + 1 + i - 1 = seen + i /\ seen + i \in 1 .. size + extra
          /\ (i <= size - seen <=> seen + i <= size) /\ i - (size - seen) = (seen + i) - size
      BY <1>1, <2>1
    <3>2. rest[i] = all[seen + i]
      BY <2>3, <2>6, <3>1
    <3>3. CASE i <= size - seen
      <4>1. all[seen + i] = trace[seen + i]
        BY <2>1, <3>1, <3>3
      <4>2. both[i] = trace[seen + i]
        <5>1. i \in 1 .. size - seen
          BY <1>1, <3>3
        <5> QED
          BY <2>4, <2>5, <3>3, <5>1
      <4> QED
        BY <3>2, <4>1, <4>2
    <3>4. CASE ~(i <= size - seen)
      <4>1. all[seen + i] = more[(seen + i) - size]
        BY <2>1, <3>1, <3>4
      <4>2. both[i] = more[i - (size - seen)]
        BY <2>5, <3>4
      <4> QED
        BY <3>1, <3>2, <4>1, <4>2
    <3> QED
      BY <3>3, <3>4
  <2> QED
    BY <2>3, <2>5, <2>7, <2>8, SeqEqual DEF all, rest, both
<1> QED
  BY <1>2, <1>3, <1>4

LEMMA StationsAre ==
  ASSUME Types, NEW s \in Sq
  PROVE  StationTypes(s)
<1>1. SubSeq(issued, issuedSeen + 1, Len(issued)) \in Seq(Command)
  BY UnseenProperties DEF Types, TypeOK
<1>2. pending[TenantOf[s]] \in Seq(Command)
  BY StorageAssumption DEF Types, TypeOK
<1>3. queue[s] \in Seq(Nat)
  BY DEF Types, MemberTypes
<1> QED
  BY <1>1, <1>2, <1>3, OwnProperties, SubmissionsProperties, HandsAreStations DEF StationTypes, Types, TypeOK

LEMMA NextStationsAre ==
  ASSUME Types', NEW s \in Sq
  PROVE  StationTypes(s)'
<1>1. SubSeq(issued', issuedSeen' + 1, Len(issued')) \in Seq(Command)
  BY UnseenProperties DEF Types, TypeOK
<1>2. pending'[TenantOf[s]] \in Seq(Command)
  BY StorageAssumption DEF Types, TypeOK
<1>3. queue'[s] \in Seq(Nat)
  BY DEF Types, MemberTypes
<1> QED
  BY <1>1, <1>2, <1>3, OwnProperties, SubmissionsProperties, HandsAreStations DEF StationTypes, Types, TypeOK

\* The stations one by one, before a step and after it.
LEMMA StationByStation ==
  ASSUME Types, Types', NEW s \in Sq
  PROVE  LET w == Stations(s)
             v == Stations(s)'
         IN /\ w \in Ways(9) /\ v \in Ways(9)
            /\ w[1] = Own(s, completed) /\ v[1] = Own(s, completed')
            /\ w[2] = Own(s, One(serving)) /\ v[2] = Own(s, One(serving'))
            /\ w[3] = Own(s, pending[TenantOf[s]]) /\ v[3] = Own(s, pending'[TenantOf[s]])
            /\ w[4] = Own(s, inbox) /\ v[4] = Own(s, inbox')
            /\ w[5] = Own(s, One(carried)) /\ v[5] = Own(s, One(carried'))
            /\ w[6] = Own(s, SubSeq(issued, issuedSeen + 1, Len(issued)))
            /\ v[6] = Own(s, SubSeq(issued', issuedSeen' + 1, Len(issued')))
            /\ w[7] = queue[s] /\ v[7] = queue'[s]
            /\ w[8] = Submissions(s, One(taken)) /\ v[8] = Submissions(s, One(taken'))
            /\ w[9] = Submissions(s, intake) /\ v[9] = Submissions(s, intake')
<1>1. StationTypes(s) /\ StationTypes(s)'
  BY StationsAre, NextStationsAre
<1> DEFINE w == Stations(s)
           v == Stations(s)'
<1>2. w = << Own(s, completed), Own(s, One(serving)), Own(s, pending[TenantOf[s]]), Own(s, inbox),
             Own(s, One(carried)), Own(s, SubSeq(issued, issuedSeen + 1, Len(issued))),
             queue[s], Submissions(s, One(taken)), Submissions(s, intake) >>
  BY DEF Stations
<1>3. v = << Own(s, completed'), Own(s, One(serving')), Own(s, pending'[TenantOf[s]]), Own(s, inbox'),
             Own(s, One(carried')), Own(s, SubSeq(issued', issuedSeen' + 1, Len(issued'))),
             queue'[s], Submissions(s, One(taken')), Submissions(s, intake') >>
  BY DEF Stations
<1> HIDE DEF w, v
<1>4. /\ w \in Ways(9)
      /\ w[1] = Own(s, completed) /\ w[2] = Own(s, One(serving))
      /\ w[3] = Own(s, pending[TenantOf[s]]) /\ w[4] = Own(s, inbox)
      /\ w[5] = Own(s, One(carried))
      /\ w[6] = Own(s, SubSeq(issued, issuedSeen + 1, Len(issued)))
      /\ w[7] = queue[s]
      /\ w[8] = Submissions(s, One(taken)) /\ w[9] = Submissions(s, intake)
  <2> DEFINE a1 == Own(s, completed)
             a2 == Own(s, One(serving))
             a3 == Own(s, pending[TenantOf[s]])
             a4 == Own(s, inbox)
             a5 == Own(s, One(carried))
             a6 == Own(s, SubSeq(issued, issuedSeen + 1, Len(issued)))
             a7 == queue[s]
             a8 == Submissions(s, One(taken))
             a9 == Submissions(s, intake)
  <2>1. /\ a1 \in Seq(Nat) /\ a2 \in Seq(Nat) /\ a3 \in Seq(Nat) /\ a4 \in Seq(Nat)
        /\ a5 \in Seq(Nat) /\ a6 \in Seq(Nat) /\ a7 \in Seq(Nat) /\ a8 \in Seq(Nat)
        /\ a9 \in Seq(Nat)
    BY <1>1 DEF StationTypes
  <2>2. w = <<a1, a2, a3, a4, a5, a6, a7, a8, a9>>
    BY <1>2
  <2> HIDE DEF a1, a2, a3, a4, a5, a6, a7, a8, a9
  <2>3. w \in Ways(9)
    <3>1. w \in Seq(Seq(Nat)) /\ Len(w) = 9
      BY <2>1, <2>2
    <3> QED
      BY <3>1, LenProperties DEF Ways
  <2>4. /\ w[1] = a1 /\ w[2] = a2 /\ w[3] = a3 /\ w[4] = a4 /\ w[5] = a5
        /\ w[6] = a6 /\ w[7] = a7 /\ w[8] = a8 /\ w[9] = a9
    BY <2>2
  <2> QED
    BY <2>3, <2>4 DEF a1, a2, a3, a4, a5, a6, a7, a8, a9
<1>5. /\ v \in Ways(9)
      /\ v[1] = Own(s, completed') /\ v[2] = Own(s, One(serving'))
      /\ v[3] = Own(s, pending'[TenantOf[s]]) /\ v[4] = Own(s, inbox')
      /\ v[5] = Own(s, One(carried'))
      /\ v[6] = Own(s, SubSeq(issued', issuedSeen' + 1, Len(issued')))
      /\ v[7] = queue'[s]
      /\ v[8] = Submissions(s, One(taken')) /\ v[9] = Submissions(s, intake')
  <2> DEFINE a1 == Own(s, completed')
             a2 == Own(s, One(serving'))
             a3 == Own(s, pending'[TenantOf[s]])
             a4 == Own(s, inbox')
             a5 == Own(s, One(carried'))
             a6 == Own(s, SubSeq(issued', issuedSeen' + 1, Len(issued')))
             a7 == queue'[s]
             a8 == Submissions(s, One(taken'))
             a9 == Submissions(s, intake')
  <2>1. /\ a1 \in Seq(Nat) /\ a2 \in Seq(Nat) /\ a3 \in Seq(Nat) /\ a4 \in Seq(Nat)
        /\ a5 \in Seq(Nat) /\ a6 \in Seq(Nat) /\ a7 \in Seq(Nat) /\ a8 \in Seq(Nat)
        /\ a9 \in Seq(Nat)
    BY <1>1 DEF StationTypes
  <2>2. v = <<a1, a2, a3, a4, a5, a6, a7, a8, a9>>
    BY <1>3
  <2> HIDE DEF a1, a2, a3, a4, a5, a6, a7, a8, a9
  <2>3. v \in Ways(9)
    <3>1. v \in Seq(Seq(Nat)) /\ Len(v) = 9
      BY <2>1, <2>2
    <3> QED
      BY <3>1, LenProperties DEF Ways
  <2>4. /\ v[1] = a1 /\ v[2] = a2 /\ v[3] = a3 /\ v[4] = a4 /\ v[5] = a5
        /\ v[6] = a6 /\ v[7] = a7 /\ v[8] = a8 /\ v[9] = a9
    BY <2>2
  <2> QED
    BY <2>3, <2>4 DEF a1, a2, a3, a4, a5, a6, a7, a8, a9
<1> QED
  BY <1>4, <1>5 DEF w, v

\* What a step makes of the way of s.
Between(s, w, v) ==
  /\ v = Stations(s)' /\ w \in Ways(9) /\ v \in Ways(9)
  /\ w[1] = Own(s, completed) /\ v[1] = Own(s, completed')
  /\ w[2] = Own(s, One(serving)) /\ v[2] = Own(s, One(serving'))
  /\ w[3] = Own(s, pending[TenantOf[s]]) /\ v[3] = Own(s, pending'[TenantOf[s]])
  /\ w[4] = Own(s, inbox) /\ v[4] = Own(s, inbox')
  /\ w[5] = Own(s, One(carried)) /\ v[5] = Own(s, One(carried'))
  /\ w[6] = Own(s, SubSeq(issued, issuedSeen + 1, Len(issued)))
  /\ v[6] = Own(s, SubSeq(issued', issuedSeen' + 1, Len(issued')))
  /\ w[7] = queue[s] /\ v[7] = queue'[s]
  /\ w[8] = Submissions(s, One(taken)) /\ v[8] = Submissions(s, One(taken'))
  /\ w[9] = Submissions(s, intake) /\ v[9] = Submissions(s, intake')

LEMMA WayMoves ==
  ASSUME Inv, Types', NEW s \in Sq
  PROVE  \E w, v : Between(s, w, v) /\ v \in Ways(9) /\ Whole(w, enqueued[s], submitted[s])
<1> DEFINE w == Stations(s)
           v == Stations(s)'
<1>1. Between(s, w, v)
  BY StationByStation DEF Inv, Between
<1>2. Whole(w, enqueued[s], submitted[s])
  BY DEF Inv
<1>3. v \in Ways(9)
  BY <1>1 DEF Between
<1> QED
  BY <1>1, <1>2, <1>3

LEMMA PlacesOfAWay ==
  \A j \in 1 .. 9 : j = 1 \/ j = 2 \/ j = 3 \/ j = 4 \/ j = 5 \/ j = 6 \/ j = 7 \/ j = 8 \/ j = 9
  OBVIOUS

-----------------------------------------------------------------------------
(* The actions are such moves: for each queue s, each step keeps its way     *)
(* whole.                                                                   *)

LEMMA SubmitKeeps ==
  ASSUME Inv, Types', NEW s \in Sq, NEW q \in Sq, Submit(q)
  PROVE  Whole(Stations(s)', enqueued'[s], submitted'[s])
<1> PICK w, v : Between(s, w, v) /\ v \in Ways(9) /\ Whole(w, enqueued[s], submitted[s])
  BY WayMoves
<1>1. Between(s, w, v) /\ v = Stations(s)'
  BY DEF Between
<1>2. Whole(w, enqueued[s], submitted[s])
  OBVIOUS
<1> DEFINE entry == [kind |-> "command", sq |-> q, n |-> submitted[q] + 1]
<1>3. submitted \in [Sq -> Nat] /\ intake \in Seq(Entry)
  BY DEF Inv, Types, TypeOK
<1>4. entry \in Entry /\ entry.kind = "command" /\ entry.sq = q /\ entry.n = submitted[q] + 1
  BY <1>3 DEF Entry
<1>5. /\ intake' = Append(intake, entry)
      /\ submitted' = [submitted EXCEPT ![q] = @ + 1]
      /\ UNCHANGED <<taken, enqueued, queue, issued, carried, issuedSeen, inbox, pending, serving, completed>>
  BY DEF Submit, arbVars, dispatchVars, serviceVars
<1>6. v[9] = Append(w[9], EntryNumber(s)[entry])
  <2> HIDE DEF entry
  <2> QED
    BY <1>1, <1>3, <1>4, <1>5, SubmissionsProperties DEF Between
<1>7. EntryNumber(s)[entry] = IF q = s THEN submitted[s] + 1 ELSE 0
  BY <1>4 DEF EntryNumber
<1>8. \A j \in 1 .. 8 : v[j] = w[j]
  <2>1. v[1] = w[1] /\ v[2] = w[2] /\ v[3] = w[3] /\ v[4] = w[4] /\ v[5] = w[5] /\ v[6] = w[6] /\ v[7] = w[7] /\ v[8] = w[8]
    BY <1>1, <1>5 DEF Between
  <2> QED
    BY <2>1
<1> HIDE DEF entry
<1>9. CASE q = s
  <2>1. submitted'[s] = submitted[s] + 1 /\ enqueued'[s] = enqueued[s]
    BY <1>3, <1>5, <1>9
  <2>2. v[9] = Append(w[9], submitted[s] + 1)
    BY <1>6, <1>7, <1>9
  <2>3. Whole(v, enqueued[s], submitted[s] + 1)
    BY <1>1, <1>2, <1>8, <2>2, SubmitKeepsWhole
  <2> QED
    BY <1>1, <2>1, <2>3
<1>10. CASE q # s
  <2>1. submitted'[s] = submitted[s] /\ enqueued'[s] = enqueued[s]
    BY <1>3, <1>5, <1>10
  <2>2. v[9] = Append(w[9], 0)
    BY <1>6, <1>7, <1>10
  <2>3. PICK k \in 1 .. 9 : k = 9
    OBVIOUS
  <2>4. v[k] = Append(w[k], 0) /\ \A j \in 1 .. 9 : j # k => v[j] = w[j]
    BY <1>8, <2>2, <2>3, PlacesOfAWay
  <2>5. Whole(v, enqueued[s], submitted[s])
    BY <1>1, <1>2, <2>4, OtherComes
  <2> QED
    BY <1>1, <2>1, <2>5
<1> QED
  BY <1>9, <1>10

LEMMA ConfigureKeeps ==
  ASSUME Inv, Types', NEW s \in Sq, NEW t \in QosHost, NEW enough \in BOOLEAN, ConfigureQos(t, enough)
  PROVE  Whole(Stations(s)', enqueued'[s], submitted'[s])
<1> PICK w, v : Between(s, w, v) /\ v \in Ways(9) /\ Whole(w, enqueued[s], submitted[s])
  BY WayMoves
<1>1. Between(s, w, v) /\ v = Stations(s)'
  BY DEF Between
<1>2. Whole(w, enqueued[s], submitted[s])
  OBVIOUS
<1> DEFINE entry == [kind |-> "qos_config", tenant |-> t, enough |-> enough]
<1>3. intake \in Seq(Entry) /\ entry \in Entry /\ entry.kind # "command"
  BY StorageAssumption DEF Inv, Types, TypeOK, Entry
<1>4. /\ intake' = Append(intake, entry)
      /\ UNCHANGED <<submitted, taken, enqueued, queue, issued, carried, issuedSeen, inbox, pending,
                     serving, completed>>
  BY DEF ConfigureQos, arbVars, dispatchVars, serviceVars
<1>5. EntryNumber(s)[entry] = 0
  BY <1>3 DEF EntryNumber
<1> HIDE DEF entry
<1>6. v[9] = Append(w[9], 0)
  BY <1>1, <1>3, <1>4, <1>5, SubmissionsProperties DEF Between
<1>7. PICK k \in 1 .. 9 : k = 9
  OBVIOUS
<1>8. v[k] = Append(w[k], 0) /\ \A j \in 1 .. 9 : j # k => v[j] = w[j]
  <2>1. v[1] = w[1] /\ v[2] = w[2] /\ v[3] = w[3] /\ v[4] = w[4] /\ v[5] = w[5] /\ v[6] = w[6] /\ v[7] = w[7] /\ v[8] = w[8]
    BY <1>1, <1>4 DEF Between
  <2> QED
    BY <1>6, <1>7, <2>1, PlacesOfAWay
<1>9. Whole(v, enqueued[s], submitted[s])
  BY <1>1, <1>2, <1>8, OtherComes
<1> QED
  BY <1>1, <1>4, <1>9

LEMMA TakeEntryKeeps ==
  ASSUME Inv, Types', NEW s \in Sq, TakeEntry
  PROVE  Whole(Stations(s)', enqueued'[s], submitted'[s])
<1> PICK w, v : Between(s, w, v) /\ v \in Ways(9) /\ Whole(w, enqueued[s], submitted[s])
  BY WayMoves
<1>1. /\ intake \in Seq(Entry) /\ intake # <<>> /\ taken = None
      /\ taken' = Head(intake) /\ intake' = Tail(intake)
      /\ UNCHANGED <<submitted, enqueued, queue, issued, carried, issuedSeen, inbox, pending, serving, completed>>
  BY DEF TakeEntry, IntakeFrame, hostVars, arbVars, dispatchVars, serviceVars, Inv, Types, TypeOK
<1>2. Head(intake) \in Entry
  BY <1>1, HeadTailProperties
<1>3. /\ w[9] # <<>> /\ Head(w[9]) = EntryNumber(s)[Head(intake)] /\ v[9] = Tail(w[9])
  BY <1>1, SubmissionsProperties DEF Between
<1>4. v[8] = Append(w[8], Head(w[9]))
  <2>1. w[8] = <<>> /\ v[8] = Submissions(s, One(taken'))
    BY <1>1, HandProperties DEF Between
  <2>2. v[8] = Append(<<>>, EntryNumber(s)[taken'])
    BY <1>1, <1>2, <2>1, HandProperties
  <2> QED
    BY <1>1, <1>3, <2>1, <2>2
<1>5. v[1] = w[1] /\ v[2] = w[2] /\ v[3] = w[3] /\ v[4] = w[4] /\ v[5] = w[5] /\ v[6] = w[6] /\ v[7] = w[7]
  BY <1>1 DEF Between
<1>6. PICK k \in 1 .. 8 : k = 8
  OBVIOUS
<1>7. /\ k # 7 /\ k + 1 = 9 /\ \A j \in 1 .. 9 : j # k /\ j # k + 1 => v[j] = w[j]
  BY <1>5, <1>6, PlacesOfAWay
<1>8. w[k + 1] # <<>> /\ v[k] = Append(w[k], Head(w[k + 1])) /\ v[k + 1] = Tail(w[k + 1])
  BY <1>3, <1>4, <1>6, <1>7
<1>9. Whole(v, enqueued[s], submitted[s])
  BY <1>7, <1>8, HeadGoesOn
<1> QED
  BY <1>1, <1>9 DEF Between

LEMMA ForwardToArbitrationKeeps ==
  ASSUME Inv, Types', NEW s \in Sq, ForwardToArbitration
  PROVE  Whole(Stations(s)', enqueued'[s], submitted'[s])
<1> PICK w, v : Between(s, w, v) /\ v \in Ways(9) /\ Whole(w, enqueued[s], submitted[s])
  BY WayMoves
<1>1. /\ taken \in Entry /\ taken.kind = "command" /\ taken' = None
      /\ Arb!Enqueue(taken.sq)
      /\ UNCHANGED <<submitted, intake, carried, issuedSeen, inbox, pending, serving, completed>>
      /\ enqueued \in [Sq -> Nat] /\ queue \in [Sq -> Seq(Nat)]
  BY EmptyHandAssumption DEF ForwardToArbitration, IntakeFrame, hostVars, dispatchVars, serviceVars, Inv, Types, TypeOK, MemberTypes
<1>2. PICK q \in Sq : q = taken.sq
  BY <1>1 DEF Entry
<1>3. /\ enqueued' = [enqueued EXCEPT ![q] = @ + 1]
      /\ queue' = [queue EXCEPT ![q] = Append(@, enqueued[q] + 1)]
      /\ issued' = issued
  BY <1>1, <1>2 DEF Arb!Enqueue
<1>4. w[8] # <<>> /\ Head(w[8]) = EntryNumber(s)[taken] /\ Tail(w[8]) = <<>> /\ v[8] = <<>>
      /\ w[8] = Append(<<>>, EntryNumber(s)[taken])
  BY <1>1, HandProperties DEF Between
<1>5. v[1] = w[1] /\ v[2] = w[2] /\ v[3] = w[3] /\ v[4] = w[4] /\ v[5] = w[5] /\ v[6] = w[6] /\ v[9] = w[9]
  BY <1>1, <1>3 DEF Between
<1>6. EntryNumber(s)[taken] = (IF q = s THEN taken.n ELSE 0) /\ taken.n \in Nat \ {0}
  BY <1>1, <1>2 DEF EntryNumber, Entry
<1>7. CASE q = s
  <2>1. Numbers(w[8]) = {taken.n}
    <3>1. Numbers(Append(<<>>, taken.n)) = Numbers(<<>>) \cup ({taken.n} \ {0})
      BY <1>6, EmptyStation, AppendKeeps
    <3> QED
      BY <1>4, <1>6, <1>7, <3>1, EmptyStation
  <2>2. taken.n = enqueued[s] + 1
    BY <1>6, <1>7, <2>1, NextIsGiven
  <2>3. v[7] = Append(w[7], enqueued[s] + 1) /\ enqueued'[s] = enqueued[s] + 1
    BY <1>1, <1>3, <1>7 DEF Between
  <2>4. \A j \in 1 .. 9 : j # 7 /\ j # 8 => v[j] = w[j]
    BY <1>5, PlacesOfAWay
  <2>5. Whole(v, enqueued[s] + 1, submitted[s])
    BY <1>4, <2>1, <2>2, <2>3, <2>4, EnterKeepsWhole
  <2> QED
    BY <1>1, <2>3, <2>5 DEF Between
<1>8. CASE q # s
  <2>1. v[7] = w[7] /\ enqueued'[s] = enqueued[s]
    BY <1>1, <1>3, <1>8 DEF Between
  <2>2. PICK k \in 1 .. 9 : k = 8
    OBVIOUS
  <2>3. \A j \in 1 .. 9 : j # k => v[j] = w[j]
    BY <1>5, <2>1, <2>2, PlacesOfAWay
  <2>4. w[k] # <<>> /\ Head(w[k]) = 0 /\ v[k] = Tail(w[k])
    BY <1>4, <1>6, <1>8, <2>2
  <2>5. Whole(v, enqueued[s], submitted[s])
    BY <2>3, <2>4, OtherLeaves
  <2> QED
    BY <1>1, <2>1, <2>5 DEF Between
<1> QED
  BY <1>7, <1>8


\* A step that leaves the way alone keeps it whole.
LEMMA NothingMoves ==
  ASSUME Inv, NEW s \in Sq,
         UNCHANGED <<submitted, intake, taken, enqueued, queue, issued, carried, issuedSeen,
                     inbox, pending, serving, completed>>
  PROVE  Whole(Stations(s)', enqueued'[s], submitted'[s])
<1>1. Stations(s)' = Stations(s)
  BY DEF Stations
<1> QED
  BY <1>1 DEF Inv

LEMMA ApplyQosConfigKeeps ==
  ASSUME Inv, Types', NEW s \in Sq, ApplyQosConfig
  PROVE  Whole(Stations(s)', enqueued'[s], submitted'[s])
<1> PICK w, v : Between(s, w, v) /\ v \in Ways(9) /\ Whole(w, enqueued[s], submitted[s])
  BY WayMoves
<1>1. /\ taken \in Entry /\ taken.kind = "qos_config" /\ taken' = None
      /\ UNCHANGED <<submitted, intake, enqueued, queue, issued, carried, issuedSeen, inbox, pending,
                     serving, completed>>
  BY EmptyHandAssumption DEF ApplyQosConfig, IntakeFrame, hostVars, arbVars, dispatchVars, serviceVars,
     Inv, Types, TypeOK
<1>2. w[8] # <<>> /\ Head(w[8]) = 0 /\ v[8] = Tail(w[8])
  <2>1. EntryNumber(s)[taken] = 0
    BY <1>1 DEF EntryNumber
  <2> QED
    BY <1>1, <2>1, HandProperties DEF Between
<1>3. v[1] = w[1] /\ v[2] = w[2] /\ v[3] = w[3] /\ v[4] = w[4] /\ v[5] = w[5] /\ v[6] = w[6]
      /\ v[7] = w[7] /\ v[9] = w[9]
  BY <1>1 DEF Between
<1>4. PICK k \in 1 .. 9 : k = 8
  OBVIOUS
<1>5. /\ \A j \in 1 .. 9 : j # k => v[j] = w[j]
      /\ w[k] # <<>> /\ Head(w[k]) = 0 /\ v[k] = Tail(w[k])
  BY <1>2, <1>3, <1>4, PlacesOfAWay
<1>6. Whole(v, enqueued[s], submitted[s])
  BY <1>5, OtherLeaves
<1> QED
  BY <1>1, <1>6 DEF Between

LEMMA IssueKeeps ==
  ASSUME Inv, Types', NEW s \in Sq, NEW q \in Sq, ArbIssue(q)
  PROVE  Whole(Stations(s)', enqueued'[s], submitted'[s])
<1> PICK w, v : Between(s, w, v) /\ v \in Ways(9) /\ Whole(w, enqueued[s], submitted[s])
  BY WayMoves
<1>1. /\ issued \in Seq(Command) /\ issuedSeen \in 0 .. Len(issued) /\ queue \in [Sq -> Seq(Nat)]
      /\ UNCHANGED <<submitted, intake, taken, carried, issuedSeen, inbox, pending, serving, completed>>
  BY DEF ArbIssue, ArbFrame, hostVars, intakeVars, dispatchVars, serviceVars, Inv, Types, TypeOK, MemberTypes
<1>2. PICK n \in 1 .. Len(queue[q]) : Arb!IssueBatch(q, n)
  BY DEF ArbIssue
<1> PICK numbers \in Seq(Nat) : numbers = queue[q]
  BY <1>1
<1>10. PICK batch : batch = [i \in 1 .. n |-> [sq |-> q, n |-> numbers[i]]]
  OBVIOUS
<1>3. /\ issued' = issued \o batch /\ enqueued' = enqueued
      /\ queue' = [queue EXCEPT ![q] = SubSeq(numbers, n + 1, Len(numbers))]
  BY <1>1, <1>2, <1>10 DEF Arb!IssueBatch
<1>4. n \in 0 .. Len(numbers) /\ n \in Nat
  BY <1>1, LenProperties
<1>5. /\ batch \in Seq(Command) /\ Own(s, batch) \in Seq(Nat) /\ DOMAIN Own(s, batch) = 1 .. n
      /\ \A i \in 1 .. n : Own(s, batch)[i] = IF q = s THEN numbers[i] ELSE 0
  <2>1. DOMAIN batch = 1 .. n /\ \A i \in 1 .. n : batch[i] = [sq |-> q, n |-> numbers[i]]
    BY <1>10
  <2>2. \A i \in 1 .. n : numbers[i] \in Nat
    BY <1>4, ElementOfSeq
  <2>3. batch \in [1 .. n -> Command]
    BY <1>10, <2>2 DEF Command
  <2>4. batch \in Seq(Command)
    BY <1>4, <2>3, SeqDef
  <2> QED
    BY <2>1, <2>4, OwnBatch
<1>6. v[6] = w[6] \o Own(s, batch)
  <2> DEFINE unseen == SubSeq(issued, issuedSeen + 1, Len(issued))
  <2>1. unseen \in Seq(Command) /\ SubSeq(issued \o batch, issuedSeen + 1, Len(issued \o batch)) = unseen \o batch
    BY <1>1, <1>5, UnseenProperties
  <2>2. v[6] = Own(s, SubSeq(issued \o batch, issuedSeen + 1, Len(issued \o batch))) /\ w[6] = Own(s, unseen)
    BY <1>1, <1>3 DEF Between
  <2> HIDE DEF unseen
  <2>3. Own(s, unseen \o batch) = Own(s, unseen) \o Own(s, batch)
    BY <1>5, <2>1, OwnConcat
  <2> QED
    BY <2>1, <2>2, <2>3
<1> PICK shown \in Seq(Nat) : shown = Own(s, batch)
  BY <1>5
<1>7. v[1] = w[1] /\ v[2] = w[2] /\ v[3] = w[3] /\ v[4] = w[4] /\ v[5] = w[5] /\ v[8] = w[8] /\ v[9] = w[9]
  BY <1>1 DEF Between
<1>8. v \in Ways(9) /\ w[7] = queue[s] /\ v[7] = queue'[s]
  BY DEF Between
<1>9. CASE q = s
  <2>1. w[7] = numbers /\ v[7] = SubSeq(numbers, n + 1, Len(numbers))
    BY <1>1, <1>3, <1>8, <1>9
  <2>6. DOMAIN shown = 1 .. n /\ \A i \in 1 .. n : shown[i] = numbers[i]
    BY <1>5, <1>9
  <2>3. \A j \in 1 .. 9 : j # 6 /\ j # 7 => v[j] = w[j]
    BY <1>7, PlacesOfAWay
  <2>7. v[6] = w[6] \o shown
    BY <1>6
  <2>4. Whole(v, enqueued[s], submitted[s])
    BY <1>4, <1>8, <2>1, <2>3, <2>6, <2>7, BatchGoesOn
  <2> QED
    BY <1>1, <1>3, <2>4 DEF Between
<1>11. CASE q # s
  <2>1. v[7] = w[7]
    BY <1>1, <1>3, <1>8, <1>11
  <2>2. v[6] = w[6] \o shown /\ \A i \in DOMAIN shown : shown[i] = 0
    BY <1>5, <1>6, <1>11
  <2>3. \A j \in 1 .. 9 : j # 6 => v[j] = w[j]
    BY <1>7, <2>1, PlacesOfAWay
  <2>4. Whole(v, enqueued[s], submitted[s])
    BY <1>8, <2>2, <2>3, OtherBatchComes
  <2> QED
    BY <1>1, <1>3, <2>4 DEF Between
<1> QED
  BY <1>9, <1>11

LEMMA PollIssuedKeeps ==
  ASSUME Inv, Types', NEW s \in Sq, PollIssued
  PROVE  Whole(Stations(s)', enqueued'[s], submitted'[s])
<1> PICK w, v : Between(s, w, v) /\ v \in Ways(9) /\ Whole(w, enqueued[s], submitted[s])
  BY WayMoves
<1>1. /\ issued \in Seq(Command) /\ issuedSeen \in 0 .. Len(issued) /\ issuedSeen < Len(issued)
      /\ carried = None /\ carried' = issued[issuedSeen + 1] /\ issuedSeen' = issuedSeen + 1
      /\ UNCHANGED <<submitted, intake, taken, enqueued, queue, issued, inbox, pending, serving, completed>>
  BY DEF PollIssued, DispatchFrame, hostVars, intakeVars, arbVars, serviceVars, Inv, Types, TypeOK
<1>2. carried' \in Command
  BY <1>1, ElementOfSeq
<1>3. w[6] # <<>> /\ Head(w[6]) = CommandNumber(s)[carried'] /\ v[6] = Tail(w[6])
  <2> DEFINE unseen == SubSeq(issued, issuedSeen + 1, Len(issued))
             after == SubSeq(issued, (issuedSeen + 1) + 1, Len(issued))
  <2>1. unseen \in Seq(Command) /\ unseen # <<>> /\ Head(unseen) = carried' /\ Tail(unseen) = after
    BY <1>1, UnseenProperties
  <2>2. w[6] = Own(s, unseen) /\ v[6] = Own(s, after)
    BY <1>1 DEF Between
  <2> HIDE DEF unseen, after
  <2> QED
    BY <2>1, <2>2, OwnProperties
<1>4. v[5] = Append(w[5], Head(w[6]))
  <2>1. w[5] = <<>> /\ v[5] = Own(s, One(carried'))
    BY <1>1, HandProperties DEF Between
  <2>2. v[5] = Append(<<>>, CommandNumber(s)[carried'])
    BY <1>2, <2>1, HandProperties
  <2> QED
    BY <1>3, <2>1, <2>2
<1>5. v[1] = w[1] /\ v[2] = w[2] /\ v[3] = w[3] /\ v[4] = w[4] /\ v[7] = w[7] /\ v[8] = w[8] /\ v[9] = w[9]
  BY <1>1 DEF Between
<1>6. PICK k \in 1 .. 8 : k = 5
  OBVIOUS
<1>7. k # 7 /\ k + 1 = 6 /\ \A j \in 1 .. 9 : j # k /\ j # k + 1 => v[j] = w[j]
  BY <1>5, <1>6, PlacesOfAWay
<1>8. w[k + 1] # <<>> /\ v[k] = Append(w[k], Head(w[k + 1])) /\ v[k + 1] = Tail(w[k + 1])
  BY <1>3, <1>4, <1>6, <1>7
<1>9. Whole(v, enqueued[s], submitted[s])
  BY <1>7, <1>8, HeadGoesOn
<1> QED
  BY <1>1, <1>9 DEF Between

LEMMA ForwardToCompletionKeeps ==
  ASSUME Inv, Types', NEW s \in Sq, ForwardToCompletion
  PROVE  Whole(Stations(s)', enqueued'[s], submitted'[s])
<1> PICK w, v : Between(s, w, v) /\ v \in Ways(9) /\ Whole(w, enqueued[s], submitted[s])
  BY WayMoves
<1>1. /\ carried \in Command /\ carried' = None /\ inbox \in Seq(Command) /\ inbox' = Append(inbox, carried)
      /\ UNCHANGED <<submitted, intake, taken, enqueued, queue, issued, issuedSeen, pending, serving, completed>>
  BY DEF ForwardToCompletion, Service!Submit, DispatchFrame, hostVars, intakeVars, arbVars, Inv, Types, TypeOK
<1>2. w[5] # <<>> /\ Head(w[5]) = CommandNumber(s)[carried] /\ v[5] = Tail(w[5])
  BY <1>1, HandProperties DEF Between
<1>3. v[4] = Append(w[4], Head(w[5]))
  <2>1. v[4] = Append(w[4], CommandNumber(s)[carried])
    BY <1>1, OwnProperties DEF Between
  <2> QED
    BY <1>2, <2>1
<1>4. v[1] = w[1] /\ v[2] = w[2] /\ v[3] = w[3] /\ v[6] = w[6] /\ v[7] = w[7] /\ v[8] = w[8] /\ v[9] = w[9]
  BY <1>1 DEF Between
<1>5. PICK k \in 1 .. 8 : k = 4
  OBVIOUS
<1>6. k # 7 /\ k + 1 = 5 /\ \A j \in 1 .. 9 : j # k /\ j # k + 1 => v[j] = w[j]
  BY <1>4, <1>5, PlacesOfAWay
<1>7. w[k + 1] # <<>> /\ v[k] = Append(w[k], Head(w[k + 1])) /\ v[k + 1] = Tail(w[k + 1])
  BY <1>2, <1>3, <1>5, <1>6
<1>8. Whole(v, enqueued[s], submitted[s])
  BY <1>6, <1>7, HeadGoesOn
<1> QED
  BY <1>1, <1>8 DEF Between

LEMMA AcceptKeeps ==
  ASSUME Inv, Types', NEW s \in Sq, CplAccept
  PROVE  Whole(Stations(s)', enqueued'[s], submitted'[s])
<1> PICK w, v : Between(s, w, v) /\ v \in Ways(9) /\ Whole(w, enqueued[s], submitted[s])
  BY WayMoves
<1> DEFINE c == Head(inbox)
<1>1. /\ inbox \in Seq(Command) /\ inbox # <<>> /\ pending \in [Tenant -> Seq(Command)]
      /\ inbox' = Tail(inbox) /\ pending' = [pending EXCEPT ![CommandTenant[c]] = Append(@, c)]
      /\ UNCHANGED <<submitted, intake, taken, enqueued, queue, issued, carried, issuedSeen, serving, completed>>
  BY DEF CplAccept, Service!Accept, CplFrame, hostVars, intakeVars, arbVars, dispatchVars, Inv, Types, TypeOK
<1>2. c \in Command
  BY <1>1, HeadTailProperties
<1>3. w[4] # <<>> /\ Head(w[4]) = CommandNumber(s)[c] /\ v[4] = Tail(w[4])
  BY <1>1, OwnProperties DEF Between
<1>4. CommandTenant[c] = TenantOf[c.sq] /\ TenantOf[s] \in Tenant /\ TenantOf[c.sq] \in Tenant
  BY <1>2, StorageAssumption DEF CommandTenant, Command
<1> HIDE DEF c
<1>5. v[1] = w[1] /\ v[2] = w[2] /\ v[5] = w[5] /\ v[6] = w[6] /\ v[7] = w[7] /\ v[8] = w[8] /\ v[9] = w[9]
  BY <1>1 DEF Between
<1>6. CASE TenantOf[c.sq] = TenantOf[s]
  <2>1. pending'[TenantOf[s]] = Append(pending[TenantOf[s]], c) /\ pending[TenantOf[s]] \in Seq(Command)
    BY <1>1, <1>4, <1>6
  <2>2. v[3] = Append(w[3], Head(w[4]))
    BY <1>2, <1>3, <2>1, OwnProperties DEF Between
  <2>3. PICK k \in 1 .. 8 : k = 3
    OBVIOUS
  <2>4. k # 7 /\ k + 1 = 4 /\ \A j \in 1 .. 9 : j # k /\ j # k + 1 => v[j] = w[j]
    BY <1>5, <2>3, PlacesOfAWay
  <2>5. w[k + 1] # <<>> /\ v[k] = Append(w[k], Head(w[k + 1])) /\ v[k + 1] = Tail(w[k + 1])
    BY <1>3, <2>2, <2>3, <2>4
  <2>6. Whole(v, enqueued[s], submitted[s])
    BY <2>4, <2>5, HeadGoesOn
  <2> QED
    BY <1>1, <2>6 DEF Between
<1>7. CASE TenantOf[c.sq] # TenantOf[s]
  <2>1. CommandNumber(s)[c] = 0
    BY <1>2, <1>7 DEF CommandNumber
  <2>2. v[3] = w[3]
    BY <1>1, <1>4, <1>7 DEF Between
  <2>3. PICK k \in 1 .. 9 : k = 4
    OBVIOUS
  <2>4. \A j \in 1 .. 9 : j # k => v[j] = w[j]
    BY <1>5, <2>2, <2>3, PlacesOfAWay
  <2>5. w[k] # <<>> /\ Head(w[k]) = 0 /\ v[k] = Tail(w[k])
    BY <1>3, <2>1, <2>3
  <2>6. Whole(v, enqueued[s], submitted[s])
    BY <2>4, <2>5, OtherLeaves
  <2> QED
    BY <1>1, <2>6 DEF Between
<1> QED
  BY <1>6, <1>7

LEMMA BeginKeeps ==
  ASSUME Inv, Types', NEW s \in Sq, NEW t \in Tenant, CplBegin(t)
  PROVE  Whole(Stations(s)', enqueued'[s], submitted'[s])
<1> PICK w, v : Between(s, w, v) /\ v \in Ways(9) /\ Whole(w, enqueued[s], submitted[s])
  BY WayMoves
<1> DEFINE c == Head(pending[t])
<1>1. /\ pending \in [Tenant -> Seq(Command)] /\ pending[t] # <<>> /\ serving = None
      /\ pending[t] \in Seq(CommandsOf(t))
      /\ serving' = c /\ pending' = [pending EXCEPT ![t] = Tail(@)]
      /\ UNCHANGED <<submitted, intake, taken, enqueued, queue, issued, carried, issuedSeen, inbox, completed>>
  BY DEF CplBegin, Service!Begin, CplFrame, hostVars, intakeVars, arbVars, dispatchVars, Inv, Types, TypeOK, MemberTypes
<1>2. c \in Command /\ TenantOf[c.sq] = t /\ TenantOf[s] \in Tenant
  <2>1. c \in CommandsOf(t)
    BY <1>1, HeadTailProperties
  <2> QED
    BY <2>1, StorageAssumption DEF CommandsOf, CommandTenant
<1>3. v[2] = Append(w[2], CommandNumber(s)[c])
  <2> HIDE DEF c
  <2>1. w[2] = <<>> /\ v[2] = Own(s, One(c))
    BY <1>1, HandProperties DEF Between
  <2> QED
    BY <1>2, <2>1, HandProperties
<1>4. t = TenantOf[s] => w[3] # <<>> /\ Head(w[3]) = CommandNumber(s)[c] /\ v[3] = Tail(w[3])
  <2>1. SUFFICES ASSUME t = TenantOf[s]
                 PROVE  w[3] # <<>> /\ Head(w[3]) = CommandNumber(s)[c] /\ v[3] = Tail(w[3])
    OBVIOUS
  <2> PICK held \in Seq(Command) : held = pending[t]
    BY <1>1
  <2>2. held # <<>> /\ c = Head(held) /\ pending'[TenantOf[s]] = Tail(held)
    BY <1>1, <2>1
  <2>3. w[3] = Own(s, held) /\ v[3] = Own(s, Tail(held))
    BY <2>1, <2>2 DEF Between
  <2> HIDE DEF c
  <2> QED
    BY <2>2, <2>3, OwnProperties
<1> HIDE DEF c
<1>5. v[1] = w[1] /\ v[4] = w[4] /\ v[5] = w[5] /\ v[6] = w[6] /\ v[7] = w[7] /\ v[8] = w[8] /\ v[9] = w[9]
  BY <1>1 DEF Between
<1>6. CASE t = TenantOf[s]
  <2>1. PICK k \in 1 .. 8 : k = 2
    OBVIOUS
  <2>2. k # 7 /\ k + 1 = 3 /\ \A j \in 1 .. 9 : j # k /\ j # k + 1 => v[j] = w[j]
    BY <1>5, <2>1, PlacesOfAWay
  <2>3. w[k + 1] # <<>> /\ v[k] = Append(w[k], Head(w[k + 1])) /\ v[k + 1] = Tail(w[k + 1])
    BY <1>3, <1>4, <1>6, <2>1, <2>2
  <2>4. Whole(v, enqueued[s], submitted[s])
    BY <2>2, <2>3, HeadGoesOn
  <2> QED
    BY <1>1, <2>4 DEF Between
<1>7. CASE t # TenantOf[s]
  <2>1. CommandNumber(s)[c] = 0
    BY <1>2, <1>7 DEF CommandNumber
  <2>2. v[3] = w[3]
    BY <1>1, <1>2, <1>7 DEF Between
  <2>3. PICK k \in 1 .. 9 : k = 2
    OBVIOUS
  <2>4. \A j \in 1 .. 9 : j # k => v[j] = w[j]
    BY <1>5, <2>2, <2>3, PlacesOfAWay
  <2>5. v[k] = Append(w[k], 0)
    BY <1>3, <2>1, <2>3
  <2>6. Whole(v, enqueued[s], submitted[s])
    BY <2>4, <2>5, OtherComes
  <2> QED
    BY <1>1, <2>6 DEF Between
<1> QED
  BY <1>6, <1>7

LEMMA FinishKeeps ==
  ASSUME Inv, Types', NEW s \in Sq, CplFinish
  PROVE  Whole(Stations(s)', enqueued'[s], submitted'[s])
<1> PICK w, v : Between(s, w, v) /\ v \in Ways(9) /\ Whole(w, enqueued[s], submitted[s])
  BY WayMoves
<1>1. /\ serving \in Command /\ serving' = None /\ completed \in Seq(Command)
      /\ completed' = Append(completed, serving)
      /\ UNCHANGED <<submitted, intake, taken, enqueued, queue, issued, carried, issuedSeen, inbox, pending>>
  BY DEF CplFinish, Service!Finish, CplFrame, hostVars, intakeVars, arbVars, dispatchVars, Inv, Types, TypeOK
<1>2. w[2] # <<>> /\ Head(w[2]) = CommandNumber(s)[serving] /\ v[2] = Tail(w[2])
  BY <1>1, HandProperties DEF Between
<1>3. v[1] = Append(w[1], Head(w[2]))
  <2>1. v[1] = Append(w[1], CommandNumber(s)[serving])
    BY <1>1, OwnProperties DEF Between
  <2> QED
    BY <1>2, <2>1
<1>4. v[3] = w[3] /\ v[4] = w[4] /\ v[5] = w[5] /\ v[6] = w[6] /\ v[7] = w[7] /\ v[8] = w[8] /\ v[9] = w[9]
  BY <1>1 DEF Between
<1>5. PICK k \in 1 .. 8 : k = 1
  OBVIOUS
<1>6. k # 7 /\ k + 1 = 2 /\ \A j \in 1 .. 9 : j # k /\ j # k + 1 => v[j] = w[j]
  BY <1>4, <1>5, PlacesOfAWay
<1>7. w[k + 1] # <<>> /\ v[k] = Append(w[k], Head(w[k + 1])) /\ v[k + 1] = Tail(w[k + 1])
  BY <1>2, <1>3, <1>5, <1>6
<1>8. Whole(v, enqueued[s], submitted[s])
  BY <1>6, <1>7, HeadGoesOn
<1> QED
  BY <1>1, <1>8 DEF Between

-----------------------------------------------------------------------------
(* The theorem.                                                             *)

LEMMA InvBegins == Init => Inv
<1> SUFFICES ASSUME Init
             PROVE  Inv
  OBVIOUS
<1>1. Types
  BY TypesBegin
<1>2. ASSUME NEW s \in Sq
      PROVE  Whole(Stations(s), enqueued[s], submitted[s])
  <2>1. PICK w : w = Stations(s)
    OBVIOUS
  <2>2. /\ completed = <<>> /\ serving = None /\ pending[TenantOf[s]] = <<>> /\ inbox = <<>> /\ carried = None
        /\ issued = <<>> /\ issuedSeen = 0 /\ queue[s] = <<>> /\ taken = None /\ intake = <<>>
        /\ enqueued[s] = 0 /\ submitted[s] = 0
    BY StorageAssumption DEF Init, Arb!Init, Service!Init
  <2>3. SubSeq(issued, issuedSeen + 1, Len(issued)) = <<>>
    BY <2>2
  <2>4. w = << <<>>, <<>>, <<>>, <<>>, <<>>, <<>>, <<>>, <<>>, <<>> >>
    BY <2>1, <2>2, <2>3, HandProperties DEF Stations
  <2>5. w \in Ways(9) /\ \A k \in 1 .. 9 : w[k] = <<>>
    <3>1. <<>> \in Seq(Nat)
      BY EmptySeq
    <3>2. w \in Seq(Seq(Nat)) /\ Len(w) = 9
      BY <2>4, <3>1
    <3>3. \A k \in 1 .. 9 : w[k] = <<>>
      BY <2>4
    <3> QED
      BY <3>2, <3>3, LenProperties DEF Ways
  <2>6. DOMAIN w = 1 .. 9 /\ DOMAIN Entered(w) = 1 .. 7 /\ \A k \in 1 .. 7 : Entered(w)[k] = <<>>
    BY <2>5 DEF Ways, Entered
  <2>7. 1 .. 0 = {}
    OBVIOUS
  <2>8. InOrder(w, 0) /\ InOrder(Entered(w), 0)
    BY <2>5, <2>6, <2>7, EmptyStation DEF InOrder
  <2> QED
    BY <2>1, <2>2, <2>5, <2>8 DEF Whole
<1> QED
  BY <1>1, <1>2 DEF Inv

LEMMA InvIsKept ==
  ASSUME Inv, [Next]_vars
  PROVE  Inv'
<1>1. Types'
  <2>1. CASE UNCHANGED vars
    BY <2>1 DEF vars, hostVars, intakeVars, arbVars, dispatchVars, serviceVars, memberVars, monitorVars,
       Inv, Types, TypeOK, MemberTypes
  <2>2. CASE Next
    BY <2>2, TypesOfHost, TypesOfIntake, TypesOfArbitration, TypesOfDispatch, TypesOfCompletion,
       TypesOfMonitor DEF Next, Inv
  <2> QED
    BY <2>1, <2>2
<1>2. ASSUME NEW s \in Sq
      PROVE  Whole(Stations(s)', enqueued'[s], submitted'[s])
  <2>1. CASE UNCHANGED vars
    BY <2>1, NothingMoves DEF vars, hostVars, intakeVars, arbVars, dispatchVars, serviceVars
  <2>2. CASE Host
    <3>1. CASE SetCompletionReady
      BY <3>1, NothingMoves DEF SetCompletionReady, hostVars, intakeVars, arbVars, dispatchVars, serviceVars
    <3> QED
      BY <1>1, <2>2, <3>1, SubmitKeeps, ConfigureKeeps DEF Host
  <2>3. CASE IntakeBridge
    <3>1. CASE ReturnToIdle
      BY <3>1, NothingMoves DEF ReturnToIdle, IntakeFrame, hostVars, arbVars, dispatchVars, serviceVars
    <3> QED
      BY <1>1, <2>3, <3>1, TakeEntryKeeps, ForwardToArbitrationKeeps, ApplyQosConfigKeeps DEF IntakeBridge
  <2>4. CASE DispatchBridge
    <3>1. CASE ForwardAccepted
      BY <3>1, NothingMoves DEF ForwardAccepted, DispatchFrame, hostVars, intakeVars, arbVars, serviceVars
    <3> QED
      BY <1>1, <2>4, <3>1, PollIssuedKeeps, ForwardToCompletionKeeps DEF DispatchBridge
  <2>5. CASE BackpressureMonitor
    BY <2>5, NothingMoves DEF BackpressureMonitor, SampleBacklog, ApplyThrottle, MonitorFrame,
       hostVars, intakeVars, arbVars, dispatchVars, serviceVars
  <2>6. ASSUME NEW q \in Sq, ArbGrant(q) \/ ArbIssue(q) \/ ArbEndGrant(q)
        PROVE  Whole(Stations(s)', enqueued'[s], submitted'[s])
    <3>1. CASE ArbIssue(q)
      BY <1>1, <3>1, IssueKeeps
    <3>2. CASE ArbGrant(q) \/ ArbEndGrant(q)
      BY <3>2, NothingMoves DEF ArbGrant, ArbEndGrant, Arb!Grant, Arb!EndGrant, ArbFrame,
         hostVars, intakeVars, dispatchVars, serviceVars
    <3> QED
      BY <2>6, <3>1, <3>2
  <2>7. CASE CplAccept \/ CplFinish \/ \E t \in Tenant : CplBegin(t)
    BY <1>1, <2>7, AcceptKeeps, FinishKeeps, BeginKeeps
  <2> QED
    BY <2>1, <2>2, <2>3, <2>4, <2>5, <2>6, <2>7 DEF Next
<1> QED
  BY <1>1, <1>2 DEF Inv

\* No command is lost, repeated or overtaken on its way from the host's submit
\* (submit_command) through intake_bridge, the Arbitration IP, dispatch_bridge's
\* cursor and the Completion IP to the completed trace, and every variable keeps
\* its type: for any tenants, queues and workload, whatever the monitor, the host
\* and the members choose.
THEOREM NothingIsLost == Spec => []NothingLostOrOvertaken
<1>1. Init => Inv
  BY InvBegins
<1>2. Inv /\ [Next]_vars => Inv'
  BY InvIsKept
<1>3. Inv => NothingLostOrOvertaken
  BY DEF Inv, Types, Whole, NothingLostOrOvertaken
<1> QED
  BY <1>1, <1>2, <1>3, PTL DEF Spec

ForwardsTheNext ==
  intakePc = "FORWARD_TO_ARBITRATION" =>
    taken.n = enqueued[taken.sq] + 1 /\ enqueued[taken.sq] < Workload[taken.sq]

LEMMA InvForwardsTheNext == Inv => ForwardsTheNext
<1>1. ASSUME Inv, intakePc = "FORWARD_TO_ARBITRATION"
      PROVE  taken.n = enqueued[taken.sq] + 1 /\ enqueued[taken.sq] < Workload[taken.sq]
  <2>1. taken \in Entry /\ taken.kind = "command" /\ taken.sq \in Sq /\ taken.n \in Nat \ {0}
    BY <1>1, EmptyHandAssumption DEF Inv, Types, TypeOK, Entry
  <2> PICK s \in Sq : s = taken.sq
    BY <2>1
  <2>2. PICK w : w = Stations(s)
    OBVIOUS
  <2>3. Whole(w, enqueued[s], submitted[s])
    BY <1>1, <2>2 DEF Inv
  <2>4. w[8] = Submissions(s, One(taken))
    BY <2>2 DEF Stations
  <2>5. w[8] = Append(<<>>, taken.n)
    BY <2>1, <2>4, HandProperties DEF EntryNumber
  <2>6. Numbers(Append(<<>>, taken.n)) = Numbers(<<>>) \cup ({taken.n} \ {0})
    BY <2>1, EmptyStation, AppendKeeps
  <2>7. Numbers(w[8]) = {taken.n}
    BY <2>1, <2>5, <2>6, EmptyStation
  <2>8. taken.n = enqueued[s] + 1 /\ enqueued[s] < submitted[s]
    BY <2>1, <2>3, <2>7, NextIsGiven
  <2>9. submitted[s] <= Workload[s] /\ submitted[s] \in Nat /\ enqueued[s] \in Nat /\ Workload[s] \in Nat
    BY <1>1, StorageAssumption DEF Inv, Types, TypeOK, MemberTypes
  <2> QED
    BY <2>8, <2>9
<1> QED
  BY <1>1 DEF ForwardsTheNext

\* What intake_bridge forwards is always the command the Arbitration IP is given
\* next, so the number the IP gives it is the host's, and GrantedQueues' bound on
\* what a queue is given never stops the bridge: enqueue_command always accepts.
THEOREM BridgeForwardsTheNext == Spec => []ForwardsTheNext
<1>1. Init => Inv
  BY InvBegins
<1>2. Inv /\ [Next]_vars => Inv'
  BY InvIsKept
<1> QED
  BY <1>1, <1>2, InvForwardsTheNext, PTL DEF Spec

-----------------------------------------------------------------------------
(* The members.                                                             *)

LEMMA ArbitrationStep ==
  ASSUME Inv, [Next]_vars
  PROVE  [Arb!Next]_(Arb!vars)
<1> USE DEF Arb!vars
<1>1. CASE UNCHANGED vars
  BY <1>1 DEF vars, arbVars
<1>2. CASE Host
  BY <1>2 DEF Host, Submit, ConfigureQos, SetCompletionReady, arbVars
<1>3. CASE IntakeBridge
  <2>1. CASE ForwardToArbitration
    <3>1. taken \in Entry /\ taken.kind = "command" /\ Arb!Enqueue(taken.sq)
      BY <2>1 DEF ForwardToArbitration, Inv, Types, TypeOK
    <3>2. taken.sq \in Sq
      BY <3>1 DEF Entry
    <3> QED
      BY <3>1, <3>2 DEF Arb!Next
  <2>2. CASE TakeEntry \/ ApplyQosConfig \/ ReturnToIdle
    BY <2>2 DEF TakeEntry, ApplyQosConfig, ReturnToIdle, arbVars
  <2> QED
    BY <1>3, <2>1, <2>2 DEF IntakeBridge
<1>4. CASE DispatchBridge
  BY <1>4 DEF DispatchBridge, PollIssued, ForwardToCompletion, ForwardAccepted, DispatchFrame, arbVars
<1>5. CASE BackpressureMonitor
  BY <1>5 DEF BackpressureMonitor, SampleBacklog, ApplyThrottle, MonitorFrame, arbVars
<1>6. CASE \E s \in Sq : ArbGrant(s) \/ ArbIssue(s) \/ ArbEndGrant(s)
  BY <1>6 DEF ArbGrant, ArbIssue, ArbEndGrant, Arb!Next
<1>7. CASE CplAccept \/ CplFinish \/ \E t \in Tenant : CplBegin(t)
  BY <1>7 DEF CplAccept, CplFinish, CplBegin, CplFrame, arbVars
<1> QED
  BY <1>1, <1>2, <1>3, <1>4, <1>5, <1>6, <1>7 DEF Next

LEMMA CompletionStep ==
  ASSUME Inv, [Next]_vars
  PROVE  [Service!Next]_(Service!vars)
<1> USE DEF Service!vars
<1>1. CASE UNCHANGED vars
  BY <1>1 DEF vars, serviceVars
<1>2. CASE Host
  BY <1>2 DEF Host, Submit, ConfigureQos, SetCompletionReady, serviceVars
<1>3. CASE IntakeBridge
  BY <1>3 DEF IntakeBridge, TakeEntry, ForwardToArbitration, ApplyQosConfig, ReturnToIdle, IntakeFrame,
     serviceVars
<1>4. CASE DispatchBridge
  <2>1. CASE ForwardToCompletion
    <3>1. carried \in Command /\ Service!Submit(carried)
      BY <2>1 DEF ForwardToCompletion, Inv, Types, TypeOK
    <3> QED
      BY <3>1 DEF Service!Next
  <2>2. CASE PollIssued \/ ForwardAccepted
    BY <2>2 DEF PollIssued, ForwardAccepted, serviceVars
  <2> QED
    BY <1>4, <2>1, <2>2 DEF DispatchBridge
<1>5. CASE BackpressureMonitor
  BY <1>5 DEF BackpressureMonitor, SampleBacklog, ApplyThrottle, MonitorFrame, serviceVars
<1>6. CASE \E s \in Sq : ArbGrant(s) \/ ArbIssue(s) \/ ArbEndGrant(s)
  BY <1>6 DEF ArbGrant, ArbIssue, ArbEndGrant, ArbFrame, serviceVars
<1>7. CASE CplAccept \/ CplFinish \/ \E t \in Tenant : CplBegin(t)
  BY <1>7 DEF CplAccept, CplFinish, CplBegin, Service!Next
<1> QED
  BY <1>1, <1>2, <1>3, <1>4, <1>5, <1>6, <1>7 DEF Next

\* The subsystem uses its members as they are meant to be used: whatever the host
\* and the bridges do, what happens at the Arbitration IP is a behaviour of
\* GrantedQueues and what happens at the Completion IP one of CompletionService.
\* With Arbitration's and Completion's own theorems (PromiseIsKept,
\* ServiceIsKept) the glue composes the two where they promise what it relies on.
THEOREM MembersDoAsPromised == Spec => Arb!Spec /\ Service!Spec
<1>1. Init => Inv
  BY InvBegins
<1>2. Inv /\ [Next]_vars => Inv'
  BY InvIsKept
<1>3. Init => Arb!Init /\ Service!Init
  BY DEF Init
<1>4. Inv /\ [Next]_vars => [Arb!Next]_(Arb!vars)
  BY ArbitrationStep
<1>5. Inv /\ [Next]_vars => [Service!Next]_(Service!vars)
  BY CompletionStep
<1> QED
  BY <1>1, <1>2, <1>3, <1>4, <1>5, PTL DEF Spec, Arb!Spec, Service!Spec

-----------------------------------------------------------------------------
(* Back-pressure and deadlock.  What each process waits for, as the guards  *)
(* of its actions: the guard is true where the action can be taken.         *)

IntakeCanMove ==
  \/ intakePc = "IDLE" /\ intake # <<>>
  \/ intakePc = "FORWARD_TO_ARBITRATION" /\ enqueued[taken.sq] < Workload[taken.sq]
  \/ intakePc \in {"APPLY_QOS_CONFIG", "RETURN_TO_IDLE"}

ArbitrationCanMove(s) ==
  \/ stage[s] = "none" /\ queue[s] # <<>>
  \/ stage[s] = "granted" /\ issueReady /\ queue[s] # <<>>
  \/ stage[s] = "issued"

DispatchCanMove ==
  \/ dispatchPc = "POLL_ISSUED" /\ issuedSeen < Len(issued)
  \/ dispatchPc = "FORWARD_TO_COMPLETION"
  \/ dispatchPc = "WAIT_ACCEPT" /\ inbox = <<>>

CompletionCanMove ==
  \/ inbox # <<>> /\ (Depth # None => Len(pending[CommandTenant[Head(inbox)]]) < Depth)
  \/ \E t \in Tenant : willing[t] /\ outputReady /\ serving = None /\ pending[t] # <<>>
  \/ serving # None

MonitorCanMove ==
  \/ monitorPc = "SAMPLE_BACKLOG" /\ (Backlog >= Limit) # issueThrottled
  \/ monitorPc = "APPLY_THROTTLE"

SomebodyCanMove ==
  \/ IntakeCanMove \/ DispatchCanMove \/ CompletionCanMove \/ MonitorCanMove
  \/ \E s \in Sq : ArbitrationCanMove(s)

Outstanding(s) == Numbers(Own(s, completed)) # 1 .. submitted[s]
NothingIsStuck ==
  AllServed /\ (~issueReady \/ \E s \in Sq : Outstanding(s)) => SomebodyCanMove

Stages == stage \in [Sq -> {"none", "granted", "issued"}]

LEMMA StagesAreKept ==
  ASSUME Inv, Stages, [Next]_vars
  PROVE  Stages'
<1>1. [Arb!Next]_(Arb!vars)
  BY ArbitrationStep
<1> QED
  BY <1>1 DEF Stages, Arb!vars, Arb!Next, Arb!Enqueue, Arb!Grant, Arb!EndGrant, Arb!IssueBatch

LEMMA NoBacklog ==
  ASSUME Types, \A t \in Tenant : pending[t] = <<>>
  PROVE  ~(Backlog >= Limit)
<1>1. UNION { {t} \X DOMAIN pending[t] : t \in Tenant } = {}
  <2>1. ASSUME NEW t \in Tenant
        PROVE  {t} \X DOMAIN pending[t] = {}
    <3>1. DOMAIN pending[t] = {}
      OBVIOUS
    <3> QED
      BY <3>1
  <2> QED
    BY <2>1
<1>2. Backlog = 0
  BY <1>1, FS_EmptySet DEF Backlog
<1> QED
  BY <1>2, StorageAssumption

\* A way whose stations but the last hold nothing has everything at its end.
LEMMA AllAtTheEnd ==
  ASSUME NEW w, NEW given, NEW last, Whole(w, given, last),
         \A k \in 2 .. 9 : w[k] = <<>>
  PROVE  Numbers(w[1]) = 1 .. last
<1>1. w \in Ways(9) /\ InOrder(w, last) /\ last \in Nat
  BY DEF Whole
<1>2. /\ \A k \in 1 .. 9 : Numbers(w[k]) \subseteq 1 .. last
      /\ \A y \in 1 .. last : \E k \in 1 .. 9 : y \in Numbers(w[k])
  BY <1>1, NumbersOnTheWay
<1>3. ASSUME NEW y \in 1 .. last
      PROVE  y \in Numbers(w[1])
  <2>1. PICK k \in 1 .. 9 : y \in Numbers(w[k])
    BY <1>2
  <2>2. CASE k = 1
    BY <2>1, <2>2
  <2>3. CASE k # 1
    <3>1. k \in 2 .. 9
      BY <2>3
    <3> QED
      BY <2>1, <3>1, EmptyStation
  <2> QED
    BY <2>2, <2>3
<1>4. 1 \in 1 .. 9
  OBVIOUS
<1> QED
  BY <1>2, <1>3, <1>4

\* Where no process can move, nothing is on its way.
LEMMA OnlyTheIdleAreStuck ==
  ASSUME Inv, Stages, AllServed, ~SomebodyCanMove
  PROVE  issueReady /\ \A s \in Sq : ~Outstanding(s)
<1>1. /\ ~IntakeCanMove /\ ~DispatchCanMove /\ ~CompletionCanMove /\ ~MonitorCanMove
      /\ \A s \in Sq : ~ArbitrationCanMove(s)
  BY DEF SomebodyCanMove
<1> USE DEF Inv, Types, TypeOK, MemberTypes
<1>2. serving = None /\ \A t \in Tenant : pending[t] = <<>>
  BY <1>1 DEF CompletionCanMove, AllServed
<1>3. inbox = <<>>
  <2> SUFFICES ASSUME inbox # <<>>
               PROVE  FALSE
    OBVIOUS
  <2>1. Head(inbox) \in Command
    BY HeadTailProperties
  <2>2. CommandTenant[Head(inbox)] \in Tenant
    BY <2>1, StorageAssumption DEF CommandTenant, Command
  <2>3. Len(pending[CommandTenant[Head(inbox)]]) = 0
    BY <1>2, <2>2
  <2>4. Depth # None => 0 < Depth
    BY StorageAssumption
  <2> QED
    BY <1>1, <2>3, <2>4 DEF CompletionCanMove
<1>4. issueReady
  <2>1. monitorPc = "SAMPLE_BACKLOG" /\ ~((Backlog >= Limit) # issueThrottled)
    BY <1>1 DEF MonitorCanMove
  <2>2. ~(Backlog >= Limit)
    BY <1>2, NoBacklog
  <2> QED
    BY <2>1, <2>2
<1>5. carried = None /\ issuedSeen = Len(issued)
  <2>1. dispatchPc = "POLL_ISSUED" /\ ~(issuedSeen < Len(issued))
    BY <1>1, <1>3 DEF DispatchCanMove
  <2>2. Len(issued) \in Nat
    BY LenProperties
  <2> QED
    BY <2>1, <2>2
<1>6. \A s \in Sq : queue[s] = <<>>
  BY <1>1, <1>4 DEF ArbitrationCanMove, Stages
<1>7. taken = None /\ intake = <<>>
  <2>1. intakePc # "FORWARD_TO_ARBITRATION"
    BY <1>1, InvForwardsTheNext DEF IntakeCanMove, ForwardsTheNext
  <2> QED
    BY <1>1, <2>1 DEF IntakeCanMove
<1>8. ASSUME NEW s \in Sq
      PROVE  ~Outstanding(s)
  <2>1. PICK w : w = Stations(s)
    OBVIOUS
  <2>2. Whole(w, enqueued[s], submitted[s])
    BY <2>1
  <2>3. SubSeq(issued, issuedSeen + 1, Len(issued)) = <<>>
    <3>1. PICK n \in Nat : n = Len(issued) /\ n = issuedSeen
      BY <1>5, LenProperties
    <3>2. \A i \in n + 1 .. n : issued[i] \in Command
      BY <3>1
    <3>3. /\ SubSeq(issued, n + 1, n) \in Seq(Command)
          /\ Len(SubSeq(issued, n + 1, n)) = IF n + 1 <= n THEN n - (n + 1) + 1 ELSE 0
      BY <3>1, <3>2, SubSeqProperties
    <3> QED
      BY <3>1, <3>3, EmptySeq
  <2>4. pending[TenantOf[s]] = <<>>
    BY <1>2, StorageAssumption
  <2>5. w = << Own(s, completed), Own(s, One(serving)), Own(s, pending[TenantOf[s]]), Own(s, inbox),
               Own(s, One(carried)), Own(s, SubSeq(issued, issuedSeen + 1, Len(issued))),
               queue[s], Submissions(s, One(taken)), Submissions(s, intake) >>
    BY <2>1 DEF Stations
  <2>6. /\ w[2] = <<>> /\ w[3] = <<>> /\ w[4] = <<>> /\ w[5] = <<>>
        /\ w[6] = <<>> /\ w[7] = <<>> /\ w[8] = <<>> /\ w[9] = <<>>
    BY <1>2, <1>3, <1>5, <1>6, <1>7, <2>3, <2>4, <2>5, HandProperties
  <2>7. \A k \in 2 .. 9 : w[k] = <<>>
    <3> HIDE DEF Inv
    <3>1. \A k \in 2 .. 9 : k = 2 \/ k = 3 \/ k = 4 \/ k = 5 \/ k = 6 \/ k = 7 \/ k = 8 \/ k = 9
      OBVIOUS
    <3> QED
      BY <2>6, <3>1
  <2>8. w[1] = Own(s, completed)
    BY <2>5
  <2> QED
    BY <2>2, <2>7, <2>8, AllAtTheEnd DEF Outstanding
<1> QED
  BY <1>4, <1>8

\* Back-pressure never makes the subsystem stop short: while the Completion IP
\* serves every tenant, as long as a command is outstanding or issue_ready is
\* low one of the processes can move, whatever the monitor sampled and however
\* small the backlog limit and the pending depth are.  (That they do move, and
\* that the pipeline so drains, is PipelineDrains.)
THEOREM BackPressureIsNoDeadlock == Spec => []NothingIsStuck
<1>1. Init => Inv /\ Stages
  BY InvBegins DEF Init, Arb!Init, Stages
<1>2. Inv /\ Stages /\ [Next]_vars => (Inv /\ Stages)'
  BY InvIsKept, StagesAreKept
<1>3. Inv /\ Stages => NothingIsStuck
  BY OnlyTheIdleAreStuck DEF NothingIsStuck
<1> QED
  BY <1>1, <1>2, <1>3, PTL DEF Spec

=============================================================================
