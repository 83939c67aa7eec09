--------------------------- MODULE MetricsProofs ---------------------------
(***************************************************************************)
(* Theorems about the metrics manager: the types and the bound on a window *)
(* of buckets, that the statistics of a window are exactly those of its    *)
(* observations, that none of them slides out of its window unexported     *)
(* while the upload loop runs, and that the exit exports the last window.  *)
(***************************************************************************)
EXTENDS Metrics, WellOrder, SequenceTheorems

(* The clock in whole seconds                                              *)

\* What whole division is.
LEMMA Division ==
    ASSUME NEW a \in Int, NEW T \in Nat \ {0}
    PROVE  /\ a \div T \in Int
           /\ T * (a \div T) <= a
           /\ a < T * (a \div T) + T
  BY SMT

\* Later ticks are in later seconds or the same, and no second is negative.
LEMMA DivisionMonotone ==
    ASSUME NEW a \in Nat, NEW b \in Nat, NEW T \in Nat \ {0}, a <= b
    PROVE  /\ a \div T \in Nat
           /\ a \div T <= b \div T
<1> DEFINE p == a \div T
           q == b \div T
<1>1. /\ p \in Int /\ T * p <= a /\ a < T * p + T
      /\ q \in Int /\ T * q <= b /\ b < T * q + T
  BY Division
<1> HIDE DEF p, q
<1>2. p >= 0
  <2>1. SUFFICES ASSUME p <= -1 PROVE FALSE
    BY <1>1
  <2>2. T * p <= T * (-1)
    BY <1>1, <2>1
  <2>3. QED
    BY <1>1, <2>2
<1>3. p <= q
  <2>1. SUFFICES ASSUME p >= q + 1 PROVE FALSE
    BY <1>1
  <2>2. T * p >= T * (q + 1)
    BY <1>1, <2>1
  <2>3. T * (q + 1) = T * q + T
    BY <1>1
  <2>4. QED
    BY <1>1, <2>2, <2>3
<1>4. QED
  BY <1>1, <1>2, <1>3 DEF p, q

\* Ticks no further apart than n seconds are in seconds no further apart.
LEMMA DivisionGap ==
    ASSUME NEW a \in Nat, NEW b \in Nat, NEW T \in Nat \ {0}, NEW n \in Nat,
           b - a <= n * T
    PROVE  b \div T - a \div T <= n
<1> DEFINE p == a \div T
           q == b \div T
<1>1. /\ p \in Int /\ T * p <= a /\ a < T * p + T
      /\ q \in Int /\ T * q <= b /\ b < T * q + T
  BY Division
<1> HIDE DEF p, q
<1>2. q - p <= n
  <2>1. SUFFICES ASSUME q >= p + n + 1 PROVE FALSE
    BY <1>1
  <2>2. T * q >= T * (p + n + 1)
    BY <1>1, <2>1
  <2>3. T * (p + n + 1) = T * p + n * T + T
    BY <1>1
  <2>4. n * T \in Int
    OBVIOUS
  <2>5. QED
    BY <1>1, <2>2, <2>3, <2>4
<1>3. QED
  BY <1>2 DEF p, q

-----------------------------------------------------------------------------
(* The buckets of a window                                                 *)

\* Seconds grow along the buckets, none is in the future.
Rising(b, s) ==
    /\ \A i \in DOMAIN b : b[i].sec <= s
    /\ \A i, j \in DOMAIN b : i < j => b[j].sec - b[i].sec >= j - i

\* The seconds that have a bucket.
Seconds(b) == {b[i].sec : i \in DOMAIN b}

\* An element of a sequence of buckets is a bucket.
LEMMA BucketTypes ==
    ASSUME NEW b \in Seq(Bucket)
    PROVE  /\ Len(b) \in Nat /\ DOMAIN b = 1..Len(b)
           /\ \A i \in DOMAIN b : b[i] \in Bucket /\ b[i].sec \in Nat
<1>1. \A i \in DOMAIN b : b[i] \in Bucket
  BY ElementOfSeq
<1>2. \A x \in Bucket : x.sec \in Nat
  BY DEF Bucket
<1>3. QED
  BY <1>1, <1>2

\* Evicting keeps the buckets of the last Window seconds and no others.
LEMMA EvictKeepsFresh ==
    ASSUME NEW b \in Seq(Bucket), Second \in Nat, Rising(b, Second)
    PROVE  /\ Evict(b) \in Seq(Bucket)
           /\ Rising(Evict(b), Second)
           /\ Seconds(Evict(b)) = {s \in Seconds(b) : s >= Second - Window + 1}
<1> DEFINE fresh == {i \in DOMAIN b : b[i].sec >= Second - Window + 1}
<1>0. Window \in Nat \ {0}
  BY MetricsAssumption
<1>1. CASE fresh = {}
  <2>1. Evict(b) = <<>>
    BY <1>1 DEF Evict
  <2>2. {s \in Seconds(b) : s >= Second - Window + 1} = {}
    BY <1>1 DEF Seconds
  <2>3. QED
    BY <2>1, <2>2 DEF Seconds, Rising
<1>2. CASE fresh # {}
  <2> DEFINE m == Min(fresh)
  <2>1. m \in fresh /\ \A i \in fresh : m <= i
    <3>1. fresh \in SUBSET Nat
      OBVIOUS
    <3>2. \E k \in fresh : \A i \in fresh : k <= i
      BY <3>1, <1>2, LeastNat
    <3> HIDE DEF fresh
    <3>3. QED
      BY <3>2 DEF Min
  <2>2. Evict(b) = SubSeq(b, m, Len(b))
    BY <1>2 DEF Evict
  <2> HIDE DEF m
  <2>3. m \in 1..Len(b) /\ b[m].sec >= Second - Window + 1 /\ Len(b) \in Nat
    BY <2>1
  <2> DEFINE e == Evict(b)
  <2>4. /\ e \in Seq(Bucket)
        /\ Len(e) = Len(b) - m + 1
        /\ \A i \in 1..Len(b) - m + 1 : e[i] = b[m + i - 1]
    BY <2>2, <2>3, SubSeqProperties
  <2>5. \A i \in DOMAIN b : b[i] \in Bucket /\ b[i].sec \in Nat
    BY BucketTypes
  <2> HIDE DEF e
  <2>6. DOMAIN e = 1..Len(b) - m + 1 /\ DOMAIN b = 1..Len(b)
    BY <2>4
  <2>7. Rising(e, Second)
    <3>1. \A i \in DOMAIN e : m + i - 1 \in DOMAIN b /\ e[i].sec = b[m + i - 1].sec
      BY <2>3, <2>4, <2>6
    <3>2. ASSUME NEW i \in DOMAIN e, NEW j \in DOMAIN e, i < j
          PROVE  e[j].sec - e[i].sec >= j - i
      <4>1. m + i - 1 < m + j - 1 /\ (m + j - 1) - (m + i - 1) = j - i
        BY <3>2, <2>3, <2>6
      <4>2. b[m + j - 1].sec - b[m + i - 1].sec >= (m + j - 1) - (m + i - 1)
        BY <3>1, <4>1 DEF Rising
      <4>3. QED
        BY <3>1, <4>1, <4>2
    <3>3. \A i \in DOMAIN e : e[i].sec <= Second
      BY <3>1 DEF Rising
    <3>4. QED
      BY <3>2, <3>3 DEF Rising
  <2>8. Seconds(e) = {s \in Seconds(b) : s >= Second - Window + 1}
    <3>1. ASSUME NEW i \in DOMAIN e
          PROVE  e[i].sec \in Seconds(b) /\ e[i].sec >= Second - Window + 1
      <4>1. m + i - 1 \in DOMAIN b /\ e[i].sec = b[m + i - 1].sec
        BY <2>3, <2>4, <2>6
      <4>2. b[m + i - 1].sec >= b[m].sec
        <5>1. CASE i = 1
          BY <5>1, <2>3, <2>5
        <5>2. CASE i # 1
          <6>1. m < m + i - 1 /\ m \in DOMAIN b
            BY <5>2, <2>3, <2>6
          <6>2. b[m + i - 1].sec - b[m].sec >= i - 1
            BY <6>1, <4>1, <2>3, <2>6 DEF Rising
          <6>3. QED
            BY <6>1, <6>2, <4>1, <2>3, <2>5, <2>6
        <5>3. QED
          BY <5>1, <5>2
      <4>3. b[m + i - 1].sec \in Nat /\ b[m].sec \in Nat
        BY <4>1, <2>3, <2>5, <2>6
      <4>4. QED
        BY <1>0, <4>1, <4>2, <4>3, <2>3 DEF Seconds
    <3>2. ASSUME NEW i \in DOMAIN b, b[i].sec >= Second - Window + 1
          PROVE  b[i].sec \in Seconds(e)
      <4>1. m <= i
        BY <2>1, <3>2
      <4>2. i - m + 1 \in DOMAIN e /\ m + (i - m + 1) - 1 = i
        BY <4>1, <2>3, <2>6
      <4> DEFINE k == i - m + 1
      <4>3. e[k] = b[i]
        <5>1. k \in 1..Len(b) - m + 1 /\ m + k - 1 = i
          BY <4>2, <2>6
        <5> HIDE DEF k
        <5>2. QED
          BY <5>1, <2>4
      <4>4. QED
        BY <4>2, <4>3 DEF Seconds
    <3>3. QED
      BY <3>1, <3>2 DEF Seconds
  <2>9. QED
    BY <2>4, <2>7, <2>8 DEF e
<1>3. QED
  BY <1>1, <1>2

\* Evicting changes no bucket.
LEMMA EvictPicks ==
    ASSUME NEW b \in Seq(Bucket)
    PROVE  \A i \in DOMAIN Evict(b) : \E j \in DOMAIN b : Evict(b)[i] = b[j]
<1> DEFINE fresh == {i \in DOMAIN b : b[i].sec >= Second - Window + 1}
<1>1. CASE fresh = {}
  BY <1>1 DEF Evict
<1>2. CASE fresh # {}
  <2> DEFINE m == Min(fresh)
  <2>1. m \in fresh
    <3>1. fresh \in SUBSET Nat
      OBVIOUS
    <3>2. \E k \in fresh : \A i \in fresh : k <= i
      BY <3>1, <1>2, LeastNat
    <3> HIDE DEF fresh
    <3>3. QED
      BY <3>2 DEF Min
  <2>2. Evict(b) = SubSeq(b, m, Len(b))
    BY <1>2 DEF Evict
  <2>3. m \in 1..Len(b) /\ Len(b) \in Nat /\ DOMAIN b = 1..Len(b)
    BY <2>1
  <2> HIDE DEF m
  <2> DEFINE e == SubSeq(b, m, Len(b))
  <2>4. /\ DOMAIN e = 1..Len(b) - m + 1
        /\ \A i \in 1..Len(b) - m + 1 : e[i] = b[m + i - 1]
    BY <2>3
  <2>5. ASSUME NEW i \in DOMAIN e PROVE \E j \in DOMAIN b : e[i] = b[j]
    <3>1. m + i - 1 \in DOMAIN b /\ e[i] = b[m + i - 1]
      BY <2>3, <2>4
    <3>2. QED
      BY <3>1
  <2>6. QED
    BY <2>2, <2>5
<1>3. QED
  BY <1>1, <1>2

\* A window of fresh buckets has no more of them than it has seconds.
LEMMA FreshFew ==
    ASSUME NEW b \in Seq(Bucket), NEW s \in Nat, Rising(b, s),
           \A x \in Seconds(b) : x >= s - Window + 1
    PROVE  Len(b) <= Window
<1>0. Window \in Nat \ {0}
  BY MetricsAssumption
<1>1. \A i \in DOMAIN b : b[i].sec \in Nat /\ b[i].sec <= s /\ b[i].sec >= s - Window + 1
  BY BucketTypes DEF Rising, Seconds
<1>2. Len(b) \in Nat /\ DOMAIN b = 1..Len(b)
  OBVIOUS
<1>3. CASE Len(b) <= 1
  BY <1>0, <1>2, <1>3
<1>4. CASE Len(b) > 1
  <2>1. b[Len(b)].sec - b[1].sec >= Len(b) - 1
    BY <1>2, <1>4 DEF Rising
  <2>2. 1 \in DOMAIN b /\ Len(b) \in DOMAIN b
    BY <1>2, <1>4
  <2>3. QED
    BY <1>0, <1>1, <1>2, <2>1, <2>2
<1>5. QED
  BY <1>2, <1>3, <1>4

\* The two buckets that put() can leave for this second.
Counted(x, v) == [x EXCEPT !.count = @ + 1, !.sum = @ + v,
                           !.min = Lesser(@, v), !.max = Greater(@, v)]
NewBucket(v) == [sec |-> Second, count |-> 1, sum |-> v, min |-> v, max |-> v]

\* A bucket that counts one more is a bucket of the same second.
LEMMA CountedBucket ==
    ASSUME NEW x \in Bucket, NEW v \in Int
    PROVE  Counted(x, v) \in Bucket /\ Counted(x, v).sec = x.sec
<1>1. /\ x.sec \in Nat /\ x.count + 1 \in Nat /\ x.sum + v \in Int
      /\ Lesser(x.min, v) \in Int /\ Greater(x.max, v) \in Int
  BY DEF Bucket, Lesser, Greater
<1>2. QED
  BY <1>1 DEF Bucket, Counted

\* Counting an observation keeps the fresh buckets and has one for this second,
\* the only one that changes.
LEMMA AccumulateAdds ==
    ASSUME NEW b \in Seq(Bucket), Second \in Nat, Rising(b, Second), NEW v \in Int
    PROVE  /\ Accumulate(b, v) \in Seq(Bucket)
           /\ Len(Accumulate(b, v)) <= Window
           /\ Rising(Accumulate(b, v), Second)
           /\ Seconds(Accumulate(b, v)) =
                  {s \in Seconds(b) : s >= Second - Window + 1} \cup {Second}
           /\ \A i \in DOMAIN Accumulate(b, v) :
                  \/ \E j \in DOMAIN b : Accumulate(b, v)[i] = b[j] /\ b[j].sec # Second
                  \/ \E j \in DOMAIN b : /\ Accumulate(b, v)[i] = Counted(b[j], v)
                                          /\ b[j].sec = Second
                  \/ Accumulate(b, v)[i] = NewBucket(v) /\ Second \notin Seconds(b)
<1> DEFINE e == Evict(b)
           n == Len(e)
           a == Accumulate(b, v)
<1>0. Window \in Nat \ {0}
  BY MetricsAssumption
<1>1. /\ e \in Seq(Bucket) /\ Rising(e, Second)
      /\ Seconds(e) = {s \in Seconds(b) : s >= Second - Window + 1}
  BY EvictKeepsFresh
<1>2. /\ n \in Nat /\ DOMAIN e = 1..n
      /\ \A i \in DOMAIN e : e[i] \in Bucket /\ e[i].sec \in Nat
  BY <1>1, BucketTypes
<1> DEFINE Origin(x, c) ==
               \/ \E j \in DOMAIN c : x = c[j] /\ c[j].sec # Second
               \/ \E j \in DOMAIN c : x = Counted(c[j], v) /\ c[j].sec = Second
               \/ x = NewBucket(v) /\ Second \notin Seconds(c)
<1> SUFFICES /\ a \in Seq(Bucket) /\ Rising(a, Second)
             /\ Seconds(a) = Seconds(e) \cup {Second}
             /\ \A i \in DOMAIN a : Origin(a[i], e)
  <2>1. ASSUME a \in Seq(Bucket), Rising(a, Second),
               Seconds(a) = Seconds(e) \cup {Second}
        PROVE  Len(a) <= Window
    <3>1. \A x \in Seconds(a) : x >= Second - Window + 1
      BY <1>0, <1>1, <2>1
    <3> HIDE DEF a
    <3>2. QED
      BY <2>1, <3>1, FreshFew
  <2>2. ASSUME NEW x, Origin(x, e) PROVE Origin(x, b)
    <3>1. \A j \in DOMAIN e : \E q \in DOMAIN b : e[j] = b[q]
      BY EvictPicks
    <3>2. Second \in Seconds(b) => Second \in Seconds(e)
      BY <1>0, <1>1
    <3> HIDE DEF e
    <3>3. QED
      BY <2>2, <3>1, <3>2
  <2> HIDE DEF a, e
  <2>3. ASSUME \A i \in DOMAIN a : Origin(a[i], e)
        PROVE  \A i \in DOMAIN a : Origin(a[i], b)
    BY <2>2, <2>3
  <2> HIDE DEF Origin
  <2>4. QED
    BY <1>1, <2>1, <2>3 DEF a, e, Origin
<1>3. CASE e # <<>> /\ Last(e).sec = Second
  <2> DEFINE r == Counted(e[n], v)
  <2>1. n \in DOMAIN e /\ e[n].sec = Second
    BY <1>1, <1>2, <1>3 DEF Last
  <2>2. a = [e EXCEPT ![n] = r]
    BY <1>3, <2>1 DEF Accumulate, Counted
  <2>3. r \in Bucket /\ r.sec = Second
    <3>1. e[n] \in Bucket
      BY <1>2, <2>1
    <3>2. QED
      BY <3>1, <2>1, CountedBucket
  <2> HIDE DEF a, r, e
  <2>4. /\ a \in Seq(Bucket) /\ DOMAIN a = DOMAIN e
        /\ \A i \in DOMAIN e : a[i].sec = e[i].sec
    BY <1>1, <1>2, <2>1, <2>2, <2>3
  <2>5. Rising(a, Second) /\ Seconds(a) = Seconds(e)
    BY <1>1, <2>4 DEF Rising, Seconds
  <2>6. Second \in Seconds(e)
    BY <2>1 DEF Seconds
  <2>7. ASSUME NEW i \in DOMAIN a PROVE Origin(a[i], e)
    <3>1. CASE i = n
      <4>1. a[i] = Counted(e[n], v)
        BY <1>1, <2>1, <2>2, <3>1 DEF r
      <4>2. QED
        BY <2>1, <4>1
    <3>2. CASE i # n
      <4>1. a[i] = e[i] /\ i \in DOMAIN e /\ i < n
        BY <1>1, <1>2, <2>1, <2>2, <2>4, <3>2
      <4>2. e[n].sec - e[i].sec >= n - i
        BY <1>1, <2>1, <4>1 DEF Rising
      <4>3. e[i].sec # Second
        BY <1>2, <2>1, <4>1, <4>2
      <4>4. QED
        BY <4>1, <4>3
    <3>3. QED
      BY <3>1, <3>2
  <2>8. QED
    BY <2>4, <2>5, <2>6, <2>7
<1>4. CASE ~(e # <<>> /\ Last(e).sec = Second)
  <2> DEFINE r == NewBucket(v)
  <2>1. a = Append(e, r)
    BY <1>4 DEF Accumulate, NewBucket
  <2>2. r \in Bucket /\ r.sec = Second
    BY DEF Bucket, NewBucket
  <2> HIDE DEF a, r, e
  <2>3. /\ a \in Seq(Bucket) /\ Len(a) = n + 1 /\ DOMAIN a = 1..n + 1
        /\ a[n + 1] = r
        /\ \A i \in DOMAIN e : a[i] = e[i]
    BY <1>1, <1>2, <2>1, <2>2
  <2>4. Seconds(a) = Seconds(e) \cup {Second}
    BY <1>2, <2>2, <2>3 DEF Seconds
  <2>5. ASSUME NEW i \in DOMAIN e PROVE Second - e[i].sec >= n + 1 - i
    <3>1. n \in DOMAIN e /\ e[n].sec <= Second /\ e[n].sec # Second
      BY <1>1, <1>2, <1>4 DEF Rising, Last
    <3>2. e[n].sec - e[i].sec >= n - i
      <4>1. CASE i = n
        BY <4>1, <1>2
      <4>2. CASE i # n
        BY <4>2, <1>1, <1>2, <3>1 DEF Rising
      <4>3. QED
        BY <4>1, <4>2
    <3>3. e[i].sec \in Nat /\ e[n].sec \in Nat /\ i \in Nat
      BY <1>2, <3>1
    <3>4. QED
      BY <1>2, <3>1, <3>2, <3>3
  <2>6. Rising(a, Second)
    <3>1. ASSUME NEW i \in DOMAIN a PROVE a[i].sec <= Second
      BY <1>1, <1>2, <2>2, <2>3 DEF Rising
    <3>2. ASSUME NEW i \in DOMAIN a, NEW j \in DOMAIN a, i < j
          PROVE  a[j].sec - a[i].sec >= j - i
      <4>1. i \in DOMAIN e /\ a[i] = e[i]
        BY <1>2, <2>3, <3>2
      <4>2. CASE j = n + 1
        BY <4>1, <4>2, <2>2, <2>3, <2>5
      <4>3. CASE j # n + 1
        <5>1. j \in DOMAIN e /\ a[j] = e[j]
          BY <1>2, <2>3, <4>3
        <5>2. QED
          BY <1>1, <3>2, <4>1, <5>1 DEF Rising
      <4>4. QED
        BY <4>2, <4>3
    <3>3. QED
      BY <3>1, <3>2 DEF Rising
  <2>7. \A i \in DOMAIN e : e[i].sec # Second
    BY <1>2, <2>5
  <2>8. ASSUME NEW i \in DOMAIN a PROVE Origin(a[i], e)
    <3>1. CASE i = n + 1
      BY <2>3, <2>7, <3>1 DEF Seconds, r
    <3>2. CASE i # n + 1
      <4>1. i \in DOMAIN e /\ a[i] = e[i]
        BY <1>2, <2>3, <3>2
      <4>2. QED
        BY <2>7, <4>1
    <3>3. QED
      BY <3>1, <3>2
  <2>9. QED
    BY <2>3, <2>4, <2>6, <2>8
<1>5. QED
  BY <1>3, <1>4

-----------------------------------------------------------------------------
(* The registry                                                            *)

\* o has been put.
Observed(o) == putAt[o] # NotYet

\* The registry and the observations agree on the seconds: every bucket has an
\* observation of its key and second, and every live observation a bucket.
RegistryInv ==
    /\ registry \in [Key -> Seq(Bucket)]
    /\ \A k \in Key :
        /\ Len(registry[k]) <= Window
        /\ Rising(registry[k], Second)
        /\ \A s \in Seconds(registry[k]) :
               \E o \in Obs : Observed(o) /\ KeyOf(o) = k /\ SecondOf(o) = s
    /\ \A o \in Obs : Live(o) => SecondOf(o) \in Seconds(registry[KeyOf(o)])

\* The observations of key k and second s.
Of(k, s) == {o \in Obs : Observed(o) /\ KeyOf(o) = k /\ SecondOf(o) = s}

\* x, a bucket or the statistics of a window, says of the observations S how
\* many they are, what their values add up to, and which are the extreme ones.
Summarises(x, S) ==
    /\ x.count = Cardinality(S)
    /\ x.sum = SumFunctionOnSet(Value, S)
    /\ \E o \in S : Value[o] = x.min
    /\ \E o \in S : Value[o] = x.max
    /\ \A o \in S : x.min <= Value[o] /\ Value[o] <= x.max

\* Every bucket summarises the observations of its key and second.
BucketsExact ==
    /\ IsFiniteSet({o \in Obs : Observed(o)})
    /\ \A k \in Key : \A i \in DOMAIN registry[k] :
           Summarises(registry[k][i], Of(k, registry[k][i].sec))

\* The fresh buckets of a key are those of the seconds of its live
\* observations: so a window is empty, and left out of snapshots(), exactly
\* when nothing was observed in it.
FreshSeconds ==
    \A k \in Key : Seconds(Evict(registry[k])) =
        {SecondOf(o) : o \in {x \in Obs : Live(x) /\ KeyOf(x) = k}}

\* The assumption, constant by constant.
LEMMA Constants ==
    /\ TicksPerSecond \in Nat \ {0} /\ Window \in Nat \ {0} /\ Interval \in Nat \ {0}
    /\ ExportTime \in Nat /\ MaxTime \in Nat
    /\ Value \in [Obs -> Int]
  BY MetricsAssumption

\* The key of an observation is a key of the registry.
LEMMA KeyTypes ==
    ASSUME NEW o \in Obs
    PROVE  KeyOf(o) \in Key
  BY DEF KeyOf, Key, Dimensions

\* The seconds of the clock and of an observation.
LEMMA SecondTypes ==
    ASSUME TypeOK
    PROVE  /\ Second \in Nat
           /\ \A o \in Obs : Observed(o) => putAt[o] \in Nat /\ SecondOf(o) \in Nat
<1>1. Second \in Nat
  BY Constants, DivisionMonotone DEF TypeOK, Second
<1>2. ASSUME NEW o \in Obs, Observed(o)
      PROVE  putAt[o] \in Nat /\ SecondOf(o) \in Nat
  <2>1. putAt[o] \in Nat
    BY <1>2 DEF TypeOK, Observed
  <2>2. QED
    BY <2>1, Constants, DivisionMonotone DEF SecondOf
<1>3. QED
  BY <1>1, <1>2

\* With the registry in order the fresh buckets are those of the live observations.
LEMMA FreshExactly ==
    ASSUME TypeOK, RegistryInv
    PROVE  FreshSeconds
<1> SUFFICES ASSUME NEW k \in Key
             PROVE  Seconds(Evict(registry[k])) =
                        {SecondOf(o) : o \in {x \in Obs : Live(x) /\ KeyOf(x) = k}}
  BY DEF FreshSeconds
<1>1. registry[k] \in Seq(Bucket) /\ Rising(registry[k], Second) /\ Second \in Nat
  BY SecondTypes DEF RegistryInv
<1>2. Seconds(Evict(registry[k])) =
          {s \in Seconds(registry[k]) : s >= Second - Window + 1}
  BY <1>1, EvictKeepsFresh
<1>3. ASSUME NEW s \in Seconds(registry[k]), s >= Second - Window + 1
      PROVE  \E o \in Obs : Live(o) /\ KeyOf(o) = k /\ SecondOf(o) = s
  <2>1. PICK o \in Obs : Observed(o) /\ KeyOf(o) = k /\ SecondOf(o) = s
    BY DEF RegistryInv
  <2>2. SecondOf(o) \in Nat
    BY <2>1, SecondTypes
  <2>3. Live(o)
    BY <1>1, <1>3, <2>1, <2>2, Constants DEF Live, Observed
  <2>4. QED
    BY <2>1, <2>3
<1>4. ASSUME NEW o \in Obs, Live(o), KeyOf(o) = k
      PROVE  SecondOf(o) \in Seconds(registry[k]) /\ SecondOf(o) >= Second - Window + 1
  <2>1. SecondOf(o) \in Nat
    BY <1>4, SecondTypes DEF Live, Observed
  <2>2. QED
    BY <1>1, <1>4, <2>1, Constants DEF RegistryInv, Live
<1>5. QED
  BY <1>2, <1>3, <1>4

\* Without snapshots nothing observed is live.
LEMMA NoSnapshotNoneLive ==
    ASSUME TypeOK, RegistryInv, NoSnapshot, NEW o \in Obs
    PROVE  ~Live(o)
<1>1. KeyOf(o) \in Key /\ Evict(registry[KeyOf(o)]) = <<>>
  BY KeyTypes DEF NoSnapshot
<1>2. Seconds(Evict(registry[KeyOf(o)])) = {}
  BY <1>1 DEF Seconds
<1>3. QED
  BY <1>1, <1>2, FreshExactly DEF FreshSeconds

\* put() keeps the registry in order.
LEMMA PutKeepsRegistry ==
    ASSUME TypeOK, RegistryInv, NEW o \in Obs, Put(o)
    PROVE  RegistryInv'
<1> DEFINE k == KeyOf(o)
           a == Accumulate(registry[k], Value[o])
<1>1. /\ k \in Key /\ Second \in Nat
      /\ registry[k] \in Seq(Bucket) /\ Rising(registry[k], Second) /\ Value[o] \in Int
  BY KeyTypes, SecondTypes, Constants DEF RegistryInv
<1>2. /\ a \in Seq(Bucket) /\ Len(a) <= Window /\ Rising(a, Second)
      /\ Seconds(a) = {s \in Seconds(registry[k]) : s >= Second - Window + 1}
                          \cup {Second}
  BY <1>1, AccumulateAdds
<1>3. registry' = [registry EXCEPT ![k] = a]
  BY DEF Put
<1> HIDE DEF a
<1>4. /\ Second' = Second /\ \A x \in Obs : KeyOf(x)' = KeyOf(x)
      /\ putAt'[o] = now /\ Observed(o)' /\ SecondOf(o)' = Second
      /\ \A x \in Obs \ {o} : /\ putAt'[x] = putAt[x]
                              /\ Observed(x)' <=> Observed(x)
                              /\ SecondOf(x)' = SecondOf(x)
                              /\ Live(x)' <=> Live(x)
      /\ ~Observed(o)
  BY DEF Put, TypeOK, Second, KeyOf, Observed, SecondOf, Live, NotYet
<1> HIDE DEF k
<1>5. /\ registry' \in [Key -> Seq(Bucket)] /\ registry'[k] = a
      /\ \A q \in Key \ {k} : registry'[q] = registry[q]
  BY <1>1, <1>2, <1>3 DEF RegistryInv
<1>6. ASSUME NEW q \in Key
      PROVE  /\ Len(registry'[q]) <= Window
             /\ Rising(registry'[q], Second')
             /\ \A s \in Seconds(registry'[q]) :
                    \E x \in Obs : Observed(x)' /\ KeyOf(x)' = q /\ SecondOf(x)' = s
  <2>1. \A s \in Seconds(registry[q]) :
            \E x \in Obs : Observed(x)' /\ KeyOf(x)' = q /\ SecondOf(x)' = s
    <3>1. SUFFICES ASSUME NEW s \in Seconds(registry[q])
                   PROVE  \E x \in Obs : Observed(x)' /\ KeyOf(x)' = q /\ SecondOf(x)' = s
      OBVIOUS
    <3>2. PICK x \in Obs : Observed(x) /\ KeyOf(x) = q /\ SecondOf(x) = s
      BY DEF RegistryInv
    <3>3. x # o
      BY <1>4, <3>2
    <3>4. QED
      BY <1>4, <3>2, <3>3
  <2>2. CASE q = k
    <3>1. Observed(o)' /\ KeyOf(o)' = k /\ SecondOf(o)' = Second
      BY <1>4 DEF k
    <3>2. QED
      BY <1>2, <1>4, <1>5, <2>1, <2>2, <3>1
  <2>3. CASE q # k
    BY <1>4, <1>5, <2>1, <2>3 DEF RegistryInv
  <2>4. QED
    BY <2>2, <2>3
<1>7. ASSUME NEW x \in Obs, Live(x)'
      PROVE  SecondOf(x)' \in Seconds(registry'[KeyOf(x)'])
  <2>1. CASE x = o
    <3>1. registry'[KeyOf(x)'] = a /\ SecondOf(x)' = Second
      BY <1>4, <1>5, <2>1 DEF k
    <3>2. QED
      BY <1>2, <3>1
  <2>2. CASE x # o
    <3>1. Live(x) /\ SecondOf(x)' = SecondOf(x) /\ KeyOf(x)' = KeyOf(x)
      BY <1>4, <1>7, <2>2
    <3>2. SecondOf(x) \in Seconds(registry[KeyOf(x)]) /\ KeyOf(x) \in Key
      BY <3>1, KeyTypes DEF RegistryInv
    <3>3. SecondOf(x) \in Nat /\ SecondOf(x) >= Second - Window + 1
      BY <1>1, <3>1, SecondTypes, Constants DEF Live, Observed
    <3>4. QED
      BY <1>2, <1>5, <3>1, <3>2, <3>3
  <2>3. QED
    BY <2>1, <2>2
<1>8. QED
  BY <1>5, <1>6, <1>7 DEF RegistryInv

\* So does the eviction that snapshots() makes in every window.
LEMMA SnapshotsKeepRegistry ==
    ASSUME TypeOK, RegistryInv, Snapshots, UNCHANGED <<now, level, putAt>>
    PROVE  RegistryInv'
<1>1. /\ Second' = Second /\ Second \in Nat
      /\ \A x \in Obs : /\ KeyOf(x)' = KeyOf(x) /\ SecondOf(x)' = SecondOf(x)
                        /\ Observed(x)' <=> Observed(x)
                        /\ Live(x)' <=> Live(x)
  BY SecondTypes DEF Second, KeyOf, SecondOf, Observed, Live
<1>2. \A k \in Key : registry'[k] = Evict(registry[k])
  BY DEF Snapshots
<1>3. ASSUME NEW k \in Key
      PROVE  /\ Evict(registry[k]) \in Seq(Bucket)
             /\ Rising(Evict(registry[k]), Second)
             /\ Len(Evict(registry[k])) <= Window
             /\ Seconds(Evict(registry[k])) =
                    {s \in Seconds(registry[k]) : s >= Second - Window + 1}
  <2>1. registry[k] \in Seq(Bucket) /\ Rising(registry[k], Second)
    BY DEF RegistryInv
  <2> DEFINE e == Evict(registry[k])
  <2>2. /\ e \in Seq(Bucket) /\ Rising(e, Second)
        /\ Seconds(e) = {s \in Seconds(registry[k]) : s >= Second - Window + 1}
    BY <1>1, <2>1, EvictKeepsFresh
  <2> HIDE DEF e
  <2>3. Len(e) <= Window
    BY <1>1, <2>2, FreshFew
  <2>4. QED
    BY <2>2, <2>3 DEF e
<1>4. registry' \in [Key -> Seq(Bucket)]
  BY <1>3 DEF Snapshots
<1>5. ASSUME NEW k \in Key
      PROVE  /\ Len(registry'[k]) <= Window
             /\ Rising(registry'[k], Second')
             /\ \A s \in Seconds(registry'[k]) :
                    \E o \in Obs : Observed(o)' /\ KeyOf(o)' = k /\ SecondOf(o)' = s
  <2>1. Len(registry'[k]) <= Window /\ Rising(registry'[k], Second')
    BY <1>1, <1>2, <1>3
  <2>2. ASSUME NEW s \in Seconds(registry'[k])
        PROVE  \E o \in Obs : Observed(o)' /\ KeyOf(o)' = k /\ SecondOf(o)' = s
    <3>1. s \in Seconds(registry[k])
      BY <1>2, <1>3
    <3>2. PICK o \in Obs : Observed(o) /\ KeyOf(o) = k /\ SecondOf(o) = s
      BY <3>1 DEF RegistryInv
    <3>3. QED
      BY <1>1, <3>2
  <2>3. QED
    BY <2>1, <2>2
<1>6. ASSUME NEW o \in Obs, Live(o)'
      PROVE  SecondOf(o)' \in Seconds(registry'[KeyOf(o)'])
  <2>1. Live(o) /\ SecondOf(o)' = SecondOf(o) /\ KeyOf(o)' = KeyOf(o) /\ KeyOf(o) \in Key
    BY <1>1, <1>6, KeyTypes
  <2>2. SecondOf(o) \in Seconds(Evict(registry[KeyOf(o)]))
    BY <2>1, FreshExactly DEF FreshSeconds
  <2>3. QED
    BY <1>2, <2>1, <2>2
<1>7. QED
  BY <1>4, <1>5, <1>6 DEF RegistryInv

\* With the registry as it is, time may pass.
LEMMA TimeKeepsRegistry ==
    ASSUME TypeOK, RegistryInv, UNCHANGED window, now' \in Nat, now <= now'
    PROVE  RegistryInv'
<1>1. Second \in Nat /\ Second' \in Nat /\ Second <= Second'
  <2>1. now \in Nat
    BY DEF TypeOK
  <2>2. /\ now \div TicksPerSecond \in Nat
        /\ now \div TicksPerSecond <= now' \div TicksPerSecond
    BY <2>1, Constants, DivisionMonotone
  <2>3. now' <= now'
    OBVIOUS
  <2>4. Second' = now' \div TicksPerSecond /\ Second = now \div TicksPerSecond
    BY DEF Second
  <2>5. now' \div TicksPerSecond \in Nat
    BY <2>3, Constants, DivisionMonotone
  <2>6. QED
    BY <2>2, <2>4, <2>5
<1>2. /\ registry' = registry
      /\ \A x \in Obs : /\ KeyOf(x)' = KeyOf(x) /\ SecondOf(x)' = SecondOf(x)
                        /\ Observed(x)' <=> Observed(x)
  BY DEF window, KeyOf, SecondOf, Observed
<1>3. ASSUME NEW x \in Obs, Live(x)' PROVE Live(x)
  <2>1. Observed(x) /\ SecondOf(x) \in Nat
    BY <1>2, <1>3, SecondTypes DEF Live, Observed
  <2>2. QED
    BY <1>1, <1>2, <1>3, <2>1, Constants DEF Live, Observed
<1>4. ASSUME NEW k \in Key PROVE Rising(registry[k], Second')
  <2>1. registry[k] \in Seq(Bucket) /\ Rising(registry[k], Second)
    BY DEF RegistryInv
  <2>2. \A i \in DOMAIN registry[k] : registry[k][i].sec \in Nat
    BY <2>1, BucketTypes
  <2>3. \A i \in DOMAIN registry[k] : registry[k][i].sec <= Second'
    BY <1>1, <2>1, <2>2 DEF Rising
  <2>4. QED
    BY <2>1, <2>3 DEF Rising
<1>5. QED
  BY <1>2, <1>3, <1>4 DEF RegistryInv

-----------------------------------------------------------------------------
(* The contents of the buckets                                             *)

\* A bucket that counts one more summarises one more observation.
LEMMA SummariseMore ==
    ASSUME NEW x \in Bucket, NEW S \in SUBSET Obs, IsFiniteSet(S), Summarises(x, S),
           NEW o \in Obs \ S
    PROVE  Summarises(Counted(x, Value[o]), S \cup {o})
<1> DEFINE v == Value[o]
           y == Counted(x, v)
           T == S \cup {o}
<1>1. /\ v \in Int /\ x.count \in Nat /\ x.sum \in Int /\ x.min \in Int /\ x.max \in Int
      /\ \A p \in S : Value[p] \in Int
  BY Constants DEF Bucket
<1>2. /\ y.count = x.count + 1 /\ y.sum = x.sum + v
      /\ y.min = Lesser(x.min, v) /\ y.max = Greater(x.max, v)
  BY DEF Counted, Bucket
<1> HIDE DEF y, v
<1>3. y.count = Cardinality(T)
  BY <1>2, FS_AddElement DEF Summarises
<1>4. y.sum = SumFunctionOnSet(Value, T)
  <2>1. SumFunctionOnSet(Value, T) = v + SumFunctionOnSet(Value, S)
    BY Constants, SumAdd DEF v
  <2>2. x.sum = SumFunctionOnSet(Value, S)
    BY DEF Summarises
  <2>3. \A a, b \in Int : a + b = b + a
    OBVIOUS
  <2>4. x.sum + v = v + x.sum
    BY <1>1, <2>3, Zenon
  <2> HIDE DEF T
  <2>5. QED
    BY <1>2, <2>1, <2>2, <2>4, Zenon
<1>5. Value[o] = v
  BY DEF v
<1>6. (\E p \in T : Value[p] = y.min) /\ (\E p \in T : Value[p] = y.max)
  BY <1>2, <1>5 DEF Summarises, Lesser, Greater
<1>7. ASSUME NEW p \in T PROVE y.min <= Value[p] /\ Value[p] <= y.max
  BY <1>1, <1>2, <1>5 DEF Summarises, Lesser, Greater
<1>8. QED
  BY <1>3, <1>4, <1>6, <1>7 DEF Summarises, y, v

\* A new bucket summarises its one observation.
LEMMA SummariseFirst ==
    ASSUME NEW o \in Obs
    PROVE  Summarises(NewBucket(Value[o]), {o})
<1>1. Value[o] \in Int
  BY Constants
<1>2. Cardinality({o}) = 1
  BY FS_Singleton
<1>3. SumFunctionOnSet(Value, {o}) = Value[o]
  <2>1. SumFunctionOnSet(Value, {} \cup {o}) = Value[o] + SumFunctionOnSet(Value, {})
    <3>1. {} \in SUBSET Obs /\ IsFiniteSet({}) /\ o \in Obs \ {}
      BY FS_EmptySet
    <3>2. QED
      BY <3>1, Constants, SumAdd
  <2>2. SumFunctionOnSet(Value, {}) = 0
    BY Constants, SumEmpty
  <2>3. {} \cup {o} = {o} /\ Value[o] + 0 = Value[o]
    BY <1>1
  <2>4. QED
    BY <2>1, <2>2, <2>3, Zenon
<1>4. QED
  BY <1>1, <1>2, <1>3 DEF Summarises, NewBucket

\* put() keeps every bucket exact.  Nothing was observed in this second if it
\* has no bucket yet: the observation would be live.
LEMMA PutKeepsExact ==
    ASSUME TypeOK, RegistryInv, BucketsExact, NEW o \in Obs, Put(o)
    PROVE  BucketsExact'
<1> DEFINE k == KeyOf(o)
           b == registry[k]
           a == Accumulate(b, Value[o])
           New(q, s) == {x \in Obs : Observed(x)' /\ KeyOf(x)' = q /\ SecondOf(x)' = s}
<1>1. /\ k \in Key /\ Second \in Nat /\ Value[o] \in Int
      /\ registry \in [Key -> Seq(Bucket)] /\ b \in Seq(Bucket) /\ Rising(b, Second)
  BY KeyTypes, SecondTypes, Constants DEF RegistryInv
<1>2. \A i \in DOMAIN a :
          \/ \E j \in DOMAIN b : a[i] = b[j] /\ b[j].sec # Second
          \/ \E j \in DOMAIN b : a[i] = Counted(b[j], Value[o]) /\ b[j].sec = Second
          \/ a[i] = NewBucket(Value[o]) /\ Second \notin Seconds(b)
  BY <1>1, AccumulateAdds
<1>3. registry'[k] = a /\ \A q \in Key \ {k} : registry'[q] = registry[q]
  BY <1>1 DEF Put
<1> HIDE DEF a
<1>4. /\ \A x \in Obs : KeyOf(x)' = KeyOf(x)
      /\ Observed(o)' /\ SecondOf(o)' = Second /\ ~Observed(o)
      /\ \A x \in Obs \ {o} : (Observed(x)' <=> Observed(x)) /\ SecondOf(x)' = SecondOf(x)
  BY DEF Put, TypeOK, Second, KeyOf, Observed, SecondOf, NotYet
<1>5. \A q \in Key, s \in Nat : q # k \/ s # Second => New(q, s) = Of(q, s)
  BY <1>4 DEF Of
<1>6. New(k, Second) = Of(k, Second) \cup {o} /\ o \notin Of(k, Second)
  BY <1>4 DEF Of
<1>7. \A q \in Key, s \in Nat : Of(q, s) \in SUBSET Obs /\ IsFiniteSet(Of(q, s))
  <2>1. \A q \in Key, s \in Nat : Of(q, s) \in SUBSET {x \in Obs : Observed(x)}
    BY DEF Of
  <2>2. QED
    BY <2>1, FS_Subset DEF BucketsExact
<1>8. IsFiniteSet({x \in Obs : Observed(x)'})
  <2>1. {x \in Obs : Observed(x)'} = {x \in Obs : Observed(x)} \cup {o}
    BY <1>4
  <2>2. QED
    BY <2>1, FS_AddElement DEF BucketsExact
<1>9. ASSUME NEW q \in Key, NEW i \in DOMAIN registry'[q]
      PROVE  Summarises(registry'[q][i], New(q, registry'[q][i].sec))
  <2>1. CASE q # k
    <3>1. registry'[q] = registry[q] /\ registry[q] \in Seq(Bucket)
      BY <1>1, <1>3, <2>1
    <3>2. registry[q][i].sec \in Nat /\ Summarises(registry[q][i], Of(q, registry[q][i].sec))
      BY <3>1, BucketTypes DEF BucketsExact
    <3>3. QED
      BY <1>5, <2>1, <3>1, <3>2
  <2>2. CASE q = k
    <3>1. registry'[q][i] = a[i] /\ i \in DOMAIN a
      BY <1>3, <2>2
    <3>2. CASE \E j \in DOMAIN b : a[i] = b[j] /\ b[j].sec # Second
      <4>1. PICK j \in DOMAIN b : a[i] = b[j] /\ b[j].sec # Second
        BY <3>2
      <4>2. b[j].sec \in Nat /\ Summarises(b[j], Of(k, b[j].sec))
        BY <1>1, BucketTypes DEF BucketsExact
      <4>3. New(k, b[j].sec) = Of(k, b[j].sec)
        BY <1>1, <1>5, <4>1, <4>2
      <4> HIDE DEF New, b
      <4>4. QED
        BY <2>2, <3>1, <4>1, <4>2, <4>3
    <3>3. CASE \E j \in DOMAIN b : a[i] = Counted(b[j], Value[o]) /\ b[j].sec = Second
      <4>1. PICK j \in DOMAIN b : a[i] = Counted(b[j], Value[o]) /\ b[j].sec = Second
        BY <3>3
      <4>2. b[j] \in Bucket /\ Summarises(b[j], Of(k, Second))
        BY <1>1, <4>1, BucketTypes DEF BucketsExact
      <4>3. Summarises(a[i], Of(k, Second) \cup {o})
        <5> DEFINE S == Of(k, Second)
        <5>1. S \in SUBSET Obs /\ IsFiniteSet(S) /\ o \in Obs \ S /\ Summarises(b[j], S)
          BY <1>1, <1>6, <1>7, <4>2
        <5> HIDE DEF S
        <5>2. Summarises(Counted(b[j], Value[o]), S \cup {o})
          BY <4>2, <5>1, SummariseMore
        <5>3. QED
          BY <4>1, <5>2 DEF S
      <4>4. a[i].sec = Second
        BY <1>1, <4>1, <4>2, CountedBucket
      <4>5. QED
        BY <1>6, <2>2, <3>1, <4>3, <4>4
    <3>4. CASE a[i] = NewBucket(Value[o]) /\ Second \notin Seconds(b)
      <4>1. Of(k, Second) = {}
        <5>1. ASSUME NEW x \in Of(k, Second) PROVE FALSE
          <6>1. x \in Obs /\ KeyOf(x) = k /\ SecondOf(x) = Second /\ Observed(x)
            BY DEF Of
          <6>2. Live(x)
            BY <1>1, <6>1, Constants DEF Live, Observed
          <6>3. QED
            BY <3>4, <6>1, <6>2 DEF RegistryInv
        <5>2. QED
          BY <5>1
      <4>2. a[i].sec = Second /\ Summarises(a[i], {o})
        BY <3>4, SummariseFirst DEF NewBucket
      <4>3. QED
        BY <1>6, <2>2, <3>1, <4>1, <4>2
    <3>5. QED
      BY <1>2, <3>1, <3>2, <3>3, <3>4
  <2>3. QED
    BY <2>1, <2>2
<1>10. QED
  BY <1>8, <1>9 DEF BucketsExact, Of

\* Eviction and the passing of time change no bucket.
LEMMA KeptExact ==
    ASSUME RegistryInv, BucketsExact, UNCHANGED <<level, putAt>>,
           \/ UNCHANGED registry
           \/ Snapshots
    PROVE  BucketsExact'
<1> DEFINE New(q, s) == {x \in Obs : Observed(x)' /\ KeyOf(x)' = q /\ SecondOf(x)' = s}
<1>1. \A x \in Obs : /\ KeyOf(x)' = KeyOf(x) /\ SecondOf(x)' = SecondOf(x)
                     /\ Observed(x)' <=> Observed(x)
  BY DEF KeyOf, SecondOf, Observed
<1>2. \A q, s : New(q, s) = Of(q, s)
  BY <1>1 DEF Of
<1>3. \A q \in Key : \A i \in DOMAIN registry'[q] :
          \E j \in DOMAIN registry[q] : registry'[q][i] = registry[q][j]
  <2>1. SUFFICES ASSUME NEW q \in Key
                 PROVE  \A i \in DOMAIN registry'[q] :
                            \E j \in DOMAIN registry[q] : registry'[q][i] = registry[q][j]
    OBVIOUS
  <2>2. registry[q] \in Seq(Bucket)
    BY DEF RegistryInv
  <2>3. registry'[q] = registry[q] \/ registry'[q] = Evict(registry[q])
    BY DEF Snapshots
  <2>4. QED
    BY <2>2, <2>3, EvictPicks
<1>4. {x \in Obs : Observed(x)'} = {x \in Obs : Observed(x)}
  BY <1>1
<1>5. ASSUME NEW q \in Key, NEW i \in DOMAIN registry'[q]
      PROVE  Summarises(registry'[q][i], New(q, registry'[q][i].sec))
  <2>1. PICK j \in DOMAIN registry[q] : registry'[q][i] = registry[q][j]
    BY <1>3
  <2>2. Summarises(registry[q][j], Of(q, registry[q][j].sec))
    BY DEF BucketsExact
  <2>3. QED
    BY <1>2, <2>1, <2>2
<1>6. QED
  BY <1>4, <1>5 DEF BucketsExact, Of

\* The values of a function on a finite set are finitely many.
LEMMA FiniteImage ==
    ASSUME NEW I, IsFiniteSet(I), NEW f
    PROVE  IsFiniteSet({f[i] : i \in I})
<1> DEFINE P == {A \in SUBSET I : IsFiniteSet({f[i] : i \in A})}
<1>1. {} \in P
  BY FS_EmptySet
<1>2. ASSUME NEW A \in P, NEW x \in I \ A PROVE A \cup {x} \in P
  <2>1. {f[i] : i \in A \cup {x}} = {f[i] : i \in A} \cup {f[x]}
    OBVIOUS
  <2>2. IsFiniteSet({f[i] : i \in A} \cup {f[x]})
    BY FS_AddElement
  <2>3. QED
    BY <2>1, <2>2
<1>3. P \in SUBSET (SUBSET I)
  OBVIOUS
<1> HIDE DEF P
<1>4. I \in P
  BY <1>1, <1>2, <1>3, FiniteInduction
<1>5. QED
  BY <1>4 DEF P

\* stats() of buckets that summarise disjoint sets summarises their union.
LEMMA StatsSummarise ==
    ASSUME NEW b \in Seq(Bucket), b # <<>>, NEW part \in [DOMAIN b -> SUBSET Obs],
           \A i \in DOMAIN b : IsFiniteSet(part[i]) /\ Summarises(b[i], part[i]),
           \A i, j \in DOMAIN b : i # j => part[i] \cap part[j] = {}
    PROVE  Summarises(Stats(b), UNION {part[i] : i \in DOMAIN b})
<1> DEFINE I == DOMAIN b
           U == Whole(I, part)
           counts == [i \in I |-> b[i].count]
           sums == [i \in I |-> b[i].sum]
           mins == {b[i].min : i \in I}
           maxs == {b[i].max : i \in I}
           one == [o \in Obs |-> 1]
<1>1. \A i \in I : /\ b[i].count \in Nat /\ b[i].sum \in Int
                   /\ b[i].min \in Int /\ b[i].max \in Int
  <2>1. \A i \in I : b[i] \in Bucket
    BY BucketTypes
  <2>2. QED
    BY <2>1 DEF Bucket
<1>2. IsFiniteSet(I) /\ I # {}
  <2>1. I = 1..Len(b) /\ Len(b) \in Nat /\ Len(b) # 0
    OBVIOUS
  <2>2. I # {}
    BY <2>1
  <2>3. IsFiniteSet(1..Len(b))
    BY <2>1, FS_Interval
  <2>4. QED
    BY <2>1, <2>2, <2>3
<1>3. /\ Stats(b).count = SumFunctionOnSet(counts, I)
      /\ Stats(b).sum = SumFunctionOnSet(sums, I)
      /\ Stats(b).min = Min(mins) /\ Stats(b).max = Max(maxs)
  <2>1. DOMAIN counts = I /\ DOMAIN sums = I
    OBVIOUS
  <2>2. QED
    BY <2>1 DEF Stats, SumFunction
<1>4. /\ counts \in [I -> Int] /\ sums \in [I -> Int] /\ one \in [Obs -> Int]
      /\ Value \in [Obs -> Int] /\ U \in SUBSET Obs
  BY <1>1, Constants DEF Whole
<1>5. IsFiniteSet(U)
  <2>1. IsFiniteSet({part[i] : i \in I})
    BY <1>2, FiniteImage
  <2>2. \A A \in {part[i] : i \in I} : IsFiniteSet(A)
    OBVIOUS
  <2> DEFINE parts == {part[i] : i \in I}
  <2>3. IsFiniteSet(parts) /\ \A A \in parts : IsFiniteSet(A)
    BY <2>1, <2>2
  <2> HIDE DEF parts
  <2>4. IsFiniteSet(UNION parts)
    BY <2>3, FS_UNION
  <2>5. QED
    BY <2>4 DEF parts, Whole
<1>6. \A i \in I : counts[i] = SumFunctionOnSet(one, part[i])
  <2>1. SUFFICES ASSUME NEW i \in I PROVE counts[i] = SumFunctionOnSet(one, part[i])
    OBVIOUS
  <2>2. counts[i] = Cardinality(part[i])
    BY DEF Summarises
  <2>3. SumFunctionOnSet(one, part[i]) = Cardinality(part[i])
    <3>1. ASSUME NEW A \in SUBSET Obs, IsFiniteSet(A)
          PROVE  SumFunctionOnSet(one, A) = Cardinality(A)
      BY <3>1, SumOnes
    <3>2. QED
      BY <3>1
  <2>4. QED
    BY <2>2, <2>3
<1>7. \A i \in I : sums[i] = SumFunctionOnSet(Value, part[i])
  BY DEF Summarises
<1>8. Parts(Obs, I, part)
  BY <1>2 DEF Parts
<1>9. Stats(b).count = Cardinality(U)
  <2>1. SumFunctionOnSet(one, U) = Cardinality(U)
    <3> HIDE DEF U
    <3>1. QED
      BY <1>4, <1>5, SumOnes
  <2>2. SumFunctionOnSet(counts, I) = SumFunctionOnSet(one, U)
    <3>1. counts = PartSums(one, I, part)
      BY <1>4, <1>6 DEF PartSums
    <3> HIDE DEF counts, one, I
    <3>2. SumFunctionOnSet(PartSums(one, I, part), I) = SumFunctionOnSet(one, U)
      BY <1>4, <1>8, SumParts
    <3>3. QED
      BY <3>1, <3>2, Zenon
  <2>3. QED
    BY <1>3, <2>1, <2>2
<1>10. Stats(b).sum = SumFunctionOnSet(Value, U)
  <2>1. SumFunctionOnSet(sums, I) = SumFunctionOnSet(Value, U)
    <3>1. sums = PartSums(Value, I, part)
      BY <1>4, <1>7 DEF PartSums
    <3> HIDE DEF sums, I
    <3>2. SumFunctionOnSet(PartSums(Value, I, part), I) = SumFunctionOnSet(Value, U)
      BY <1>4, <1>8, SumParts
    <3>3. QED
      BY <3>1, <3>2, Zenon
  <2>2. QED
    BY <1>3, <2>1
<1>11. /\ Min(mins) \in mins /\ \A y \in mins : Min(mins) <= y
       /\ Max(maxs) \in maxs /\ \A y \in maxs : Max(maxs) >= y
  <2>1. /\ mins \in SUBSET Int /\ maxs \in SUBSET Int /\ mins # {} /\ maxs # {}
    BY <1>1, <1>2
  <2>2. IsFiniteSet(mins) /\ IsFiniteSet(maxs)
    <3> DEFINE lo == [i \in I |-> b[i].min]
               hi == [i \in I |-> b[i].max]
    <3>1. mins = {lo[i] : i \in I} /\ maxs = {hi[i] : i \in I}
      OBVIOUS
    <3> HIDE DEF lo, hi, mins, maxs, I
    <3>2. QED
      BY <1>2, <3>1, FiniteImage
  <2> HIDE DEF mins, maxs
  <2>3. QED
    BY <2>1, <2>2, MinMaxInt
<1> HIDE DEF counts, sums, one
<1>12. (\E o \in U : Value[o] = Stats(b).min) /\ (\E o \in U : Value[o] = Stats(b).max)
  <2>1. PICK i \in I : Min(mins) = b[i].min
    BY <1>11
  <2>2. PICK j \in I : Max(maxs) = b[j].max
    BY <1>11
  <2>3. (\E o \in part[i] : Value[o] = b[i].min) /\ (\E o \in part[j] : Value[o] = b[j].max)
    BY DEF Summarises
  <2>4. part[i] \subseteq U /\ part[j] \subseteq U
    BY DEF Whole
  <2> HIDE DEF mins, maxs, U
  <2>5. QED
    BY <1>3, <2>1, <2>2, <2>3, <2>4
<1>13. ASSUME NEW o \in U PROVE Stats(b).min <= Value[o] /\ Value[o] <= Stats(b).max
  <2>1. PICK i \in I : o \in part[i]
    BY DEF Whole
  <2>2. b[i].min <= Value[o] /\ Value[o] <= b[i].max
    BY <2>1 DEF Summarises
  <2>3. Min(mins) <= b[i].min /\ b[i].max <= Max(maxs)
    <3>1. b[i].min \in mins /\ b[i].max \in maxs
      OBVIOUS
    <3>2. Max(maxs) >= b[i].max /\ Max(maxs) \in Int /\ b[i].max \in Int
      BY <1>1, <1>11, <3>1
    <3>3. Min(mins) <= b[i].min
      BY <1>11, <3>1
    <3> HIDE DEF maxs
    <3>4. QED
      BY <3>2, <3>3
  <2>4. Min(mins) \in Int /\ Max(maxs) \in Int /\ Value[o] \in Int
    BY <1>1, <1>4, <1>11
  <2> HIDE DEF mins, maxs
  <2>5. QED
    BY <1>1, <1>3, <2>2, <2>3, <2>4
<1> HIDE DEF U
<1>14. QED
  BY <1>9, <1>10, <1>12, <1>13 DEF Summarises, U, Whole

\* What summarises a set is determined by it.
LEMMA SummaryUnique ==
    ASSUME NEW S \in SUBSET Obs, NEW b, Summarises(Stats(b), S)
    PROVE  Stats(b) = [count |-> Cardinality(S),
                       sum   |-> SumFunctionOnSet(Value, S),
                       min   |-> Min({Value[o] : o \in S}),
                       max   |-> Max({Value[o] : o \in S})]
<1> DEFINE V == {Value[o] : o \in S}
           x == Stats(b)
<1>1. V \in SUBSET Int /\ x.min \in V /\ x.max \in V
  BY Constants DEF Summarises
<1>2. (\A y \in V : x.min <= y) /\ (\A y \in V : x.max >= y)
  BY <1>1, Constants DEF Summarises
<1>3. x = [count |-> x.count, sum |-> x.sum, min |-> x.min, max |-> x.max]
  BY DEF Stats
<1> HIDE DEF V, x
<1>4. Min(V) = x.min /\ Max(V) = x.max
  BY <1>1, <1>2, MinMaxUnique
<1>5. x.count = Cardinality(S) /\ x.sum = SumFunctionOnSet(Value, S)
  BY DEF Summarises, x
<1>6. QED
  BY <1>3, <1>4, <1>5 DEF V, x

\* With the registry in order and its buckets exact, so are the statistics.
LEMMA ExactWindow ==
    ASSUME TypeOK, RegistryInv, BucketsExact
    PROVE  WindowExact
<1> SUFFICES ASSUME NEW k \in Key
             PROVE  LET S == {o \in Obs : Live(o) /\ KeyOf(o) = k}
                        b == Evict(registry[k])
                    IN  /\ b = <<>> <=> S = {}
                        /\ S # {} => Stats(b) =
                               [count |-> Cardinality(S),
                                sum   |-> SumFunctionOnSet(Value, S),
                                min   |-> Min({Value[o] : o \in S}),
                                max   |-> Max({Value[o] : o \in S})]
  BY DEF WindowExact
<1> DEFINE S == {o \in Obs : Live(o) /\ KeyOf(o) = k}
           b == Evict(registry[k])
           part == [i \in DOMAIN b |-> Of(k, b[i].sec)]
<1>1. /\ registry[k] \in Seq(Bucket) /\ Rising(registry[k], Second) /\ Second \in Nat
  BY SecondTypes DEF RegistryInv
<1>2. b \in Seq(Bucket) /\ Rising(b, Second)
  BY <1>1, EvictKeepsFresh
<1>3. Seconds(b) = {SecondOf(o) : o \in S}
  BY FreshExactly DEF FreshSeconds
<1>4. \A i \in DOMAIN b : b[i].sec \in Nat /\ Summarises(b[i], Of(k, b[i].sec))
  <2>1. \A i \in DOMAIN b : \E j \in DOMAIN registry[k] : b[i] = registry[k][j]
    BY <1>1, EvictPicks
  <2>2. \A j \in DOMAIN registry[k] :
            Summarises(registry[k][j], Of(k, registry[k][j].sec))
    BY DEF BucketsExact
  <2>3. \A i \in DOMAIN b : b[i].sec \in Nat
    BY <1>2, BucketTypes
  <2> HIDE DEF b
  <2>4. QED
    BY <2>1, <2>2, <2>3
<1> HIDE DEF b
<1>5. b = <<>> <=> S = {}
  <2>1. b = <<>> <=> DOMAIN b = {}
    BY <1>2
  <2>2. DOMAIN b = {} <=> Seconds(b) = {}
    BY DEF Seconds
  <2>3. QED
    BY <1>3, <2>1, <2>2
<1>6. \A s : Of(k, s) \in SUBSET Obs /\ IsFiniteSet(Of(k, s))
  <2>1. \A s : Of(k, s) \in SUBSET {o \in Obs : Observed(o)}
    BY DEF Of
  <2>2. QED
    BY <2>1, FS_Subset DEF BucketsExact
<1>7. UNION {part[i] : i \in DOMAIN b} = S
  <2>1. ASSUME NEW o \in S PROVE \E i \in DOMAIN b : o \in part[i]
    <3>1. SecondOf(o) \in Seconds(b) /\ o \in Obs /\ Observed(o) /\ KeyOf(o) = k
      BY <1>3 DEF Live, Observed
    <3>2. PICK i \in DOMAIN b : b[i].sec = SecondOf(o)
      BY <3>1 DEF Seconds
    <3>3. QED
      BY <3>1, <3>2 DEF Of
  <2>2. ASSUME NEW i \in DOMAIN b, NEW o \in part[i] PROVE o \in S
    <3>1. o \in Obs /\ Observed(o) /\ KeyOf(o) = k /\ SecondOf(o) = b[i].sec
      BY DEF Of
    <3>2. b[i].sec \in Seconds(b)
      BY DEF Seconds
    <3>3. PICK x \in S : SecondOf(x) = b[i].sec
      BY <1>3, <3>2
    <3>4. Live(o)
      BY <3>1, <3>3 DEF Live, Observed
    <3>5. QED
      BY <3>1, <3>4
  <2> HIDE DEF S, part
  <2>3. QED
    BY <2>1, <2>2
<1>8. ASSUME S # {} PROVE Summarises(Stats(b), S)
  <2>1. part \in [DOMAIN b -> SUBSET Obs]
    BY <1>6
  <2>2. \A i \in DOMAIN b : IsFiniteSet(part[i]) /\ Summarises(b[i], part[i])
    BY <1>4, <1>6
  <2>3. \A i, j \in DOMAIN b : i # j => b[i].sec # b[j].sec
    <3>1. ASSUME NEW i \in DOMAIN b, NEW j \in DOMAIN b, i < j PROVE b[i].sec # b[j].sec
      <4>1. i \in Int /\ j \in Int /\ b[j].sec - b[i].sec >= j - i
        BY <1>2, <3>1 DEF Rising
      <4>2. QED
        BY <1>4, <3>1, <4>1
    <3>2. \A i \in DOMAIN b : i \in Int
      BY <1>2
    <3>3. QED
      BY <3>1, <3>2
  <2>4. \A i, j \in DOMAIN b : i # j => part[i] \cap part[j] = {}
    BY <2>3 DEF Of
  <2> HIDE DEF part, S
  <2>5. Summarises(Stats(b), UNION {part[i] : i \in DOMAIN b})
    BY <1>2, <1>5, <1>8, <2>1, <2>2, <2>4, StatsSummarise
  <2>6. QED
    BY <1>7, <2>5
<1>9. S \in SUBSET Obs
  OBVIOUS
<1> HIDE DEF S
<1>10. S # {} => Stats(b) = [count |-> Cardinality(S),
                             sum   |-> SumFunctionOnSet(Value, S),
                             min   |-> Min({Value[o] : o \in S}),
                             max   |-> Max({Value[o] : o \in S})]
  BY <1>8, <1>9, SummaryUnique
<1>11. QED
  BY <1>5, <1>10 DEF S, b

-----------------------------------------------------------------------------
(* The exports                                                             *)

\* An observation that no completed export and not the loop's has taken along.
Missing(o) == Observed(o) /\ o \notin exported \cup carried["loop"]

\* How old a missing observation is at most: it was put after the snapshot of
\* the loop's last export, which took at most ExportTime, and the sleep since
\* takes Interval.
LoopInv ==
    /\ upload = "sleeping" =>
           /\ now <= wake /\ wake - Interval <= now
           /\ carried["loop"] = {}
           /\ \A o \in Obs : Missing(o) => putAt[o] >= wake - Interval - ExportTime
    /\ upload = "exporting" =>
           /\ now <= wake /\ wake - ExportTime <= now
           /\ \A o \in Obs : Missing(o) => putAt[o] >= wake - ExportTime
    /\ upload \notin {"sleeping", "exporting"} => carried["loop"] = {}

\* What was due at the exit is exported, or in one of the two exports.
ExitInv ==
    upload # "failed" =>
        /\ upload = "cancelled" => phase = "exited"
        /\ phase = "unwinding" => due \subseteq exported \cup carried["loop"]
        /\ phase = "flushing" =>
               due \subseteq exported \cup carried["loop"] \cup carried["exit"]

MetricsInv ==
    /\ TypeOK
    /\ RegistryInv
    /\ BucketsExact
    /\ WindowSuffices => LoopInv /\ ExitInv

\* While the loop runs, what is missing is still in its window.
LEMMA MissingLive ==
    ASSUME TypeOK, WindowSuffices, LoopInv, upload \in {"sleeping", "exporting"},
           NEW o \in Obs, Missing(o)
    PROVE  Live(o)
<1>1. now \in Nat /\ wake \in Nat /\ putAt[o] \in Nat /\ SecondOf(o) \in Nat /\ Second \in Nat
  BY SecondTypes DEF TypeOK, Missing
<1>2. now - putAt[o] <= Interval + ExportTime
  BY <1>1, Constants DEF LoopInv
<1>3. Window - 1 \in Nat /\ (Window - 1) * TicksPerSecond \in Nat
  BY Constants
<1>4. now - putAt[o] <= (Window - 1) * TicksPerSecond
  BY <1>1, <1>2, <1>3, Constants DEF WindowSuffices
<1>5. now \div TicksPerSecond - putAt[o] \div TicksPerSecond <= Window - 1
  BY <1>1, <1>3, <1>4, Constants, DivisionGap
<1>6. Second - SecondOf(o) <= Window - 1
  BY <1>5 DEF Second, SecondOf
<1>7. QED
  BY <1>1, <1>6, Constants DEF Live, Missing, Observed

\* The invariant implies that nothing is skipped.
LEMMA InvSkips ==
    ASSUME MetricsInv
    PROVE  NothingSkipped
<1> SUFFICES ASSUME WindowSuffices, upload \in {"sleeping", "exporting"},
                    NEW o \in Obs, putAt[o] # NotYet, ~Live(o)
             PROVE  o \in exported \cup carried["loop"]
  BY DEF NothingSkipped
<1>1. ~Missing(o)
  BY MissingLive DEF MetricsInv
<1>2. QED
  BY <1>1 DEF Missing, Observed

\* The manager starts in order.
LEMMA InitInv ==
    ASSUME Init
    PROVE  MetricsInv
<1>1. registry \in [Key -> Seq(Bucket)] /\ \A k \in Key : registry[k] = <<>>
  BY DEF Init
<1>2. \A o \in Obs : ~Observed(o) /\ ~Live(o) /\ ~Missing(o)
  BY DEF Init, Observed, Live, Missing
<1>3. TypeOK
  <2>1. \A k \in Key : registry[k] \in Seq(Bucket) /\ Len(registry[k]) <= Window
    BY <1>1, Constants
  <2>2. putAt \in [Obs -> Nat \cup {NotYet}] /\ carried \in [{"loop", "exit"} -> SUBSET Obs]
    BY DEF Init
  <2>3. now \in Nat /\ wake \in Nat
    BY Constants DEF Init
  <2>4. QED
    BY <2>1, <2>2, <2>3 DEF Init, TypeOK
<1>4. RegistryInv
  <2>1. \A k \in Key : /\ Len(registry[k]) <= Window /\ Rising(registry[k], Second)
                       /\ Seconds(registry[k]) = {}
    BY <1>1, Constants DEF Rising, Seconds
  <2>2. QED
    BY <1>1, <1>2, <2>1 DEF RegistryInv
<1>5. BucketsExact
  <2>1. {o \in Obs : Observed(o)} = {}
    BY <1>2
  <2>2. QED
    BY <1>1, <2>1, FS_EmptySet DEF BucketsExact
<1>6. LoopInv /\ ExitInv
  BY <1>2, Constants DEF Init, LoopInv, ExitInv
<1>7. QED
  BY <1>3, <1>4, <1>5, <1>6 DEF MetricsInv

\* Every step keeps the registry in order.
LEMMA StepRegistry ==
    ASSUME MetricsInv, [Next]_vars
    PROVE  RegistryInv'
<1> USE DEF MetricsInv
<1>0. now \in Nat /\ now <= now
  BY DEF TypeOK
<1>1. ASSUME NEW o \in Obs, Put(o) PROVE RegistryInv'
  BY <1>1, PutKeepsRegistry
<1>2. CASE LoopFlush
  BY <1>2, SnapshotsKeepRegistry DEF LoopFlush
<1>3. CASE ExitBegin
  BY <1>3, SnapshotsKeepRegistry DEF ExitBegin
<1>4. CASE LoopExported \/ LoopFails \/ Exit \/ UNCHANGED vars
  <2>1. UNCHANGED <<now, window>>
    BY <1>4 DEF LoopExported, LoopFails, Exit, ExitExported, ExitFails, ExitUnwind, vars
  <2>2. now' = now /\ UNCHANGED window
    BY <2>1
  <2>3. QED
    BY <1>0, <2>2, TimeKeepsRegistry
<1>5. CASE Tick
  <2>1. now' = now + 1 /\ UNCHANGED window
    BY <1>5 DEF Tick
  <2>2. now' \in Nat /\ now <= now'
    BY <1>0, <2>1
  <2>3. QED
    BY <2>1, <2>2, TimeKeepsRegistry
<1>6. QED
  BY <1>1, <1>2, <1>3, <1>4, <1>5 DEF Next, Loop

\* Every step keeps the buckets exact.
LEMMA StepExact ==
    ASSUME MetricsInv, [Next]_vars
    PROVE  BucketsExact'
<1> USE DEF MetricsInv
<1>1. ASSUME NEW o \in Obs, Put(o) PROVE BucketsExact'
  BY <1>1, PutKeepsExact
<1>2. CASE LoopFlush \/ ExitBegin
  <2>1. UNCHANGED <<level, putAt>> /\ Snapshots
    BY <1>2 DEF LoopFlush, ExitBegin
  <2>2. QED
    BY <2>1, KeptExact
<1>3. CASE LoopExported \/ LoopFails \/ Exit \/ Tick \/ UNCHANGED vars
  <2>1. UNCHANGED <<level, putAt>> /\ UNCHANGED registry
    BY <1>3 DEF LoopExported, LoopFails, Exit, ExitExported, ExitFails, ExitUnwind, Tick,
                vars, window
  <2>2. QED
    BY <2>1, KeptExact
<1>4. QED
  BY <1>1, <1>2, <1>3 DEF Next, Loop

\* Every step keeps the types.
LEMMA StepTypes ==
    ASSUME TypeOK, RegistryInv', [Next]_vars
    PROVE  TypeOK'
<1>1. \A k \in Key : registry'[k] \in Seq(Bucket) /\ Len(registry'[k]) <= Window
  BY DEF RegistryInv
<1>2. /\ now' \in Nat /\ level' \in Levels /\ wake' \in Nat
      /\ upload' \in {"sleeping", "exporting", "failed", "cancelled"}
      /\ phase' \in {"open", "flushing", "unwinding", "exited", "failed"}
      /\ putAt' \in [Obs -> Nat \cup {NotYet}]
      /\ carried' \in [{"loop", "exit"} -> SUBSET Obs]
      /\ exported' \in SUBSET Obs
      /\ due' \in SUBSET Obs
  <2> USE DEF TypeOK
  <2>1. ASSUME NEW o \in Obs, Put(o)
        PROVE  /\ now' \in Nat /\ level' \in Levels /\ wake' \in Nat
               /\ upload' \in {"sleeping", "exporting", "failed", "cancelled"}
               /\ phase' \in {"open", "flushing", "unwinding", "exited", "failed"}
               /\ putAt' \in [Obs -> Nat \cup {NotYet}]
               /\ carried' \in [{"loop", "exit"} -> SUBSET Obs]
               /\ exported' \in SUBSET Obs
               /\ due' \in SUBSET Obs
    BY <2>1 DEF Put
  <2>2. CASE LoopFlush
    <3>1. CASE NoSnapshot
      BY <2>2, <3>1, Constants DEF LoopFlush
    <3>2. CASE ~NoSnapshot
      BY <2>2, <3>2, Constants DEF LoopFlush
    <3>3. QED
      BY <3>1, <3>2
  <2>3. CASE LoopExported
    BY <2>3, Constants DEF LoopExported, window
  <2>4. CASE LoopFails
    BY <2>4 DEF LoopFails, window
  <2>5. CASE ExitBegin
    <3>1. CASE NoSnapshot
      BY <2>5, <3>1 DEF ExitBegin
    <3>2. CASE ~NoSnapshot
      BY <2>5, <3>2 DEF ExitBegin
    <3>3. QED
      BY <3>1, <3>2
  <2>6. CASE ExitExported
    BY <2>6 DEF ExitExported, window
  <2>7. CASE ExitFails
    BY <2>7 DEF ExitFails, window
  <2>8. CASE ExitUnwind
    BY <2>8 DEF ExitUnwind, window
  <2>9. CASE Tick
    BY <2>9 DEF Tick, window
  <2>10. CASE UNCHANGED vars
    BY <2>10 DEF vars, window
  <2>11. QED
    BY <2>1, <2>2, <2>3, <2>4, <2>5, <2>6, <2>7, <2>8, <2>9, <2>10 DEF Next, Loop, Exit
<1>3. QED
  BY <1>1, <1>2 DEF TypeOK

\* The sleep ends exactly at wake: its flush leaves nothing missing.
LEMMA FlushTakesAll ==
    ASSUME MetricsInv, WindowSuffices, LoopFlush
    PROVE  /\ LoopInv'
           /\ exported \cup carried["loop"] \subseteq exported' \cup carried'["loop"]
<1>1. /\ now \in Nat /\ wake \in Nat /\ now = wake /\ carried["loop"] = {}
      /\ carried \in [{"loop", "exit"} -> SUBSET Obs]
  BY DEF MetricsInv, LoopInv, LoopFlush, TypeOK
<1>2. \A o \in Obs : Missing(o) => Live(o)
  BY MissingLive DEF MetricsInv, LoopFlush
<1>3. exported' = exported /\ \A o \in Obs : putAt'[o] = putAt[o] /\ (Observed(o)' <=> Observed(o))
  BY DEF LoopFlush, Observed
<1>4. CASE NoSnapshot
  <2>1. \A o \in Obs : ~Missing(o)
    BY <1>2, <1>4, NoSnapshotNoneLive DEF MetricsInv
  <2>2. carried' = carried /\ upload' = "sleeping" /\ wake' = now + Interval /\ now' = now
    BY <1>4 DEF LoopFlush
  <2>3. \A o \in Obs : ~Missing(o)'
    BY <1>3, <2>1, <2>2 DEF Missing
  <2>4. QED
    BY <1>1, <1>3, <2>2, <2>3, Constants DEF LoopInv
<1>5. CASE ~NoSnapshot
  <2>1. /\ carried'["loop"] = {o \in Obs : Live(o)}
        /\ upload' = "exporting" /\ wake' = now + ExportTime /\ now' = now
    BY <1>1, <1>5 DEF LoopFlush
  <2>2. \A o \in Obs : ~Missing(o)'
    BY <1>1, <1>2, <1>3, <2>1 DEF Missing
  <2>3. QED
    BY <1>1, <1>3, <2>1, <2>2, Constants DEF LoopInv
<1>6. QED
  BY <1>4, <1>5

\* Every step keeps the bound on the age of what is missing.
LEMMA StepLoop ==
    ASSUME MetricsInv, WindowSuffices, [Next]_vars
    PROVE  LoopInv'
<1>0. /\ LoopInv /\ now \in Nat /\ wake \in Nat
      /\ putAt \in [Obs -> Nat \cup {NotYet}]
      /\ carried \in [{"loop", "exit"} -> SUBSET Obs]
  BY DEF MetricsInv, TypeOK
<1>1. ASSUME NEW o \in Obs, Put(o) PROVE LoopInv'
  <2>1. UNCHANGED <<now, upload, wake, carried, exported>> /\ putAt'[o] = now
    BY <1>0, <1>1 DEF Put
  <2>2. \A x \in Obs \ {o} : putAt'[x] = putAt[x] /\ (Missing(x)' <=> Missing(x))
    BY <1>0, <1>1 DEF Put, Missing, Observed
  <2>3. QED
    BY <1>0, <2>1, <2>2, Constants DEF LoopInv
<1>2. CASE LoopFlush
  BY <1>2, FlushTakesAll
<1>3. CASE LoopExported
  <2>1. /\ now' = now /\ putAt' = putAt /\ upload' = "sleeping" /\ wake' = now + Interval
        /\ carried'["loop"] = {} /\ upload = "exporting"
        /\ exported' = exported \cup carried["loop"]
    BY <1>0, <1>3 DEF LoopExported, window
  <2>2. \A x \in Obs : Missing(x)' <=> Missing(x)
    BY <2>1 DEF Missing, Observed
  <2>3. \A x \in Obs : Missing(x) => putAt[x] \in Nat
    BY <1>0 DEF Missing, Observed
  <2>4. now <= wake /\ \A x \in Obs : Missing(x) => putAt[x] >= wake - ExportTime
    BY <1>0, <2>1 DEF LoopInv
  <2>5. wake' - Interval = now
    BY <1>0, <2>1, Constants
  <2>6. \A x \in Obs : Missing(x) => putAt[x] >= now - ExportTime
    BY <1>0, <2>3, <2>4, Constants
  <2>7. QED
    BY <1>0, <2>1, <2>2, <2>5, <2>6, Constants DEF LoopInv
<1>4. CASE LoopFails \/ ExitUnwind
  <2>1. carried'["loop"] = {} /\ upload' \notin {"sleeping", "exporting"}
    BY <1>0, <1>4 DEF LoopFails, ExitUnwind
  <2>2. QED
    BY <2>1 DEF LoopInv
<1>5. CASE ExitBegin \/ ExitExported \/ ExitFails \/ Tick \/ UNCHANGED vars
  <2>1. /\ UNCHANGED <<upload, wake, putAt>> /\ carried'["loop"] = carried["loop"]
        /\ exported \subseteq exported'
    BY <1>0, <1>5 DEF ExitBegin, ExitExported, ExitFails, Tick, vars, window
  <2>2. \A x \in Obs : Missing(x)' => Missing(x)
    BY <2>1 DEF Missing, Observed
  <2>3. /\ now' \in Nat /\ now <= now'
        /\ upload \in {"sleeping", "exporting"} => now' <= wake
    <3>1. CASE Tick
      BY <1>0, <3>1 DEF Tick
    <3>2. CASE ~Tick
      <4>1. now' = now
        BY <1>5, <3>2 DEF ExitBegin, ExitExported, ExitFails, vars
      <4>2. QED
        BY <1>0, <4>1 DEF LoopInv
    <3>3. QED
      BY <3>1, <3>2
  <2>4. QED
    BY <1>0, <2>1, <2>2, <2>3, Constants DEF LoopInv
<1>6. QED
  BY <1>1, <1>2, <1>3, <1>4, <1>5 DEF Next, Loop, Exit

\* The exit's flush takes along what the loop has not: what it leaves out is
\* no longer live, so exported or in the loop's export.
LEMMA StepExit ==
    ASSUME MetricsInv, WindowSuffices, [Next]_vars
    PROVE  ExitInv'
<1>0. /\ LoopInv /\ ExitInv /\ TypeOK /\ RegistryInv
      /\ carried \in [{"loop", "exit"} -> SUBSET Obs]
  BY DEF MetricsInv, TypeOK
<1>1. ASSUME NEW o \in Obs, Put(o) PROVE ExitInv'
  BY <1>0, <1>1 DEF Put, ExitInv
<1>2. CASE LoopFlush
  <2>1. exported \cup carried["loop"] \subseteq exported' \cup carried'["loop"]
    BY <1>2, FlushTakesAll
  <2>2. /\ phase' = phase /\ due' = due /\ carried'["exit"] = carried["exit"]
        /\ upload = "sleeping" /\ upload' # "cancelled"
    BY <1>0, <1>2 DEF LoopFlush
  <2>3. QED
    BY <1>0, <2>1, <2>2 DEF ExitInv
<1>3. CASE LoopExported
  <2>1. /\ phase' = phase /\ due' = due /\ carried'["exit"] = carried["exit"]
        /\ upload = "exporting" /\ upload' # "cancelled"
        /\ carried'["loop"] = {} /\ exported' = exported \cup carried["loop"]
    BY <1>0, <1>3 DEF LoopExported
  <2>2. QED
    BY <1>0, <2>1 DEF ExitInv
<1>4. CASE LoopFails
  BY <1>4 DEF LoopFails, ExitInv
<1>5. CASE ExitBegin
  <2>1. SUFFICES ASSUME upload # "failed" PROVE ExitInv'
    BY <1>5 DEF ExitBegin, ExitInv
  <2>2. upload \in {"sleeping", "exporting"}
    BY <1>0, <1>5, <2>1 DEF ExitInv, ExitBegin, TypeOK
  <2>3. \A o \in Obs : Observed(o) /\ ~Live(o) => o \in exported \cup carried["loop"]
    BY <1>0, <2>2, MissingLive DEF Missing
  <2>4. /\ due' = {o \in Obs : Observed(o)} /\ upload' = upload /\ exported' = exported
        /\ carried'["loop"] = carried["loop"]
    BY <1>0, <1>5 DEF ExitBegin, Observed
  <2>5. CASE NoSnapshot
    <3>1. \A o \in Obs : ~Live(o)
      BY <1>0, <2>5, NoSnapshotNoneLive
    <3>2. phase' = "unwinding"
      BY <1>5, <2>5 DEF ExitBegin
    <3>3. QED
      BY <2>2, <2>3, <2>4, <3>1, <3>2 DEF ExitInv
  <2>6. CASE ~NoSnapshot
    <3>1. phase' = "flushing" /\ carried'["exit"] = {o \in Obs : Live(o)}
      BY <1>0, <1>5, <2>6 DEF ExitBegin
    <3>2. QED
      BY <2>2, <2>3, <2>4, <3>1 DEF ExitInv
  <2>7. QED
    BY <2>5, <2>6
<1>6. CASE ExitExported
  <2>1. /\ phase = "flushing" /\ phase' = "unwinding" /\ due' = due /\ upload' = upload
        /\ carried'["loop"] = carried["loop"] /\ exported' = exported \cup carried["exit"]
    BY <1>0, <1>6 DEF ExitExported
  <2>2. QED
    BY <1>0, <2>1 DEF ExitInv
<1>7. CASE ExitFails
  BY <1>0, <1>7 DEF ExitFails, ExitInv
<1>8. CASE ExitUnwind
  BY <1>8 DEF ExitUnwind, ExitInv
<1>9. CASE Tick \/ UNCHANGED vars
  BY <1>0, <1>9 DEF Tick, vars, ExitInv
<1>10. QED
  BY <1>1, <1>2, <1>3, <1>4, <1>5, <1>6, <1>7, <1>8, <1>9 DEF Next, Loop, Exit

\* Every step keeps the invariant.
LEMMA StepInv ==
    ASSUME MetricsInv, [Next]_vars
    PROVE  MetricsInv'
<1>1. RegistryInv'
  BY StepRegistry
<1>2. TypeOK'
  BY <1>1, StepTypes DEF MetricsInv
<1>3. BucketsExact'
  BY StepExact
<1>4. WindowSuffices => LoopInv' /\ ExitInv'
  BY StepLoop, StepExit
<1>5. WindowSuffices' <=> WindowSuffices
  BY DEF WindowSuffices
<1>6. QED
  BY <1>1, <1>2, <1>3, <1>4, <1>5 DEF MetricsInv

-----------------------------------------------------------------------------
(* Theorems                                                                *)

\* The invariant holds throughout.
LEMMA Invariant ==
    Spec => []MetricsInv
  BY InitInv, StepInv, PTL DEF Spec

\* The state has its types, and an accumulator never holds more buckets than
\* its window has seconds, however long it is put to without a snapshot:
\* _Accumulator.put evicts.
THEOREM MetricsTypes ==
    Spec => []TypeOK
<1>1. MetricsInv => TypeOK
  BY DEF MetricsInv
<1>2. QED
  BY <1>1, Invariant, PTL

\* A key's fresh buckets are of exactly the seconds of its observations in the
\* last Window seconds: stats() is None for a key when there is none of them
\* and only then.
THEOREM WindowSeconds ==
    Spec => []FreshSeconds
<1>1. MetricsInv => FreshSeconds
  BY FreshExactly DEF MetricsInv
<1>2. QED
  BY <1>1, Invariant, PTL

\* stats() reports the count, the sum and the extremes of exactly the
\* observations of its key in the last Window seconds, for any number of
\* observations, any values and any window, however put(), stats(), exports
\* and the clock interleave.
THEOREM StatisticsExact ==
    Spec => []WindowExact
<1>1. MetricsInv => WindowExact
  BY ExactWindow DEF MetricsInv
<1>2. QED
  BY <1>1, Invariant, PTL

\* When an interval and an export fit in the window but for one second, no
\* observation slides out of its window unexported while the upload loop runs.
THEOREM LoopSkipsNothing ==
    Spec => []NothingSkipped
<1>1. MetricsInv => NothingSkipped
  BY InvSkips
<1>2. QED
  BY <1>1, Invariant, PTL

\* When __aexit__ ends, everything put before it has been exported, unless an
\* export failed or the loop was cancelled in one.
THEOREM ExitExportsAll ==
    Spec => LastWindowExported
<1>1. ASSUME MetricsInv, [Next]_vars, phase' = "exited", phase # "exited",
             WindowSuffices, upload # "failed"
      PROVE  due \subseteq exported \cup carried["loop"]
  <2>1. phase = "unwinding"
    BY <1>1 DEF Next, Loop, Exit, Put, LoopFlush, LoopExported, LoopFails, ExitBegin,
                ExitExported, ExitFails, ExitUnwind, Tick, vars
  <2>2. QED
    BY <1>1, <2>1 DEF MetricsInv, ExitInv
<1>2. MetricsInv /\ [Next]_vars =>
          [phase' = "exited" /\ phase # "exited" /\ WindowSuffices /\ upload # "failed" =>
               due \subseteq exported \cup carried["loop"]]_vars
  BY <1>1
<1>3. QED
  BY <1>2, Invariant, PTL DEF Spec, LastWindowExported
=============================================================================
