------------------------- MODULE AggregationProofs -------------------------
(***************************************************************************)
(* Proofs about the wire format and the aggregator's container, for any    *)
(* records and any bound on a batch: a batch is what its records make, it  *)
(* is read back as it was written, no decoder returns part of a record,    *)
(* and the size estimate covers the encoding of small records.             *)
(***************************************************************************)
EXTENDS AggregatedBatch, WellOrder, SequenceTheorems

-----------------------------------------------------------------------------
(* Varints                                                                 *)

\* g encodes varints.
Encodes(g) ==
    g = [v \in Nat |-> IF v > 127 THEN <<(v % 128) + 128>> \o g[v \div 128] ELSE <<v>>]

\* Seven bits less are a smaller number.
LEMMA Sevens ==
    ASSUME NEW v \in Nat
    PROVE  /\ v \div 128 \in Nat /\ v % 128 \in 0..127 /\ v = 128 * (v \div 128) + (v % 128)
           /\ v > 127 => v \div 128 < v /\ v \div 128 > 0
  OBVIOUS

\* Such a g exists: what is left of a number is smaller.
LEMMA EncoderExists == \E g \in [Nat -> ByteString] : Encodes(g)
<1> DEFINE Step(g) == [v \in Nat |-> IF v > 127 THEN <<(v % 128) + 128>> \o g[v \div 128]
                                     ELSE <<v>>]
           F == [g \in [Nat -> ByteString] |-> Step(g)]
<1>1. ASSUME NEW g \in [Nat -> ByteString] PROVE Step(g) \in [Nat -> ByteString]
  <2>1. ASSUME NEW v \in Nat
        PROVE  (IF v > 127 THEN <<(v % 128) + 128>> \o g[v \div 128] ELSE <<v>>) \in ByteString
    <3>1. v \div 128 \in Nat /\ v % 128 \in 0..127
      BY Sevens
    <3>2. g[v \div 128] \in Seq(0..255)
      BY <3>1 DEF ByteString
    <3>3. v > 127 => <<(v % 128) + 128>> \in Seq(0..255)
      BY <3>1
    <3>4. ~(v > 127) => <<v>> \in Seq(0..255)
      OBVIOUS
    <3>5. v > 127 => <<(v % 128) + 128>> \o g[v \div 128] \in Seq(0..255)
      BY <3>2, <3>3, ConcatProperties
    <3>6. QED
      BY <3>4, <3>5 DEF ByteString
  <2>2. QED
    BY <2>1
<1>2. \A g, h \in [Nat -> ByteString] : \A n \in Nat :
          (\A m \in Nat : m < n => g[m] = h[m]) => Step(g)[n] = Step(h)[n]
  BY Sevens
<1>3. \A g \in [Nat -> ByteString] : F[g] = Step(g)
  OBVIOUS
<1>4. Contracts(F, Nat, ByteString)
  <2>1. F \in [[Nat -> ByteString] -> [Nat -> ByteString]]
    BY <1>1
  <2> HIDE DEF F, Step
  <2>2. QED
    BY <1>2, <1>3, <2>1 DEF Contracts
<1>5. <<>> \in ByteString
  BY DEF ByteString
<1>6. PICK g \in [Nat -> ByteString] : g = F[g]
  <2> HIDE DEF F
  <2>1. QED
    BY <1>4, <1>5, Recursion
<1>7. g = Step(g)
  BY <1>3, <1>6
<1>8. QED
  BY <1>7 DEF Encodes

\* EncodeVarint is the loop it is written as, and makes bytes.
LEMMA Varint ==
    /\ \A v \in Nat : EncodeVarint[v] = IF v > 127
                                        THEN <<(v % 128) + 128>> \o EncodeVarint[v \div 128]
                                        ELSE <<v>>
    /\ \A v \in Nat : EncodeVarint[v] \in ByteString
<1> DEFINE f == CHOOSE g : Encodes(g)
<1>1. Encodes(f)
  BY EncoderExists, Zenon
<1>2. EncodeVarint = f
  BY DEF EncodeVarint, Encodes
<1> HIDE DEF f
<1>3. Encodes(EncodeVarint)
  BY <1>1, <1>2
<1>4. \A v \in Nat : EncodeVarint[v] = IF v > 127
                                        THEN <<(v % 128) + 128>> \o EncodeVarint[v \div 128]
                                        ELSE <<v>>
  BY <1>3 DEF Encodes
<1> DEFINE Bad == {v \in Nat : EncodeVarint[v] \notin ByteString}
<1>5. Bad = {}
  <2>1. SUFFICES ASSUME Bad # {} PROVE FALSE
    OBVIOUS
  <2>2. PICK v \in Bad : \A w \in Bad : v <= w
    <3>1. Bad \in SUBSET Nat
      OBVIOUS
    <3> HIDE DEF Bad
    <3>2. QED
      BY <2>1, <3>1, LeastNat
  <2>3. v \in Nat /\ EncodeVarint[v] \notin ByteString
    OBVIOUS
  <2>4. ASSUME NEW w \in Nat, w < v PROVE EncodeVarint[w] \in ByteString
    <3>1. w \notin Bad
      <4> HIDE DEF Bad
      <4>1. QED
        BY <2>2, <2>3, <2>4
    <3>2. QED
      BY <3>1
  <2> HIDE DEF Bad
  <2>5. CASE v > 127
    <3>1. EncodeVarint[v] = <<(v % 128) + 128>> \o EncodeVarint[v \div 128]
      BY <1>4, <2>3, <2>5
    <3>2. EncodeVarint[v \div 128] \in Seq(0..255)
      BY <2>3, <2>4, <2>5, Sevens DEF ByteString
    <3>3. <<(v % 128) + 128>> \in Seq(0..255)
      BY <2>3, Sevens
    <3>4. EncodeVarint[v] \in Seq(0..255)
      BY <3>1, <3>2, <3>3, ConcatProperties
    <3>5. QED
      BY <2>3, <3>4 DEF ByteString
  <2>6. CASE ~(v > 127)
    <3>1. EncodeVarint[v] = <<v>>
      BY <1>4, <2>3, <2>6
    <3>2. <<v>> \in Seq(0..255)
      BY <2>3, <2>6
    <3>3. QED
      BY <2>3, <3>1, <3>2 DEF ByteString
  <2>7. QED
    BY <2>5, <2>6
<1>6. QED
  BY <1>4, <1>5

\* A byte string is a sequence of bytes.
LEMMA Bytes ==
    ASSUME NEW buf \in ByteString
    PROVE  /\ buf \in Seq(0..255) /\ Len(buf) \in Nat /\ DOMAIN buf = 1..Len(buf)
           /\ \A i \in 1..Len(buf) : buf[i] \in 0..255
<1>1. buf \in Seq(0..255)
  BY DEF ByteString
<1>2. QED
  BY <1>1, ElementOfSeq, LenProperties

\* A position in a string and the one after it are naturals.
LEMMA InString ==
    ASSUME NEW n \in Nat, NEW a \in 1..n
    PROVE  a \in Nat /\ a + 1 \in Nat
  OBVIOUS

\* A byte before the last carries seven bits.
LEMMA MoreBits ==
    ASSUME NEW b \in 0..255, ~(b < 128), NEW w \in Nat
    PROVE  b - 128 + 128 * w \in Nat
  OBVIOUS

\* buf has x at pos, as far as it goes: it may end before x does.
Matches(buf, pos, x) == \A i \in 1..Len(x) : pos + i - 1 <= Len(buf) => buf[pos + i - 1] = x[i]

\* What matches two strings matches one and then the other.
LEMMA MatchesBoth ==
    ASSUME NEW buf \in ByteString, NEW pos \in Nat, NEW x \in ByteString, NEW y \in ByteString,
           Matches(buf, pos, x \o y)
    PROVE  /\ Matches(buf, pos, x) /\ Matches(buf, pos + Len(x), y)
           /\ x \o y \in ByteString /\ Len(x \o y) = Len(x) + Len(y)
<1>1. x \in Seq(0..255) /\ y \in Seq(0..255) /\ Len(x) \in Nat /\ Len(y) \in Nat
  BY DEF ByteString
<1>2. /\ x \o y \in Seq(0..255) /\ Len(x \o y) = Len(x) + Len(y)
      /\ \A i \in 1..Len(x) + Len(y) : (x \o y)[i] = IF i <= Len(x) THEN x[i] ELSE y[i - Len(x)]
  BY <1>1, ConcatProperties
<1>3. ASSUME NEW i \in 1..Len(x), pos + i - 1 <= Len(buf) PROVE buf[pos + i - 1] = x[i]
  <2>1. i \in 1..Len(x) + Len(y) /\ i <= Len(x)
    BY <1>1
  <2>2. QED
    BY <1>2, <1>3, <2>1 DEF Matches
<1>4. ASSUME NEW i \in 1..Len(y), pos + Len(x) + i - 1 <= Len(buf)
      PROVE  buf[pos + Len(x) + i - 1] = y[i]
  <2> DEFINE j == Len(x) + i
  <2>1. j \in 1..Len(x) + Len(y) /\ ~(j <= Len(x)) /\ j - Len(x) = i
        /\ pos + j - 1 = pos + Len(x) + i - 1
    BY <1>1
  <2> HIDE DEF j
  <2>2. buf[pos + j - 1] = (x \o y)[j] /\ (x \o y)[j] = y[i]
    BY <1>2, <1>4, <2>1 DEF Matches
  <2>3. QED
    BY <2>1, <2>2
<1>5. QED
  BY <1>2, <1>3, <1>4 DEF Matches, ByteString

\* What the loop of DecodeVarint returns: the value of a varint and the
\* position after it, or an error.
Decoded == {ValueError} \cup [value : Nat, next : Nat]

\* L is the loop of DecodeVarint.
Decodes(buf, pos, L) ==
    L = [k \in 0..MAX_VARINT |->
            LET at == pos + MAX_VARINT - k
                rest == L[k - 1]
            IN  IF k = 0 \/ at > Len(buf) THEN ValueError
                ELSE IF buf[at] < 128 THEN [value |-> buf[at], next |-> at + 1]
                ELSE IF rest = ValueError THEN ValueError
                ELSE [value |-> buf[at] - 128 + 128 * rest.value, next |-> rest.next]]

\* Such a loop exists.
LEMMA DecoderExists ==
    ASSUME NEW buf \in ByteString, NEW pos \in Nat \ {0}
    PROVE  \E L \in [0..MAX_VARINT -> Decoded] : Decodes(buf, pos, L)
<1> DEFINE D == 0..MAX_VARINT
           At(k) == pos + MAX_VARINT - k
           One(L, k) == IF k = 0 \/ At(k) > Len(buf) THEN ValueError
                        ELSE IF buf[At(k)] < 128
                             THEN [value |-> buf[At(k)], next |-> At(k) + 1]
                        ELSE IF L[k - 1] = ValueError THEN ValueError
                        ELSE [value |-> buf[At(k)] - 128 + 128 * L[k - 1].value,
                              next |-> L[k - 1].next]
           Step(L) == [k \in D |-> One(L, k)]
           F == [L \in [D -> Decoded] |-> Step(L)]
<1>0. MAX_VARINT = 10 /\ D \in SUBSET Nat /\ Len(buf) \in Nat
      /\ \A i \in 1..Len(buf) : buf[i] \in 0..255
  BY Bytes DEF MAX_VARINT
<1>1. ASSUME NEW L \in [D -> Decoded], NEW k \in D PROVE One(L, k) \in Decoded
  <2>1. CASE k = 0 \/ At(k) > Len(buf)
    BY <2>1 DEF Decoded
  <2>2. CASE ~(k = 0 \/ At(k) > Len(buf))
    <3>1. At(k) \in 1..Len(buf) /\ k - 1 \in D
      BY <1>0, <2>2
    <3>2. buf[At(k)] \in 0..255 /\ L[k - 1] \in Decoded
      BY <1>0, <3>1
    <3> HIDE DEF At, D
    <3>3. CASE buf[At(k)] < 128
      <4>1. One(L, k) = [value |-> buf[At(k)], next |-> At(k) + 1]
        BY <2>2, <3>3
      <4>02. At(k) + 1 \in Nat
        BY <1>0, <3>1, InString
      <4>2. buf[At(k)] \in Nat /\ At(k) + 1 \in Nat
        BY <3>2, <4>02
      <4> HIDE DEF One
      <4>3. QED
        BY <4>1, <4>2 DEF Decoded
    <3>4. CASE ~(buf[At(k)] < 128) /\ L[k - 1] = ValueError
      BY <2>2, <3>4 DEF Decoded
    <3>5. CASE ~(buf[At(k)] < 128) /\ L[k - 1] # ValueError
      <4>1. L[k - 1].value \in Nat /\ L[k - 1].next \in Nat
        BY <3>2, <3>5 DEF Decoded
      <4>2. buf[At(k)] - 128 + 128 * L[k - 1].value \in Nat
        BY <3>2, <3>5, <4>1
      <4>3. QED
        BY <2>2, <3>5, <4>1, <4>2 DEF Decoded
    <3>6. QED
      BY <3>3, <3>4, <3>5
  <2>3. QED
    BY <2>1, <2>2
<1>2. ASSUME NEW L \in [D -> Decoded], NEW M \in [D -> Decoded], NEW k \in D,
             \A m \in D : m < k => L[m] = M[m]
      PROVE  One(L, k) = One(M, k)
  <2>1. k # 0 => L[k - 1] = M[k - 1]
    BY <1>0, <1>2
  <2>2. QED
    BY <2>1
<1> HIDE DEF One
<1>3. ASSUME NEW L \in [D -> Decoded] PROVE Step(L) \in [D -> Decoded]
  BY <1>1
<1>4. \A L \in [D -> Decoded] : F[L] = Step(L)
  OBVIOUS
<1>5. Contracts(F, D, Decoded)
  <2>1. F \in [[D -> Decoded] -> [D -> Decoded]]
    BY <1>3
  <2>2. ASSUME NEW L \in [D -> Decoded], NEW M \in [D -> Decoded], NEW k \in D,
               \A m \in D : m < k => L[m] = M[m]
        PROVE  F[L][k] = F[M][k]
    <3>1. F[L][k] = One(L, k) /\ F[M][k] = One(M, k)
      OBVIOUS
    <3>2. QED
      BY <1>2, <2>2, <3>1
  <2> HIDE DEF F, Step, D
  <2>3. QED
    BY <2>1, <2>2 DEF Contracts
<1>6. Decoded # {}
  BY DEF Decoded
<1>7. PICK L \in [D -> Decoded] : L = F[L]
  <2> HIDE DEF F, D
  <2>1. QED
    BY <1>0, <1>5, <1>6, Recursion
<1>8. L = Step(L)
  BY <1>4, <1>7
<1>9. QED
  BY <1>8 DEF Decodes, One

\* DecodeVarint is the end of such a loop; with k bytes allowed a varint that
\* is read ends after where it starts and within the string.
LEMMA VarintLoop ==
    ASSUME NEW buf \in ByteString, NEW pos \in Nat \ {0}
    PROVE  \E L : /\ Decodes(buf, pos, L) /\ DecodeVarint(buf, pos) = L[MAX_VARINT]
                  /\ \A k \in 0..MAX_VARINT :
                         \/ L[k] = ValueError
                         \/ /\ L[k] \in [value : Nat, next : Nat]
                            /\ pos + MAX_VARINT - k < L[k].next /\ L[k].next <= Len(buf) + 1
<1> DEFINE L == CHOOSE g : Decodes(buf, pos, g)
<1>1. Decodes(buf, pos, L)
  BY DecoderExists, Zenon
<1>2. DecodeVarint(buf, pos) = L[MAX_VARINT]
  BY DEF DecodeVarint, Decodes
<1> HIDE DEF L
<1> DEFINE Good(k) == \/ L[k] = ValueError
                      \/ /\ L[k] \in [value : Nat, next : Nat]
                         /\ pos + MAX_VARINT - k < L[k].next /\ L[k].next <= Len(buf) + 1
           Bad == {k \in 0..MAX_VARINT : ~Good(k)}
<1>0. MAX_VARINT = 10 /\ Len(buf) \in Nat
      /\ \A i \in 1..Len(buf) : buf[i] \in 0..255
  BY Bytes DEF MAX_VARINT
<1>3. Bad = {}
  <2>1. SUFFICES ASSUME Bad # {} PROVE FALSE
    OBVIOUS
  <2>2. PICK k \in Bad : \A m \in Bad : k <= m
    <3>1. Bad \in SUBSET Nat
      BY <1>0
    <3> HIDE DEF Bad
    <3>2. QED
      BY <2>1, <3>1, LeastNat
  <2>3. k \in 0..MAX_VARINT /\ ~Good(k)
    OBVIOUS
  <2>4. k # 0 => k - 1 \in 0..MAX_VARINT /\ Good(k - 1)
    <3>1. k # 0 => k - 1 \in 0..MAX_VARINT /\ k - 1 \notin Bad
      <4> HIDE DEF Bad
      <4>1. QED
        BY <1>0, <2>2, <2>3
    <3>2. QED
      BY <3>1
  <2> HIDE DEF Bad
  <2> DEFINE at == pos + MAX_VARINT - k
             rest == L[k - 1]
  <2>5. L[k] = IF k = 0 \/ at > Len(buf) THEN ValueError
               ELSE IF buf[at] < 128 THEN [value |-> buf[at], next |-> at + 1]
               ELSE IF rest = ValueError THEN ValueError
               ELSE [value |-> buf[at] - 128 + 128 * rest.value, next |-> rest.next]
    BY <1>1, <2>3 DEF Decodes
  <2>6. ~(k = 0 \/ at > Len(buf)) /\ at \in 1..Len(buf) /\ buf[at] \in 0..255
    BY <1>0, <2>3, <2>5
  <2>7. CASE buf[at] < 128
    <3>1. L[k] = [value |-> buf[at], next |-> at + 1]
      BY <2>5, <2>6, <2>7
    <3> HIDE DEF at
    <3>0. at + 1 \in Nat
      BY <1>0, <2>6, InString
    <3>2. L[k] \in [value : Nat, next : Nat] /\ L[k].next = at + 1
      <4>1. buf[at] \in Nat
        <5>1. \A b \in 0..255 : b \in Nat
          OBVIOUS
        <5>2. QED
          BY <2>6, <5>1, Zenon
      <4>2. QED
        BY <3>0, <3>1, <4>1
    <3> USE DEF at
    <3>3. QED
      BY <2>3, <2>6, <3>2
  <2>8. CASE ~(buf[at] < 128)
    <3>1. rest # ValueError
      BY <2>3, <2>5, <2>6, <2>8
    <3>2. rest \in [value : Nat, next : Nat] /\ pos + MAX_VARINT - (k - 1) < rest.next
          /\ rest.next <= Len(buf) + 1
      BY <2>4, <2>6, <3>1
    <3>3. L[k] = [value |-> buf[at] - 128 + 128 * rest.value, next |-> rest.next]
      BY <2>5, <2>6, <2>8, <3>1
    <3>4. rest.value \in Nat /\ rest.next \in Nat
      BY <3>2
    <3> HIDE DEF rest
    <3>5. buf[at] - 128 + 128 * rest.value \in Nat
      BY <2>6, <2>8, <3>4, MoreBits
    <3>6. L[k] \in [value : Nat, next : Nat] /\ L[k].next = rest.next
      BY <3>3, <3>4, <3>5
    <3>7. pos + MAX_VARINT - k < rest.next
      BY <1>0, <2>3, <3>2, <3>4
    <3>8. QED
      BY <2>3, <3>2, <3>6, <3>7
  <2>9. QED
    BY <2>7, <2>8
<1>4. \A k \in 0..MAX_VARINT : Good(k)
  BY <1>3
<1>5. QED
  BY <1>1, <1>2, <1>4

\* All of x is there.
Entire(buf, pos, x) == pos + Len(x) - 1 <= Len(buf)

\* A number has at least one byte; one that fits in seven bits has one.
LEMMA VarintBytes ==
    ASSUME NEW v \in Nat
    PROVE  /\ EncodeVarint[v] \in ByteString /\ Len(EncodeVarint[v]) \in Nat \ {0}
           /\ v <= 127 => EncodeVarint[v] = <<v>> /\ Len(EncodeVarint[v]) = 1
                          /\ EncodeVarint[v][1] = v
           /\ v > 127 => /\ v \div 128 \in Nat /\ EncodeVarint[v \div 128] \in ByteString
                         /\ EncodeVarint[v] = <<(v % 128) + 128>> \o EncodeVarint[v \div 128]
                         /\ Len(EncodeVarint[v]) = Len(EncodeVarint[v \div 128]) + 1
                         /\ EncodeVarint[v][1] = (v % 128) + 128
<1>1. EncodeVarint[v] \in ByteString /\ Len(EncodeVarint[v]) \in Nat
  BY Varint, Bytes
<1>2. CASE v <= 127
  <2>0. ~(v > 127)
    BY <1>2
  <2>1. EncodeVarint[v] = <<v>>
    BY <2>0, Varint, Zenon
  <2>2. Len(<<v>>) = 1 /\ <<v>>[1] = v
    OBVIOUS
  <2>3. QED
    BY <1>1, <1>2, <2>1, <2>2
<1>3. CASE v > 127
  <2> DEFINE w == v \div 128
             b == (v % 128) + 128
  <2>1. w \in Nat /\ b \in 0..255
    BY Sevens
  <2> HIDE DEF w, b
  <2>2. EncodeVarint[w] \in Seq(0..255) /\ Len(EncodeVarint[w]) \in Nat
    BY <2>1, Varint, Bytes
  <2>3. EncodeVarint[v] = <<b>> \o EncodeVarint[w]
    BY <1>3, Varint DEF w, b
  <2>4. <<b>> \in Seq(0..255) /\ Len(<<b>>) = 1 /\ <<b>>[1] = b
    BY <2>1
  <2>5. /\ Len(<<b>> \o EncodeVarint[w]) = 1 + Len(EncodeVarint[w])
        /\ (<<b>> \o EncodeVarint[w])[1] = b
    BY <2>2, <2>4, ConcatProperties
  <2>6. Len(EncodeVarint[v]) = Len(EncodeVarint[w]) + 1 /\ Len(EncodeVarint[v]) \in Nat \ {0}
        /\ EncodeVarint[v][1] = b /\ EncodeVarint[w] \in ByteString
    BY <2>2, <2>3, <2>5 DEF ByteString
  <2>7. QED
    BY <1>1, <1>3, <2>1, <2>3, <2>6 DEF w, b
<1>4. QED
  BY <1>2, <1>3

\* Where the varint of a number starts the number is read, if it is whole.
LEMMA VarintRead ==
    ASSUME NEW buf \in ByteString, NEW pos \in Nat \ {0}, NEW n \in Nat, Readable(n),
           Matches(buf, pos, EncodeVarint[n])
    PROVE  DecodeVarint(buf, pos) =
               IF Entire(buf, pos, EncodeVarint[n])
               THEN [value |-> n, next |-> pos + Len(EncodeVarint[n])] ELSE ValueError
<1>1. PICK L : /\ Decodes(buf, pos, L) /\ DecodeVarint(buf, pos) = L[MAX_VARINT]
               /\ \A k \in 0..MAX_VARINT :
                         \/ L[k] = ValueError
                         \/ /\ L[k] \in [value : Nat, next : Nat]
                            /\ pos + MAX_VARINT - k < L[k].next /\ L[k].next <= Len(buf) + 1
  BY VarintLoop
<1>0. MAX_VARINT = 10 /\ Len(buf) \in Nat
  BY Bytes DEF MAX_VARINT
<1> DEFINE At(k) == pos + MAX_VARINT - k
           Fits(v, k) == Len(EncodeVarint[v]) <= k /\ Matches(buf, At(k), EncodeVarint[v])
           Out(v, k) == IF Entire(buf, At(k), EncodeVarint[v])
                        THEN [value |-> v, next |-> At(k) + Len(EncodeVarint[v])]
                        ELSE ValueError
           Bad == {k \in 0..MAX_VARINT : \E v \in Nat : Fits(v, k) /\ L[k] # Out(v, k)}
<1>2. Bad = {}
  <2>1. SUFFICES ASSUME Bad # {} PROVE FALSE
    OBVIOUS
  <2>2. PICK k \in Bad : \A m \in Bad : k <= m
    <3>1. Bad \in SUBSET Nat
      <4> HIDE DEF Fits, Out
      <4>1. QED
        BY <1>0
    <3> HIDE DEF Bad
    <3>2. QED
      BY <2>1, <3>1, LeastNat
  <2>3. k \in 0..MAX_VARINT
    OBVIOUS
  <2>4. PICK v \in Nat : Fits(v, k) /\ L[k] # Out(v, k)
    OBVIOUS
  <2>5. ASSUME k # 0, NEW w \in Nat, Fits(w, k - 1) PROVE L[k - 1] = Out(w, k - 1)
    <3>1. k - 1 \in 0..MAX_VARINT /\ k - 1 \notin Bad
      <4> HIDE DEF Bad
      <4>1. QED
        BY <1>0, <2>2, <2>3, <2>5
    <3> HIDE DEF Fits, Out
    <3>2. QED
      BY <2>5, <3>1
  <2> HIDE DEF Bad
  <2> DEFINE e == EncodeVarint[v]
             at == At(k)
  <2>6. e \in ByteString /\ Len(e) \in Nat \ {0} /\ Len(e) <= k /\ k # 0
    <3>1. e \in ByteString /\ Len(e) \in Nat \ {0} /\ Len(e) <= k
      BY <2>4, VarintBytes
    <3> HIDE DEF e
    <3>2. QED
      BY <1>0, <2>3, <3>1
  <2>7. at \in Nat \ {0} /\ At(k - 1) = at + 1
    BY <1>0, <2>3
  <2>8. L[k] = IF k = 0 \/ at > Len(buf) THEN ValueError
               ELSE IF buf[at] < 128 THEN [value |-> buf[at], next |-> at + 1]
               ELSE IF L[k - 1] = ValueError THEN ValueError
               ELSE [value |-> buf[at] - 128 + 128 * L[k - 1].value, next |-> L[k - 1].next]
    BY <1>1, <2>3 DEF Decodes
  <2>9. Out(v, k) = IF at + Len(e) - 1 <= Len(buf) THEN [value |-> v, next |-> at + Len(e)]
                    ELSE ValueError
    BY DEF Entire
  <2>10. Matches(buf, at, e)
    BY <2>4
  <2>11. L[k] # Out(v, k)
    BY <2>4
  <2> HIDE DEF Fits, Out, At, at, e
  <2>12. at <= Len(buf)
    <3>1. SUFFICES ASSUME at > Len(buf) PROVE FALSE
      BY <1>0, <2>7
    <3>2. ~(at + Len(e) - 1 <= Len(buf))
      BY <1>0, <2>6, <2>7, <3>1
    <3>3. QED
      BY <2>8, <2>9, <2>11, <3>1, <3>2
  <2>13. buf[at] = e[1]
    <3>1. 1 \in 1..Len(e) /\ at + 1 - 1 = at
      BY <2>6, <2>7
    <3>2. QED
      BY <2>10, <2>12, <3>1 DEF Matches
  <2>14. CASE v <= 127
    <3>1. Len(e) = 1 /\ e[1] = v
      BY <2>14, VarintBytes DEF e
    <3>2. L[k] = [value |-> v, next |-> at + 1]
      <4>1. ~(k = 0 \/ at > Len(buf)) /\ buf[at] < 128 /\ buf[at] = v
        BY <1>0, <2>6, <2>7, <2>12, <2>13, <2>14, <3>1
      <4>2. QED
        BY <2>8, <4>1
    <3>3. Out(v, k) = [value |-> v, next |-> at + 1]
      <4>1. at + Len(e) - 1 <= Len(buf) /\ at + Len(e) = at + 1
        BY <1>0, <2>7, <2>12, <3>1
      <4>2. QED
        BY <2>9, <4>1
    <3>4. QED
      BY <2>11, <3>2, <3>3
  <2>15. CASE v > 127
    <3> DEFINE w == v \div 128
               b == (v % 128) + 128
               r == EncodeVarint[w]
    <3>1. /\ w \in Nat /\ r \in ByteString /\ e = <<b>> \o r
          /\ Len(e) = Len(r) + 1 /\ e[1] = b /\ Len(r) \in Nat \ {0}
      BY <2>15, VarintBytes DEF e
    <3>2. b \in 128..255 /\ v = b - 128 + 128 * w
      BY <2>15, Sevens
    <3> HIDE DEF w, b, r
    <3>3. Matches(buf, at + 1, r)
      <4>1. <<b>> \in ByteString /\ Len(<<b>>) = 1
        BY <3>2 DEF ByteString
      <4>2. Matches(buf, at, <<b>> \o r)
        BY <2>10, <3>1
      <4>3. QED
        <5>1. Matches(buf, at + Len(<<b>>), r)
          <6>1. at \in Nat /\ r \in ByteString
            BY <2>7, <3>1
          <6>2. QED
            BY <4>1, <4>2, <6>1, MatchesBoth
        <5>2. QED
          BY <4>1, <5>1
    <3>4. Fits(w, k - 1)
      <4>1. Len(r) <= k - 1
        BY <1>0, <2>3, <2>6, <3>1
      <4>2. QED
        BY <2>7, <3>3, <4>1 DEF Fits, r
    <3>5. L[k - 1] = Out(w, k - 1)
      BY <2>5, <2>6, <3>1, <3>4
    <3>6. Out(w, k - 1) = IF at + Len(e) - 1 <= Len(buf)
                          THEN [value |-> w, next |-> at + Len(e)] ELSE ValueError
      <4>1. At(k - 1) + Len(r) = at + Len(e)
        BY <2>7, <3>1
      <4>2. QED
        <5>1. Out(w, k - 1) = IF At(k - 1) + Len(r) - 1 <= Len(buf)
                              THEN [value |-> w, next |-> At(k - 1) + Len(r)] ELSE ValueError
          BY DEF Out, Entire, r
        <5>2. at + Len(e) \in Nat /\ at \in Nat /\ Len(e) \in Nat
          BY <2>6, <2>7
        <5>3. At(k - 1) \in Nat /\ Len(r) \in Nat
          BY <2>7, <3>1
        <5>4. QED
          BY <4>1, <5>1, <5>2, <5>3, SMT
    <3>7. L[k] = IF L[k - 1] = ValueError THEN ValueError
                 ELSE [value |-> b - 128 + 128 * L[k - 1].value, next |-> L[k - 1].next]
      <4>1. ~(k = 0 \/ at > Len(buf)) /\ ~(buf[at] < 128) /\ buf[at] = b
        BY <1>0, <2>6, <2>7, <2>12, <2>13, <3>1, <3>2
      <4>2. QED
        BY <2>8, <4>1
    <3>8. CASE at + Len(e) - 1 <= Len(buf)
      <4> DEFINE res == [value |-> w, next |-> at + Len(e)]
      <4>1. L[k - 1] = res
        BY <3>5, <3>6, <3>8
      <4>2. res \in [value : Nat \cup ByteString, next : Nat] /\ res.value = w
            /\ res.next = at + Len(e)
        BY <2>6, <2>7, <3>1
      <4>3. res # ValueError
        BY <4>2, CodecAssumption
      <4>4. L[k] = [value |-> v, next |-> at + Len(e)]
        BY <3>2, <3>7, <4>1, <4>2, <4>3
      <4>5. QED
        BY <2>9, <2>11, <3>8, <4>4
    <3>9. CASE ~(at + Len(e) - 1 <= Len(buf))
      BY <2>9, <2>11, <3>5, <3>6, <3>7, <3>9
    <3>10. QED
      BY <3>8, <3>9
  <2>16. QED
    BY <2>14, <2>15
<1>3. MAX_VARINT \in 0..MAX_VARINT /\ At(MAX_VARINT) = pos
  BY <1>0
<1>4. Fits(n, MAX_VARINT)
  BY <1>3 DEF Readable
<1>5. L[MAX_VARINT] = Out(n, MAX_VARINT)
  <2> HIDE DEF Fits, Out
  <2>1. QED
    BY <1>2, <1>3, <1>4
<1>6. QED
  BY <1>1, <1>3, <1>5

-----------------------------------------------------------------------------
(* Fields                                                                  *)

\* A field that can be written and read: numbers with varints the decoder
\* accepts, and one of the two wire types.
Proper(f) ==
    /\ f \in Field /\ Readable(f.tag)
    /\ \/ f.tag % 8 = WIRE_VARINT /\ f.value \in Nat /\ Readable(f.value)
       \/ f.tag % 8 = WIRE_LENGTH_DELIMITED /\ f.value \in ByteString /\ Readable(Len(f.value))

\* A slice of a string.
LEMMA Slice ==
    ASSUME NEW buf \in ByteString, NEW a \in Nat \ {0}, NEW b \in Int, b <= Len(buf)
    PROVE  /\ SubSeq(buf, a, b) \in ByteString
           /\ Len(SubSeq(buf, a, b)) = IF a <= b THEN b - a + 1 ELSE 0
           /\ \A i \in 1..b - a + 1 : SubSeq(buf, a, b)[i] = buf[a + i - 1]
<1>1. \A i \in a..b : buf[i] \in 0..255
  <2>1. \A i \in a..b : i \in 1..Len(buf)
    BY Bytes
  <2>2. QED
    BY <2>1, Bytes
<1>2. a \in Int
  OBVIOUS
<1>3. QED
  BY <1>1, <1>2, SubSeqProperties DEF ByteString

\* What is there in full is what a slice cuts out.
LEMMA SliceOf ==
    ASSUME NEW buf \in ByteString, NEW pos \in Nat \ {0}, NEW x \in ByteString,
           Matches(buf, pos, x), Entire(buf, pos, x)
    PROVE  SubSeq(buf, pos, pos + Len(x) - 1) = x
<1> DEFINE b == pos + Len(x) - 1
           y == SubSeq(buf, pos, b)
<1>1. Len(x) \in Nat /\ Len(buf) \in Nat /\ b \in Int /\ b <= Len(buf)
      /\ b - pos + 1 = Len(x) /\ (pos <= b <=> Len(x) # 0)
  BY Bytes DEF Entire
<1> HIDE DEF b
<1>2. /\ y \in ByteString /\ Len(y) = IF pos <= b THEN b - pos + 1 ELSE 0
      /\ \A i \in 1..b - pos + 1 : y[i] = buf[pos + i - 1]
  BY <1>1, Slice
<1> HIDE DEF y
<1>3. Len(y) = Len(x)
  BY <1>1, <1>2
<1>4. ASSUME NEW i \in 1..Len(x) PROVE y[i] = x[i]
  <2>1. pos + i - 1 <= Len(buf)
    BY <1>1 DEF b
  <2>2. buf[pos + i - 1] = x[i]
    BY <2>1 DEF Matches
  <2>3. QED
    BY <1>1, <1>2, <2>2
<1>5. y = x
  <2>1. y \in Seq(0..255) /\ x \in Seq(0..255)
    BY <1>2 DEF ByteString
  <2>2. QED
    BY <1>3, <1>4, <2>1, SeqEqual
<1>6. QED
  BY <1>5 DEF y, b

\* A varint that is read at pos is a number and ends in the string.
LEMMA VarintEnds ==
    ASSUME NEW buf \in ByteString, NEW pos \in Nat \ {0}
    PROVE  \/ DecodeVarint(buf, pos) = ValueError
           \/ /\ DecodeVarint(buf, pos) \in [value : Nat, next : Nat]
              /\ pos < DecodeVarint(buf, pos).next
              /\ DecodeVarint(buf, pos).next <= Len(buf) + 1
<1>1. PICK L : /\ Decodes(buf, pos, L) /\ DecodeVarint(buf, pos) = L[MAX_VARINT]
               /\ \A k \in 0..MAX_VARINT :
                         \/ L[k] = ValueError
                         \/ /\ L[k] \in [value : Nat, next : Nat]
                            /\ pos + MAX_VARINT - k < L[k].next /\ L[k].next <= Len(buf) + 1
  BY VarintLoop
<1>2. MAX_VARINT \in 0..MAX_VARINT /\ pos + MAX_VARINT - MAX_VARINT = pos
  BY DEF MAX_VARINT
<1>3. QED
  BY <1>1, <1>2

\* So is a field, whatever the string.
LEMMA FieldEnds ==
    ASSUME NEW buf \in ByteString, NEW pos \in Nat \ {0}
    PROVE  \/ ReadField(buf, pos) = ValueError
           \/ /\ ReadField(buf, pos) \in [field : Field, next : Nat]
              /\ pos < ReadField(buf, pos).next /\ ReadField(buf, pos).next <= Len(buf) + 1
<1> DEFINE tag == DecodeVarint(buf, pos)
           val == IF tag = ValueError THEN ValueError ELSE FieldValue(buf, tag)
<1>0. Len(buf) \in Nat
  BY Bytes
<1>1. SUFFICES ASSUME ReadField(buf, pos) # ValueError
               PROVE  /\ ReadField(buf, pos) \in [field : Field, next : Nat]
                      /\ pos < ReadField(buf, pos).next /\ ReadField(buf, pos).next <= Len(buf) + 1
  OBVIOUS
<1>2. /\ val # ValueError /\ tag # ValueError /\ val = FieldValue(buf, tag)
      /\ ReadField(buf, pos) = [field |-> [tag |-> tag.value, value |-> val.value],
                                next  |-> val.next]
  BY <1>1 DEF ReadField
<1>3. tag.value \in Nat /\ tag.next \in Nat /\ pos < tag.next
  <2> HIDE DEF tag
  <2>1. tag \in [value : Nat, next : Nat] /\ pos < tag.next
    BY <1>2, VarintEnds DEF tag
  <2>2. QED
    BY <2>1
<1> DEFINE len == DecodeVarint(buf, tag.next)
<1> HIDE DEF tag, val
<1>4. \/ len = ValueError
      \/ /\ len.value \in Nat /\ len.next \in Nat /\ tag.next < len.next
         /\ len.next <= Len(buf) + 1
  <2>1. tag.next \in Nat \ {0}
    BY <1>3
  <2>2. \/ len = ValueError
        \/ /\ len \in [value : Nat, next : Nat] /\ tag.next < len.next
           /\ len.next <= Len(buf) + 1
    BY <2>1, VarintEnds
  <2> HIDE DEF len
  <2>3. QED
    BY <2>2
<1>5. /\ val.value \in Nat \cup ByteString /\ val.next \in Nat
      /\ tag.next < val.next /\ val.next <= Len(buf) + 1
  <2>1. CASE tag.value % 8 = WIRE_VARINT
    <3>1. val = len
      BY <1>2, <2>1 DEF FieldValue
    <3> HIDE DEF len
    <3>2. QED
      BY <1>2, <1>4, <3>1
  <2>2. CASE tag.value % 8 # WIRE_VARINT /\ tag.value % 8 = WIRE_LENGTH_DELIMITED
    <3>1. val = Payload(buf, len)
      BY <1>2, <2>2 DEF FieldValue
    <3> HIDE DEF len
    <3>2. len # ValueError /\ ~(len.next + len.value - 1 > Len(buf))
      BY <1>2, <3>1 DEF Payload
    <3>3. val = [value |-> SubSeq(buf, len.next, len.next + len.value - 1),
                 next  |-> len.next + len.value]
      BY <3>1, <3>2 DEF Payload
    <3>4. len.next \in Nat \ {0} /\ len.next + len.value - 1 \in Int
          /\ len.next + len.value - 1 <= Len(buf)
      BY <1>0, <1>3, <1>4, <3>2
    <3>5. SubSeq(buf, len.next, len.next + len.value - 1) \in ByteString
      BY <3>4, Slice
    <3>6. val.value \in ByteString /\ val.next = len.next + len.value
      BY <3>3, <3>5
    <3>7. len.value \in Nat /\ tag.next < len.next
      BY <1>4, <3>2
    <3>8. QED
      BY <1>0, <1>3, <3>4, <3>6, <3>7
  <2>3. CASE tag.value % 8 # WIRE_VARINT /\ tag.value % 8 # WIRE_LENGTH_DELIMITED
    BY <1>2, <2>3 DEF FieldValue
  <2>4. QED
    BY <2>1, <2>2, <2>3
<1>6. ReadField(buf, pos) \in [field : Field, next : Nat] /\ ReadField(buf, pos).next = val.next
  BY <1>2, <1>3, <1>5 DEF Field
<1>7. pos < val.next
  BY <1>3, <1>5
<1>8. QED
  BY <1>5, <1>6, <1>7

\* Concatenations of byte strings.
LEMMA Joined ==
    ASSUME NEW x \in ByteString, NEW y \in ByteString
    PROVE  /\ x \o y \in ByteString /\ Len(x \o y) = Len(x) + Len(y)
           /\ Len(x) \in Nat /\ Len(y) \in Nat
           /\ \A i \in 1..Len(x) + Len(y) : (x \o y)[i] = IF i <= Len(x) THEN x[i] ELSE y[i - Len(x)]
  BY ConcatProperties, Bytes DEF ByteString

\* What follows the tag of a field.
Body(f) == IF f.tag % 8 = WIRE_VARINT THEN EncodeVarint[f.value]
           ELSE EncodeVarint[Len(f.value)] \o f.value

\* A field is written as some bytes.
LEMMA FieldBytes ==
    ASSUME NEW f, Proper(f)
    PROVE  /\ EncodeField(f) = EncodeVarint[f.tag] \o Body(f)
           /\ f.tag \in Nat /\ EncodeVarint[f.tag] \in ByteString /\ Body(f) \in ByteString
           /\ EncodeField(f) \in ByteString
           /\ Len(EncodeField(f)) = Len(EncodeVarint[f.tag]) + Len(Body(f))
           /\ Len(EncodeField(f)) \in Nat \ {0}
<1>1. f.tag \in Nat
  BY DEF Proper, Field
<1>2. EncodeVarint[f.tag] \in ByteString /\ Len(EncodeVarint[f.tag]) \in Nat \ {0}
  BY <1>1, VarintBytes
<1>3. Body(f) \in ByteString
  <2>1. CASE f.tag % 8 = WIRE_VARINT
    <3>1. f.value \in Nat
      BY <2>1 DEF Proper, WIRE_VARINT, WIRE_LENGTH_DELIMITED
    <3>2. QED
      BY <2>1, <3>1, VarintBytes DEF Body
  <2>2. CASE f.tag % 8 # WIRE_VARINT
    <3>1. f.value \in ByteString /\ Len(f.value) \in Nat
      BY <2>2, Bytes DEF Proper
    <3>2. EncodeVarint[Len(f.value)] \in ByteString
      BY <3>1, VarintBytes
    <3>3. QED
      BY <2>2, <3>1, <3>2, Joined DEF Body
  <2>3. QED
    BY <2>1, <2>2
<1>4. EncodeField(f) = EncodeVarint[f.tag] \o Body(f)
  BY DEF EncodeField, Body
<1>5. /\ EncodeField(f) \in ByteString /\ Len(Body(f)) \in Nat
      /\ Len(EncodeField(f)) = Len(EncodeVarint[f.tag]) + Len(Body(f))
  BY <1>2, <1>3, <1>4, Joined
<1>6. QED
  BY <1>1, <1>2, <1>3, <1>4, <1>5

\* Where the value of a field starts it is read, if it is whole.
LEMMA ValueRead ==
    ASSUME NEW f, Proper(f), NEW buf \in ByteString, NEW pos \in Nat \ {0},
           Matches(buf, pos, Body(f)), NEW tag, tag.value = f.tag, tag.next = pos
    PROVE  FieldValue(buf, tag) = IF Entire(buf, pos, Body(f))
                                  THEN [value |-> f.value, next |-> pos + Len(Body(f))]
                                  ELSE ValueError
<1>1. CASE f.tag % 8 = WIRE_VARINT
  <2>1. f.value \in Nat /\ Readable(f.value) /\ Body(f) = EncodeVarint[f.value]
    BY <1>1 DEF Proper, Body, WIRE_VARINT, WIRE_LENGTH_DELIMITED
  <2>2. FieldValue(buf, tag) = DecodeVarint(buf, pos)
    BY <1>1 DEF FieldValue
  <2>3. QED
    BY <2>1, <2>2, VarintRead
<1>2. CASE f.tag % 8 # WIRE_VARINT
  <2> DEFINE x == f.value
             n == Len(x)
             l == EncodeVarint[n]
             next == pos + Len(l)
  <2>1. f.tag % 8 = WIRE_LENGTH_DELIMITED /\ x \in ByteString /\ Readable(n) /\ Body(f) = l \o x
    BY <1>2 DEF Proper, Body
  <2>2. FieldValue(buf, tag) = Payload(buf, DecodeVarint(buf, pos))
    BY <1>2, <2>1 DEF FieldValue
  <2> HIDE DEF x
  <2>3. n \in Nat /\ l \in ByteString /\ Len(l) \in Nat \ {0}
    BY <2>1, Bytes, VarintBytes
  <2> HIDE DEF n, l
  <2>4. Matches(buf, pos, l) /\ Matches(buf, next, x) /\ Len(Body(f)) = Len(l) + n
    <3>1. Matches(buf, pos, l \o x) /\ pos \in Nat
      BY <2>1
    <3>2. Matches(buf, pos, l) /\ Matches(buf, pos + Len(l), x) /\ Len(l \o x) = Len(l) + Len(x)
      BY <2>1, <2>3, <3>1, MatchesBoth
    <3>3. QED
      BY <2>1, <3>2 DEF n
  <2>5. DecodeVarint(buf, pos) = IF Entire(buf, pos, l) THEN [value |-> n, next |-> next]
                                 ELSE ValueError
    BY <2>1, <2>3, <2>4, VarintRead DEF l
  <2>6. Len(buf) \in Nat /\ next \in Nat \ {0} /\ next + n = pos + Len(Body(f))
    BY <2>3, <2>4, Bytes
  <2>7. Entire(buf, pos, Body(f)) <=> next + n - 1 <= Len(buf)
    BY <2>3, <2>4, <2>6 DEF Entire
  <2>8. Entire(buf, pos, l) <=> next - 1 <= Len(buf)
    BY <2>3, <2>6 DEF Entire
  <2> HIDE DEF next
  <2>9. CASE ~Entire(buf, pos, l)
    <3>1. ~Entire(buf, pos, Body(f))
      BY <2>3, <2>6, <2>7, <2>8, <2>9
    <3>2. QED
      BY <2>2, <2>5, <2>9, <3>1 DEF Payload
  <2>10. CASE Entire(buf, pos, l)
    <3> DEFINE len == [value |-> n, next |-> next]
    <3>1. len \in [value : Nat \cup ByteString, next : Nat]
      BY <2>3, <2>6
    <3>2. len # ValueError /\ len.value = n /\ len.next = next
      BY <3>1, CodecAssumption
    <3>3. FieldValue(buf, tag) = Payload(buf, len)
      BY <2>2, <2>5, <2>10
    <3> HIDE DEF len
    <3>4. CASE next + n - 1 > Len(buf)
      <4>1. ~Entire(buf, pos, Body(f))
        BY <2>3, <2>6, <2>7, <3>4
      <4>2. QED
        BY <3>2, <3>3, <3>4, <4>1 DEF Payload
    <3>5. CASE ~(next + n - 1 > Len(buf))
      <4>1. Entire(buf, pos, Body(f))
        BY <2>3, <2>6, <2>7, <3>5
      <4>2. Entire(buf, next, x)
        BY <2>3, <2>6, <3>5 DEF Entire, n
      <4>3. SubSeq(buf, next, next + n - 1) = x
        BY <2>1, <2>4, <2>6, <4>2, SliceOf DEF n
      <4>4. FieldValue(buf, tag) = [value |-> x, next |-> next + n]
        BY <3>2, <3>3, <3>5, <4>3 DEF Payload
      <4>5. QED
        BY <2>6, <4>1, <4>4 DEF x
    <3>6. QED
      BY <3>4, <3>5
  <2>11. QED
    BY <2>9, <2>10
<1>3. QED
  BY <1>1, <1>2

\* Where a field starts it is read, if it is whole; a part of it is refused.
LEMMA FieldRead ==
    ASSUME NEW f, Proper(f), NEW buf \in ByteString, NEW pos \in Nat \ {0},
           Matches(buf, pos, EncodeField(f))
    PROVE  ReadField(buf, pos) = IF Entire(buf, pos, EncodeField(f))
                                 THEN [field |-> f, next |-> pos + Len(EncodeField(f))]
                                 ELSE ValueError
<1> DEFINE t == EncodeVarint[f.tag]
           b == Body(f)
           e == EncodeField(f)
           next == pos + Len(t)
           tag == DecodeVarint(buf, pos)
<1>1. /\ e = t \o b /\ f.tag \in Nat /\ t \in ByteString /\ b \in ByteString
      /\ Len(e) = Len(t) + Len(b) /\ Len(t) \in Nat /\ Len(b) \in Nat /\ Len(buf) \in Nat
  BY FieldBytes, Bytes
<1>2. Readable(f.tag) /\ f = [tag |-> f.tag, value |-> f.value]
      /\ f.value \in Nat \cup ByteString
  BY DEF Proper, Field
<1>3. Matches(buf, pos, t) /\ Matches(buf, next, b)
  <2>1. Matches(buf, pos, t \o b) /\ pos \in Nat
    BY <1>1
  <2> HIDE DEF t, b
  <2>2. QED
    BY <1>1, <2>1, MatchesBoth
<1>4. tag = IF Entire(buf, pos, t) THEN [value |-> f.tag, next |-> next] ELSE ValueError
  BY <1>1, <1>2, <1>3, VarintRead
<1>5. next \in Nat \ {0} /\ next + Len(b) = pos + Len(e)
  BY <1>1
<1>6. Entire(buf, pos, t) <=> next - 1 <= Len(buf)
  BY <1>1, <1>5 DEF Entire
<1>7. Entire(buf, pos, e) <=> next + Len(b) - 1 <= Len(buf)
  BY <1>1, <1>5 DEF Entire
<1>8. Entire(buf, next, b) <=> next + Len(b) - 1 <= Len(buf)
  BY <1>1, <1>5 DEF Entire
<1> HIDE DEF next, t, b, e
<1>9. CASE ~Entire(buf, pos, t)
  <2>1. ~Entire(buf, pos, e)
    BY <1>1, <1>5, <1>6, <1>7, <1>9
  <2>2. tag = ValueError
    BY <1>4, <1>9
  <2>3. ReadField(buf, pos) = ValueError
    BY <2>2 DEF ReadField
  <2>4. QED
    BY <2>1, <2>3 DEF e
<1>10. CASE Entire(buf, pos, t)
  <2> HIDE DEF tag
  <2>1. tag = [value |-> f.tag, next |-> next]
    BY <1>4, <1>10
  <2>2. tag \in [value : Nat \cup ByteString, next : Nat] /\ tag.value = f.tag /\ tag.next = next
    BY <1>1, <1>5, <2>1
  <2>3. tag # ValueError
    BY <2>2, CodecAssumption
  <2> DEFINE val == FieldValue(buf, tag)
  <2>4. val = IF Entire(buf, next, b) THEN [value |-> f.value, next |-> next + Len(b)]
              ELSE ValueError
    BY <1>3, <1>5, <2>2, ValueRead DEF b
  <2>5. ReadField(buf, pos) =
            IF val = ValueError THEN ValueError
            ELSE [field |-> [tag |-> f.tag, value |-> val.value], next |-> val.next]
    BY <2>2, <2>3 DEF ReadField, tag
  <2> HIDE DEF val
  <2>6. CASE Entire(buf, next, b)
    <3>1. val = [value |-> f.value, next |-> pos + Len(e)]
      BY <1>5, <2>4, <2>6
    <3>2. pos + Len(e) \in Nat
      BY <1>1
    <3>3. val \in [value : Nat \cup ByteString, next : Nat] /\ val.value = f.value
          /\ val.next = pos + Len(e)
      BY <1>2, <3>1, <3>2
    <3>4. val # ValueError
      BY <3>3, CodecAssumption
    <3>5. ReadField(buf, pos) = [field |-> f, next |-> pos + Len(e)]
      BY <1>2, <2>5, <3>3, <3>4
    <3>6. Entire(buf, pos, e)
      BY <1>7, <1>8, <2>6
    <3>7. QED
      BY <3>5, <3>6 DEF e
  <2>7. CASE ~Entire(buf, next, b)
    <3>1. ReadField(buf, pos) = ValueError
      BY <2>4, <2>5, <2>7
    <3>2. ~Entire(buf, pos, e)
      BY <1>7, <1>8, <2>7
    <3>3. QED
      BY <3>1, <3>2 DEF e
  <2>8. QED
    BY <2>6, <2>7
<1>11. QED
  BY <1>9, <1>10

-----------------------------------------------------------------------------
(* Sequences of sequences, one after the other                             *)

\* P[i] is what the first i sequences of ss make.
Flattens(S, ss, P) ==
    /\ P \in [0..Len(ss) -> Seq(S)] /\ P[0] = <<>>
    /\ \A i \in 1..Len(ss) : P[i] = P[i - 1] \o ss[i]

\* f is the loop of FlattenSeq.
Joins(ss, f) == f = [i \in 1..Len(ss) |-> IF i = 1 THEN ss[i] ELSE f[i - 1] \o ss[i]]

\* Such a loop exists.
LEMMA JoinerExists ==
    ASSUME NEW S, NEW ss \in Seq(Seq(S))
    PROVE  \E f : Joins(ss, f)
<1> DEFINE D == 1..Len(ss)
           T == Seq(S)
           One(f, i) == IF i = 1 THEN ss[i] ELSE f[i - 1] \o ss[i]
           Step(f) == [i \in D |-> One(f, i)]
           F == [f \in [D -> T] |-> Step(f)]
<1>0. Len(ss) \in Nat /\ D \in SUBSET Nat /\ \A i \in D : ss[i] \in Seq(S)
  BY ElementOfSeq
<1>1. ASSUME NEW f \in [D -> T], NEW i \in D PROVE One(f, i) \in T
  <2>1. ss[i] \in Seq(S)
    BY <1>0
  <2>2. i # 1 => f[i - 1] \in Seq(S)
    <3>1. i # 1 => i - 1 \in D
      BY <1>0
    <3> HIDE DEF D
    <3>2. QED
      BY <3>1
  <2>3. i # 1 => f[i - 1] \o ss[i] \in Seq(S)
    BY <2>1, <2>2, ConcatProperties
  <2>4. QED
    BY <2>1, <2>3
<1>2. ASSUME NEW f \in [D -> T], NEW g \in [D -> T], NEW i \in D,
             \A m \in D : m < i => f[m] = g[m]
      PROVE  One(f, i) = One(g, i)
  <2>1. i # 1 => f[i - 1] = g[i - 1]
    BY <1>0, <1>2
  <2>2. QED
    BY <2>1
<1> HIDE DEF One, T
<1>3. ASSUME NEW f \in [D -> T] PROVE Step(f) \in [D -> T]
  BY <1>1
<1>4. \A f \in [D -> T] : F[f] = Step(f)
  OBVIOUS
<1>5. Contracts(F, D, T)
  <2>1. F \in [[D -> T] -> [D -> T]]
    BY <1>3
  <2>2. ASSUME NEW f \in [D -> T], NEW g \in [D -> T], NEW i \in D,
               \A m \in D : m < i => f[m] = g[m]
        PROVE  F[f][i] = F[g][i]
    <3>1. F[f][i] = One(f, i) /\ F[g][i] = One(g, i)
      OBVIOUS
    <3>2. QED
      BY <1>2, <2>2, <3>1
  <2> HIDE DEF F, Step, D
  <2>3. QED
    BY <2>1, <2>2 DEF Contracts
<1>6. T # {}
  BY DEF T
<1>7. PICK f \in [D -> T] : f = F[f]
  <2> HIDE DEF F, D
  <2>1. QED
    BY <1>0, <1>5, <1>6, Recursion
<1>8. f = Step(f)
  BY <1>4, <1>7
<1>9. QED
  BY <1>8 DEF Joins, One

\* FlattenSeq makes what its sequences make one after the other.
LEMMA Flattened ==
    ASSUME NEW S, NEW ss \in Seq(Seq(S))
    PROVE  \E P : Flattens(S, ss, P) /\ FlattenSeq(ss) = P[Len(ss)]
<1> DEFINE N == Len(ss)
<1>0. N \in Nat /\ \A i \in 1..N : ss[i] \in Seq(S)
  BY ElementOfSeq
<1>1. CASE N = 0
  <2> DEFINE P == [i \in 0..N |-> <<>>]
  <2>1. ss = <<>>
    BY <1>1, EmptySeq
  <2>2. FlattenSeq(ss) = <<>>
    BY <1>1, <2>1 DEF FlattenSeq
  <2>3. Flattens(S, ss, P) /\ P[N] = <<>>
    BY <1>0, <1>1 DEF Flattens
  <2>4. QED
    BY <2>2, <2>3
<1>2. CASE N # 0
  <2> DEFINE f == CHOOSE g : Joins(ss, g)
             P == [i \in 0..N |-> IF i = 0 THEN <<>> ELSE f[i]]
  <2>1. Joins(ss, f)
    BY JoinerExists, Zenon
  <2>2. FlattenSeq(ss) = f[N]
    BY <1>2 DEF FlattenSeq, Joins
  <2> HIDE DEF f
  <2>3. \A i \in 1..N : f[i] = IF i = 1 THEN ss[i] ELSE f[i - 1] \o ss[i]
    BY <2>1 DEF Joins
  <2> DEFINE Bad == {i \in 1..N : f[i] \notin Seq(S)}
  <2>4. Bad = {}
    <3>1. SUFFICES ASSUME Bad # {} PROVE FALSE
      OBVIOUS
    <3>2. PICK m \in Bad : \A i \in Bad : m <= i
      <4>1. Bad \in SUBSET Nat
        BY <1>0
      <4> HIDE DEF Bad
      <4>2. QED
        BY <3>1, <4>1, LeastNat
    <3>3. m \in 1..N /\ f[m] \notin Seq(S) /\ ss[m] \in Seq(S)
      BY <1>0
    <3>4. m # 1
      BY <2>3, <3>3
    <3>5. m - 1 \in 1..N /\ m - 1 \notin Bad
      <4> HIDE DEF Bad, N
      <4>1. QED
        BY <1>0, <3>2, <3>3, <3>4
    <3>6. f[m - 1] \in Seq(S)
      BY <3>5
    <3>7. f[m - 1] \o ss[m] \in Seq(S)
      BY <3>3, <3>6, ConcatProperties
    <3>8. QED
      BY <2>3, <3>3, <3>4, <3>7
  <2>5. \A i \in 1..N : f[i] \in Seq(S)
    BY <2>4
  <2>6. P \in [0..N -> Seq(S)] /\ P[0] = <<>> /\ \A i \in 1..N : P[i] = f[i]
    <3> HIDE DEF N
    <3>1. 0 \in 0..N /\ \A i \in 1..N : i \in 0..N /\ i # 0
      BY <1>0
    <3>2. ASSUME NEW i \in 0..N PROVE (IF i = 0 THEN <<>> ELSE f[i]) \in Seq(S)
      <4>1. i # 0 => i \in 1..N
        BY <1>0
      <4>2. QED
        BY <2>5, <4>1
    <3>3. QED
      BY <3>1, <3>2
  <2> HIDE DEF P, Bad
  <2>7. ASSUME NEW i \in 1..N PROVE P[i] = P[i - 1] \o ss[i]
    <3>1. CASE i = 1
      <4>1. P[i] = ss[i] /\ P[i - 1] = <<>> /\ ss[i] \in Seq(S)
        BY <1>0, <2>3, <2>6, <3>1
      <4>2. <<>> \o ss[i] = ss[i]
        BY <4>1, ConcatEmptySeq
      <4>3. QED
        BY <4>1, <4>2
    <3>2. CASE i # 1
      <4>1. i - 1 \in 1..N
        BY <1>0, <3>2
      <4>2. QED
        BY <2>3, <2>6, <3>2, <4>1
    <3>3. QED
      BY <3>1, <3>2
  <2>8. Flattens(S, ss, P)
    BY <2>6, <2>7 DEF Flattens
  <2>9. P[N] = f[N]
    BY <1>0, <1>2, <2>6
  <2>10. QED
    BY <2>2, <2>8, <2>9
<1>3. QED
  BY <1>1, <1>2

\* The parts are sequences.
LEMMA FlattensType ==
    ASSUME NEW S, NEW ss \in Seq(Seq(S)), NEW P, Flattens(S, ss, P)
    PROVE  /\ Len(ss) \in Nat /\ P[0] = <<>> /\ P[0] \in Seq(S) /\ P[Len(ss)] \in Seq(S)
           /\ \A i \in 1..Len(ss) : /\ i - 1 \in 0..Len(ss)
                                    /\ P[i - 1] \in Seq(S) /\ P[i] \in Seq(S) /\ ss[i] \in Seq(S)
                                    /\ P[i] = P[i - 1] \o ss[i]
<1>1. Len(ss) \in Nat /\ \A i \in 1..Len(ss) : ss[i] \in Seq(S)
  BY ElementOfSeq
<1>2. P[0] \in Seq(S) /\ P[Len(ss)] \in Seq(S)
  BY <1>1 DEF Flattens
<1>3. ASSUME NEW i \in 1..Len(ss)
      PROVE  i - 1 \in 0..Len(ss) /\ P[i - 1] \in Seq(S) /\ P[i] \in Seq(S)
  <2>1. i - 1 \in 0..Len(ss) /\ i \in 0..Len(ss)
    BY <1>1
  <2>2. QED
    BY <2>1 DEF Flattens
<1>4. QED
  BY <1>1, <1>2, <1>3 DEF Flattens

\* It makes a sequence; nothing of nothing.
LEMMA FlattenType ==
    ASSUME NEW S, NEW ss \in Seq(Seq(S))
    PROVE  FlattenSeq(ss) \in Seq(S) /\ (Len(ss) = 0 => FlattenSeq(ss) = <<>>)
<1>1. PICK P : Flattens(S, ss, P) /\ FlattenSeq(ss) = P[Len(ss)]
  BY Flattened
<1>2. QED
  BY <1>1, FlattensType

\* Flattening goes part by part.
LEMMA FlattenBoth ==
    ASSUME NEW S, NEW a \in Seq(Seq(S)), NEW b \in Seq(Seq(S))
    PROVE  FlattenSeq(a \o b) = FlattenSeq(a) \o FlattenSeq(b)
<1> DEFINE c == a \o b
           M == Len(a)
           N == Len(b)
<1>1. /\ c \in Seq(Seq(S)) /\ Len(c) = M + N /\ M \in Nat /\ N \in Nat
      /\ \A i \in 1..M + N : c[i] = IF i <= M THEN a[i] ELSE b[i - M]
  BY ConcatProperties
<1> HIDE DEF c
<1>2. PICK P : Flattens(S, c, P) /\ FlattenSeq(c) = P[Len(c)]
  BY <1>1, Flattened
<1>3. PICK A : Flattens(S, a, A) /\ FlattenSeq(a) = A[M]
  BY Flattened
<1>4. PICK B : Flattens(S, b, B) /\ FlattenSeq(b) = B[N]
  BY Flattened
<1>5. /\ P[0] = <<>>
      /\ \A i \in 1..M + N : P[i - 1] \in Seq(S) /\ P[i] \in Seq(S) /\ P[i] = P[i - 1] \o c[i]
  <2>1. /\ P[0] = <<>>
        /\ \A i \in 1..Len(c) : P[i - 1] \in Seq(S) /\ P[i] \in Seq(S) /\ P[i] = P[i - 1] \o c[i]
    <3> HIDE DEF M, N
    <3>1. QED
      BY <1>1, <1>2, FlattensType
  <2>2. QED
    BY <1>1, <2>1
<1>6. /\ A[0] = <<>> /\ A[M] \in Seq(S)
      /\ \A i \in 1..M : A[i - 1] \in Seq(S) /\ A[i] \in Seq(S) /\ A[i] = A[i - 1] \o a[i]
  BY <1>3, FlattensType
<1>7. /\ B[0] = <<>>
      /\ \A i \in 1..N : B[i - 1] \in Seq(S) /\ B[i] \in Seq(S) /\ b[i] \in Seq(S)
                         /\ B[i] = B[i - 1] \o b[i]
  BY <1>4, FlattensType
<1> HIDE DEF M, N
<1> DEFINE BadA == {i \in 0..M : P[i] # A[i]}
           BadB == {j \in 0..N : P[M + j] # A[M] \o B[j]}
<1>8. BadA = {}
  <2>1. SUFFICES ASSUME BadA # {} PROVE FALSE
    OBVIOUS
  <2>2. PICK m \in BadA : \A i \in BadA : m <= i
    <3>1. BadA \in SUBSET Nat
      BY <1>1
    <3> HIDE DEF BadA
    <3>2. QED
      BY <2>1, <3>1, LeastNat
  <2>3. m \in 0..M /\ P[m] # A[m]
    OBVIOUS
  <2>4. m \in 1..M
    BY <1>1, <1>5, <1>6, <2>3
  <2>5. m - 1 \in 0..M /\ m - 1 \notin BadA
    <3> HIDE DEF BadA
    <3>1. QED
      BY <1>1, <2>2, <2>4
  <2>6. P[m - 1] = A[m - 1]
    BY <2>5
  <2>7. m \in 1..M + N /\ m <= M
    BY <1>1, <2>4
  <2>8. P[m] = P[m - 1] \o c[m] /\ A[m] = A[m - 1] \o a[m] /\ c[m] = a[m]
    BY <1>1, <1>5, <1>6, <2>4, <2>7
  <2>9. QED
    BY <2>3, <2>6, <2>8
<1>9. BadB = {}
  <2>1. SUFFICES ASSUME BadB # {} PROVE FALSE
    OBVIOUS
  <2>2. PICK m \in BadB : \A i \in BadB : m <= i
    <3>1. BadB \in SUBSET 0..N
      BY Zenon
    <3>1a. BadB \in SUBSET Nat
      <4> HIDE DEF BadB
      <4>1. QED
        BY <1>1, <3>1
    <3> HIDE DEF BadB
    <3>2. QED
      BY <2>1, <3>1a, LeastNat
  <2>3. m \in 0..N /\ P[M + m] # A[M] \o B[m]
    OBVIOUS
  <2>4. m # 0
    <3>1. SUFFICES ASSUME m = 0 PROVE FALSE
      OBVIOUS
    <3>2. M \in 0..M /\ M + m = M
      BY <1>1, <3>1
    <3>3. P[M + m] = A[M]
      BY <1>8, <3>2
    <3>4. A[M] \o B[m] = A[M]
      BY <1>6, <1>7, <3>1, ConcatEmptySeq
    <3>5. QED
      BY <2>3, <3>3, <3>4
  <2>5. m \in 1..N
    BY <1>1, <2>3, <2>4
  <2>6. m - 1 \in 0..N /\ m - 1 \notin BadB
    <3> HIDE DEF BadB
    <3>1. QED
      BY <1>1, <2>2, <2>5
  <2>7. P[M + (m - 1)] = A[M] \o B[m - 1]
    BY <2>6
  <2>8. M + m \in 1..M + N /\ ~(M + m <= M) /\ (M + m) - M = m /\ (M + m) - 1 = M + (m - 1)
    BY <1>1, <2>5
  <2>9. P[M + m] = P[M + (m - 1)] \o b[m]
    BY <1>1, <1>5, <2>8
  <2>10. (A[M] \o B[m - 1]) \o b[m] = A[M] \o (B[m - 1] \o b[m])
    <3>1. A[M] \in Seq(S) /\ B[m - 1] \in Seq(S) /\ b[m] \in Seq(S)
      BY <1>6, <1>7, <2>5
    <3>2. \A x, y, z \in Seq(S) : (x \o y) \o z = x \o (y \o z)
      BY ConcatAssociative
    <3>3. QED
      BY <3>1, <3>2, Zenon
  <2>11. B[m] = B[m - 1] \o b[m]
    BY <1>7, <2>5
  <2>12. QED
    BY <2>3, <2>7, <2>9, <2>10, <2>11
<1>10. N \in 0..N
  BY <1>1
<1>11. P[M + N] = A[M] \o B[N]
  BY <1>9, <1>10
<1>12. QED
  BY <1>1, <1>2, <1>3, <1>4, <1>11 DEF c

-----------------------------------------------------------------------------
(* Messages                                                                *)

\* What a concatenation is, element by element.
LEMMA IsConcat ==
    ASSUME NEW T, NEW p \in Seq(T), NEW q \in Seq(T), NEW r \in Seq(T),
           Len(r) = Len(p) + Len(q),
           \A i \in 1..Len(p) : r[i] = p[i],
           \A i \in 1..Len(q) : r[Len(p) + i] = q[i]
    PROVE  r = p \o q
<1>1. Len(p) \in Nat /\ Len(q) \in Nat
  OBVIOUS
<1>2. /\ p \o q \in Seq(T) /\ Len(p \o q) = Len(p) + Len(q)
      /\ \A i \in 1..Len(p) + Len(q) : (p \o q)[i] = IF i <= Len(p) THEN p[i] ELSE q[i - Len(p)]
  BY ConcatProperties
<1>3. ASSUME NEW i \in 1..Len(p) + Len(q) PROVE r[i] = (p \o q)[i]
  <2>1. CASE i <= Len(p)
    <3>1. i \in 1..Len(p)
      BY <1>1, <2>1
    <3>2. QED
      BY <1>2, <2>1, <3>1
  <2>2. CASE ~(i <= Len(p))
    <3>1. i - Len(p) \in 1..Len(q) /\ Len(p) + (i - Len(p)) = i
      BY <1>1, <2>2
    <3>2. r[i] = q[i - Len(p)]
      BY <3>1
    <3>3. QED
      BY <1>2, <2>2, <3>2
  <2>3. QED
    BY <2>1, <2>2
<1>4. QED
  BY <1>2, <1>3, SeqEqual

\* A message that can be written and read.
Message(fs) == fs \in Seq(Field) /\ \A i \in 1..Len(fs) : Proper(fs[i])

\* Its fields, written.
Pieces(fs) == [i \in DOMAIN fs |-> EncodeField(fs[i])]

\* They are byte strings, as the whole is.
LEMMA PiecesType ==
    ASSUME NEW fs, Message(fs)
    PROVE  /\ Pieces(fs) \in Seq(Seq(0..255)) /\ Len(Pieces(fs)) = Len(fs) /\ Len(fs) \in Nat
           /\ \A i \in 1..Len(fs) : Pieces(fs)[i] = EncodeField(fs[i])
           /\ Encode(fs) = FlattenSeq(Pieces(fs)) /\ Encode(fs) \in ByteString
<1>1. Len(fs) \in Nat /\ DOMAIN fs = 1..Len(fs)
  BY LenProperties DEF Message
<1>2. \A i \in 1..Len(fs) : EncodeField(fs[i]) \in Seq(0..255)
  BY FieldBytes DEF Message, ByteString
<1>3. Pieces(fs) = [i \in 1..Len(fs) |-> EncodeField(fs[i])]
  BY <1>1 DEF Pieces
<1>4. Pieces(fs) \in [1..Len(fs) -> Seq(0..255)]
  BY <1>2, <1>3
<1>5. Pieces(fs) \in Seq(Seq(0..255)) /\ Len(Pieces(fs)) = Len(fs)
  BY <1>1, <1>4
<1>6. Encode(fs) = FlattenSeq(Pieces(fs))
  BY DEF Encode, Pieces
<1>7. Encode(fs) \in ByteString
  BY <1>5, <1>6, FlattenType DEF ByteString
<1>8. QED
  BY <1>1, <1>3, <1>5, <1>6, <1>7

\* Messages one after the other are a message, and are written so.
LEMMA EncodeBoth ==
    ASSUME NEW a, Message(a), NEW b, Message(b)
    PROVE  Message(a \o b) /\ Encode(a \o b) = Encode(a) \o Encode(b)
<1>1. /\ a \o b \in Seq(Field) /\ Len(a \o b) = Len(a) + Len(b) /\ Len(a) \in Nat /\ Len(b) \in Nat
      /\ \A i \in 1..Len(a) + Len(b) : (a \o b)[i] = IF i <= Len(a) THEN a[i] ELSE b[i - Len(a)]
  BY ConcatProperties DEF Message
<1>2. \A i \in 1..Len(a) + Len(b) :
          /\ i <= Len(a) => i \in 1..Len(a)
          /\ ~(i <= Len(a)) => i - Len(a) \in 1..Len(b)
  BY <1>1
<1>3. Message(a \o b)
  BY <1>1, <1>2 DEF Message
<1> DEFINE p == Pieces(a)
           q == Pieces(b)
           r == Pieces(a \o b)
<1>4. /\ p \in Seq(Seq(0..255)) /\ Len(p) = Len(a)
      /\ q \in Seq(Seq(0..255)) /\ Len(q) = Len(b)
      /\ r \in Seq(Seq(0..255)) /\ Len(r) = Len(a \o b)
      /\ \A i \in 1..Len(a) : p[i] = EncodeField(a[i])
      /\ \A i \in 1..Len(b) : q[i] = EncodeField(b[i])
      /\ \A i \in 1..Len(a \o b) : r[i] = EncodeField((a \o b)[i])
      /\ Encode(a) = FlattenSeq(p) /\ Encode(b) = FlattenSeq(q) /\ Encode(a \o b) = FlattenSeq(r)
  BY <1>3, PiecesType
<1> HIDE DEF p, q, r
<1>5. \A i \in 1..Len(a) : r[i] = p[i]
  <2>1. \A i \in 1..Len(a) : i \in 1..Len(a) + Len(b) /\ i <= Len(a)
    BY <1>1
  <2>2. QED
    BY <1>1, <1>4, <2>1
<1>6. \A i \in 1..Len(b) : r[Len(a) + i] = q[i]
  <2>1. ASSUME NEW i \in 1..Len(b) PROVE r[Len(a) + i] = q[i]
    <3>1. Len(a) + i \in 1..Len(a) + Len(b) /\ ~(Len(a) + i <= Len(a)) /\ (Len(a) + i) - Len(a) = i
      BY <1>1
    <3>2. (a \o b)[Len(a) + i] = b[i]
      BY <1>1, <3>1
    <3>3. QED
      BY <1>1, <1>4, <3>1, <3>2
  <2>2. QED
    BY <2>1
<1>7. r = p \o q
  <2> DEFINE T == Seq(0..255)
  <2>1. p \in Seq(T) /\ q \in Seq(T) /\ r \in Seq(T)
    BY <1>4
  <2> HIDE DEF T
  <2>2. /\ Len(r) = Len(p) + Len(q) /\ \A i \in 1..Len(p) : r[i] = p[i]
        /\ \A i \in 1..Len(q) : r[Len(p) + i] = q[i]
    BY <1>1, <1>4, <1>5, <1>6, Zenon
  <2>3. QED
    BY <2>1, <2>2, IsConcat
<1>8. FlattenSeq(p \o q) = FlattenSeq(p) \o FlattenSeq(q)
  BY <1>4, FlattenBoth
<1>9. QED
  BY <1>3, <1>4, <1>7, <1>8

\* The fields of a message are where the lengths of those before them say.
\* Ends[i] is where the i-th one ends.
Spans(fs, buf, Ends) ==
    /\ Ends \in [0..Len(fs) -> Nat] /\ Ends[0] = 0 /\ Ends[Len(fs)] = Len(Encode(fs))
    /\ \A i \in 1..Len(fs) : /\ Ends[i] = Ends[i - 1] + Len(EncodeField(fs[i]))
                             /\ Ends[i - 1] < Ends[i] /\ Ends[i] <= Ends[Len(fs)]
                             /\ Matches(buf, Ends[i - 1] + 1, EncodeField(fs[i]))

\* A string that starts as a message does has such spans.
LEMMA SpansExist ==
    ASSUME NEW fs, Message(fs), NEW buf \in ByteString, Matches(buf, 1, Encode(fs))
    PROVE  \E Ends : Spans(fs, buf, Ends)
<1> DEFINE N == Len(fs)
           ss == Pieces(fs)
<1>1. /\ ss \in Seq(Seq(0..255)) /\ Len(ss) = N /\ N \in Nat
      /\ \A i \in 1..N : ss[i] = EncodeField(fs[i]) /\ ss[i] \in ByteString
                         /\ Len(ss[i]) \in Nat \ {0}
      /\ Encode(fs) = FlattenSeq(ss)
  <2>1. /\ ss \in Seq(Seq(0..255)) /\ Len(ss) = N /\ N \in Nat
        /\ \A i \in 1..N : ss[i] = EncodeField(fs[i])
        /\ Encode(fs) = FlattenSeq(ss)
    BY PiecesType
  <2>2. \A i \in 1..N : EncodeField(fs[i]) \in ByteString /\ Len(EncodeField(fs[i])) \in Nat \ {0}
    BY FieldBytes DEF Message
  <2>3. QED
    BY <2>1, <2>2
<1> HIDE DEF N, ss
<1>2. PICK P : Flattens(0..255, ss, P) /\ FlattenSeq(ss) = P[N]
  <2>1. \E P : Flattens(0..255, ss, P) /\ FlattenSeq(ss) = P[Len(ss)]
    BY <1>1, Flattened
  <2>2. QED
    BY <1>1, <2>1
<1>3. /\ P[0] = <<>> /\ \A i \in 0..N : P[i] \in ByteString /\ Len(P[i]) \in Nat
      /\ \A i \in 1..N : P[i] = P[i - 1] \o ss[i]
  <2>1. P[0] = <<>> /\ (\A i \in 0..N : P[i] \in ByteString)
        /\ \A i \in 1..N : P[i] = P[i - 1] \o ss[i]
    BY <1>1, <1>2 DEF Flattens, ByteString
  <2>2. QED
    BY <2>1, Bytes
<1>4. ASSUME NEW i \in 1..N
      PROVE  /\ i - 1 \in 0..N /\ i \in 0..N
             /\ Len(P[i]) = Len(P[i - 1]) + Len(ss[i]) /\ Len(P[i - 1]) < Len(P[i])
             /\ Matches(buf, 1, P[i]) => /\ Matches(buf, 1, P[i - 1])
                                         /\ Matches(buf, Len(P[i - 1]) + 1, ss[i])
  <2>1. i - 1 \in 0..N /\ i \in 0..N
    BY <1>1
  <2>2. P[i - 1] \in ByteString /\ ss[i] \in ByteString /\ P[i] = P[i - 1] \o ss[i]
        /\ Len(P[i - 1]) \in Nat /\ Len(ss[i]) \in Nat \ {0}
    BY <1>1, <1>3, <2>1
  <2>3. Len(P[i]) = Len(P[i - 1]) + Len(ss[i])
    BY <2>2, Joined
  <2>4. Matches(buf, 1, P[i - 1] \o ss[i]) => /\ Matches(buf, 1, P[i - 1])
                                              /\ Matches(buf, 1 + Len(P[i - 1]), ss[i])
    BY <2>2, MatchesBoth
  <2>5. 1 + Len(P[i - 1]) = Len(P[i - 1]) + 1
    BY <2>2
  <2>6. QED
    <3>0. \A x \in Nat : \A y \in Nat \ {0} : \A z : z = x + y => x < z
      OBVIOUS
    <3>1. Len(P[i - 1]) < Len(P[i])
      BY <2>2, <2>3, <3>0, Zenon
    <3>2. QED
      BY <2>1, <2>2, <2>3, <2>4, <2>5, <3>1, Zenon
<1> DEFINE Good(i) == Matches(buf, 1, P[i]) /\ Len(P[i]) <= Len(P[N])
           Bad == {k \in 0..N : ~Good(N - k)}
<1>5. Bad = {}
  <2>1. SUFFICES ASSUME Bad # {} PROVE FALSE
    OBVIOUS
  <2>2. PICK k \in Bad : \A m \in Bad : k <= m
    <3>1. Bad \in SUBSET Nat
      <4> HIDE DEF Good
      <4>1. QED
        BY <1>1
    <3> HIDE DEF Bad
    <3>2. QED
      BY <2>1, <3>1, LeastNat
  <2>3. k \in 0..N /\ ~Good(N - k)
    OBVIOUS
  <2>4. k # 0
    <3>1. SUFFICES ASSUME k = 0 PROVE FALSE
      OBVIOUS
    <3>2. N - k = N /\ N \in 0..N
      BY <1>1, <3>1
    <3>3. Good(N)
      BY <1>1, <1>2, <1>3, <3>2
    <3>4. QED
      BY <2>3, <3>2, <3>3
  <2>5. k - 1 \in 0..N /\ k - 1 \notin Bad
    <3> HIDE DEF Bad
    <3>1. QED
      BY <1>1, <2>2, <2>3, <2>4
  <2>6. Good(N - (k - 1))
    BY <2>5
  <2> DEFINE i == N - (k - 1)
  <2>7. i \in 1..N /\ i - 1 = N - k
    BY <1>1, <2>3, <2>4
  <2> HIDE DEF i, Bad
  <2>8. Good(i) /\ ~Good(i - 1)
    BY <2>3, <2>6, <2>7 DEF i
  <2>9. Len(P[i - 1]) \in Nat /\ Len(P[i]) \in Nat /\ Len(P[N]) \in Nat
    BY <1>1, <1>3, <1>4, <2>7
  <2>10. Matches(buf, 1, P[i - 1]) /\ Len(P[i - 1]) < Len(P[i])
    BY <1>4, <2>7, <2>8
  <2>11. Len(P[i - 1]) <= Len(P[N])
    BY <2>8, <2>9, <2>10
  <2>12. QED
    BY <2>8, <2>10, <2>11
<1>6. ASSUME NEW i \in 0..N PROVE Good(i)
  <2>1. N - i \in 0..N /\ N - (N - i) = i
    BY <1>1
  <2> HIDE DEF Good
  <2>2. QED
    BY <1>5, <2>1
<1> DEFINE Ends == [i \in 0..N |-> Len(P[i])]
<1>7. Ends \in [0..N -> Nat] /\ \A i \in 0..N : Ends[i] = Len(P[i])
  BY <1>3
<1> HIDE DEF Ends, Bad
<1>8. Ends[0] = 0 /\ Ends[N] = Len(Encode(fs))
  <2>1. 0 \in 0..N /\ N \in 0..N /\ Len(<<>>) = 0
    BY <1>1
  <2>2. QED
    BY <1>1, <1>2, <1>3, <1>7, <2>1
<1>9. ASSUME NEW i \in 1..N
      PROVE  /\ Ends[i] = Ends[i - 1] + Len(EncodeField(fs[i]))
             /\ Ends[i - 1] < Ends[i] /\ Ends[i] <= Ends[N]
             /\ Matches(buf, Ends[i - 1] + 1, EncodeField(fs[i]))
  <2>1. i \in 0..N /\ i - 1 \in 0..N /\ N \in 0..N /\ Good(i)
    BY <1>1, <1>4, <1>6
  <2>2. Ends[i] = Len(P[i]) /\ Ends[i - 1] = Len(P[i - 1]) /\ Ends[N] = Len(P[N])
    BY <1>7, <2>1
  <2>3. ss[i] = EncodeField(fs[i])
    BY <1>1
  <2>4. QED
    BY <1>4, <2>1, <2>2, <2>3
<1>10. Spans(fs, buf, Ends)
  BY <1>7, <1>8, <1>9 DEF Spans, N
<1>11. QED
  BY <1>10

\* What a decoder's loop returns: fields, or an error.
Parsed == Seq(Field) \cup {ValueError}

\* R is the decoder's loop.
Reads(buf, R) ==
    R = [n \in 0..Len(buf) |->
            LET f == ReadField(buf, Len(buf) + 1 - n)
                rest == R[Len(buf) + 1 - f.next]
            IN  IF n = 0 THEN <<>>
                ELSE IF f = ValueError THEN ValueError
                ELSE IF rest = ValueError THEN ValueError
                ELSE <<f.field>> \o rest]

\* Such a loop exists: every round takes some bytes.
LEMMA ReaderExists ==
    ASSUME NEW buf \in ByteString
    PROVE  \E R : Reads(buf, R)
<1> DEFINE N == Len(buf)
           D == 0..N
           f(n) == ReadField(buf, N + 1 - n)
           One(R, n) == IF n = 0 THEN <<>>
                        ELSE IF f(n) = ValueError THEN ValueError
                        ELSE IF R[N + 1 - f(n).next] = ValueError THEN ValueError
                        ELSE <<f(n).field>> \o R[N + 1 - f(n).next]
           Step(R) == [n \in D |-> One(R, n)]
           F == [R \in [D -> Parsed] |-> Step(R)]
<1>0. N \in Nat /\ D \in SUBSET Nat
  BY Bytes
<1>1. ASSUME NEW n \in D, n # 0, f(n) # ValueError
      PROVE  f(n).field \in Field /\ N + 1 - f(n).next \in D /\ N + 1 - f(n).next < n
  <2> HIDE DEF N
  <2>1. N + 1 - n \in Nat \ {0} /\ n \in Nat
    BY <1>0, <1>1
  <2>2. /\ f(n) \in [field : Field, next : Nat] /\ N + 1 - n < f(n).next /\ f(n).next <= N + 1
    BY <1>1, <2>1, FieldEnds DEF N
  <2> HIDE DEF f
  <2>3. f(n).field \in Field /\ f(n).next \in Nat
    BY <2>2
  <2>4. QED
    BY <1>0, <2>1, <2>2, <2>3
<1> HIDE DEF f, D, N
<1>2. ASSUME NEW R \in [D -> Parsed], NEW n \in D PROVE One(R, n) \in Parsed
  <2>1. CASE n = 0 \/ f(n) = ValueError
    BY <2>1 DEF Parsed
  <2>2. CASE ~(n = 0 \/ f(n) = ValueError)
    <3> DEFINE rest == R[N + 1 - f(n).next]
    <3>1. f(n).field \in Field /\ rest \in Parsed
      BY <1>1, <2>2
    <3>2. CASE rest = ValueError
      BY <2>2, <3>2 DEF Parsed
    <3>3. CASE rest # ValueError
      <4>1. rest \in Seq(Field) /\ <<f(n).field>> \in Seq(Field)
        BY <3>1, <3>3 DEF Parsed
      <4>2. One(R, n) = <<f(n).field>> \o rest
        BY <2>2, <3>3
      <4> HIDE DEF rest, One
      <4>3. <<f(n).field>> \o rest \in Seq(Field)
        BY <4>1, ConcatProperties
      <4>4. QED
        BY <4>2, <4>3 DEF Parsed
    <3>4. QED
      BY <3>2, <3>3
  <2>3. QED
    BY <2>1, <2>2
<1>3. ASSUME NEW R \in [D -> Parsed], NEW Q \in [D -> Parsed], NEW n \in D,
             \A m \in D : m < n => R[m] = Q[m]
      PROVE  One(R, n) = One(Q, n)
  <2>1. n # 0 /\ f(n) # ValueError => R[N + 1 - f(n).next] = Q[N + 1 - f(n).next]
    BY <1>1, <1>3
  <2>2. QED
    BY <2>1
<1> HIDE DEF One
<1>4. ASSUME NEW R \in [D -> Parsed] PROVE Step(R) \in [D -> Parsed]
  BY <1>2
<1>5. \A R \in [D -> Parsed] : F[R] = Step(R)
  OBVIOUS
<1>6. Contracts(F, D, Parsed)
  <2>1. F \in [[D -> Parsed] -> [D -> Parsed]]
    BY <1>4
  <2>2. ASSUME NEW R \in [D -> Parsed], NEW Q \in [D -> Parsed], NEW n \in D,
               \A m \in D : m < n => R[m] = Q[m]
        PROVE  F[R][n] = F[Q][n]
    <3>1. F[R][n] = One(R, n) /\ F[Q][n] = One(Q, n)
      OBVIOUS
    <3>2. QED
      BY <1>3, <2>2, <3>1
  <2> HIDE DEF F, Step
  <2>3. QED
    BY <2>1, <2>2 DEF Contracts
<1>7. Parsed # {}
  BY DEF Parsed
<1>8. PICK R \in [D -> Parsed] : R = F[R]
  <2> HIDE DEF F
  <2>1. QED
    BY <1>0, <1>6, <1>7, Recursion
<1>9. R = Step(R)
  BY <1>5, <1>8
<1>10. QED
  BY <1>9 DEF Reads, One, f, D, N

\* Fields is the whole of such a loop.
LEMMA FieldsLoop ==
    ASSUME NEW buf \in ByteString
    PROVE  \E R : Reads(buf, R) /\ Fields(buf) = R[Len(buf)]
<1> DEFINE R == CHOOSE g : Reads(buf, g)
<1>1. Reads(buf, R)
  BY ReaderExists, Zenon
<1>2. Fields(buf) = R[Len(buf)]
  BY DEF Fields, Reads
<1>3. QED
  BY <1>1, <1>2

\* What a decoder makes of a message that may be cut: an error or the fields
\* that are whole, and all of them when nothing is missing.
LEMMA FieldsRead ==
    ASSUME NEW fs, Message(fs), NEW buf \in ByteString, Matches(buf, 1, Encode(fs)),
           Len(buf) <= Len(Encode(fs))
    PROVE  /\ Fields(buf) = ValueError \/ \E j \in 0..Len(fs) : Fields(buf) = SubSeq(fs, 1, j)
           /\ Len(buf) = Len(Encode(fs)) => Fields(buf) = fs
<1> DEFINE N == Len(fs)
           M == Len(buf)
<1>0. N \in Nat /\ M \in Nat /\ fs \in Seq(Field) /\ \A i \in 1..N : Proper(fs[i])
  BY Bytes DEF Message
<1>1. PICK Ends : Spans(fs, buf, Ends)
  BY SpansExist
<1>2. PICK R : Reads(buf, R) /\ Fields(buf) = R[M]
  BY FieldsLoop
<1>3. /\ \A i \in 0..N : Ends[i] \in Nat
      /\ Ends[0] = 0 /\ Ends[N] = Len(Encode(fs)) /\ M <= Ends[N] /\ Ends[N] \in Nat
      /\ \A i \in 1..N : /\ Ends[i] = Ends[i - 1] + Len(EncodeField(fs[i]))
                         /\ Ends[i - 1] < Ends[i] /\ Ends[i] <= Ends[N]
                         /\ Matches(buf, Ends[i - 1] + 1, EncodeField(fs[i]))
  <2>1. /\ Ends \in [0..N -> Nat] /\ Ends[0] = 0 /\ Ends[N] = Len(Encode(fs))
        /\ \A i \in 1..N : /\ Ends[i] = Ends[i - 1] + Len(EncodeField(fs[i]))
                           /\ Ends[i - 1] < Ends[i] /\ Ends[i] <= Ends[N]
                           /\ Matches(buf, Ends[i - 1] + 1, EncodeField(fs[i]))
    BY <1>1 DEF Spans
  <2>2. \A i \in 0..N : Ends[i] \in Nat
    BY <2>1
  <2>3. M <= Ends[N] /\ Ends[N] \in Nat
    BY <1>0, <2>1, <2>2
  <2>4. QED
    BY <2>1, <2>2, <2>3
<1>4. \A n \in 0..M : R[n] = LET f == ReadField(buf, M + 1 - n)
                                 rest == R[M + 1 - f.next]
                             IN  IF n = 0 THEN <<>>
                                 ELSE IF f = ValueError THEN ValueError
                                 ELSE IF rest = ValueError THEN ValueError
                                 ELSE <<f.field>> \o rest
  BY <1>2 DEF Reads
<1> HIDE DEF N, M
<1> DEFINE Rest(i, j) == R[M - Ends[i]] = SubSeq(fs, i + 1, j)
           Good(i) == Ends[i] <= M =>
                          /\ R[M - Ends[i]] = ValueError \/ \E j \in i..N : Rest(i, j)
                          /\ M = Ends[N] => Rest(i, N)
           Bad == {k \in 0..N : ~Good(N - k)}
<1>5. Bad = {}
  <2>1. SUFFICES ASSUME Bad # {} PROVE FALSE
    OBVIOUS
  <2>2. PICK k \in Bad : \A m \in Bad : k <= m
    <3>1. Bad \in SUBSET Nat
      <4> HIDE DEF Good
      <4>1. QED
        BY <1>0
    <3> HIDE DEF Bad
    <3>2. QED
      BY <2>1, <3>1, LeastNat
  <2>3. k \in 0..N /\ ~Good(N - k)
    OBVIOUS
  <2>4. k # 0 => k - 1 \in 0..N /\ k - 1 \notin Bad
    <3> HIDE DEF Bad
    <3>1. QED
      BY <1>0, <2>2, <2>3
  <2>5. k # 0 => Good(N - (k - 1))
    <3> HIDE DEF Good
    <3>1. QED
      BY <2>4
  <2> DEFINE i == N - k
  <2>6. i \in 0..N /\ N - (k - 1) = i + 1 /\ (k = 0 => i = N) /\ (k # 0 => i + 1 \in 1..N)
        /\ (i + 1) - 1 = i
    BY <1>0, <2>3
  <2>7. ~Good(i) /\ (k # 0 => Good(i + 1))
    <3> HIDE DEF Good
    <3>1. QED
      BY <2>3, <2>5, <2>6
  <2>8. Ends[i] <= M /\ Ends[i] \in Nat
    BY <1>3, <2>6, <2>7
  <2> HIDE DEF i, Bad
  <2>9. CASE Ends[i] = M
    <3>1. R[M - Ends[i]] = <<>>
      <4>1. M - Ends[i] = 0 /\ 0 \in 0..M
        BY <1>0, <2>8, <2>9
      <4>2. R[0] = <<>>
        BY <1>4, <4>1
      <4>3. QED
        BY <4>1, <4>2
    <3>2. SubSeq(fs, i + 1, i) = <<>>
      <4>1. i + 1 \in Int /\ i \in Int /\ i < i + 1
        BY <1>0, <2>6
      <4>2. QED
        BY <4>1, SubSeqEmpty
    <3>3. Rest(i, i) /\ i \in i..N
      BY <1>0, <2>6, <3>1, <3>2
    <3>4. k # 0 => Ends[i] < Ends[N]
      <4>1. k # 0 => i + 1 \in 1..N /\ i + 1 \in 0..N
        BY <1>0, <2>6
      <4>2. k # 0 => Ends[i] < Ends[i + 1] /\ Ends[i + 1] <= Ends[N] /\ Ends[i + 1] \in Nat
        BY <1>3, <2>6, <4>1
      <4>3. QED
        BY <1>3, <2>8, <4>2
    <3>5. M = Ends[N] => i = N
      <4>1. M = Ends[N] => k = 0
        BY <1>0, <1>3, <2>8, <2>9, <3>4
      <4>2. QED
        BY <2>6, <4>1
    <3>6. Good(i)
      <4> HIDE DEF Rest
      <4>1. QED
        BY <3>3, <3>5
    <3>7. QED
      BY <2>7, <3>6
  <2>10. CASE Ends[i] < M
    <3>1. k # 0
      <4>1. k = 0 => Ends[i] = Ends[N]
        BY <2>6
      <4>2. QED
        BY <1>0, <1>3, <2>8, <2>10, <4>1
    <3> DEFINE f == fs[i + 1]
               e == EncodeField(f)
               n == M - Ends[i]
               r == ReadField(buf, M + 1 - n)
    <3>2. /\ i + 1 \in 1..N /\ i + 1 \in 0..N /\ Ends[i + 1] \in Nat
          /\ Ends[i + 1] = Ends[i] + Len(e) /\ Ends[i + 1] <= Ends[N]
          /\ Matches(buf, Ends[i] + 1, e) /\ Proper(f)
      <4>1. i + 1 \in 1..N /\ i + 1 \in 0..N
        BY <1>0, <2>6, <3>1
      <4>2. QED
        BY <1>0, <1>3, <2>6, <4>1
    <3>3. Len(e) \in Nat \ {0}
      BY <3>2, FieldBytes
    <3>4. n \in 0..M /\ n # 0 /\ M + 1 - n = Ends[i] + 1 /\ Ends[i] + 1 \in Nat \ {0}
      BY <1>0, <2>8, <2>10
    <3> HIDE DEF f, e, n
    <3>5. r = IF Entire(buf, Ends[i] + 1, e)
              THEN [field |-> f, next |-> Ends[i] + 1 + Len(e)] ELSE ValueError
      BY <3>2, <3>4, FieldRead DEF e
    <3>6. Entire(buf, Ends[i] + 1, e) <=> Ends[i + 1] <= M
      BY <1>0, <2>8, <3>2, <3>3 DEF Entire, M
    <3>7. Ends[i] + 1 + Len(e) = Ends[i + 1] + 1 /\ M + 1 - (Ends[i + 1] + 1) = M - Ends[i + 1]
      <4> DEFINE x == Ends[i]
                 y == Ends[i + 1]
                 l == Len(e)
      <4>1. x \in Nat /\ y \in Nat /\ l \in Nat /\ M \in Nat /\ y = x + l
        BY <1>0, <2>8, <3>2, <3>3
      <4> HIDE DEF x, y, l
      <4>2. x + 1 + l = y + 1 /\ M + 1 - (y + 1) = M - y
        BY <4>1
      <4>3. QED
        BY <4>2 DEF x, y, l
    <3>8. R[n] = LET rest == R[M + 1 - r.next]
                 IN  IF r = ValueError THEN ValueError
                     ELSE IF rest = ValueError THEN ValueError
                     ELSE <<r.field>> \o rest
      BY <1>4, <3>4
    <3> HIDE DEF r
    <3>9. CASE ~(Ends[i + 1] <= M)
      <4>1. R[n] = ValueError
        BY <3>5, <3>6, <3>8, <3>9
      <4>2. M # Ends[N]
        BY <1>0, <3>2, <3>9
      <4>3. Good(i)
        BY <4>1, <4>2 DEF n
      <4>4. QED
        BY <2>7, <4>3
    <3>10. CASE Ends[i + 1] <= M
      <4>1. r = [field |-> f, next |-> Ends[i + 1] + 1]
        BY <3>5, <3>6, <3>7, <3>10
      <4>2. f \in Field /\ Ends[i + 1] + 1 \in Nat
        BY <3>2 DEF Proper
      <4>3. r \in [field : Field, next : Nat] /\ r.field = f /\ r.next = Ends[i + 1] + 1
        BY <4>1, <4>2
      <4>4. r # ValueError
        BY <4>3, CodecAssumption
      <4> DEFINE rest == R[M - Ends[i + 1]]
      <4>5. R[n] = IF rest = ValueError THEN ValueError ELSE <<f>> \o rest
        BY <3>7, <3>8, <4>3, <4>4
      <4>6. ASSUME NEW j \in (i + 1)..N, Rest(i + 1, j) PROVE Rest(i, j)
        <5>1. rest = SubSeq(fs, i + 1 + 1, j)
          BY <4>6
        <5>2. i + 1 \in 1..Len(fs) /\ j \in (i + 1)..Len(fs)
          BY <3>2 DEF N
        <5>3. SubSeq(fs, i + 1, j) = <<f>> \o SubSeq(fs, i + 1 + 1, j)
          BY <1>0, <5>2, SubSeqRecursiveFirst DEF f
        <5>4. rest \in Seq(Field)
          <6>1. \A m \in (i + 1 + 1)..j : fs[m] \in Field
            <7>1. \A m \in (i + 1 + 1)..j : m \in 1..Len(fs)
              BY <1>0, <2>6, <5>2 DEF N
            <7>2. QED
              BY <1>0, <7>1, ElementOfSeq
          <6>2. i + 1 + 1 \in Int /\ j \in Int
            BY <1>0, <2>6
          <6>3. SubSeq(fs, i + 1 + 1, j) \in Seq(Field)
            BY <6>1, <6>2, SubSeqProperties
          <6>4. QED
            BY <5>1, <6>3
        <5>5. rest # ValueError
          <6>1. ValueError \notin Seq(Field)
            BY CodecAssumption
          <6>2. QED
            BY <5>4, <6>1
        <5>6. R[n] = <<f>> \o rest
          BY <4>5, <5>5
        <5>7. QED
          BY <5>1, <5>3, <5>6 DEF n
      <4> HIDE DEF rest, Rest
      <4>7. Good(i + 1)
        BY <2>7, <3>1
      <4>8. \A j \in (i + 1)..N : j \in i..N
        BY <1>0, <2>6
      <4>9. N \in (i + 1)..N
        BY <1>0, <2>6, <3>2
      <4>10. CASE rest = ValueError
        <5>1. R[M - Ends[i]] = ValueError
          BY <4>5, <4>10 DEF n
        <5>2. M = Ends[N] => Rest(i, N)
          BY <3>10, <4>6, <4>7, <4>9
        <5>3. QED
          BY <2>7, <5>1, <5>2
      <4>11. CASE rest # ValueError
        <5>1. PICK j \in (i + 1)..N : Rest(i + 1, j)
          BY <3>10, <4>7, <4>11 DEF rest
        <5>2. Rest(i, j) /\ j \in i..N
          BY <4>6, <4>8, <5>1
        <5>3. M = Ends[N] => Rest(i, N)
          BY <3>10, <4>6, <4>7, <4>9
        <5>4. QED
          BY <2>7, <5>2, <5>3
      <4>12. QED
        BY <4>10, <4>11
    <3>11. QED
      BY <3>9, <3>10
  <2>11. QED
    BY <1>0, <2>8, <2>9, <2>10
<1>6. Good(0)
  <2>1. N \in 0..N /\ N - N = 0
    BY <1>0
  <2> HIDE DEF Good
  <2>2. QED
    BY <1>5, <2>1
<1>7. Ends[0] <= M /\ M - Ends[0] = M /\ 0 + 1 = 1
  BY <1>0, <1>3
<1>8. Fields(buf) = ValueError \/ \E j \in 0..N : Fields(buf) = SubSeq(fs, 1, j)
  BY <1>2, <1>6, <1>7
<1>9. M = Ends[N] => Fields(buf) = SubSeq(fs, 1, N)
  BY <1>2, <1>6, <1>7
<1>10. SubSeq(fs, 1, N) = fs
  BY <1>0, SubSeqFull DEF N
<1>11. QED
  BY <1>3, <1>8, <1>9, <1>10 DEF N, M

-----------------------------------------------------------------------------
(* The values of a field                                                   *)

\* Nothing but empty sequences make an empty one.
LEMMA FlattenEmpty ==
    ASSUME NEW S, NEW ss \in Seq(Seq(S)), \A i \in 1..Len(ss) : ss[i] = <<>>
    PROVE  FlattenSeq(ss) = <<>>
<1> DEFINE N == Len(ss)
<1>1. PICK P : Flattens(S, ss, P) /\ FlattenSeq(ss) = P[N]
  BY Flattened
<1>2. /\ N \in Nat /\ P[0] = <<>>
      /\ \A i \in 1..N : P[i - 1] \in Seq(S) /\ P[i] = P[i - 1] \o ss[i]
  BY <1>1, FlattensType
<1> HIDE DEF N
<1> DEFINE Bad == {i \in 0..N : P[i] # <<>>}
<1>3. Bad = {}
  <2>1. SUFFICES ASSUME Bad # {} PROVE FALSE
    OBVIOUS
  <2>2. PICK m \in Bad : \A i \in Bad : m <= i
    <3>1. Bad \in SUBSET Nat
      BY <1>2
    <3> HIDE DEF Bad
    <3>2. QED
      BY <2>1, <3>1, LeastNat
  <2>3. m \in 1..N /\ P[m] # <<>>
    BY <1>2
  <2>4. m - 1 \in 0..N /\ m - 1 \notin Bad
    <3> HIDE DEF Bad
    <3>1. QED
      BY <1>2, <2>2, <2>3
  <2>5. P[m - 1] = <<>>
    BY <2>4
  <2>6. ss[m] = <<>> /\ P[m] = P[m - 1] \o ss[m]
    BY <1>2, <2>3 DEF N
  <2>7. <<>> \o <<>> = <<>>
    BY EmptySeq, ConcatEmptySeq
  <2>8. QED
    BY <2>3, <2>5, <2>6, <2>7
<1>4. N \in 0..N
  BY <1>2
<1>5. QED
  BY <1>1, <1>3, <1>4

\* Single elements make the sequence of them.
LEMMA FlattenOnes ==
    ASSUME NEW S, NEW ss \in Seq(Seq(S)), NEW x \in Seq(S), Len(x) = Len(ss),
           \A i \in 1..Len(ss) : ss[i] = <<x[i]>>
    PROVE  FlattenSeq(ss) = x
<1> DEFINE N == Len(ss)
<1>1. PICK P : Flattens(S, ss, P) /\ FlattenSeq(ss) = P[N]
  BY Flattened
<1>2. N \in Nat /\ P[0] = <<>> /\ \A i \in 1..N : P[i] = P[i - 1] \o ss[i]
  BY <1>1, FlattensType
<1>3. \A i \in 1..N : ss[i] = <<x[i]>>
  OBVIOUS
<1>4. Len(x) = N
  OBVIOUS
<1> HIDE DEF N
<1> DEFINE Bad == {i \in 0..N : P[i] # SubSeq(x, 1, i)}
<1>5. Bad = {}
  <2>1. SUFFICES ASSUME Bad # {} PROVE FALSE
    OBVIOUS
  <2>2. PICK m \in Bad : \A i \in Bad : m <= i
    <3>1. Bad \in SUBSET 0..N
      BY Zenon
    <3>2. Bad \in SUBSET Nat
      <4> HIDE DEF Bad
      <4>1. QED
        BY <1>2, <3>1
    <3> HIDE DEF Bad
    <3>3. QED
      BY <2>1, <3>2, LeastNat
  <2>3. m \in 0..N /\ P[m] # SubSeq(x, 1, m)
    BY Zenon
  <2>4. m # 0
    <3>1. SubSeq(x, 1, 0) = <<>>
      BY SubSeqEmpty
    <3>2. QED
      BY <1>2, <2>3, <3>1
  <2>5. m \in 1..N /\ m - 1 \in 0..N
    BY <1>2, <2>3, <2>4
  <2>6. m - 1 \notin Bad
    <3> HIDE DEF Bad
    <3>1. QED
      BY <1>2, <2>2, <2>5
  <2>7. P[m - 1] = SubSeq(x, 1, m - 1)
    BY <2>5, <2>6, Zenon
  <2>8. SubSeq(x, 1, m) = SubSeq(x, 1, m - 1) \o <<x[m]>>
    <3>1. 1 \in 1..Len(x) /\ m \in 1..Len(x)
      BY <1>2, <1>4, <2>5
    <3>2. QED
      BY <3>1, SubSeqRecursiveSecond
  <2>9. P[m] = P[m - 1] \o <<x[m]>>
    BY <1>2, <1>3, <2>5
  <2>10. QED
    BY <2>3, <2>7, <2>8, <2>9
<1>6. N \in 0..N
  BY <1>2
<1>7. P[N] = SubSeq(x, 1, N)
  BY <1>5, <1>6
<1>8. SubSeq(x, 1, N) = x
  BY <1>4, SubSeqFull
<1>9. QED
  BY <1>1, <1>7, <1>8

\* What Values takes of each field.
Found(fs, num, wire) ==
    [i \in DOMAIN fs |-> IF fs[i].tag = num * 8 + wire THEN <<fs[i].value>> ELSE <<>>]

\* What a field may hold.
Content == Nat \cup ByteString

\* It is the value of the field or nothing.
LEMMA FoundType ==
    ASSUME NEW fs \in Seq(Field), NEW num, NEW wire
    PROVE  /\ Found(fs, num, wire) \in Seq(Seq(Content)) /\ Len(Found(fs, num, wire)) = Len(fs)
           /\ Len(fs) \in Nat
           /\ \A i \in 1..Len(fs) :
                  /\ fs[i].value \in Content
                  /\ Found(fs, num, wire)[i] = IF fs[i].tag = num * 8 + wire
                                               THEN <<fs[i].value>> ELSE <<>>
           /\ Values(fs, num, wire) = FlattenSeq(Found(fs, num, wire))
           /\ Values(fs, num, wire) \in Seq(Content)
<1> DEFINE k == num * 8 + wire
           One(i) == IF fs[i].tag = k THEN <<fs[i].value>> ELSE <<>>
           g == Found(fs, num, wire)
<1>1. Len(fs) \in Nat /\ DOMAIN fs = 1..Len(fs)
  BY LenProperties
<1>2. \A i \in 1..Len(fs) : fs[i] \in Field
  BY ElementOfSeq
<1>3. \A i \in 1..Len(fs) : fs[i].value \in Content
  BY <1>2 DEF Field, Content
<1>4. g = [i \in 1..Len(fs) |-> One(i)]
  BY <1>1 DEF Found
<1> HIDE DEF k
<1>5. ASSUME NEW i \in 1..Len(fs) PROVE One(i) \in Seq(Content)
  <2>1. <<fs[i].value>> \in Seq(Content) /\ <<>> \in Seq(Content)
    BY <1>3
  <2>2. QED
    BY <2>1
<1> HIDE DEF One, g
<1>6. g \in [1..Len(fs) -> Seq(Content)] /\ \A i \in 1..Len(fs) : g[i] = One(i)
  BY <1>4, <1>5
<1>7. g \in Seq(Seq(Content)) /\ Len(g) = Len(fs)
  <2> DEFINE T == Seq(Content)
  <2>1. g \in [1..Len(fs) -> T]
    BY <1>6
  <2> HIDE DEF T
  <2>2. g \in Seq(T) /\ Len(g) = Len(fs)
    BY <1>1, <2>1
  <2>3. QED
    BY <2>2 DEF T
<1>8. Values(fs, num, wire) = FlattenSeq(g)
  BY DEF Values, Found, g
<1>9. FlattenSeq(g) \in Seq(Content)
  BY <1>7, FlattenType
<1>10. QED
  BY <1>1, <1>3, <1>6, <1>7, <1>8, <1>9 DEF g, One, k

\* The values of two messages are those of the one, then those of the other.
LEMMA ValuesBoth ==
    ASSUME NEW a \in Seq(Field), NEW b \in Seq(Field), NEW num, NEW wire
    PROVE  Values(a \o b, num, wire) = Values(a, num, wire) \o Values(b, num, wire)
<1> DEFINE p == Found(a, num, wire)
           q == Found(b, num, wire)
           r == Found(a \o b, num, wire)
           T == Seq(Content)
           Of(f) == IF f.tag = num * 8 + wire THEN <<f.value>> ELSE <<>>
<1>1. /\ a \o b \in Seq(Field) /\ Len(a \o b) = Len(a) + Len(b) /\ Len(a) \in Nat /\ Len(b) \in Nat
      /\ \A i \in 1..Len(a) + Len(b) : (a \o b)[i] = IF i <= Len(a) THEN a[i] ELSE b[i - Len(a)]
  BY ConcatProperties
<1>2. p \in Seq(T) /\ Len(p) = Len(a) /\ \A i \in 1..Len(a) : p[i] = Of(a[i])
  BY FoundType
<1>3. q \in Seq(T) /\ Len(q) = Len(b) /\ \A i \in 1..Len(b) : q[i] = Of(b[i])
  BY FoundType
<1>4. r \in Seq(T) /\ Len(r) = Len(a) + Len(b)
      /\ \A i \in 1..Len(a) + Len(b) : r[i] = Of((a \o b)[i])
  <2>1. ASSUME NEW c \in Seq(Field)
        PROVE  /\ Found(c, num, wire) \in Seq(T) /\ Len(Found(c, num, wire)) = Len(c)
               /\ \A i \in 1..Len(c) : Found(c, num, wire)[i] = Of(c[i])
    BY FoundType
  <2> HIDE DEF T, Of
  <2>2. QED
    BY <1>1, <2>1
<1>5. /\ Values(a, num, wire) = FlattenSeq(p) /\ Values(b, num, wire) = FlattenSeq(q)
      /\ Values(a \o b, num, wire) = FlattenSeq(r)
  BY DEF Values, Found
<1>6. FlattenSeq(p \o q) = FlattenSeq(p) \o FlattenSeq(q)
  <2> HIDE DEF p, q
  <2>1. QED
    BY <1>2, <1>3, FlattenBoth
<1> HIDE DEF p, q, r, T, Of
<1>7. \A i \in 1..Len(a) : r[i] = p[i]
  <2>1. \A i \in 1..Len(a) : i \in 1..Len(a) + Len(b) /\ i <= Len(a)
    BY <1>1
  <2>2. QED
    BY <1>1, <1>2, <1>4, <2>1
<1>8. ASSUME NEW i \in 1..Len(b) PROVE r[Len(a) + i] = q[i]
  <2>1. Len(a) + i \in 1..Len(a) + Len(b) /\ ~(Len(a) + i <= Len(a)) /\ (Len(a) + i) - Len(a) = i
    BY <1>1
  <2>2. (a \o b)[Len(a) + i] = b[i]
    BY <1>1, <2>1
  <2>3. QED
    BY <1>3, <1>4, <2>1, <2>2
<1>9. r = p \o q
  <2>1. /\ Len(r) = Len(p) + Len(q) /\ \A i \in 1..Len(p) : r[i] = p[i]
        /\ \A i \in 1..Len(q) : r[Len(p) + i] = q[i]
    BY <1>2, <1>3, <1>4, <1>7, <1>8, Zenon
  <2>2. QED
    BY <1>2, <1>3, <1>4, <2>1, IsConcat
<1>10. QED
  BY <1>5, <1>6, <1>9

\* A message without such a field has no values of it.
LEMMA ValuesNone ==
    ASSUME NEW fs \in Seq(Field), NEW num, NEW wire,
           \A i \in 1..Len(fs) : fs[i].tag # num * 8 + wire
    PROVE  Values(fs, num, wire) = <<>>
<1> DEFINE g == Found(fs, num, wire)
<1>1. /\ g \in Seq(Seq(Content)) /\ Len(g) = Len(fs) /\ Values(fs, num, wire) = FlattenSeq(g)
      /\ \A i \in 1..Len(fs) : g[i] = IF fs[i].tag = num * 8 + wire THEN <<fs[i].value>> ELSE <<>>
  BY FoundType
<1> HIDE DEF g
<1>2. \A i \in 1..Len(g) : g[i] = <<>>
  BY <1>1
<1>3. QED
  BY <1>1, <1>2, FlattenEmpty

\* A message of such fields only has all their values.
LEMMA ValuesAll ==
    ASSUME NEW fs \in Seq(Field), NEW num, NEW wire, NEW x \in Seq(Content), Len(x) = Len(fs),
           \A i \in 1..Len(fs) : fs[i].tag = num * 8 + wire /\ fs[i].value = x[i]
    PROVE  Values(fs, num, wire) = x
<1> DEFINE g == Found(fs, num, wire)
<1>1. /\ g \in Seq(Seq(Content)) /\ Len(g) = Len(fs) /\ Values(fs, num, wire) = FlattenSeq(g)
      /\ \A i \in 1..Len(fs) : g[i] = IF fs[i].tag = num * 8 + wire THEN <<fs[i].value>> ELSE <<>>
  BY FoundType
<1> HIDE DEF g
<1>2. \A i \in 1..Len(g) : g[i] = <<x[i]>>
  BY <1>1
<1>3. Len(x) = Len(g)
  BY <1>1
<1>4. QED
  BY <1>1, <1>2, <1>3, FlattenOnes

\* A message that is whole is read field by field.
LEMMA FieldsExact ==
    ASSUME NEW fs, Message(fs)
    PROVE  Fields(Encode(fs)) = fs /\ fs # ValueError /\ fs \in Seq(Field) /\ Encode(fs) \in ByteString
<1>1. Encode(fs) \in ByteString /\ Len(Encode(fs)) \in Nat
  BY PiecesType, Bytes
<1>2. Matches(Encode(fs), 1, Encode(fs))
  <2>1. \A i \in 1..Len(Encode(fs)) : 1 + i - 1 = i
    BY <1>1
  <2>2. QED
    BY <2>1 DEF Matches
<1>3. Len(Encode(fs)) <= Len(Encode(fs))
  BY <1>1
<1>4. Fields(Encode(fs)) = fs
  BY <1>1, <1>2, <1>3, FieldsRead
<1>5. fs \in Seq(Field) /\ ValueError \notin Seq(Field)
  BY CodecAssumption DEF Message
<1>6. QED
  BY <1>1, <1>4, <1>5

\* Small numbers have one byte.
LEMMA SmallReadable ==
    ASSUME NEW v \in 0..127
    PROVE  Readable(v)
<1>1. v \in Nat /\ v <= 127
  OBVIOUS
<1>2. Len(EncodeVarint[v]) = 1
  BY <1>1, VarintBytes
<1>3. QED
  BY <1>2 DEF Readable, MAX_VARINT

\* The fields of the schema can be written and read.
LEMMA ProperFields ==
    ASSUME NEW num \in 1..9
    PROVE  /\ \A p \in ByteString : Readable(Len(p)) =>
                  /\ Proper(LengthDelimited(num, p)) /\ LengthDelimited(num, p) \in Field
                  /\ LengthDelimited(num, p).tag = num * 8 + 2 /\ LengthDelimited(num, p).value = p
           /\ \A v \in Nat : Readable(v) =>
                  /\ Proper(Uint64(num, v)) /\ Uint64(num, v) \in Field
                  /\ Uint64(num, v).tag = num * 8 + 0 /\ Uint64(num, v).value = v
<1>1. /\ num * 8 + 2 \in Nat /\ num * 8 + 0 \in Nat /\ num * 8 + 2 \in 0..127 /\ num * 8 + 0 \in 0..127
      /\ (num * 8 + 2) % 8 = 2 /\ (num * 8 + 0) % 8 = 0
  OBVIOUS
<1>2. Readable(num * 8 + 2) /\ Readable(num * 8 + 0)
  BY <1>1, SmallReadable
<1> DEFINE t == num * 8 + 2
           z == num * 8 + 0
<1>3. t \in Nat /\ z \in Nat /\ t % 8 = 2 /\ z % 8 = 0 /\ Readable(t) /\ Readable(z)
  BY <1>1, <1>2
<1>4. /\ \A p : LengthDelimited(num, p) = [tag |-> t, value |-> p]
      /\ \A v : Uint64(num, v) = [tag |-> z, value |-> v]
  BY DEF LengthDelimited, Uint64, WIRE_LENGTH_DELIMITED, WIRE_VARINT
<1> HIDE DEF t, z
<1>5. ASSUME NEW p \in ByteString, Readable(Len(p))
      PROVE  /\ Proper(LengthDelimited(num, p)) /\ LengthDelimited(num, p) \in Field
             /\ LengthDelimited(num, p).tag = t /\ LengthDelimited(num, p).value = p
  <2> DEFINE f == [tag |-> t, value |-> p]
  <2>1. f \in Field /\ f.tag = t /\ f.value = p
    BY <1>3 DEF Field
  <2> HIDE DEF f
  <2>2. Proper(f)
    BY <1>3, <1>5, <2>1 DEF Proper, WIRE_LENGTH_DELIMITED
  <2>3. QED
    BY <1>4, <2>1, <2>2 DEF f
<1>6. ASSUME NEW v \in Nat, Readable(v)
      PROVE  /\ Proper(Uint64(num, v)) /\ Uint64(num, v) \in Field
             /\ Uint64(num, v).tag = z /\ Uint64(num, v).value = v
  <2> DEFINE f == [tag |-> z, value |-> v]
  <2>1. f \in Field /\ f.tag = z /\ f.value = v
    BY <1>3 DEF Field
  <2> HIDE DEF f
  <2>2. Proper(f)
    BY <1>3, <1>6, <2>1 DEF Proper, WIRE_VARINT
  <2>3. QED
    BY <1>4, <2>1, <2>2 DEF f
<1>7. QED
  BY <1>5, <1>6 DEF t, z

\* A message of one field.
LEMMA OneField ==
    ASSUME NEW f, Proper(f)
    PROVE  /\ Message(<<f>>) /\ <<f>> \in Seq(Field) /\ f.value \in Content
           /\ \A num, wire : Values(<<f>>, num, wire) = IF f.tag = num * 8 + wire
                                                        THEN <<f.value>> ELSE <<>>
<1>1. f \in Field /\ f.value \in Content
  BY DEF Proper, Field, Content
<1>2. <<f>> \in Seq(Field) /\ Len(<<f>>) = 1 /\ <<f>>[1] = f
  BY <1>1
<1>3. \A i \in 1..Len(<<f>>) : <<f>>[i] = f
  BY <1>2
<1>4. Message(<<f>>)
  BY <1>2, <1>3 DEF Message
<1>5. ASSUME NEW num, NEW wire
      PROVE  Values(<<f>>, num, wire) = IF f.tag = num * 8 + wire THEN <<f.value>> ELSE <<>>
  <2>1. CASE f.tag = num * 8 + wire
    <3> DEFINE x == <<f.value>>
    <3>1. x \in Seq(Content) /\ Len(x) = 1 /\ x[1] = f.value
      BY <1>1
    <3> HIDE DEF x
    <3>2. \A i \in 1..Len(<<f>>) : <<f>>[i].tag = num * 8 + wire /\ <<f>>[i].value = x[i]
      BY <1>2, <1>3, <2>1, <3>1
    <3>3. Values(<<f>>, num, wire) = x
      BY <1>2, <3>1, <3>2, ValuesAll
    <3>4. QED
      BY <2>1, <3>3 DEF x
  <2>2. CASE f.tag # num * 8 + wire
    BY <1>2, <1>3, <2>2, ValuesNone
  <2>3. QED
    BY <2>1, <2>2
<1>6. QED
  BY <1>1, <1>2, <1>4, <1>5

\* A message of no fields.
LEMMA NoField ==
    /\ Message(<<>>) /\ <<>> \in Seq(Field)
    /\ \A num, wire : Values(<<>>, num, wire) = <<>>
<1>1. <<>> \in Seq(Field) /\ Len(<<>>) = 0
  OBVIOUS
<1>2. \A i \in 1..Len(<<>>) : FALSE
  BY <1>1
<1>3. Message(<<>>)
  BY <1>1, <1>2 DEF Message
<1>4. QED
  BY <1>1, <1>2, <1>3, ValuesNone

\* A field that is there once, or not at all.
LEMMA ValueOnce ==
    ASSUME NEW fs, NEW num, NEW wire, NEW x
    PROVE  /\ Values(fs, num, wire) = <<x>> => Value(fs, num, wire) = x
           /\ Values(fs, num, wire) = <<>> => Value(fs, num, wire) = None
<1>1. <<x>> # <<>> /\ Last(<<x>>) = x
  BY DEF Last
<1>2. QED
  BY <1>1 DEF Value

-----------------------------------------------------------------------------
(* Tags                                                                    *)

\* A tag is written as a message, and read as it was.
LEMMA TagRead ==
    ASSUME NEW t, ReadableTag(t)
    PROVE  Encode(TagFields(t)) \in ByteString /\ DecodeTag(Encode(TagFields(t))) = t
<1> DEFINE a == <<LengthDelimited(1, t.key)>>
           b == IF t.value = None THEN <<>> ELSE <<LengthDelimited(2, t.value)>>
           f == TagFields(t)
<1>1. /\ t.key \in ByteString /\ t.value \in ByteString \cup {None}
      /\ t = [key |-> t.key, value |-> t.value] /\ None \notin ByteString
  BY CodecAssumption DEF ReadableTag, Tag
<1>2. f = a \o b
  BY DEF TagFields
<1>3. /\ Message(a) /\ a \in Seq(Field) /\ Values(a, 1, 2) = <<t.key>> /\ Values(a, 2, 2) = <<>>
      /\ t.key \in Content
  <2> DEFINE g == LengthDelimited(1, t.key)
  <2>1. Proper(g) /\ g.tag = 1 * 8 + 2 /\ g.value = t.key
    BY <1>1, ProperFields DEF ReadableTag
  <2> HIDE DEF g
  <2>2. g.tag # 2 * 8 + 2
    BY <2>1
  <2>3. /\ Message(<<g>>) /\ <<g>> \in Seq(Field) /\ g.value \in Content
        /\ Values(<<g>>, 1, 2) = IF g.tag = 1 * 8 + 2 THEN <<g.value>> ELSE <<>>
        /\ Values(<<g>>, 2, 2) = IF g.tag = 2 * 8 + 2 THEN <<g.value>> ELSE <<>>
    BY <2>1, OneField, Zenon
  <2>4. QED
    BY <2>1, <2>2, <2>3, Zenon DEF g
<1>4. /\ Message(b) /\ b \in Seq(Field) /\ Values(b, 1, 2) = <<>>
      /\ Values(b, 2, 2) = IF t.value = None THEN <<>> ELSE <<t.value>>
  <2>1. CASE t.value = None
    <3>1. b = <<>>
      BY <2>1
    <3>2. QED
      BY <2>1, <3>1, NoField, Zenon
  <2>2. CASE t.value # None
    <3> DEFINE g == LengthDelimited(2, t.value)
    <3>1. Proper(g) /\ g.tag = 2 * 8 + 2 /\ g.value = t.value
      BY <1>1, <2>2, ProperFields DEF ReadableTag
    <3>2. b = <<g>>
      BY <2>2
    <3> HIDE DEF g
    <3>3. g.tag # 1 * 8 + 2
      BY <3>1
    <3>4. /\ Message(<<g>>) /\ <<g>> \in Seq(Field)
          /\ Values(<<g>>, 1, 2) = IF g.tag = 1 * 8 + 2 THEN <<g.value>> ELSE <<>>
          /\ Values(<<g>>, 2, 2) = IF g.tag = 2 * 8 + 2 THEN <<g.value>> ELSE <<>>
      BY <3>1, OneField, Zenon
    <3> HIDE DEF b
    <3>5. QED
      BY <2>2, <3>1, <3>2, <3>3, <3>4, Zenon
  <2>3. QED
    BY <2>1, <2>2
<1> HIDE DEF a, b
<1>5. Message(f)
  BY <1>2, <1>3, <1>4, EncodeBoth
<1>5a. \A num, wire : Values(a \o b, num, wire) = Values(a, num, wire) \o Values(b, num, wire)
  <2>1. a \in Seq(Field) /\ b \in Seq(Field)
    BY <1>3, <1>4
  <2>2. QED
    BY <2>1, ValuesBoth
<1>6. Values(f, 1, 2) = <<t.key>>
  <2>1. Values(a \o b, 1, 2) = Values(a, 1, 2) \o Values(b, 1, 2)
    BY <1>5a, Zenon
  <2>2. <<t.key>> \in Seq(Content)
    BY <1>3
  <2>3. <<t.key>> \o <<>> = <<t.key>>
    BY <2>2, ConcatEmptySeq
  <2>4. QED
    BY <1>2, <1>3, <1>4, <2>1, <2>3, Zenon
<1>7. Values(f, 2, 2) = IF t.value = None THEN <<>> ELSE <<t.value>>
  <2>1. Values(a \o b, 2, 2) = Values(a, 2, 2) \o Values(b, 2, 2)
    BY <1>5a, Zenon
  <2>2. Values(b, 2, 2) \in Seq(Content)
    BY <1>4, FoundType
  <2>3. <<>> \o Values(b, 2, 2) = Values(b, 2, 2)
    BY <2>2, ConcatEmptySeq
  <2>4. QED
    BY <1>2, <1>3, <1>4, <2>1, <2>3, Zenon
<1>8. Value(f, 1, 2) = t.key /\ Value(f, 2, 2) = t.value
  <2>1. Value(f, 1, 2) = t.key
    BY <1>6, ValueOnce
  <2>2. CASE t.value = None
    <3>1. Values(f, 2, 2) = <<>>
      BY <1>7, <2>2
    <3>2. QED
      BY <2>1, <2>2, <3>1, ValueOnce
  <2>3. CASE t.value # None
    <3>1. Values(f, 2, 2) = <<t.value>>
      BY <1>7, <2>3
    <3>2. QED
      BY <2>1, <3>1, ValueOnce
  <2>4. QED
    BY <2>2, <2>3
<1> HIDE DEF f
<1>9. Fields(Encode(f)) = f /\ f # ValueError /\ Encode(f) \in ByteString
  BY <1>5, FieldsExact
<1>10. t.key # None
  BY <1>1
<1>11. DecodeTag(Encode(f)) = [key |-> t.key, value |-> t.value]
  BY <1>8, <1>9, <1>10 DEF DecodeTag, TagOf, WIRE_LENGTH_DELIMITED
<1>12. QED
  BY <1>1, <1>9, <1>11 DEF f

-----------------------------------------------------------------------------
(* Records                                                                 *)

\* An index that refers to key k of a table.
Refers(i, k, table) ==
    IF k = None THEN i = None
    ELSE i \in Nat /\ Readable(i) /\ i < Len(table) /\ table[i + 1] = k

\* A field that may be left out.
Optional(num, i) == IF i = None THEN <<>> ELSE <<Uint64(num, i)>>

\* It is a message, with one value or none.
LEMMA KeyField ==
    ASSUME NEW num \in 1..9, NEW i, i = None \/ (i \in Nat /\ Readable(i))
    PROVE  LET b == Optional(num, i)
           IN  /\ Message(b) /\ b \in Seq(Field)
               /\ \A n, w : Values(b, n, w) = IF i # None /\ num * 8 + 0 = n * 8 + w
                                              THEN <<i>> ELSE <<>>
<1> DEFINE b == Optional(num, i)
           g == Uint64(num, i)
<1>1. CASE i = None
  <2>1. b = <<>>
    BY <1>1 DEF Optional
  <2>2. QED
    BY <1>1, <2>1, NoField, Zenon
<1>2. CASE i # None
  <2>1. Proper(g) /\ g.tag = num * 8 + 0 /\ g.value = i
    BY <1>2, ProperFields
  <2>2. b = <<g>>
    BY <1>2 DEF Optional
  <2> HIDE DEF g
  <2>3. /\ Message(<<g>>) /\ <<g>> \in Seq(Field)
        /\ \A n, w : Values(<<g>>, n, w) = IF g.tag = n * 8 + w THEN <<g.value>> ELSE <<>>
    BY <2>1, OneField, Zenon
  <2> HIDE DEF b
  <2>4. /\ Message(b) /\ b \in Seq(Field)
        /\ \A n, w : Values(b, n, w) = IF i # None /\ num * 8 + 0 = n * 8 + w
                                              THEN <<i>> ELSE <<>>
    BY <1>2, <2>1, <2>2, <2>3, Zenon
  <2>5. QED
    BY <2>4 DEF b, g
<1>3. QED
  BY <1>1, <1>2

\* The payloads of a repeated field.
LEMMA RepeatedField ==
    ASSUME NEW num \in 1..9, NEW ps \in Seq(ByteString), \A i \in 1..Len(ps) : Readable(Len(ps[i]))
    PROVE  LET d == Repeated(num, ps)
           IN  /\ Message(d) /\ d \in Seq(Field) /\ Len(d) = Len(ps)
               /\ \A i \in 1..Len(ps) : d[i] = LengthDelimited(num, ps[i]) /\ d[i].tag = num * 8 + 2
               /\ \A n, w : Values(d, n, w) = IF num * 8 + 2 = n * 8 + w THEN ps ELSE <<>>
<1> DEFINE d == Repeated(num, ps)
           N == Len(ps)
<1>1. N \in Nat /\ DOMAIN ps = 1..N /\ \A i \in 1..N : ps[i] \in ByteString
  BY LenProperties, ElementOfSeq
<1>2. ASSUME NEW i \in 1..N
      PROVE  /\ Proper(LengthDelimited(num, ps[i])) /\ LengthDelimited(num, ps[i]) \in Field
             /\ LengthDelimited(num, ps[i]).tag = num * 8 + 2
             /\ LengthDelimited(num, ps[i]).value = ps[i]
  BY <1>1, ProperFields
<1>3. d = [i \in 1..N |-> LengthDelimited(num, ps[i])]
  BY <1>1 DEF Repeated
<1> HIDE DEF d, N
<1>4. d \in [1..N -> Field] /\ \A i \in 1..N : d[i] = LengthDelimited(num, ps[i])
  BY <1>2, <1>3
<1>5. d \in Seq(Field) /\ Len(d) = N
  BY <1>1, <1>4
<1>6. Message(d)
  BY <1>2, <1>4, <1>5 DEF Message
<1>7. \A i \in 1..Len(d) : d[i].tag = num * 8 + 2 /\ d[i].value = ps[i]
  BY <1>2, <1>4, <1>5
<1>8. ps \in Seq(Content) /\ Len(ps) = Len(d)
  <2>1. ByteString \subseteq Content
    BY DEF Content
  <2>2. QED
    BY <1>5, <2>1, SeqMonotonic DEF N
<1>9. ASSUME NEW n, NEW w
      PROVE  Values(d, n, w) = IF num * 8 + 2 = n * 8 + w THEN ps ELSE <<>>
  <2>1. CASE num * 8 + 2 = n * 8 + w
    <3>1. \A i \in 1..Len(d) : d[i].tag = n * 8 + w /\ d[i].value = ps[i]
      BY <1>7, <2>1, Zenon
    <3>2. Values(d, n, w) = ps
      BY <1>5, <1>8, <3>1, ValuesAll
    <3>3. QED
      BY <2>1, <3>2
  <2>2. CASE num * 8 + 2 # n * 8 + w
    <3>1. \A i \in 1..Len(d) : d[i].tag # n * 8 + w
      BY <1>7, <2>2, Zenon
    <3>2. Values(d, n, w) = <<>>
      BY <1>5, <3>1, ValuesNone
    <3>3. QED
      BY <2>2, <3>2
  <2>3. QED
    BY <2>1, <2>2
<1>10. QED
  BY <1>4, <1>5, <1>6, <1>7, <1>9 DEF d, N

\* What is empty disappears.
LEMMA OnlyOne ==
    ASSUME NEW S, NEW x \in Seq(S)
    PROVE  /\ x \o <<>> \o <<>> \o <<>> = x /\ <<>> \o x \o <<>> \o <<>> = x
           /\ <<>> \o <<>> \o x \o <<>> = x /\ <<>> \o <<>> \o <<>> \o x = x
           /\ <<>> \o x \o <<>> = x
<1>1. x \o <<>> = x /\ <<>> \o x = x
  BY ConcatEmptySeq
<1>2. <<>> \o <<>> = <<>>
  BY EmptySeq, ConcatEmptySeq
<1>3. QED
  BY <1>1, <1>2

\* The fields of a record: a message, with the value of each.
LEMMA RecordMessage ==
    ASSUME NEW r, ReadableRecord(r), NEW pk \in Nat, Readable(pk),
           NEW ehk, ehk = None \/ (ehk \in Nat /\ Readable(ehk))
    PROVE  LET f == RecordFields(pk, ehk, r)
           IN  /\ Message(f) /\ f \in Seq(Field)
               /\ Values(f, 1, 0) = <<pk>>
               /\ Values(f, 2, 0) = IF ehk = None THEN <<>> ELSE <<ehk>>
               /\ Values(f, 3, 2) = <<r.data>>
               /\ Values(f, 4, 2) = TagMessages(r)
<1> DEFINE f == RecordFields(pk, ehk, r)
           a == <<Uint64(1, pk)>>
           b == Optional(2, ehk)
           c == <<LengthDelimited(3, r.data)>>
           ps == TagMessages(r)
           d == Repeated(4, ps)
<1>1. r.data \in ByteString /\ r.tags \in Seq(Tag) /\ Readable(Len(r.data))
  BY DEF ReadableRecord, UserRecord
<1>2. Len(r.tags) \in Nat /\ DOMAIN r.tags = 1..Len(r.tags)
  BY <1>1, LenProperties
<1>3. \A i \in 1..Len(r.tags) : /\ Encode(TagFields(r.tags[i])) \in ByteString
                                /\ Readable(Len(Encode(TagFields(r.tags[i]))))
  BY <1>2, TagRead DEF ReadableRecord, ReadableTag
<1>4. /\ ps \in Seq(ByteString) /\ DOMAIN ps = DOMAIN r.tags
      /\ \A i \in 1..Len(ps) : ps[i] = Encode(TagFields(r.tags[i])) /\ Readable(Len(ps[i]))
  <2>1. ps = [i \in 1..Len(r.tags) |-> Encode(TagFields(r.tags[i]))]
    BY <1>2 DEF TagMessages
  <2> HIDE DEF ps
  <2>2. ps \in [1..Len(r.tags) -> ByteString]
    BY <1>3, <2>1
  <2>3. ps \in Seq(ByteString) /\ Len(ps) = Len(r.tags) /\ DOMAIN ps = 1..Len(r.tags)
    BY <1>2, <2>2
  <2>4. QED
    BY <1>2, <1>3, <2>1, <2>3
<1>5. f = a \o b \o c \o d
  BY DEF RecordFields, Optional
<1>6. /\ Message(a) /\ a \in Seq(Field) /\ pk \in Content
      /\ \A n, w : Values(a, n, w) = IF 1 * 8 + 0 = n * 8 + w THEN <<pk>> ELSE <<>>
  <2> DEFINE g == Uint64(1, pk)
  <2>1. Proper(g) /\ g.tag = 1 * 8 + 0 /\ g.value = pk
    BY ProperFields
  <2> HIDE DEF g
  <2>2. /\ Message(<<g>>) /\ <<g>> \in Seq(Field) /\ g.value \in Content
        /\ \A n, w : Values(<<g>>, n, w) = IF g.tag = n * 8 + w THEN <<g.value>> ELSE <<>>
    BY <2>1, OneField, Zenon
  <2>3. QED
    BY <2>1, <2>2, Zenon DEF g
<1>7. /\ Message(b) /\ b \in Seq(Field)
      /\ \A n, w : Values(b, n, w) = IF ehk # None /\ 2 * 8 + 0 = n * 8 + w THEN <<ehk>> ELSE <<>>
  BY KeyField
<1>8. /\ Message(c) /\ c \in Seq(Field) /\ r.data \in Content
      /\ \A n, w : Values(c, n, w) = IF 3 * 8 + 2 = n * 8 + w THEN <<r.data>> ELSE <<>>
  <2> DEFINE g == LengthDelimited(3, r.data)
  <2>1. Proper(g) /\ g.tag = 3 * 8 + 2 /\ g.value = r.data
    BY <1>1, ProperFields
  <2> HIDE DEF g
  <2>2. /\ Message(<<g>>) /\ <<g>> \in Seq(Field) /\ g.value \in Content
        /\ \A n, w : Values(<<g>>, n, w) = IF g.tag = n * 8 + w THEN <<g.value>> ELSE <<>>
    BY <2>1, OneField, Zenon
  <2>3. QED
    BY <2>1, <2>2, Zenon DEF g
<1> HIDE DEF ps
<1>9. /\ Message(d) /\ d \in Seq(Field)
      /\ \A n, w : Values(d, n, w) = IF 4 * 8 + 2 = n * 8 + w THEN ps ELSE <<>>
  BY <1>4, RepeatedField
<1>10. ps \in Seq(Content)
  <2>1. ByteString \subseteq Content
    BY DEF Content
  <2>2. QED
    BY <1>4, <2>1, SeqMonotonic
<1> HIDE DEF a, b, c, d, f
<1>11. Message(f) /\ f \in Seq(Field)
  <2>1. Message(a \o b)
    BY <1>6, <1>7, EncodeBoth
  <2>2. Message(a \o b \o c)
    BY <1>8, <2>1, EncodeBoth
  <2>3. Message(a \o b \o c \o d)
    BY <1>9, <2>2, EncodeBoth
  <2>4. QED
    BY <1>5, <2>3 DEF Message
<1>12. \A n, w : Values(f, n, w) =
                     Values(a, n, w) \o Values(b, n, w) \o Values(c, n, w) \o Values(d, n, w)
  <2>1. a \in Seq(Field) /\ b \in Seq(Field) /\ c \in Seq(Field) /\ d \in Seq(Field)
    BY <1>6, <1>7, <1>8, <1>9
  <2>2. a \o b \in Seq(Field) /\ a \o b \o c \in Seq(Field)
    BY <2>1, ConcatProperties
  <2>3. ASSUME NEW x \in Seq(Field), NEW y \in Seq(Field)
        PROVE  \A n, w : Values(x \o y, n, w) = Values(x, n, w) \o Values(y, n, w)
    BY ValuesBoth
  <2>4. \A n, w : Values(a \o b, n, w) = Values(a, n, w) \o Values(b, n, w)
    BY <2>1, <2>3, Zenon
  <2>5. \A n, w : Values(a \o b \o c, n, w) = Values(a \o b, n, w) \o Values(c, n, w)
    BY <2>1, <2>2, <2>3, Zenon
  <2>6. \A n, w : Values(a \o b \o c \o d, n, w) = Values(a \o b \o c, n, w) \o Values(d, n, w)
    BY <2>1, <2>2, <2>3, Zenon
  <2>7. QED
    BY <1>5, <2>4, <2>5, <2>6, Zenon
<1>13. Values(f, 1, 0) = <<pk>>
  <2>1. /\ 1 * 8 + 0 = 1 * 8 + 0 /\ 2 * 8 + 0 # 1 * 8 + 0 /\ 3 * 8 + 2 # 1 * 8 + 0
        /\ 4 * 8 + 2 # 1 * 8 + 0
    OBVIOUS
  <2>2a. Values(a, 1, 0) = <<pk>> /\ Values(c, 1, 0) = <<>> /\ Values(d, 1, 0) = <<>>
    BY <1>6, <1>8, <1>9, <2>1
  <2>2b. Values(b, 1, 0) = <<>>
    BY <1>7, <2>1
  <2>2. Values(f, 1, 0) = <<pk>> \o <<>> \o <<>> \o <<>>
    BY <1>12, <2>2a, <2>2b, Zenon
  <2>3. <<pk>> \in Seq(Content)
    BY <1>6
  <2>4. QED
    BY <2>2, <2>3, OnlyOne
<1>14. Values(f, 2, 0) = IF ehk = None THEN <<>> ELSE <<ehk>>
  <2>1. /\ 2 * 8 + 0 = 2 * 8 + 0 /\ 1 * 8 + 0 # 2 * 8 + 0 /\ 3 * 8 + 2 # 2 * 8 + 0
        /\ 4 * 8 + 2 # 2 * 8 + 0
    OBVIOUS
  <2>2a. Values(a, 2, 0) = <<>> /\ Values(c, 2, 0) = <<>> /\ Values(d, 2, 0) = <<>>
    BY <1>6, <1>8, <1>9, <2>1
  <2>2b. Values(b, 2, 0) = (IF ehk = None THEN <<>> ELSE <<ehk>>)
    BY <1>7, <2>1
  <2>2. Values(f, 2, 0) = <<>> \o (IF ehk = None THEN <<>> ELSE <<ehk>>) \o <<>> \o <<>>
    BY <1>12, <2>2a, <2>2b, Zenon
  <2>3. (IF ehk = None THEN <<>> ELSE <<ehk>>) \in Seq(Nat)
    OBVIOUS
  <2>4. QED
    BY <2>2, <2>3, OnlyOne
<1>15. Values(f, 3, 2) = <<r.data>>
  <2>1. /\ 3 * 8 + 2 = 3 * 8 + 2 /\ 1 * 8 + 0 # 3 * 8 + 2 /\ 2 * 8 + 0 # 3 * 8 + 2
        /\ 4 * 8 + 2 # 3 * 8 + 2
    OBVIOUS
  <2>2a. Values(a, 3, 2) = <<>> /\ Values(c, 3, 2) = <<r.data>> /\ Values(d, 3, 2) = <<>>
    BY <1>6, <1>8, <1>9, <2>1
  <2>2b. Values(b, 3, 2) = <<>>
    BY <1>7, <2>1
  <2>2. Values(f, 3, 2) = <<>> \o <<>> \o <<r.data>> \o <<>>
    BY <1>12, <2>2a, <2>2b, Zenon
  <2>3. <<r.data>> \in Seq(Content)
    BY <1>8
  <2>4. QED
    BY <2>2, <2>3, OnlyOne
<1>16. Values(f, 4, 2) = ps
  <2>1. /\ 4 * 8 + 2 = 4 * 8 + 2 /\ 1 * 8 + 0 # 4 * 8 + 2 /\ 2 * 8 + 0 # 4 * 8 + 2
        /\ 3 * 8 + 2 # 4 * 8 + 2
    OBVIOUS
  <2>2a. Values(a, 4, 2) = <<>> /\ Values(c, 4, 2) = <<>> /\ Values(d, 4, 2) = ps
    BY <1>6, <1>8, <1>9, <2>1
  <2>2b. Values(b, 4, 2) = <<>>
    BY <1>7, <2>1
  <2>2. Values(f, 4, 2) = <<>> \o <<>> \o <<>> \o ps
    BY <1>12, <2>2a, <2>2b, Zenon
  <2>3. QED
    BY <1>10, <2>2, OnlyOne
<1>17. QED
  BY <1>11, <1>13, <1>14, <1>15, <1>16 DEF f, ps

-----------------------------------------------------------------------------
(* Fields that the schema does not have                                    *)

\* Fields of a later version of the schema, whose numbers are beyond it.
Unknown(u) == Message(u) /\ \A i \in 1..Len(u) : u[i].tag >= 40

\* They are skipped, before and after a message.
LEMMA Surrounded ==
    ASSUME NEW fs, Message(fs), NEW u, Unknown(u)
    PROVE  /\ Message(u \o fs \o u) /\ u \o fs \o u \in Seq(Field)
           /\ \A n \in 1..4, w \in {0, 2} : Values(u \o fs \o u, n, w) = Values(fs, n, w)
<1>1. u \in Seq(Field) /\ fs \in Seq(Field) /\ Message(u) /\ Len(u) \in Nat
  BY DEF Unknown, Message
<1>2. Message(u \o fs)
  BY <1>1, EncodeBoth
<1>3. Message(u \o fs \o u)
  BY <1>1, <1>2, EncodeBoth
<1>4. u \o fs \in Seq(Field) /\ u \o fs \o u \in Seq(Field)
  BY <1>2, <1>3 DEF Message
<1>5. ASSUME NEW n \in 1..4, NEW w \in {0, 2}
      PROVE  Values(u \o fs \o u, n, w) = Values(fs, n, w)
  <2>1. \A i \in 1..Len(u) : u[i].tag # n * 8 + w
    <3>1. \A i \in 1..Len(u) : u[i].tag \in Nat /\ u[i].tag >= 40
      <4>1. \A i \in 1..Len(u) : u[i] \in Field
        BY <1>1, ElementOfSeq
      <4>2. QED
        BY <4>1 DEF Unknown, Field
    <3>2. n * 8 + w \in Nat /\ n * 8 + w < 40
      OBVIOUS
    <3> DEFINE x == n * 8 + w
    <3>3. x \in Nat /\ x < 40
      BY <3>2
    <3> HIDE DEF x
    <3>4. \A i \in 1..Len(u) : u[i].tag # x
      BY <3>1, <3>3
    <3>5. QED
      BY <3>4 DEF x
  <2>2. Values(u, n, w) = <<>>
    BY <1>1, <2>1, ValuesNone
  <2>3. ASSUME NEW x \in Seq(Field), NEW y \in Seq(Field)
        PROVE  \A num, wire : Values(x \o y, num, wire) = Values(x, num, wire) \o Values(y, num, wire)
    BY ValuesBoth
  <2>3a. \A num, wire : Values(u \o fs, num, wire) = Values(u, num, wire) \o Values(fs, num, wire)
    BY <1>1, <2>3, Zenon
  <2>3b. \A num, wire : Values(u \o fs \o u, num, wire) = Values(u \o fs, num, wire) \o Values(u, num, wire)
    BY <1>1, <1>4, <2>3, Zenon
  <2>4. Values(u \o fs, n, w) = Values(u, n, w) \o Values(fs, n, w)
    BY <2>3a, Zenon
  <2>5. Values(u \o fs \o u, n, w) = Values(u \o fs, n, w) \o Values(u, n, w)
    BY <2>3b, Zenon
  <2>6. Values(fs, n, w) \in Seq(Content)
    BY <1>1, FoundType
  <2>7. <<>> \o Values(fs, n, w) \o <<>> = Values(fs, n, w)
    BY <2>6, OnlyOne
  <2>8. QED
    BY <2>2, <2>4, <2>5, <2>7, Zenon
<1>6. QED
  BY <1>3, <1>4, <1>5

\* A record is read as it was written, given tables that have its keys.
LEMMA RecordRead ==
    ASSUME NEW r, ReadableRecord(r), NEW u, Unknown(u),
           NEW pks \in Seq(ByteString), NEW ehks \in Seq(ByteString), NEW pk, NEW ehk,
           Refers(pk, r.partition_key, pks), Refers(ehk, r.explicit_hash_key, ehks)
    PROVE  LET f == RecordFields(pk, ehk, r)
           IN  /\ Message(f)
               /\ Encode(u \o f \o u) \in ByteString
               /\ DecodeRecord(Encode(u \o f \o u), pks, ehks) = r
               /\ r # ValueError
<1> DEFINE f == RecordFields(pk, ehk, r)
           g == u \o f \o u
           ms == TagMessages(r)
<1>1. /\ r \in UserRecord /\ r.partition_key \in ByteString /\ r.partition_key # None
      /\ r.explicit_hash_key \in ByteString \cup {None} /\ r.data \in ByteString /\ r.data # None
      /\ r.tags \in Seq(Tag)
      /\ r = [partition_key |-> r.partition_key, explicit_hash_key |-> r.explicit_hash_key,
              data |-> r.data, tags |-> r.tags]
  BY CodecAssumption DEF ReadableRecord, UserRecord
<1>2. pk \in Nat /\ Readable(pk) /\ pk < Len(pks) /\ pks[pk + 1] = r.partition_key /\ pk # None
  BY <1>1, CodecAssumption DEF Refers
<1>3. IF r.explicit_hash_key = None THEN ehk = None
      ELSE ehk \in Nat /\ Readable(ehk) /\ ehk < Len(ehks) /\ ehks[ehk + 1] = r.explicit_hash_key
  BY DEF Refers
<1>4. ehk = None \/ (ehk \in Nat /\ Readable(ehk))
  BY <1>3
<1>5. /\ Message(f) /\ f \in Seq(Field)
      /\ Values(f, 1, 0) = <<pk>> /\ Values(f, 2, 0) = (IF ehk = None THEN <<>> ELSE <<ehk>>)
      /\ Values(f, 3, 2) = <<r.data>> /\ Values(f, 4, 2) = ms
  BY <1>2, <1>4, RecordMessage
<1> HIDE DEF f, ms
<1>6. /\ Message(g)
      /\ \A n \in 1..4, w \in {0, 2} : Values(g, n, w) = Values(f, n, w)
  BY <1>5, Surrounded
<1>7. Fields(Encode(g)) = g /\ g # ValueError /\ Encode(g) \in ByteString
  BY <1>6, FieldsExact
<1> HIDE DEF g
<1>8. /\ Values(g, 1, 0) = <<pk>> /\ Values(g, 2, 0) = (IF ehk = None THEN <<>> ELSE <<ehk>>)
      /\ Values(g, 3, 2) = <<r.data>> /\ Values(g, 4, 2) = ms
  <2>1. 1 \in 1..4 /\ 2 \in 1..4 /\ 3 \in 1..4 /\ 4 \in 1..4 /\ 0 \in {0, 2} /\ 2 \in {0, 2}
    OBVIOUS
  <2>2. QED
    BY <1>5, <1>6, <2>1, Zenon
<1>9. Value(g, 1, 0) = pk /\ Value(g, 3, 2) = r.data
  BY <1>8, ValueOnce
<1>10. Value(g, 2, 0) = ehk
  <2>1. CASE ehk = None
    <3>1. Values(g, 2, 0) = <<>>
      BY <1>8, <2>1
    <3>2. QED
      BY <2>1, <3>1, ValueOnce
  <2>2. CASE ehk # None
    <3>1. Values(g, 2, 0) = <<ehk>>
      BY <1>8, <2>2
    <3>2. QED
      BY <3>1, ValueOnce
  <2>3. QED
    BY <2>1, <2>2
<1>11. /\ [i \in DOMAIN ms |-> DecodeTag(ms[i])] = r.tags
       /\ \A i \in DOMAIN ms : DecodeTag(ms[i]) # ValueError
  <2>1. DOMAIN r.tags = 1..Len(r.tags) /\ \A i \in DOMAIN r.tags : r.tags[i] \in Tag
    BY <1>1, LenProperties, ElementOfSeq
  <2>2. ms = [i \in DOMAIN r.tags |-> Encode(TagFields(r.tags[i]))]
    BY DEF ms, TagMessages
  <2>3. DOMAIN ms = DOMAIN r.tags
    BY <2>2
  <2>4. \A i \in DOMAIN r.tags : DecodeTag(ms[i]) = r.tags[i]
    BY <2>2, TagRead DEF ReadableRecord
  <2>5. r.tags = [i \in DOMAIN r.tags |-> r.tags[i]]
    BY <1>1
  <2>6. [i \in DOMAIN ms |-> DecodeTag(ms[i])] = r.tags
    BY <2>3, <2>4, <2>5
  <2>7. QED
    BY <2>1, <2>3, <2>4, <2>6, CodecAssumption
<1>12. Len(pks) \in Nat /\ Len(ehks) \in Nat
  BY LenProperties
<1>13. ~(pk >= Len(pks)) /\ (ehk # None => ~(ehk >= Len(ehks)))
  BY <1>2, <1>3, <1>4, <1>12
<1>14. (IF ehk = None THEN None ELSE ehks[ehk + 1]) = r.explicit_hash_key
  BY <1>1, <1>3, CodecAssumption
<1> DEFINE tags == [i \in DOMAIN ms |-> DecodeTag(ms[i])]
<1>15. ~ \E i \in DOMAIN tags : tags[i] = ValueError
  BY <1>11
<1>16. DecodeRecord(Encode(g), pks, ehks) =
         [partition_key |-> pks[pk + 1],
          explicit_hash_key |-> IF ehk = None THEN None ELSE ehks[ehk + 1],
          data |-> r.data, tags |-> tags]
  <2> HIDE DEF tags
  <2>1. tags = [i \in DOMAIN Values(g, 4, 2) |-> DecodeTag(Values(g, 4, 2)[i])]
    BY <1>8 DEF tags
  <2>2. QED
    BY <1>1, <1>2, <1>7, <1>9, <1>10, <1>13, <1>15, <2>1 DEF DecodeRecord, RecordOf,
       WIRE_VARINT, WIRE_LENGTH_DELIMITED
<1>17. tags = r.tags
  BY <1>11
<1> HIDE DEF tags
<1>18. DecodeRecord(Encode(g), pks, ehks) = r
  BY <1>1, <1>2, <1>14, <1>16, <1>17
<1>19. r # ValueError
  BY <1>1, CodecAssumption
<1>20. QED
  BY <1>5, <1>7, <1>18, <1>19 DEF f, g

-----------------------------------------------------------------------------
(* The builder                                                             *)

\* A key table of at most n keys, whose lengths can be read.
Table(t, n) ==
    /\ t \in Seq(ByteString) /\ Len(t) <= n
    /\ \A i \in 1..Len(t) : Readable(Len(t[i]))

\* A table with one more key has it, and all it had.
LEMMA TableGrows ==
    ASSUME NEW n \in Nat, NEW t, Table(t, n), \A i \in 0..n : Readable(i),
           NEW k \in ByteString \cup {None}, k # None => Readable(Len(k))
    PROVE  /\ Table(WithKey(t, k), n + 1)
           /\ Refers(Index(WithKey(t, k), k), k, WithKey(t, k))
           /\ \A i, x : Refers(i, x, t) => Refers(i, x, WithKey(t, k))
           /\ Len(t) <= Len(WithKey(t, k))
<1> DEFINE s == WithKey(t, k)
<1>1. /\ t \in Seq(ByteString) /\ Len(t) \in Nat /\ Len(t) <= n /\ DOMAIN t = 1..Len(t)
      /\ \A i \in 1..Len(t) : Readable(Len(t[i])) /\ t[i] \in ByteString
  BY LenProperties, ElementOfSeq DEF Table
<1>2. None \notin ByteString
  BY CodecAssumption
<1>3. CASE k = None \/ k \in ToSet(t)
  <2>1. s = t
    BY <1>3 DEF WithKey
  <2>2. Table(s, n + 1)
    BY <1>1, <2>1 DEF Table
  <2>3. Refers(Index(s, k), k, s)
    <3>1. CASE k = None
      BY <3>1 DEF Refers, Index
    <3>2. CASE k # None
      <4>1. \E i \in DOMAIN t : t[i] = k
        BY <1>1, <1>3, <3>2 DEF ToSet
      <4> DEFINE c == CHOOSE i \in DOMAIN t : t[i] = k
      <4>2. c \in DOMAIN t /\ t[c] = k
        BY <4>1, Zenon
      <4>3. Index(s, k) = c - 1
        BY <2>1, <3>2 DEF Index
      <4> HIDE DEF c
      <4>4. c \in 1..Len(t)
        BY <1>1, <4>2
      <4>5. c - 1 \in Nat /\ c - 1 < Len(t) /\ (c - 1) + 1 = c /\ c - 1 \in 0..n
        BY <1>1, <4>4
      <4>6. QED
        BY <2>1, <3>2, <4>2, <4>3, <4>5 DEF Refers
    <3>3. QED
      BY <3>1, <3>2
  <2>4. QED
    BY <1>1, <2>1, <2>2, <2>3
<1>4. CASE ~(k = None \/ k \in ToSet(t))
  <2>1. s = Append(t, k) /\ k \in ByteString /\ k # None
    BY <1>4 DEF WithKey
  <2>2. /\ s \in Seq(ByteString) /\ Len(s) = Len(t) + 1 /\ s[Len(t) + 1] = k
        /\ \A i \in 1..Len(t) : s[i] = t[i]
    BY <1>1, <2>1, AppendProperties
  <2> HIDE DEF s
  <2>3. \A i \in 1..Len(s) : Readable(Len(s[i]))
    <3>1. ASSUME NEW i \in 1..Len(s) PROVE Readable(Len(s[i]))
      <4>1. CASE i = Len(t) + 1
        BY <2>1, <2>2, <4>1
      <4>2. CASE i # Len(t) + 1
        <5>1. i \in 1..Len(t)
          BY <1>1, <2>2, <4>2
        <5>2. QED
          BY <1>1, <2>2, <5>1
      <4>3. QED
        BY <4>1, <4>2
    <3>2. QED
      BY <3>1
  <2>4. Table(s, n + 1)
    BY <1>1, <2>2, <2>3 DEF Table
  <2>5. Refers(Index(s, k), k, s)
    <3> DEFINE c == CHOOSE i \in DOMAIN s : s[i] = k
    <3>1. DOMAIN s = 1..Len(t) + 1
      BY <2>2, LenProperties
    <3>2. Len(t) + 1 \in DOMAIN s
      BY <1>1, <3>1
    <3>3. c \in DOMAIN s /\ s[c] = k
      BY <2>2, <3>2, Zenon
    <3>4. Index(s, k) = c - 1
      BY <2>1 DEF Index
    <3> HIDE DEF c
    <3>5. c - 1 \in Nat /\ c - 1 < Len(s) /\ (c - 1) + 1 = c /\ c - 1 \in 0..n
      BY <1>1, <2>2, <3>1, <3>3
    <3>6. QED
      BY <2>1, <3>3, <3>4, <3>5 DEF Refers
  <2>6. ASSUME NEW i, NEW x, Refers(i, x, t)
        PROVE  Refers(i, x, s)
    <3>1. CASE x = None
      BY <2>6, <3>1 DEF Refers
    <3>2. CASE x # None
      <4>1. i \in Nat /\ Readable(i) /\ i < Len(t) /\ t[i + 1] = x
        BY <2>6, <3>2 DEF Refers
      <4>2. i + 1 \in 1..Len(t) /\ i < Len(s)
        BY <1>1, <2>2, <4>1
      <4>3. s[i + 1] = x
        BY <2>2, <4>1, <4>2
      <4>4. QED
        BY <3>2, <4>1, <4>2, <4>3 DEF Refers
    <3>3. QED
      BY <3>1, <3>2
  <2>7. Len(t) <= Len(s)
    BY <1>1, <2>2
  <2>8. QED
    BY <2>4, <2>5, <2>6, <2>7 DEF s
<1>5. QED
  BY <1>3, <1>4

\* x is the message of record r, for tables that have its keys.
Written(x, r, pks, ehks) ==
    \E p, e : /\ Refers(p, r.partition_key, pks) /\ Refers(e, r.explicit_hash_key, ehks)
              /\ x = Encode(RecordFields(p, e, r))

\* What the builder has after the first n records.
BuiltTo(rs, n, b) ==
    /\ Table(b.pks, n) /\ Table(b.ehks, n)
    /\ b.records \in Seq(ByteString) /\ Len(b.records) = n
    /\ \A i \in 1..n : Written(b.records[i], rs[i], b.pks, b.ehks)

\* B is the builder's loop over the first n records.
Builds(rs, n, B) ==
    B = [m \in 0..n |-> IF m = 0 THEN Builder ELSE BuilderAdd(B[m - 1], rs[m])]

\* Such a loop exists.
LEMMA BuilderExists ==
    ASSUME NEW rs, NEW n \in Nat
    PROVE  \E B : Builds(rs, n, B)
<1> DEFINE Bad == {m \in Nat : ~ \E B : Builds(rs, m, B)}
<1>1. SUFFICES ASSUME Bad # {} PROVE FALSE
  OBVIOUS
<1>2. PICK m \in Bad : \A i \in Bad : m <= i
  <2>1. Bad \in SUBSET Nat
    OBVIOUS
  <2> HIDE DEF Bad
  <2>2. QED
    BY <1>1, <2>1, LeastNat
<1>3. m \in Nat /\ ~ \E B : Builds(rs, m, B)
  OBVIOUS
<1>4. CASE m = 0
  <2> DEFINE C == [i \in 0..m |-> Builder]
  <2>1. Builds(rs, m, C)
    BY <1>4 DEF Builds
  <2>2. QED
    BY <1>3, <2>1
<1>5. CASE m # 0
  <2>1. m - 1 \in Nat /\ ~(m <= m - 1)
    BY <1>3, <1>5
  <2>2. PICK B : Builds(rs, m - 1, B)
    BY <1>2, <2>1
  <2> DEFINE C == [i \in 0..m |-> IF i = m THEN BuilderAdd(B[m - 1], rs[m]) ELSE B[i]]
             E == [i \in 0..m |-> IF i = 0 THEN Builder ELSE BuilderAdd(C[i - 1], rs[i])]
  <2>3. \A i \in 0..m - 1 : B[i] = IF i = 0 THEN Builder ELSE BuilderAdd(B[i - 1], rs[i])
    BY <2>2 DEF Builds
  <2>4. ASSUME NEW i \in 0..m PROVE C[i] = E[i]
    <3>1. CASE i = m
      <4>1. C[m - 1] = B[m - 1] /\ C[m] = BuilderAdd(B[m - 1], rs[m]) /\ E[m] = BuilderAdd(C[m - 1], rs[m])
        BY <1>3, <1>5
      <4>2. QED
        BY <3>1, <4>1
    <3>2. CASE i # m
      <4>1. i \in 0..m - 1 /\ C[i] = B[i]
        BY <1>3, <3>2
      <4>2. i # 0 => C[i - 1] = B[i - 1]
        BY <1>3, <4>1
      <4>3. E[i] = IF i = 0 THEN Builder ELSE BuilderAdd(C[i - 1], rs[i])
        OBVIOUS
      <4> HIDE DEF C, E
      <4>4. QED
        BY <2>3, <4>1, <4>2, <4>3
    <3>3. QED
      BY <3>1, <3>2
  <2>5. C = E
    BY <2>4
  <2>6. Builds(rs, m, C)
    BY <2>5 DEF Builds
  <2>7. QED
    BY <1>3, <2>6
<1>6. QED
  BY <1>4, <1>5

\* One more record.
LEMMA BuilderStep ==
    ASSUME NEW rs, NEW n \in Nat \ {0}, NEW b, BuiltTo(rs, n - 1, b),
           ReadableRecord(rs[n]), \A i \in 0..n : Readable(i)
    PROVE  BuiltTo(rs, n, BuilderAdd(b, rs[n]))
<1> DEFINE r == rs[n]
           pks == WithKey(b.pks, r.partition_key)
           ehks == WithKey(b.ehks, r.explicit_hash_key)
           p == Index(pks, r.partition_key)
           e == Index(ehks, r.explicit_hash_key)
           x == Encode(RecordFields(p, e, r))
           c == BuilderAdd(b, r)
<1>1. c = [pks |-> pks, ehks |-> ehks, records |-> Append(b.records, x)]
  BY DEF BuilderAdd
<1>2. n - 1 \in Nat /\ n \in Nat /\ n - 1 + 1 = n /\ \A i \in 0..n - 1 : Readable(i)
  BY SMT
<1>3. /\ r.partition_key \in ByteString \cup {None} /\ Readable(Len(r.partition_key))
      /\ r.explicit_hash_key \in ByteString \cup {None}
      /\ r.explicit_hash_key # None => Readable(Len(r.explicit_hash_key))
  BY DEF ReadableRecord, UserRecord
<1>4. /\ Table(b.pks, n - 1) /\ Table(b.ehks, n - 1)
      /\ b.records \in Seq(ByteString) /\ Len(b.records) = n - 1
      /\ \A i \in 1..n - 1 : Written(b.records[i], rs[i], b.pks, b.ehks)
  BY DEF BuiltTo
<1> HIDE DEF r
<1>5. /\ Table(pks, n - 1 + 1) /\ Refers(p, r.partition_key, pks)
      /\ \A i, y : Refers(i, y, b.pks) => Refers(i, y, pks)
  BY <1>2, <1>3, <1>4, TableGrows
<1>6. /\ Table(ehks, n - 1 + 1) /\ Refers(e, r.explicit_hash_key, ehks)
      /\ \A i, y : Refers(i, y, b.ehks) => Refers(i, y, ehks)
  BY <1>2, <1>3, <1>4, TableGrows
<1> HIDE DEF p, e, pks, ehks
<1>7. x \in ByteString
  <2>1. Message(RecordFields(p, e, r))
    <3>1. pks \in Seq(ByteString) /\ ehks \in Seq(ByteString)
      BY <1>5, <1>6 DEF Table
    <3>2. Unknown(<<>>)
      BY NoField DEF Unknown
    <3>3. ReadableRecord(r)
      BY DEF r
    <3>4. QED
      BY <1>5, <1>6, <3>1, <3>2, <3>3, RecordRead
  <2>2. QED
    BY <2>1, FieldsExact
<1>8. Written(x, r, pks, ehks)
  BY <1>5, <1>6 DEF Written
<1> HIDE DEF x
<1> DEFINE ns == Append(b.records, x)
<1>9. /\ ns \in Seq(ByteString) /\ Len(ns) = n /\ ns[n] = x
      /\ \A i \in 1..n - 1 : ns[i] = b.records[i]
  BY <1>2, <1>4, <1>7, AppendProperties
<1> HIDE DEF ns
<1>10. ASSUME NEW i \in 1..n PROVE Written(ns[i], rs[i], pks, ehks)
  <2>1. CASE i = n
    BY <1>8, <1>9, <2>1 DEF r
  <2>2. CASE i # n
    <3>1. i \in 1..n - 1
      BY <1>2, <2>2
    <3>2. Written(ns[i], rs[i], b.pks, b.ehks)
      BY <1>4, <1>9, <3>1
    <3>3. QED
      BY <1>5, <1>6, <3>2 DEF Written
  <2>3. QED
    BY <2>1, <2>2
<1>11. c.pks = pks /\ c.ehks = ehks /\ c.records = ns
  BY <1>1 DEF ns
<1> HIDE DEF c
<1>12. BuiltTo(rs, n, c)
  BY <1>2, <1>5, <1>6, <1>9, <1>10, <1>11 DEF BuiltTo
<1>13. QED
  BY <1>12 DEF c, r

\* What the builder's loop makes of a sequence of records, one by one.
LEMMA BuiltLoop ==
    ASSUME NEW rs, Len(rs) \in Nat, \A i \in 1..Len(rs) : ReadableRecord(rs[i]),
           \A i \in 0..Len(rs) : Readable(i)
    PROVE  \E B : /\ Built(rs) = B[Len(rs)] /\ B[0] = Builder
                  /\ \A m \in 1..Len(rs) : B[m] = BuilderAdd(B[m - 1], rs[m])
                  /\ \A m \in 0..Len(rs) : BuiltTo(rs, m, B[m])
<1> DEFINE N == Len(rs)
           B == CHOOSE g : Builds(rs, N, g)
<1>1. Builds(rs, N, B)
  BY BuilderExists, Zenon
<1>2. Built(rs) = B[N]
  BY DEF Built, Builds
<1> HIDE DEF B, N
<1>3. N \in Nat /\ \A m \in 0..N : B[m] = IF m = 0 THEN Builder ELSE BuilderAdd(B[m - 1], rs[m])
  BY <1>1 DEF Builds, N
<1> DEFINE Bad == {m \in 0..N : ~BuiltTo(rs, m, B[m])}
<1>4. Bad = {}
  <2>1. SUFFICES ASSUME Bad # {} PROVE FALSE
    OBVIOUS
  <2>2. PICK m \in Bad : \A i \in Bad : m <= i
    <3>1. Bad \in SUBSET Nat
      BY <1>3
    <3> HIDE DEF Bad
    <3>2. QED
      BY <2>1, <3>1, LeastNat
  <2>3. m \in 0..N /\ ~BuiltTo(rs, m, B[m])
    OBVIOUS
  <2>4. CASE m = 0
    <3>1. B[0] = Builder /\ 0 \in 0..N
      BY <1>3
    <3>2. Builder.pks = <<>> /\ Builder.ehks = <<>> /\ Builder.records = <<>>
      BY DEF Builder
    <3>3. <<>> \in Seq(ByteString) /\ Len(<<>>) = 0
      OBVIOUS
    <3>4. Table(<<>>, 0)
      BY <3>3 DEF Table
    <3>5. BuiltTo(rs, 0, Builder)
      BY <3>2, <3>3, <3>4 DEF BuiltTo
    <3>6. QED
      BY <2>3, <2>4, <3>1, <3>5
  <2>5. CASE m # 0
    <3>1. m \in Nat \ {0} /\ m \in 1..N /\ m - 1 \in 0..N /\ ~(m <= m - 1) /\ \A i \in 0..m : i \in 0..N
      BY <1>3, <2>3, <2>5
    <3>2. BuiltTo(rs, m - 1, B[m - 1])
      BY <2>2, <3>1
    <3>3. B[m] = BuilderAdd(B[m - 1], rs[m])
      BY <1>3, <2>3, <2>5
    <3>4. ReadableRecord(rs[m]) /\ \A i \in 0..m : Readable(i)
      BY <3>1 DEF N
    <3>5. BuiltTo(rs, m, BuilderAdd(B[m - 1], rs[m]))
      BY <3>1, <3>2, <3>4, BuilderStep
    <3>6. QED
      BY <2>3, <3>3, <3>5
  <2>6. QED
    BY <2>4, <2>5
<1>5. 0 \in 0..N /\ \A m \in 1..N : m \in 0..N /\ m # 0
  BY <1>3
<1>6. B[0] = Builder /\ \A m \in 1..N : B[m] = BuilderAdd(B[m - 1], rs[m])
  BY <1>3, <1>5
<1>7. QED
  BY <1>2, <1>4, <1>6 DEF N

\* And in the end.
LEMMA BuiltAll ==
    ASSUME NEW rs, Len(rs) \in Nat, \A i \in 1..Len(rs) : ReadableRecord(rs[i]),
           \A i \in 0..Len(rs) : Readable(i)
    PROVE  BuiltTo(rs, Len(rs), Built(rs))
<1>1. PICK B : Built(rs) = B[Len(rs)] /\ \A m \in 0..Len(rs) : BuiltTo(rs, m, B[m])
  BY BuiltLoop
<1>2. Len(rs) \in 0..Len(rs)
  OBVIOUS
<1>3. QED
  BY <1>1, <1>2

-----------------------------------------------------------------------------
(* The frame                                                               *)

\* A digest is sixteen bytes, the magic four.
LEMMA FrameBytes ==
    ASSUME NEW x \in ByteString
    PROVE  /\ Md5(x) \in ByteString /\ Len(Md5(x)) = 16
           /\ MAGIC \in ByteString /\ Len(MAGIC) = 4
<1>0. \A n \in Nat : n % 256 \in 0..255
  OBVIOUS
<1>1. Len(x) \in Nat /\ \A i \in 1..Len(x) : x[i] \in 0..255
  BY Bytes
<1>2. ASSUME NEW i \in 1..16
      PROVE  (IF i <= Len(x) THEN x[Len(x) - i + 1] ELSE Len(x) % 256) \in 0..255
  <2>1. i <= Len(x) => Len(x) - i + 1 \in 1..Len(x)
    BY <1>1
  <2>2. Len(x) % 256 \in 0..255
    BY <1>0, <1>1
  <2>3. QED
    BY <1>1, <2>1, <2>2
<1> DEFINE One(i) == IF i <= Len(x) THEN x[Len(x) - i + 1] ELSE Len(x) % 256
           h == [i \in 1..16 |-> One(i)]
<1>3. Md5(x) = h
  BY DEF Md5, MD5_LEN
<1>3a. \A i \in 1..16 : One(i) \in 0..255
  BY <1>2
<1> HIDE DEF One
<1>3b. h \in [1..16 -> 0..255]
  BY <1>3a
<1> HIDE DEF h
<1>3c. h \in Seq(0..255) /\ Len(h) = 16
  <2> DEFINE n == 16
  <2>1. n \in Nat /\ h \in [1..n -> 0..255]
    BY <1>3b
  <2> HIDE DEF n
  <2>2. h \in Seq(0..255) /\ Len(h) = n
    BY <2>1
  <2>3. QED
    BY <2>2 DEF n
<1>4. Md5(x) \in Seq(0..255) /\ Len(Md5(x)) = 16
  BY <1>3, <1>3c
<1>5. MAGIC \in Seq(0..255) /\ Len(MAGIC) = 4
  BY DEF MAGIC
<1>6. QED
  BY <1>4, <1>5 DEF ByteString

\* The frame is recognised, and what is in it found.
LEMMA Unframed ==
    ASSUME NEW x \in ByteString
    PROVE  /\ IsAggregated(Framed(x)) /\ Framed(x) \in ByteString /\ Len(Framed(x)) = Len(x) + 20
           /\ SubSeq(Framed(x), Len(MAGIC) + 1, Len(Framed(x)) - MD5_LEN) = x
<1> DEFINE f == Framed(x)
           m == MAGIC
           h == Md5(x)
<1>1. h \in ByteString /\ Len(h) = 16 /\ m \in ByteString /\ Len(m) = 4 /\ Len(x) \in Nat
  BY FrameBytes, Bytes
<1>2. f = m \o x \o h
  BY DEF Framed
<1> HIDE DEF f, m, h
<1>3. /\ m \o x \in ByteString /\ Len(m \o x) = 4 + Len(x)
      /\ \A i \in 1..4 + Len(x) : (m \o x)[i] = IF i <= 4 THEN m[i] ELSE x[i - 4]
  <2>1. /\ m \o x \in ByteString /\ Len(m \o x) = Len(m) + Len(x)
        /\ \A i \in 1..Len(m) + Len(x) : (m \o x)[i] = IF i <= Len(m) THEN m[i] ELSE x[i - Len(m)]
    BY <1>1, Joined
  <2>2. QED
    BY <1>1, <2>1
<1>4. /\ f \in ByteString /\ Len(f) = Len(x) + 20
      /\ \A i \in 1..(4 + Len(x)) + 16 : f[i] = IF i <= 4 + Len(x) THEN (m \o x)[i] ELSE h[i - (4 + Len(x))]
  <2>1. /\ f \in ByteString /\ Len(f) = (4 + Len(x)) + 16
        /\ \A i \in 1..(4 + Len(x)) + 16 : f[i] = IF i <= 4 + Len(x) THEN (m \o x)[i] ELSE h[i - (4 + Len(x))]
    <3> DEFINE mx == m \o x
    <3>1. mx \in ByteString /\ Len(mx) = 4 + Len(x) /\ f = mx \o h
      BY <1>2, <1>3
    <3> HIDE DEF mx
    <3>2. /\ mx \o h \in ByteString /\ Len(mx \o h) = Len(mx) + Len(h)
          /\ \A i \in 1..Len(mx) + Len(h) : (mx \o h)[i] = IF i <= Len(mx) THEN mx[i] ELSE h[i - Len(mx)]
      BY <1>1, <3>1, Joined
    <3>3. /\ f \in ByteString /\ Len(f) = (4 + Len(x)) + 16
          /\ \A i \in 1..(4 + Len(x)) + 16 : f[i] = IF i <= 4 + Len(x) THEN mx[i] ELSE h[i - (4 + Len(x))]
      BY <1>1, <3>1, <3>2
    <3>4. QED
      BY <3>3 DEF mx
  <2>2. (4 + Len(x)) + 16 = Len(x) + 20
    BY <1>1
  <2>3. QED
    BY <2>1, <2>2
<1>5. ASSUME NEW i \in 1..Len(x) PROVE f[5 + i - 1] = x[i]
  <2>1. 5 + i - 1 \in 1..(4 + Len(x)) + 16 /\ 5 + i - 1 <= 4 + Len(x) /\ 5 + i - 1 \in 1..4 + Len(x)
        /\ ~(5 + i - 1 <= 4) /\ 5 + i - 1 - 4 = i
    BY <1>1
  <2> DEFINE k == 5 + i - 1
  <2>2. f[k] = (m \o x)[k]
    BY <1>4, <2>1
  <2>3. (m \o x)[k] = x[k - 4]
    BY <1>3, <2>1
  <2>4. QED
    BY <2>1, <2>2, <2>3
<1>6. Matches(f, 5, x) /\ Entire(f, 5, x)
  BY <1>1, <1>4, <1>5 DEF Matches, Entire
<1>7. SubSeq(f, 5, 5 + Len(x) - 1) = x
  BY <1>4, <1>6, SliceOf
<1>8. 5 + Len(x) - 1 = Len(f) - 16
  BY <1>1, <1>4
<1>9. SubSeq(f, 4 + 1, Len(f) - 16) = x
  BY <1>7, <1>8
<1>10. IsPrefix(m, f)
  <2>1. \A i \in 1..4 : f[1 + i - 1] = m[i]
    <3>1. \A i \in 1..4 : i \in 1..(4 + Len(x)) + 16 /\ i \in 1..4 + Len(x) /\ i <= 4 /\ i <= 4 + Len(x) /\ 1 + i - 1 = i
      BY <1>1
    <3>2. QED
      BY <1>3, <1>4, <3>1
  <2>2. Matches(f, 1, m) /\ Entire(f, 1, m) /\ Len(m) <= Len(f) /\ 1 + Len(m) - 1 = Len(m)
    BY <1>1, <1>4, <2>1 DEF Matches, Entire
  <2>3. SubSeq(f, 1, 1 + Len(m) - 1) = m
    <3>1. m \in ByteString /\ f \in ByteString /\ 1 \in Nat \ {0}
      BY <1>1, <1>4
    <3>2. Matches(f, 1, m) /\ Entire(f, 1, m)
      BY <2>2
    <3>3. \A pos \in Nat \ {0} : Matches(f, pos, m) /\ Entire(f, pos, m) => SubSeq(f, pos, pos + Len(m) - 1) = m
      BY <3>1, SliceOf
    <3>4. QED
      BY <3>1, <3>2, <3>3, Zenon
  <2>4. SubSeq(m, 1, Len(m)) = m
    BY <1>1, SubSeqFull DEF ByteString
  <2>5. QED
    BY <2>2, <2>3, <2>4 DEF IsPrefix
<1>11. IsAggregated(f)
  BY <1>1, <1>4, <1>10 DEF IsAggregated, MD5_LEN, m
<1>12. QED
  BY <1>1, <1>4, <1>9, <1>11 DEF f, m, MD5_LEN

\* The frame makes no difference.
LEMMA DecodeFramed ==
    ASSUME NEW x \in ByteString
    PROVE  DecodeAggregated(Framed(x)) = RecordsOf(Fields(x))
<1> DEFINE p == Framed(x)
           y == SubSeq(p, Len(MAGIC) + 1, Len(p) - MD5_LEN)
<1>1. IsAggregated(p) /\ y = x
  BY Unframed
<1>2. p = Framed(y)
  BY <1>1
<1> HIDE DEF p
<1>3. DecodeAggregated(p) = RecordsOf(Fields(y))
  <2>1. ~(~IsAggregated(p)) /\ ~(p # Framed(y))
    BY <1>1, <1>2
  <2>2. QED
    BY <2>1 DEF DecodeAggregated
<1>4. QED
  BY <1>1, <1>3 DEF p

\* The decoder's records, when every one is read.
LEMMA RecordsOfRead ==
    ASSUME NEW S, NEW f, f # ValueError, NEW rs \in Seq(S),
           NEW pks, Values(f, 1, 2) = pks, NEW ehks, Values(f, 2, 2) = ehks,
           NEW blobs, Values(f, 3, 2) = blobs, DOMAIN blobs = 1..Len(rs),
           \A i \in 1..Len(rs) : DecodeRecord(blobs[i], pks, ehks) = rs[i] /\ rs[i] # ValueError
    PROVE  RecordsOf(f) = rs
<1> DEFINE records == [i \in DOMAIN blobs |-> DecodeRecord(blobs[i], pks, ehks)]
<1>1. rs = [i \in 1..Len(rs) |-> rs[i]] /\ DOMAIN rs = 1..Len(rs)
  BY LenProperties
<1>2. records = rs
  BY <1>1
<1>3. \A i \in DOMAIN records : records[i] # ValueError
  BY <1>1, <1>2
<1>4. RecordsOf(f) = IF f = ValueError \/ \E i \in DOMAIN records : records[i] = ValueError
                      THEN ValueError ELSE records
  BY DEF RecordsOf, WIRE_LENGTH_DELIMITED
<1> HIDE DEF records
<1>5. QED
  BY <1>2, <1>3, <1>4

\* Strings whose lengths can be read.
ReadableStrings(ps) == ps \in Seq(ByteString) /\ \A i \in 1..Len(ps) : Readable(Len(ps[i]))

\* The fields of a batch, with those of a later schema between the tables.
BatchFields(u, pks, ehks, blobs) ==
    u \o Repeated(1, pks) \o u \o Repeated(2, ehks) \o Repeated(3, blobs)

\* Its bytes, part by part.
InParts(u, pks, ehks, blobs) ==
    /\ Message(BatchFields(u, pks, ehks, blobs))
    /\ Encode(BatchFields(u, pks, ehks, blobs)) =
           Encode(u) \o Encode(Repeated(1, pks)) \o Encode(u)
           \o Encode(Repeated(2, ehks)) \o Encode(Repeated(3, blobs))

\* Five in a row, of which three say nothing.
LEMMA OnlyOneOfFive ==
    ASSUME NEW S, NEW x \in Seq(S)
    PROVE  /\ <<>> \o x \o <<>> \o <<>> \o <<>> = x /\ <<>> \o <<>> \o <<>> \o x \o <<>> = x
           /\ <<>> \o <<>> \o <<>> \o <<>> \o x = x
<1>1. x \o <<>> = x /\ <<>> \o x = x
  BY ConcatEmptySeq
<1>2. <<>> \o <<>> = <<>>
  BY EmptySeq, ConcatEmptySeq
<1>3. QED
  BY <1>1, <1>2

\* They are a message, whose values are the tables and the records.
LEMMA BatchMessage ==
    ASSUME NEW u, Unknown(u), NEW pks, ReadableStrings(pks), NEW ehks, ReadableStrings(ehks),
           NEW blobs, ReadableStrings(blobs)
    PROVE  LET f == BatchFields(u, pks, ehks, blobs)
           IN  /\ Message(f) /\ f \in Seq(Field)
               /\ Values(f, 1, 2) = pks /\ Values(f, 2, 2) = ehks /\ Values(f, 3, 2) = blobs
               /\ InParts(u, pks, ehks, blobs)
<1> DEFINE f == BatchFields(u, pks, ehks, blobs)
           a == Repeated(1, pks)
           b == Repeated(2, ehks)
           c == Repeated(3, blobs)
<1>1. /\ pks \in Seq(ByteString) /\ ehks \in Seq(ByteString) /\ blobs \in Seq(ByteString)
      /\ \A i \in 1..Len(pks) : Readable(Len(pks[i]))
      /\ \A i \in 1..Len(ehks) : Readable(Len(ehks[i]))
      /\ \A i \in 1..Len(blobs) : Readable(Len(blobs[i]))
  BY DEF ReadableStrings
<1>2. Message(u) /\ u \in Seq(Field) /\ Len(u) \in Nat
  BY DEF Unknown, Message
<1>3. /\ Message(a) /\ a \in Seq(Field)
      /\ \A n, w : Values(a, n, w) = IF 1 * 8 + 2 = n * 8 + w THEN pks ELSE <<>>
  BY <1>1, RepeatedField
<1>4. /\ Message(b) /\ b \in Seq(Field)
      /\ \A n, w : Values(b, n, w) = IF 2 * 8 + 2 = n * 8 + w THEN ehks ELSE <<>>
  BY <1>1, RepeatedField
<1>5. /\ Message(c) /\ c \in Seq(Field)
      /\ \A n, w : Values(c, n, w) = IF 3 * 8 + 2 = n * 8 + w THEN blobs ELSE <<>>
  BY <1>1, RepeatedField
<1>6. f = u \o a \o u \o b \o c
  BY DEF BatchFields
<1> HIDE DEF f, a, b, c
<1>7. Message(u \o a) /\ Encode(u \o a) = Encode(u) \o Encode(a)
  BY <1>2, <1>3, EncodeBoth
<1>8. Message(u \o a \o u) /\ Encode(u \o a \o u) = Encode(u \o a) \o Encode(u)
  BY <1>2, <1>7, EncodeBoth
<1>9. Message(u \o a \o u \o b) /\ Encode(u \o a \o u \o b) = Encode(u \o a \o u) \o Encode(b)
  BY <1>4, <1>8, EncodeBoth
<1>10. Message(f) /\ Encode(f) = Encode(u \o a \o u \o b) \o Encode(c)
  BY <1>5, <1>6, <1>9, EncodeBoth
<1>11. Encode(f) = Encode(u) \o Encode(a) \o Encode(u) \o Encode(b) \o Encode(c)
  BY <1>7, <1>8, <1>9, <1>10
<1>12. /\ u \o a \in Seq(Field) /\ u \o a \o u \in Seq(Field) /\ u \o a \o u \o b \in Seq(Field)
       /\ f \in Seq(Field)
  BY <1>7, <1>8, <1>9, <1>10 DEF Message
<1>13. \A n, w : Values(f, n, w) = Values(u, n, w) \o Values(a, n, w) \o Values(u, n, w)
                                   \o Values(b, n, w) \o Values(c, n, w)
  <2>0. ASSUME NEW x \in Seq(Field), NEW y \in Seq(Field)
        PROVE  \A n, w : Values(x \o y, n, w) = Values(x, n, w) \o Values(y, n, w)
    BY ValuesBoth
  <2>1. \A n, w : Values(u \o a, n, w) = Values(u, n, w) \o Values(a, n, w)
    BY <1>2, <1>3, <2>0, Zenon
  <2>2. \A n, w : Values(u \o a \o u, n, w) = Values(u \o a, n, w) \o Values(u, n, w)
    BY <1>2, <1>12, <2>0, Zenon
  <2>3. \A n, w : Values(u \o a \o u \o b, n, w) = Values(u \o a \o u, n, w) \o Values(b, n, w)
    BY <1>4, <1>12, <2>0, Zenon
  <2>4. \A n, w : Values(u \o a \o u \o b \o c, n, w) = Values(u \o a \o u \o b, n, w) \o Values(c, n, w)
    BY <1>5, <1>12, <2>0, Zenon
  <2>5. QED
    BY <1>6, <2>1, <2>2, <2>3, <2>4, Zenon
<1>14. ASSUME NEW n \in 1..3 PROVE Values(u, n, 2) = <<>>
  <2>1. \A i \in 1..Len(u) : u[i].tag # n * 8 + 2
    <3>1. \A i \in 1..Len(u) : u[i].tag \in Nat /\ u[i].tag >= 40
      <4>1. \A i \in 1..Len(u) : u[i] \in Field
        BY <1>2, ElementOfSeq
      <4>2. QED
        BY <4>1 DEF Unknown, Field
    <3> DEFINE x == n * 8 + 2
    <3>2. x \in Nat /\ x < 40
      OBVIOUS
    <3> HIDE DEF x
    <3>3. \A i \in 1..Len(u) : u[i].tag # x
      BY <3>1, <3>2
    <3>4. QED
      BY <3>3 DEF x
  <2>2. QED
    BY <1>2, <2>1, ValuesNone
<1>15. Values(u, 1, 2) = <<>> /\ Values(u, 2, 2) = <<>> /\ Values(u, 3, 2) = <<>>
  <2>1. 1 \in 1..3 /\ 2 \in 1..3 /\ 3 \in 1..3
    OBVIOUS
  <2>2. QED
    BY <1>14, <2>1, Zenon
<1>16. Values(f, 1, 2) = pks
  <2>1. 1 * 8 + 2 = 1 * 8 + 2 /\ 2 * 8 + 2 # 1 * 8 + 2 /\ 3 * 8 + 2 # 1 * 8 + 2
    OBVIOUS
  <2>2. Values(a, 1, 2) = pks /\ Values(b, 1, 2) = <<>> /\ Values(c, 1, 2) = <<>>
    BY <1>3, <1>4, <1>5, <2>1
  <2>3. Values(f, 1, 2) = <<>> \o pks \o <<>> \o <<>> \o <<>>
    BY <1>13, <1>15, <2>2, Zenon
  <2>4. QED
    BY <1>1, <2>3, OnlyOneOfFive
<1>17. Values(f, 2, 2) = ehks
  <2>1. 1 * 8 + 2 # 2 * 8 + 2 /\ 2 * 8 + 2 = 2 * 8 + 2 /\ 3 * 8 + 2 # 2 * 8 + 2
    OBVIOUS
  <2>2. Values(a, 2, 2) = <<>> /\ Values(b, 2, 2) = ehks /\ Values(c, 2, 2) = <<>>
    BY <1>3, <1>4, <1>5, <2>1
  <2>3. Values(f, 2, 2) = <<>> \o <<>> \o <<>> \o ehks \o <<>>
    BY <1>13, <1>15, <2>2, Zenon
  <2>4. QED
    BY <1>1, <2>3, OnlyOneOfFive
<1>18. Values(f, 3, 2) = blobs
  <2>1. 1 * 8 + 2 # 3 * 8 + 2 /\ 2 * 8 + 2 # 3 * 8 + 2 /\ 3 * 8 + 2 = 3 * 8 + 2
    OBVIOUS
  <2>2. Values(a, 3, 2) = <<>> /\ Values(b, 3, 2) = <<>> /\ Values(c, 3, 2) = blobs
    BY <1>3, <1>4, <1>5, <2>1
  <2>3. Values(f, 3, 2) = <<>> \o <<>> \o <<>> \o <<>> \o blobs
    BY <1>13, <1>15, <2>2, Zenon
  <2>4. QED
    BY <1>1, <2>3, OnlyOneOfFive
<1>19. QED
  BY <1>10, <1>11, <1>12, <1>16, <1>17, <1>18 DEF f, a, b, c, InParts

\* The messages of records rs, fields of a later schema around their own.
Messages(rs, u, pks, ehks, blobs) ==
    \A i \in 1..Len(rs) : \E p, e : /\ Refers(p, rs[i].partition_key, pks)
                                    /\ Refers(e, rs[i].explicit_hash_key, ehks)
                                    /\ blobs[i] = Encode(u \o RecordFields(p, e, rs[i]) \o u)

\* A batch is read as it was written, fields of a later schema among its own.
LEMMA BatchRead ==
    ASSUME NEW rs, NEW S, rs \in Seq(S), \A i \in 1..Len(rs) : ReadableRecord(rs[i]),
           NEW u, Unknown(u), NEW pks, ReadableStrings(pks), NEW ehks, ReadableStrings(ehks),
           NEW blobs, ReadableStrings(blobs), Len(blobs) = Len(rs),
           Messages(rs, u, pks, ehks, blobs)
    PROVE  DecodeAggregated(Framed(Encode(BatchFields(u, pks, ehks, blobs)))) = rs
<1> DEFINE f == BatchFields(u, pks, ehks, blobs)
<1>1. /\ Message(f)
      /\ Values(f, 1, 2) = pks /\ Values(f, 2, 2) = ehks /\ Values(f, 3, 2) = blobs
  BY BatchMessage
<1> HIDE DEF f
<1>2. Fields(Encode(f)) = f /\ f # ValueError /\ Encode(f) \in ByteString
  BY <1>1, FieldsExact
<1>3. /\ pks \in Seq(ByteString) /\ ehks \in Seq(ByteString) /\ blobs \in Seq(ByteString)
      /\ DOMAIN blobs = 1..Len(rs)
  BY LenProperties DEF ReadableStrings
<1>4. ASSUME NEW i \in 1..Len(rs)
      PROVE  DecodeRecord(blobs[i], pks, ehks) = rs[i] /\ rs[i] # ValueError
  <2>1. PICK p, e : /\ Refers(p, rs[i].partition_key, pks)
                    /\ Refers(e, rs[i].explicit_hash_key, ehks)
                    /\ blobs[i] = Encode(u \o RecordFields(p, e, rs[i]) \o u)
    BY DEF Messages
  <2>2. ReadableRecord(rs[i])
    OBVIOUS
  <2> DEFINE r == rs[i]
  <2> HIDE DEF r
  <2>3. /\ ReadableRecord(r) /\ Refers(p, r.partition_key, pks) /\ Refers(e, r.explicit_hash_key, ehks)
        /\ blobs[i] = Encode(u \o RecordFields(p, e, r) \o u)
    BY <2>1, <2>2 DEF r
  <2>4. DecodeRecord(Encode(u \o RecordFields(p, e, r) \o u), pks, ehks) = r /\ r # ValueError
    BY <1>3, <2>3, RecordRead
  <2>5. QED
    BY <2>3, <2>4 DEF r
<1>5. RecordsOf(f) = rs
  BY <1>1, <1>2, <1>3, <1>4, RecordsOfRead
<1>6. DecodeAggregated(Framed(Encode(f))) = RecordsOf(Fields(Encode(f)))
  BY <1>2, DecodeFramed
<1>7. QED
  BY <1>2, <1>5, <1>6 DEF f

\* A record without fields of a later schema.
LEMMA RecordReadPlain ==
    ASSUME NEW r, ReadableRecord(r),
           NEW pks \in Seq(ByteString), NEW ehks \in Seq(ByteString), NEW pk, NEW ehk,
           Refers(pk, r.partition_key, pks), Refers(ehk, r.explicit_hash_key, ehks)
    PROVE  LET f == RecordFields(pk, ehk, r)
           IN  Message(f) /\ DecodeRecord(Encode(f), pks, ehks) = r /\ r # ValueError
<1> DEFINE f == RecordFields(pk, ehk, r)
           u == <<>>
<1>1. Unknown(u)
  BY NoField DEF Unknown
<1> HIDE DEF u
<1>2. Message(f) /\ DecodeRecord(Encode(u \o f \o u), pks, ehks) = r /\ r # ValueError
  BY <1>1, RecordRead
<1> HIDE DEF f
<1>3. u \o f \o u = f
  <2>1. f \in Seq(Field)
    BY <1>2 DEF Message
  <2>2. QED
    BY <2>1, OnlyOne DEF u
<1>4. QED
  BY <1>2, <1>3 DEF f

\* Fields without records.
LEMMA RecordsOfNone ==
    ASSUME NEW f, f # ValueError, Values(f, 3, 2) = <<>>
    PROVE  RecordsOf(f) = <<>>
<1> DEFINE pks == Values(f, 1, 2)
           ehks == Values(f, 2, 2)
           records == [i \in DOMAIN <<>> |-> DecodeRecord(<<>>[i], pks, ehks)]
<1>1. DOMAIN <<>> = {}
  OBVIOUS
<1>2. records = <<>> /\ DOMAIN records = {}
  BY <1>1
<1>3. RecordsOf(f) = IF f = ValueError \/ \E i \in DOMAIN records : records[i] = ValueError
                      THEN ValueError ELSE records
  BY DEF RecordsOf, WIRE_LENGTH_DELIMITED
<1> HIDE DEF records
<1>4. QED
  BY <1>2, <1>3

\* The first m of a sequence are a prefix of it.
LEMMA FirstOnes ==
    ASSUME NEW S, NEW rs \in Seq(S), NEW m \in 0..Len(rs)
    PROVE  /\ SubSeq(rs, 1, m) \in Seq(S) /\ Len(SubSeq(rs, 1, m)) = m
           /\ \A i \in 1..m : SubSeq(rs, 1, m)[i] = rs[i]
           /\ IsPrefix(SubSeq(rs, 1, m), rs)
<1> DEFINE q == SubSeq(rs, 1, m)
<1>1. Len(rs) \in Nat /\ \A i \in 1..m : rs[i] \in S
  BY ElementOfSeq
<1>2. /\ q \in Seq(S) /\ Len(q) = (IF 1 <= m THEN m - 1 + 1 ELSE 0)
      /\ \A i \in 1..m - 1 + 1 : q[i] = rs[1 + i - 1]
  BY <1>1, SubSeqProperties
<1>3. /\ q \in Seq(S) /\ Len(q) = m /\ \A i \in 1..m : q[i] = rs[i]
  <2>1. m - 1 + 1 = m /\ \A i \in 1..m : 1 + i - 1 = i
    OBVIOUS
  <2> HIDE DEF q
  <2>2. QED
    BY <1>2, <2>1
<1>4. SubSeq(q, 1, Len(q)) = q
  <2> HIDE DEF q
  <2>1. QED
    BY <1>3, SubSeqFull
<1>5. IsPrefix(q, rs)
  <2>1. Len(q) <= Len(rs)
    BY <1>1, <1>3
  <2>2. QED
    BY <1>3, <1>4, <2>1 DEF IsPrefix
<1>6. QED
  BY <1>3, <1>5

\* The fields before those of the records: the key tables.
Keys(pks, ehks) == Repeated(1, pks) \o Repeated(2, ehks)

\* The two parts of a batch without fields of a later schema: its key tables
\* and its records.
Plain(pks, ehks, blobs) ==
    /\ BatchFields(<<>>, pks, ehks, blobs) = Keys(pks, ehks) \o Repeated(3, blobs)
    /\ Keys(pks, ehks) \in Seq(Field)
    /\ \A i \in 1..Len(Keys(pks, ehks)) : Keys(pks, ehks)[i].tag # 26
    /\ Repeated(3, blobs) \in Seq(Field) /\ Len(Repeated(3, blobs)) = Len(blobs)
    /\ \A i \in 1..Len(blobs) : Repeated(3, blobs)[i] = LengthDelimited(3, blobs[i])

\* A batch has these parts.
LEMMA PlainBatch ==
    ASSUME NEW pks, ReadableStrings(pks), NEW ehks, ReadableStrings(ehks),
           NEW blobs, ReadableStrings(blobs)
    PROVE  Plain(pks, ehks, blobs)
<1> DEFINE a == Repeated(1, pks)
           b == Repeated(2, ehks)
           c == Repeated(3, blobs)
<1>1. /\ a \in Seq(Field) /\ Len(a) = Len(pks) /\ \A i \in 1..Len(pks) : a[i].tag = 1 * 8 + 2
  BY RepeatedField DEF ReadableStrings
<1>2. /\ b \in Seq(Field) /\ Len(b) = Len(ehks) /\ \A i \in 1..Len(ehks) : b[i].tag = 2 * 8 + 2
  BY RepeatedField DEF ReadableStrings
<1>3. /\ c \in Seq(Field) /\ Len(c) = Len(blobs)
      /\ \A i \in 1..Len(blobs) : c[i] = LengthDelimited(3, blobs[i])
  BY RepeatedField DEF ReadableStrings
<1>4. BatchFields(<<>>, pks, ehks, blobs) = <<>> \o a \o <<>> \o b \o c /\ Keys(pks, ehks) = a \o b
  BY DEF BatchFields, Keys
<1> HIDE DEF a, b, c
<1>5. <<>> \o a \o <<>> = a
  BY <1>1, OnlyOne
<1>6. /\ a \o b \in Seq(Field) /\ Len(a \o b) = Len(a) + Len(b) /\ Len(a) \in Nat /\ Len(b) \in Nat
      /\ \A i \in 1..Len(a) + Len(b) : (a \o b)[i] = IF i <= Len(a) THEN a[i] ELSE b[i - Len(a)]
  <2>1. a \in Seq(Field) /\ b \in Seq(Field)
    BY <1>1, <1>2
  <2>2. Len(a) \in Nat /\ Len(b) \in Nat
    BY <2>1
  <2>3. QED
    BY <2>1, <2>2, ConcatProperties
<1>7. ASSUME NEW i \in 1..Len(a \o b) PROVE (a \o b)[i].tag # 26
  <2>1. CASE i <= Len(a)
    <3>1. i \in 1..Len(a) /\ (a \o b)[i] = a[i]
      BY <1>6, <2>1
    <3>2. (a \o b)[i].tag = 1 * 8 + 2
      BY <1>1, <3>1
    <3>3. QED
      BY <3>2
  <2>2. CASE ~(i <= Len(a))
    <3>1. i - Len(a) \in 1..Len(b) /\ (a \o b)[i] = b[i - Len(a)]
      BY <1>6, <2>2
    <3>2. (a \o b)[i].tag = 2 * 8 + 2
      BY <1>2, <3>1
    <3>3. QED
      BY <3>2
  <2>3. QED
    BY <2>1, <2>2
<1>8. QED
  BY <1>3, <1>4, <1>5, <1>6, <1>7 DEF c, Plain

\* A batch of which only the first j fields are there.
LEMMA CutFields ==
    ASSUME NEW pks, ReadableStrings(pks), NEW ehks, ReadableStrings(ehks),
           NEW blobs, ReadableStrings(blobs), NEW j \in 0..Len(BatchFields(<<>>, pks, ehks, blobs))
    PROVE  LET g == SubSeq(BatchFields(<<>>, pks, ehks, blobs), 1, j)
           IN  /\ g \in Seq(Field)
               /\ \/ Values(g, 3, 2) = <<>>
                  \/ \E m \in 0..Len(blobs) : g = BatchFields(<<>>, pks, ehks, SubSeq(blobs, 1, m))
<1> DEFINE f == BatchFields(<<>>, pks, ehks, blobs)
           g == SubSeq(f, 1, j)
           a == Keys(pks, ehks)
           c == Repeated(3, blobs)
           k == Len(a)
<1>1. /\ f = a \o c /\ a \in Seq(Field) /\ k \in Nat /\ \A i \in 1..k : a[i].tag # 26
      /\ c \in Seq(Field) /\ Len(c) = Len(blobs) /\ Len(blobs) \in Nat
      /\ \A i \in 1..Len(blobs) : c[i] = LengthDelimited(3, blobs[i])
  <2>1. /\ f = a \o c /\ a \in Seq(Field) /\ \A i \in 1..Len(a) : a[i].tag # 26
        /\ c \in Seq(Field) /\ Len(c) = Len(blobs)
        /\ \A i \in 1..Len(blobs) : c[i] = LengthDelimited(3, blobs[i])
    <3>1. Plain(pks, ehks, blobs)
      BY PlainBatch
    <3>2. QED
      BY <3>1, Zenon DEF Plain
  <2>2. Len(blobs) \in Nat
    BY DEF ReadableStrings
  <2> HIDE DEF a, c, f
  <2>3. k \in Nat
    BY <2>1
  <2>4. QED
    BY <2>1, <2>2, <2>3
<1> HIDE DEF f, a, c
<1>2. /\ f \in Seq(Field) /\ Len(f) = k + Len(blobs)
      /\ \A i \in 1..k + Len(blobs) : f[i] = IF i <= k THEN a[i] ELSE c[i - k]
  <2>1. /\ a \o c \in Seq(Field) /\ Len(a \o c) = Len(a) + Len(c)
        /\ \A i \in 1..Len(a) + Len(c) : (a \o c)[i] = IF i <= Len(a) THEN a[i] ELSE c[i - Len(a)]
    BY <1>1, ConcatProperties
  <2>2. QED
    BY <1>1, <2>1
<1>3. j \in 0..Len(f)
  BY DEF f
<1>4. g \in Seq(Field) /\ Len(g) = j /\ \A i \in 1..j : g[i] = f[i]
  BY <1>2, <1>3, FirstOnes
<1> HIDE DEF k, g
<1>5. CASE j <= k
  <2>1. \A i \in 1..Len(g) : g[i].tag # 3 * 8 + 2
    <3>1. ASSUME NEW i \in 1..Len(g) PROVE g[i].tag # 3 * 8 + 2
      <4>1. i \in 1..j /\ i \in 1..k /\ i \in 1..k + Len(blobs) /\ i <= k
        BY <1>1, <1>3, <1>2, <1>4, <1>5
      <4>2. g[i] = a[i]
        BY <1>2, <1>4, <4>1
      <4>3. QED
        BY <1>1, <4>1, <4>2
    <3>2. QED
      BY <3>1
  <2>2. Values(g, 3, 2) = <<>>
    BY <1>4, <2>1, ValuesNone
  <2>3. QED
    BY <1>4, <2>2 DEF g, f
<1>6. CASE ~(j <= k)
  <2> DEFINE m == j - k
             bs == SubSeq(blobs, 1, m)
             h == BatchFields(<<>>, pks, ehks, bs)
             d == Repeated(3, bs)
  <2>1. m \in 0..Len(blobs) /\ j = k + m /\ j \in Nat
    BY <1>1, <1>2, <1>3, <1>6
  <2> HIDE DEF m
  <2>2. bs \in Seq(ByteString) /\ Len(bs) = m /\ \A i \in 1..m : bs[i] = blobs[i]
    BY <2>1, FirstOnes DEF ReadableStrings
  <2>3. \A i \in 1..m : i \in 1..Len(blobs)
    BY <1>1, <2>1
  <2> HIDE DEF bs
  <2>4. ReadableStrings(bs)
    BY <2>2, <2>3 DEF ReadableStrings
  <2>5. /\ h = a \o d /\ d \in Seq(Field) /\ Len(d) = m
        /\ \A i \in 1..m : d[i] = LengthDelimited(3, bs[i])
    <3>1. /\ h = Keys(pks, ehks) \o d /\ d \in Seq(Field) /\ Len(d) = Len(bs)
          /\ \A i \in 1..Len(bs) : d[i] = LengthDelimited(3, bs[i])
      <4>1. Plain(pks, ehks, bs)
        BY <2>4, PlainBatch
      <4>2. QED
        BY <4>1, Zenon DEF Plain
    <3>2. QED
      BY <2>2, <3>1 DEF a
  <2> HIDE DEF h, d
  <2>6. /\ h \in Seq(Field) /\ Len(h) = k + m
        /\ \A i \in 1..k + m : h[i] = IF i <= k THEN a[i] ELSE d[i - k]
    <3>1. /\ a \o d \in Seq(Field) /\ Len(a \o d) = Len(a) + Len(d)
          /\ \A i \in 1..Len(a) + Len(d) : (a \o d)[i] = IF i <= Len(a) THEN a[i] ELSE d[i - Len(a)]
      BY <1>1, <2>5, ConcatProperties
    <3>2. QED
      BY <2>5, <3>1 DEF k
  <2>7. ASSUME NEW i \in 1..j PROVE g[i] = h[i]
    <3>1. i \in 1..k + m /\ i \in 1..k + Len(blobs)
      BY <1>1, <2>1
    <3>2. CASE i <= k
      BY <1>2, <1>4, <2>6, <3>1, <3>2
    <3>3. CASE ~(i <= k)
      <4>1. i - k \in 1..m /\ i - k \in 1..Len(blobs)
        BY <1>1, <2>1, <3>1, <3>3
      <4>2. d[i - k] = LengthDelimited(3, bs[i - k]) /\ bs[i - k] = blobs[i - k]
            /\ c[i - k] = LengthDelimited(3, blobs[i - k])
        BY <1>1, <2>2, <2>5, <4>1
      <4>3. g[i] = c[i - k] /\ h[i] = d[i - k]
        BY <1>2, <1>4, <2>6, <3>1, <3>3
      <4>4. QED
        BY <4>2, <4>3
    <3>4. QED
      BY <3>2, <3>3
  <2>8. g = h
    <3>1. Len(g) = Len(h)
      BY <1>4, <2>1, <2>6
    <3>2. \A i \in 1..Len(g) : g[i] = h[i]
      BY <1>4, <2>7
    <3>3. QED
      BY <1>4, <2>6, <3>1, <3>2, SeqEqual
  <2>9. QED
    BY <1>4, <2>1, <2>8 DEF g, f, h, bs
<1>7. QED
  BY <1>5, <1>6

\* What a decoder makes of a batch that may be cut: an error, or the records
\* that are whole.
LEMMA BatchCut ==
    ASSUME NEW rs, NEW S, rs \in Seq(S), \A i \in 1..Len(rs) : ReadableRecord(rs[i]),
           NEW pks, ReadableStrings(pks), NEW ehks, ReadableStrings(ehks),
           NEW blobs, ReadableStrings(blobs), Len(blobs) = Len(rs),
           \A i \in 1..Len(rs) : Written(blobs[i], rs[i], pks, ehks),
           NEW buf \in ByteString, Len(buf) <= Len(Encode(BatchFields(<<>>, pks, ehks, blobs))),
           Matches(buf, 1, Encode(BatchFields(<<>>, pks, ehks, blobs)))
    PROVE  LET d == DecodeAggregated(Framed(buf)) IN d = ValueError \/ IsPrefix(d, rs)
<1> DEFINE f == BatchFields(<<>>, pks, ehks, blobs)
           d == DecodeAggregated(Framed(buf))
<1>0. Unknown(<<>>)
  BY NoField DEF Unknown
<1>1. Message(f)
  BY <1>0, BatchMessage
<1>2. d = RecordsOf(Fields(buf))
  BY DecodeFramed
<1>3. Fields(buf) = ValueError \/ \E j \in 0..Len(f) : Fields(buf) = SubSeq(f, 1, j)
  <2> HIDE DEF f
  <2>1. Len(buf) <= Len(Encode(f)) /\ Matches(buf, 1, Encode(f))
    BY DEF f
  <2>2. QED
    BY <1>1, <2>1, FieldsRead
<1>4. Len(rs) \in Nat /\ 0 \in 0..Len(rs)
  <2>1. Len(rs) \in Nat
    OBVIOUS
  <2>2. QED
    BY <2>1
<1>5. CASE Fields(buf) = ValueError
  <2>1. RecordsOf(ValueError) = ValueError
    BY DEF RecordsOf
  <2>2. QED
    BY <1>2, <1>5, <2>1
<1>6. ASSUME NEW j \in 0..Len(f), Fields(buf) = SubSeq(f, 1, j)
      PROVE  IsPrefix(d, rs)
  <2> DEFINE g == SubSeq(f, 1, j)
  <2>1. /\ g \in Seq(Field)
        /\ \/ Values(g, 3, 2) = <<>>
           \/ \E m \in 0..Len(blobs) : g = BatchFields(<<>>, pks, ehks, SubSeq(blobs, 1, m))
    BY CutFields
  <2>2. g # ValueError
    BY <2>1, CodecAssumption
  <2> HIDE DEF g, d
  <2>3. d = RecordsOf(g)
    BY <1>2, <1>6 DEF g
  <2>4. CASE Values(g, 3, 2) = <<>>
    <3> DEFINE q == <<>>
    <3>3. RecordsOf(g) = q
      BY <2>2, <2>4, RecordsOfNone
    <3>4. SubSeq(rs, 1, 0) = q
      BY <1>4, SubSeqEmpty DEF q
    <3>5. IsPrefix(SubSeq(rs, 1, 0), rs)
      BY <1>4, FirstOnes
    <3>6. QED
      BY <2>3, <3>3, <3>4, <3>5
  <2>5. ASSUME NEW m \in 0..Len(blobs), g = BatchFields(<<>>, pks, ehks, SubSeq(blobs, 1, m))
        PROVE  IsPrefix(d, rs)
    <3> DEFINE bs == SubSeq(blobs, 1, m)
               qs == SubSeq(rs, 1, m)
    <3>1. /\ bs \in Seq(ByteString) /\ Len(bs) = m /\ \A i \in 1..m : bs[i] = blobs[i]
      BY FirstOnes DEF ReadableStrings
    <3>2. m \in 0..Len(rs) /\ \A i \in 1..m : i \in 1..Len(rs) /\ i \in 1..Len(blobs)
      BY <1>4
    <3>3. /\ qs \in Seq(S) /\ Len(qs) = m /\ \A i \in 1..m : qs[i] = rs[i]
          /\ IsPrefix(qs, rs)
      BY <3>2, FirstOnes
    <3>3a. g = BatchFields(<<>>, pks, ehks, bs)
      BY <2>5
    <3> HIDE DEF bs, qs
    <3>4. ReadableStrings(bs)
      BY <3>1, <3>2 DEF ReadableStrings
    <3>5. Values(g, 1, 2) = pks /\ Values(g, 2, 2) = ehks /\ Values(g, 3, 2) = bs
      BY <1>0, <3>3a, <3>4, BatchMessage
    <3>6. DOMAIN bs = 1..Len(qs)
      BY <3>1, <3>3, LenProperties
    <3>7. ASSUME NEW i \in 1..Len(qs)
          PROVE  DecodeRecord(bs[i], pks, ehks) = qs[i] /\ qs[i] # ValueError
      <4>1. i \in 1..m /\ i \in 1..Len(rs) /\ bs[i] = blobs[i] /\ qs[i] = rs[i]
        BY <3>1, <3>2, <3>3
      <4>2. Written(bs[i], qs[i], pks, ehks) /\ ReadableRecord(qs[i])
        BY <4>1
      <4> DEFINE r == qs[i]
      <4> HIDE DEF r
      <4>3. PICK p, e : /\ Refers(p, r.partition_key, pks) /\ Refers(e, r.explicit_hash_key, ehks)
                        /\ bs[i] = Encode(RecordFields(p, e, r))
        BY <4>2 DEF Written, r
      <4>4. ReadableRecord(r) /\ pks \in Seq(ByteString) /\ ehks \in Seq(ByteString)
        BY <4>2 DEF r, ReadableStrings
      <4> DEFINE h == RecordFields(p, e, r)
      <4>5. DecodeRecord(Encode(h), pks, ehks) = r /\ r # ValueError
        BY <4>3, <4>4, RecordReadPlain
      <4>6. QED
        BY <4>3, <4>5 DEF r
    <3>8. RecordsOf(g) = qs
      BY <2>2, <3>3, <3>5, <3>6, <3>7, RecordsOfRead
    <3>9. QED
      BY <2>3, <3>3, <3>8
  <2>6. QED
    BY <2>1, <2>4, <2>5
<1>7. QED
  BY <1>3, <1>5, <1>6

-----------------------------------------------------------------------------
(* The container                                                           *)

\* A later version's fields are not of the schema.
LEMMA AdditionsUnknown ==
    ASSUME NEW u \in Additions
    PROVE  Unknown(u)
<1> DEFINE f == Uint64(9, 300)
           g == LengthDelimited(9, <<1, 2>>)
<1>1. CASE u = <<>>
  BY <1>1, NoField DEF Unknown
<1>2. CASE u = <<f, g>>
  <2>1. Readable(300)
    <3>1. 300 > 127 /\ 300 \div 128 = 2 /\ 2 <= 127 /\ 300 \in Nat /\ 2 \in Nat
      OBVIOUS
    <3>2. Len(EncodeVarint[2]) = 1 /\ EncodeVarint[2] \in ByteString
      BY <3>1, VarintBytes
    <3>3. EncodeVarint[300] = <<(300 % 128) + 128>> \o EncodeVarint[2]
      BY <3>1, VarintBytes
    <3>4. <<(300 % 128) + 128>> \in ByteString /\ Len(<<(300 % 128) + 128>>) = 1
      BY DEF ByteString
    <3> DEFINE x == <<(300 % 128) + 128>>
               y == EncodeVarint[2]
    <3> HIDE DEF x, y
    <3>4a. x \in ByteString /\ y \in ByteString /\ Len(x) = 1 /\ Len(y) = 1
      BY <3>2, <3>4 DEF x, y
    <3>4b. Len(x \o y) = Len(x) + Len(y)
      BY <3>4a, Joined
    <3>5. Len(EncodeVarint[300]) = 1 + 1
      BY <3>3, <3>4a, <3>4b DEF x, y
    <3>6. QED
      BY <3>5 DEF Readable, MAX_VARINT
  <2>2. <<1, 2>> \in ByteString /\ Len(<<1, 2>>) = 2
    BY DEF ByteString
  <2>3. Readable(Len(<<1, 2>>))
    BY <2>2, SmallReadable
  <2>4. /\ Proper(f) /\ f \in Field /\ f.tag = 9 * 8 + 0
        /\ Proper(g) /\ g \in Field /\ g.tag = 9 * 8 + 2
    <3> DEFINE n == 9
               v == 300
               p == <<1, 2>>
    <3>1. n \in 1..9 /\ v \in Nat /\ p \in ByteString /\ Readable(v) /\ Readable(Len(p))
          /\ f = Uint64(n, v) /\ g = LengthDelimited(n, p)
      BY <2>1, <2>2, <2>3
    <3> HIDE DEF n, v, p, f, g
    <3>2. Proper(Uint64(n, v)) /\ Uint64(n, v) \in Field /\ Uint64(n, v).tag = n * 8 + 0
      BY <3>1, ProperFields
    <3>3. /\ Proper(LengthDelimited(n, p)) /\ LengthDelimited(n, p) \in Field
          /\ LengthDelimited(n, p).tag = n * 8 + 2
      BY <3>1, ProperFields
    <3>4. QED
      BY <3>1, <3>2, <3>3 DEF n
  <2> HIDE DEF f, g
  <2>5. u \in Seq(Field) /\ Len(u) = 2 /\ u[1] = f /\ u[2] = g
    BY <1>2, <2>4
  <2>6. \A i \in 1..Len(u) : i = 1 \/ i = 2
    BY <2>5
  <2>7. f.tag >= 40 /\ g.tag >= 40
    BY <2>4
  <2>8. \A i \in 1..Len(u) : Proper(u[i]) /\ u[i].tag >= 40
    BY <2>4, <2>5, <2>6, <2>7
  <2>9. QED
    BY <2>5, <2>8 DEF Unknown, Message
<1>3. QED
  BY <1>1, <1>2 DEF Additions

\* B is the loop of remove_last over the first n records.
Rebuilds(rs, n, B) ==
    B = [m \in 0..n |-> IF m = 0 THEN Empty ELSE Plus(B[m - 1], rs[m])]

\* Such a loop exists.
LEMMA RebuilderExists ==
    ASSUME NEW rs, NEW n \in Nat
    PROVE  \E B : Rebuilds(rs, n, B)
<1> DEFINE Bad == {m \in Nat : ~ \E B : Rebuilds(rs, m, B)}
<1>1. SUFFICES ASSUME Bad # {} PROVE FALSE
  OBVIOUS
<1>2. PICK m \in Bad : \A i \in Bad : m <= i
  <2>1. Bad \in SUBSET Nat
    OBVIOUS
  <2> HIDE DEF Bad
  <2>2. QED
    BY <1>1, <2>1, LeastNat
<1>3. m \in Nat /\ ~ \E B : Rebuilds(rs, m, B)
  OBVIOUS
<1>4. CASE m = 0
  <2> DEFINE C == [i \in 0..m |-> Empty]
  <2>1. Rebuilds(rs, m, C)
    BY <1>4 DEF Rebuilds
  <2>2. QED
    BY <1>3, <2>1
<1>5. CASE m # 0
  <2>1. m - 1 \in Nat /\ ~(m <= m - 1)
    BY <1>3, <1>5
  <2>2. PICK B : Rebuilds(rs, m - 1, B)
    BY <1>2, <2>1
  <2> DEFINE C == [i \in 0..m |-> IF i = m THEN Plus(B[m - 1], rs[m]) ELSE B[i]]
             E == [i \in 0..m |-> IF i = 0 THEN Empty ELSE Plus(C[i - 1], rs[i])]
  <2>3. \A i \in 0..m - 1 : B[i] = IF i = 0 THEN Empty ELSE Plus(B[i - 1], rs[i])
    BY <2>2 DEF Rebuilds
  <2>4. ASSUME NEW i \in 0..m PROVE C[i] = E[i]
    <3>1. CASE i = m
      <4>1. C[m - 1] = B[m - 1] /\ C[m] = Plus(B[m - 1], rs[m]) /\ E[m] = Plus(C[m - 1], rs[m])
        BY <1>3, <1>5
      <4>2. QED
        BY <3>1, <4>1
    <3>2. CASE i # m
      <4>1. i \in 0..m - 1 /\ C[i] = B[i]
        BY <1>3, <3>2
      <4>2. i # 0 => C[i - 1] = B[i - 1]
        BY <1>3, <4>1
      <4>3. E[i] = IF i = 0 THEN Empty ELSE Plus(C[i - 1], rs[i])
        OBVIOUS
      <4> HIDE DEF C, E
      <4>4. QED
        BY <2>3, <4>1, <4>2, <4>3
    <3>3. QED
      BY <3>1, <3>2
  <2>5. C = E
    BY <2>4
  <2>6. Rebuilds(rs, m, C)
    BY <2>5 DEF Rebuilds
  <2>7. QED
    BY <1>3, <2>6
<1>6. QED
  BY <1>4, <1>5

\* Rebuilt is what such a loop makes in the end.
LEMMA RebuiltLoop ==
    ASSUME NEW rs, Len(rs) \in Nat
    PROVE  \E B : /\ Rebuilt(rs) = B[Len(rs)] /\ B[0] = Empty
                  /\ \A m \in 1..Len(rs) : B[m] = Plus(B[m - 1], rs[m])
<1> DEFINE N == Len(rs)
           B == CHOOSE g : Rebuilds(rs, N, g)
<1>1. Rebuilds(rs, N, B)
  BY RebuilderExists, Zenon
<1>2. Rebuilt(rs) = B[N]
  BY DEF Rebuilt, Rebuilds
<1> HIDE DEF B, N
<1>3. N \in Nat /\ \A m \in 0..N : B[m] = IF m = 0 THEN Empty ELSE Plus(B[m - 1], rs[m])
  BY <1>1 DEF Rebuilds, N
<1>4. 0 \in 0..N /\ \A m \in 1..N : m \in 0..N /\ m # 0
  BY <1>3
<1>5. B[0] = Empty /\ \A m \in 1..N : B[m] = Plus(B[m - 1], rs[m])
  BY <1>3, <1>4
<1>6. QED
  BY <1>2, <1>5 DEF N

\* One more record is one more step; no record is no step.
LEMMA RebuiltAppend ==
    ASSUME NEW S, NEW rs \in Seq(S), NEW r \in S
    PROVE  Rebuilt(Append(rs, r)) = Plus(Rebuilt(rs), r) /\ Rebuilt(<<>>) = Empty
<1> DEFINE qs == Append(rs, r)
           N == Len(rs)
<1>1. /\ N \in Nat /\ qs \in Seq(S) /\ Len(qs) = N + 1 /\ qs[N + 1] = r
      /\ \A i \in 1..N : qs[i] = rs[i]
  BY AppendProperties
<1> HIDE DEF qs
<1>2. PICK B : /\ Rebuilt(rs) = B[N] /\ B[0] = Empty
               /\ \A m \in 1..N : B[m] = Plus(B[m - 1], rs[m])
  BY <1>1, RebuiltLoop
<1>3. PICK C : /\ Rebuilt(qs) = C[N + 1] /\ C[0] = Empty
               /\ \A m \in 1..N + 1 : C[m] = Plus(C[m - 1], qs[m])
  BY <1>1, RebuiltLoop
<1> HIDE DEF N
<1> DEFINE Bad == {m \in 0..N : B[m] # C[m]}
<1>4. Bad = {}
  <2>1. SUFFICES ASSUME Bad # {} PROVE FALSE
    OBVIOUS
  <2>2. PICK m \in Bad : \A i \in Bad : m <= i
    <3>1. Bad \in SUBSET Nat
      BY <1>1
    <3> HIDE DEF Bad
    <3>2. QED
      BY <2>1, <3>1, LeastNat
  <2>3. m \in 0..N /\ B[m] # C[m]
    OBVIOUS
  <2>4. m # 0
    BY <1>2, <1>3, <2>3
  <2>5. m \in 1..N /\ m \in 1..N + 1 /\ m - 1 \in 0..N /\ ~(m <= m - 1)
    BY <1>1, <2>3, <2>4
  <2>6. B[m - 1] = C[m - 1]
    BY <2>2, <2>5
  <2>7. B[m] = Plus(B[m - 1], rs[m]) /\ C[m] = Plus(C[m - 1], rs[m])
    BY <1>1, <1>2, <1>3, <2>5
  <2>8. QED
    BY <2>3, <2>6, <2>7
<1>5. N \in 0..N /\ N + 1 \in 1..N + 1 /\ N + 1 - 1 = N
  BY <1>1
<1>6. C[N + 1] = Plus(C[N], r)
  BY <1>1, <1>3, <1>5
<1>7. Rebuilt(qs) = Plus(Rebuilt(rs), r)
  BY <1>2, <1>3, <1>4, <1>5, <1>6
<1>8. Rebuilt(<<>>) = Empty
  <2> DEFINE e == <<>>
  <2>1. Len(e) = 0 /\ Len(e) \in Nat
    OBVIOUS
  <2> HIDE DEF e
  <2>2. \E D : /\ Rebuilt(e) = D[Len(e)] /\ D[0] = Empty
    BY <2>1, RebuiltLoop
  <2>3. QED
    BY <2>1, <2>2 DEF e
<1>9. QED
  BY <1>7, <1>8 DEF qs

\* The loop keeps the records it is given, in a batch.
LEMMA RebuiltItems ==
    ASSUME NEW S, NEW rs \in Seq(S)
    PROVE  /\ Rebuilt(rs).items = rs
           /\ Rebuilt(rs) = [items |-> Rebuilt(rs).items, estimate |-> Rebuilt(rs).estimate,
                             pkSet |-> Rebuilt(rs).pkSet, ehkSet |-> Rebuilt(rs).ehkSet]
<1> DEFINE IsBatch(b) == b = [items |-> b.items, estimate |-> b.estimate,
                              pkSet |-> b.pkSet, ehkSet |-> b.ehkSet]
           N == Len(rs)
           To(m) == SubSeq(rs, 1, m)
<1>0. IsBatch(Empty) /\ Empty.items = <<>>
  BY DEF Empty
<1>1. \A b, r : IsBatch(Plus(b, r)) /\ Plus(b, r).items = Append(b.items, r)
  BY DEF Plus
<1>2. N \in Nat
  OBVIOUS
<1>3. PICK B : /\ Rebuilt(rs) = B[N] /\ B[0] = Empty
               /\ \A m \in 1..N : B[m] = Plus(B[m - 1], rs[m])
  BY <1>2, RebuiltLoop
<1>4. To(0) = <<>>
  BY SubSeqEmpty
<1>5. ASSUME NEW m \in 1..N PROVE To(m) = Append(To(m - 1), rs[m])
  <2>1. m \in 0..Len(rs) /\ m - 1 \in 0..Len(rs) /\ m - 1 + 1 = m /\ m \in Nat
    BY <1>2
  <2>2. /\ To(m) \in Seq(S) /\ Len(To(m)) = m /\ \A i \in 1..m : To(m)[i] = rs[i]
    BY <2>1, FirstOnes
  <2>3. /\ To(m - 1) \in Seq(S) /\ Len(To(m - 1)) = m - 1
        /\ \A i \in 1..m - 1 : To(m - 1)[i] = rs[i]
    BY <2>1, FirstOnes
  <2>4. rs[m] \in S
    BY ElementOfSeq
  <2> HIDE DEF To, N
  <2> DEFINE t == To(m - 1)
             q == Append(t, rs[m])
  <2>5. t \in Seq(S) /\ Len(t) = m - 1 /\ \A i \in 1..m - 1 : t[i] = rs[i]
    BY <2>3
  <2> HIDE DEF t
  <2>6. q \in Seq(S) /\ Len(q) = m /\ q[m] = rs[m] /\ \A i \in 1..m - 1 : q[i] = rs[i]
    BY <2>1, <2>4, <2>5, AppendProperties
  <2> HIDE DEF q
  <2>7. \A i \in 1..m : i = m \/ i \in 1..m - 1
    BY <2>1
  <2>8. \A i \in 1..m : To(m)[i] = q[i]
    BY <2>2, <2>6, <2>7
  <2>9. To(m) = q
    BY <2>2, <2>6, <2>8, SeqEqual
  <2>10. QED
    BY <2>9 DEF q, t
<1>6. To(N) = rs
  BY SubSeqFull
<1> HIDE DEF To, N, IsBatch
<1> DEFINE Bad == {m \in 0..N : ~(IsBatch(B[m]) /\ B[m].items = To(m))}
<1>7. Bad = {}
  <2>1. SUFFICES ASSUME Bad # {} PROVE FALSE
    OBVIOUS
  <2>2. PICK m \in Bad : \A i \in Bad : m <= i
    <3>1. Bad \in SUBSET Nat
      BY <1>2
    <3> HIDE DEF Bad
    <3>2. QED
      BY <2>1, <3>1, LeastNat
  <2>3. m \in 0..N /\ ~(IsBatch(B[m]) /\ B[m].items = To(m))
    OBVIOUS
  <2>4. m # 0
    BY <1>0, <1>3, <1>4, <2>3
  <2>5. m \in 1..N /\ m - 1 \in 0..N /\ ~(m <= m - 1)
    BY <1>2, <2>3, <2>4
  <2>6. IsBatch(B[m - 1]) /\ B[m - 1].items = To(m - 1)
    BY <2>2, <2>5
  <2>7. B[m] = Plus(B[m - 1], rs[m])
    BY <1>3, <2>5
  <2>8. IsBatch(B[m]) /\ B[m].items = Append(To(m - 1), rs[m])
    BY <1>1, <2>6, <2>7
  <2>9. QED
    BY <1>5, <2>3, <2>5, <2>8
<1>8. N \in 0..N
  BY <1>2
<1>9. IsBatch(Rebuilt(rs)) /\ Rebuilt(rs).items = rs
  BY <1>3, <1>6, <1>7, <1>8
<1>10. QED
  BY <1>9 DEF IsBatch

\* A record's message with fields of a later schema around its own.
Surround(x, b) == [i \in DOMAIN b.records |-> x \o b.records[i] \o x]

\* A batch's message with fields of a later schema in it.
WithFields(x, b) ==
    Framed(x \o Encode(Repeated(1, b.pks)) \o x \o Encode(Repeated(2, b.ehks))
           \o Encode(Repeated(3, Surround(x, b))))

\* A sequence of records that may be in a batch.
Addable(rs) == rs \in Seq(Records) /\ Len(rs) <= MaxRecords

\* Its records can be read, and the builder makes tables that have their keys.
LEMMA AddableBuilt ==
    ASSUME NEW rs, Addable(rs)
    PROVE  /\ Len(rs) \in Nat /\ \A i \in 1..Len(rs) : rs[i] \in Records /\ ReadableRecord(rs[i])
           /\ BuiltTo(rs, Len(rs), Built(rs))
           /\ ReadableStrings(Built(rs).pks) /\ ReadableStrings(Built(rs).ehks)
<1>1. /\ Len(rs) \in Nat /\ Len(rs) <= MaxRecords /\ MaxRecords \in Nat
      /\ \A i \in 1..Len(rs) : rs[i] \in Records
  BY ElementOfSeq, BatchAssumption DEF Addable
<1>2. \A i \in 1..Len(rs) : ReadableRecord(rs[i])
  BY <1>1, BatchAssumption
<1>3. \A i \in 0..Len(rs) : i \in 0..MaxRecords
  BY <1>1
<1>4. \A i \in 0..Len(rs) : Readable(i)
  BY <1>3, BatchAssumption
<1>5. BuiltTo(rs, Len(rs), Built(rs))
  BY <1>1, <1>2, <1>4, BuiltAll
<1>6. ReadableStrings(Built(rs).pks) /\ ReadableStrings(Built(rs).ehks)
  BY <1>5 DEF BuiltTo, Table, ReadableStrings
<1>7. QED
  BY <1>1, <1>2, <1>5, <1>6

\* An index that refers to a key of a table in a batch is small.
LEMMA SmallIndex ==
    ASSUME NEW i, NEW k, NEW t, NEW n \in Nat, Table(t, n), n <= MaxRecords, Refers(i, k, t)
    PROVE  IF k = None THEN i = None ELSE i \in 0..MaxRecords
<1>1. CASE k = None
  BY <1>1 DEF Refers
<1>2. CASE k # None
  <2>1. i \in Nat /\ i < Len(t)
    BY <1>2 DEF Refers
  <2>2. Len(t) \in Nat /\ Len(t) <= n /\ MaxRecords \in Nat
    BY BatchAssumption DEF Table
  <2>3. QED
    BY <1>2, <2>1, <2>2
<1>3. QED
  BY <1>1, <1>2

\* The records' messages with fields of a later schema around their own.
LEMMA Surroundings ==
    ASSUME NEW rs, Addable(rs), NEW u \in Additions
    PROVE  LET b == Built(rs)
               s == Surround(Encode(u), b)
           IN  /\ ReadableStrings(s) /\ Len(s) = Len(rs)
               /\ Messages(rs, u, b.pks, b.ehks, s)
<1> DEFINE b == Built(rs)
           s == Surround(Encode(u), b)
           N == Len(rs)
<1>1. /\ N \in Nat /\ \A i \in 1..N : rs[i] \in Records /\ ReadableRecord(rs[i])
      /\ BuiltTo(rs, N, b) /\ ReadableStrings(b.pks) /\ ReadableStrings(b.ehks)
  BY AddableBuilt
<1>2. /\ Table(b.pks, N) /\ Table(b.ehks, N) /\ N <= MaxRecords
      /\ b.records \in Seq(ByteString) /\ Len(b.records) = N /\ DOMAIN b.records = 1..N
      /\ \A i \in 1..N : Written(b.records[i], rs[i], b.pks, b.ehks)
      /\ b.pks \in Seq(ByteString) /\ b.ehks \in Seq(ByteString)
  BY <1>1, LenProperties DEF BuiltTo, Addable, Table
<1>3. Unknown(u) /\ Message(u)
  BY AdditionsUnknown DEF Unknown
<1>4. s = [i \in 1..N |-> Encode(u) \o b.records[i] \o Encode(u)]
  BY <1>2 DEF Surround
<1> HIDE DEF b, s, N
<1>5. ASSUME NEW i \in 1..N
      PROVE  /\ s[i] \in ByteString /\ Readable(Len(s[i]))
             /\ \E p, e : /\ Refers(p, rs[i].partition_key, b.pks)
                          /\ Refers(e, rs[i].explicit_hash_key, b.ehks)
                          /\ s[i] = Encode(u \o RecordFields(p, e, rs[i]) \o u)
  <2> DEFINE r == rs[i]
  <2>0. r \in Records /\ ReadableRecord(r) /\ Written(b.records[i], r, b.pks, b.ehks)
    BY <1>1, <1>2
  <2> HIDE DEF r
  <2>1. PICK p, e : /\ Refers(p, r.partition_key, b.pks) /\ Refers(e, r.explicit_hash_key, b.ehks)
                    /\ b.records[i] = Encode(RecordFields(p, e, r))
    BY <2>0 DEF Written
  <2> DEFINE f == RecordFields(p, e, r)
  <2>2. Message(f) /\ Encode(u \o f \o u) \in ByteString
    BY <1>2, <1>3, <2>0, <2>1, RecordRead
  <2>3. Readable(Len(Encode(u \o f \o u)))
    <3>1. r.partition_key # None
      BY <2>0, CodecAssumption DEF ReadableRecord, UserRecord
    <3>2. p \in 0..MaxRecords
      BY <1>1, <1>2, <2>1, <3>1, SmallIndex
    <3>3. e \in 0..MaxRecords \cup {None}
      BY <1>1, <1>2, <2>1, SmallIndex
    <3>4. QED
      BY <2>0, <3>2, <3>3, BatchAssumption
  <2> HIDE DEF f
  <2>4. Message(u \o f) /\ Encode(u \o f) = Encode(u) \o Encode(f)
    BY <1>3, <2>2, EncodeBoth
  <2>5. Encode(u \o f \o u) = Encode(u \o f) \o Encode(u)
    BY <1>3, <2>4, EncodeBoth
  <2>6. s[i] = Encode(u \o f \o u)
    <3>1. s[i] = Encode(u) \o b.records[i] \o Encode(u)
      BY <1>4
    <3>2. b.records[i] = Encode(f)
      BY <2>1 DEF f
    <3>3. QED
      BY <2>4, <2>5, <3>1, <3>2
  <2>7. QED
    BY <2>1, <2>2, <2>3, <2>6 DEF f, r
<1>6. s \in [1..N -> ByteString]
  <2>1. \A i \in 1..N : s[i] \in ByteString
    BY <1>5
  <2>2. s = [i \in 1..N |-> s[i]]
    BY <1>4
  <2>3. QED
    BY <2>1, <2>2
<1>7. s \in Seq(ByteString) /\ Len(s) = N
  BY <1>1, <1>6
<1>8. ReadableStrings(s)
  BY <1>5, <1>7 DEF ReadableStrings
<1>9. QED
  BY <1>5, <1>7, <1>8 DEF b, s, N, Messages

\* What is aggregated is what a decoder makes of it.
LEMMA ReadWhole ==
    ASSUME NEW rs, Addable(rs), NEW u \in Additions
    PROVE  DecodeAggregated(WithFields(Encode(u), Built(rs))) = rs
<1> DEFINE b == Built(rs)
           s == Surround(Encode(u), b)
<1>1. /\ \A i \in 1..Len(rs) : ReadableRecord(rs[i])
      /\ ReadableStrings(b.pks) /\ ReadableStrings(b.ehks) /\ rs \in Seq(Records)
  BY AddableBuilt DEF Addable
<1>2. ReadableStrings(s) /\ Len(s) = Len(rs) /\ Messages(rs, u, b.pks, b.ehks, s)
  BY Surroundings
<1>3. Unknown(u)
  BY AdditionsUnknown
<1>4. WithFields(Encode(u), b) =
        Framed(Encode(u) \o Encode(Repeated(1, b.pks)) \o Encode(u) \o Encode(Repeated(2, b.ehks))
               \o Encode(Repeated(3, s)))
  BY DEF WithFields
<1> HIDE DEF b, s
<1> DEFINE pks == b.pks
           ehks == b.ehks
<1>4a. ReadableStrings(pks) /\ ReadableStrings(ehks) /\ Messages(rs, u, pks, ehks, s)
  BY <1>1, <1>2
<1> HIDE DEF pks, ehks
<1> DEFINE g == BatchFields(u, pks, ehks, s)
<1>5. Encode(g) = Encode(u) \o Encode(Repeated(1, pks)) \o Encode(u) \o Encode(Repeated(2, ehks))
                  \o Encode(Repeated(3, s))
  <2>1. InParts(u, pks, ehks, s)
    BY <1>2, <1>3, <1>4a, BatchMessage
  <2>2. QED
    BY <2>1 DEF InParts
<1>6. DecodeAggregated(Framed(Encode(g))) = rs
  BY <1>1, <1>2, <1>3, <1>4a, BatchRead
<1> HIDE DEF g
<1>7. WithFields(Encode(u), b) = Framed(Encode(g))
  BY <1>4, <1>5 DEF pks, ehks
<1>8. QED
  BY <1>6, <1>7 DEF b

\* Without fields of a later schema, a batch's message is the builder's.
LEMMA PlainWhole ==
    ASSUME NEW rs, Addable(rs)
    PROVE  LET b == Built(rs)
           IN  /\ WithFields(<<>>, b) = Framed(Serialize(b))
               /\ Serialize(b) = Encode(BatchFields(<<>>, b.pks, b.ehks, b.records))
               /\ Serialize(b) \in ByteString
               /\ ReadableStrings(b.records) /\ Len(b.records) = Len(rs)
               /\ \A i \in 1..Len(rs) : Written(b.records[i], rs[i], b.pks, b.ehks)
<1> DEFINE b == Built(rs)
           z == <<>>
           s == Surround(z, b)
<1>1. /\ Len(rs) \in Nat /\ BuiltTo(rs, Len(rs), b) /\ ReadableStrings(b.pks) /\ ReadableStrings(b.ehks)
  BY AddableBuilt
<1>2. /\ b.records \in Seq(ByteString) /\ Len(b.records) = Len(rs)
      /\ \A i \in 1..Len(rs) : Written(b.records[i], rs[i], b.pks, b.ehks)
  BY <1>1 DEF BuiltTo
<1>3. z \in Additions /\ Unknown(z)
  BY AdditionsUnknown DEF Additions
<1>4. Encode(z) = <<>>
  <2>1. Pieces(z) \in Seq(Seq(0..255)) /\ Len(Pieces(z)) = Len(z) /\ Encode(z) = FlattenSeq(Pieces(z))
    BY NoField, PiecesType
  <2>2. Len(z) = 0
    OBVIOUS
  <2> HIDE DEF z
  <2>3. QED
    BY <2>1, <2>2, FlattenType
<1>5. ReadableStrings(Surround(Encode(z), b))
  BY <1>3, Surroundings
<1> HIDE DEF b
<1>6. s = b.records
  <2>1. DOMAIN b.records = 1..Len(b.records) /\ \A i \in 1..Len(b.records) : b.records[i] \in ByteString
    BY <1>2, LenProperties, ElementOfSeq
  <2>2. ASSUME NEW i \in 1..Len(b.records) PROVE <<>> \o b.records[i] \o <<>> = b.records[i]
    <3>1. b.records[i] \in Seq(0..255)
      BY <2>1 DEF ByteString
    <3>2. QED
      BY <3>1, OnlyOne
  <2>3. s = [i \in DOMAIN b.records |-> <<>> \o b.records[i] \o <<>>]
    BY DEF Surround
  <2>4. b.records = [i \in DOMAIN b.records |-> b.records[i]]
    BY <1>2
  <2>5. QED
    BY <2>1, <2>2, <2>3, <2>4
<1>7. ReadableStrings(b.records)
  BY <1>4, <1>5, <1>6
<1> DEFINE f == BatchFields(z, b.pks, b.ehks, b.records)
<1>8. /\ Message(f)
      /\ Encode(f) = Encode(z) \o Encode(Repeated(1, b.pks)) \o Encode(z)
                     \o Encode(Repeated(2, b.ehks)) \o Encode(Repeated(3, b.records))
  <2> DEFINE pks == b.pks
             ehks == b.ehks
             s3 == b.records
             g == BatchFields(z, pks, ehks, s3)
  <2>1. ReadableStrings(pks) /\ ReadableStrings(ehks) /\ ReadableStrings(s3) /\ Unknown(z)
    BY <1>1, <1>3, <1>7
  <2> HIDE DEF pks, ehks, s3, z
  <2>2. /\ Message(g)
        /\ Encode(g) = Encode(z) \o Encode(Repeated(1, pks)) \o Encode(z)
                       \o Encode(Repeated(2, ehks)) \o Encode(Repeated(3, s3))
    <3>1. InParts(z, pks, ehks, s3)
      BY <2>1, BatchMessage
    <3>2. QED
      BY <3>1 DEF InParts
  <2>3. QED
    BY <2>2 DEF pks, ehks, s3
<1>9. WithFields(z, b) = Framed(Encode(f))
  BY <1>4, <1>6, <1>8 DEF WithFields
<1>10. f = Repeated(1, b.pks) \o Repeated(2, b.ehks) \o Repeated(3, b.records)
  <2>1. Plain(b.pks, b.ehks, b.records)
    BY <1>1, <1>7, PlainBatch
  <2>2. QED
    BY <2>1 DEF Plain, Keys
<1>11. Serialize(b) = Encode(f)
  BY <1>10 DEF Serialize
<1>12. Encode(f) \in ByteString
  BY <1>8, FieldsExact
<1>13. QED
  BY <1>2, <1>7, <1>9, <1>11, <1>12 DEF b

\* A batch's message that is cut gives an error or records that are whole.
LEMMA ReadCut ==
    ASSUME NEW rs, Addable(rs), NEW n \in 0..Len(Serialize(Built(rs)))
    PROVE  LET d == DecodeAggregated(Framed(SubSeq(Serialize(Built(rs)), 1, n)))
           IN  d = ValueError \/ IsPrefix(d, rs)
<1> DEFINE b == Built(rs)
           x == Serialize(b)
           buf == SubSeq(x, 1, n)
<1>1. /\ \A i \in 1..Len(rs) : ReadableRecord(rs[i])
      /\ ReadableStrings(b.pks) /\ ReadableStrings(b.ehks) /\ rs \in Seq(Records)
  BY AddableBuilt DEF Addable
<1>2. /\ x = Encode(BatchFields(<<>>, b.pks, b.ehks, b.records)) /\ x \in ByteString
      /\ ReadableStrings(b.records) /\ Len(b.records) = Len(rs)
      /\ \A i \in 1..Len(rs) : Written(b.records[i], rs[i], b.pks, b.ehks)
  BY PlainWhole
<1> HIDE DEF b, x
<1>3. n \in 0..Len(x) /\ x \in Seq(0..255) /\ Len(x) \in Nat
  BY <1>2, Bytes DEF x, b
<1>4. buf \in Seq(0..255) /\ Len(buf) = n /\ \A i \in 1..n : buf[i] = x[i]
  BY <1>3, FirstOnes
<1> HIDE DEF buf
<1>5. buf \in ByteString /\ Len(buf) <= Len(x) /\ Matches(buf, 1, x)
  <2>1. \A i \in 1..Len(x) : 1 + i - 1 <= n => 1 + i - 1 = i /\ i \in 1..n
    BY <1>3
  <2>2. QED
    BY <1>3, <1>4, <2>1 DEF ByteString, Matches
<1> DEFINE f == BatchFields(<<>>, b.pks, b.ehks, b.records)
<1>6. buf \in ByteString /\ Len(buf) <= Len(Encode(f)) /\ Matches(buf, 1, Encode(f))
  BY <1>2, <1>5
<1>7. DecodeAggregated(Framed(buf)) = ValueError \/ IsPrefix(DecodeAggregated(Framed(buf)), rs)
  BY <1>1, <1>2, <1>6, BatchCut
<1>8. QED
  BY <1>7 DEF buf, x, b

-----------------------------------------------------------------------------
(* The theorems                                                            *)

\* The batch holds records that may be added, and is what adding them makes:
\* taking a record back leaves no trace of it.
BatchInv == Addable(items) /\ Batch = Rebuilt(items)

\* Adding a record.
LEMMA AddKeeps ==
    ASSUME BatchInv, NEW r \in Records, Add(r)
    PROVE  BatchInv'
<1>1. /\ items \in Seq(Records) /\ Len(items) \in Nat /\ MaxRecords \in Nat /\ Len(items) < MaxRecords
  BY BatchAssumption DEF BatchInv, Addable, Add
<1>2. /\ items' = Append(items, r) /\ Becomes(Plus(Batch, r))
  BY DEF Add, Becomes, Plus, Batch
<1>3. items' \in Seq(Records) /\ Len(items') = Len(items) + 1
  BY <1>1, <1>2, AppendProperties
<1>4. Addable(items)'
  BY <1>1, <1>3 DEF Addable
<1>5. Batch' = Plus(Batch, r)
  BY <1>2 DEF Becomes, Plus, Batch
<1>6. Rebuilt(Append(items, r)) = Plus(Rebuilt(items), r)
  BY <1>1, RebuiltAppend
<1>7. Batch' = Rebuilt(items')
  BY <1>2, <1>5, <1>6 DEF BatchInv
<1>8. QED
  BY <1>4, <1>7 DEF BatchInv

\* Taking the last one back.
LEMMA RemoveLastKeeps ==
    ASSUME BatchInv, RemoveLast
    PROVE  BatchInv'
<1> DEFINE q == Front(items)
<1>1. /\ items \in Seq(Records) /\ Len(items) \in Nat /\ MaxRecords \in Nat /\ Len(items) <= MaxRecords
      /\ items # <<>> /\ Becomes(Rebuilt(q))
  BY BatchAssumption DEF BatchInv, Addable, RemoveLast
<1>2. Len(items) # 0
  BY <1>1, EmptySeq
<1>3. q \in Seq(Records) /\ Len(q) = Len(items) - 1
  <2>1. q = SubSeq(items, 1, Len(items) - 1)
    BY DEF Front
  <2>2. Len(items) - 1 \in 0..Len(items)
    BY <1>1, <1>2
  <2>3. QED
    BY <1>1, <2>1, <2>2, FirstOnes
<1> HIDE DEF q
<1>4. /\ Rebuilt(q).items = q
      /\ Rebuilt(q) = [items |-> Rebuilt(q).items, estimate |-> Rebuilt(q).estimate,
                       pkSet |-> Rebuilt(q).pkSet, ehkSet |-> Rebuilt(q).ehkSet]
  BY <1>3, RebuiltItems
<1>5. items' = q
  BY <1>1, <1>4 DEF Becomes
<1>6. Batch' = Rebuilt(q)
  BY <1>1, <1>4 DEF Becomes, Batch
<1>7. Addable(items)'
  BY <1>1, <1>2, <1>3, <1>5 DEF Addable
<1>8. QED
  BY <1>5, <1>6, <1>7 DEF BatchInv

\* A batch is always what its records make, one after the other: remove_last
\* undoes the add before it, keys, estimate and all.
THEOREM BatchIsItsRecords == Spec => []BatchInv
<1>1. Init => BatchInv
  <2>1. SUFFICES ASSUME Init PROVE BatchInv
    OBVIOUS
  <2>2. items = <<>> /\ Batch = Empty
    BY <2>1 DEF Init, Batch, Empty
  <2>3. <<>> \in Seq(Records) /\ Len(<<>>) = 0 /\ MaxRecords \in Nat
    BY BatchAssumption
  <2>4. Rebuilt(<<>>) = Empty
    <3> DEFINE e == <<>>
    <3>1. Len(e) = 0 /\ Len(e) \in Nat
      OBVIOUS
    <3> HIDE DEF e
    <3>2. \E D : Rebuilt(e) = D[Len(e)] /\ D[0] = Empty
      BY <3>1, RebuiltLoop
    <3>3. QED
      BY <3>1, <3>2 DEF e
  <2>5. QED
    BY <2>2, <2>3, <2>4 DEF BatchInv, Addable
<1>2. BatchInv /\ [Next]_vars => BatchInv'
  <2>1. SUFFICES ASSUME BatchInv, [Next]_vars PROVE BatchInv'
    OBVIOUS
  <2>2. CASE RemoveLast
    BY <2>1, <2>2, RemoveLastKeeps
  <2>3. ASSUME NEW r \in Records, Add(r) PROVE BatchInv'
    BY <2>1, <2>3, AddKeeps
  <2>4. CASE UNCHANGED vars
    BY <2>1, <2>4 DEF vars, BatchInv, Addable, Batch
  <2>5. QED
    BY <2>1, <2>2, <2>3, <2>4 DEF Next
<1>3. QED
  BY <1>1, <1>2, PTL DEF Spec

\* What a batch of records says of its encoding.
LEMMA RoundTripFrom ==
    ASSUME BatchInv
    PROVE  RoundTrip
<1> DEFINE b == Built(items)
<1>1. Addable(items)
  BY DEF BatchInv
<1>2. ASSUME Len(items) = 1 PROVE Blob = items[1].data
  BY <1>2 DEF Blob, EncodeAggregated
<1>3. ASSUME Len(items) > 1
      PROVE  Blob = WithFields(<<>>, b)
  <2>1. Len(items) # 1
    BY <1>3
  <2>2. Blob = Framed(Serialize(b))
    BY <2>1 DEF Blob, EncodeAggregated
  <2>3. QED
    BY <1>1, <2>2, PlainWhole
<1>4. \A u \in Additions : DecodeAggregated(WithFields(Encode(u), b)) = items
  BY <1>1, ReadWhole
<1>5. QED
  BY <1>2, <1>3, <1>4 DEF RoundTrip, WithFields, Surround

\* What was aggregated is what a consumer gets: for every batch that can be
\* built, decode_aggregated returns the records as they were put, in order,
\* also when a later schema's fields are in the message.
THEOREM ReadBack == Spec => []RoundTrip
<1>1. BatchInv => RoundTrip
  BY RoundTripFrom
<1>2. QED
  BY <1>1, BatchIsItsRecords, PTL

\* What a batch of records says of its encoding when it is cut.
LEMMA NoPartialFrom ==
    ASSUME BatchInv
    PROVE  NoPartialRecord
<1> DEFINE b == Built(items)
           x == Serialize(b)
<1>1. Addable(items)
  BY DEF BatchInv
<1>1a. Len(items) > 1 => Len(items) # 1
  <2>1. Len(items) \in Nat
    BY <1>1, AddableBuilt
  <2>2. \A k \in Nat : k > 1 => k # 1
    OBVIOUS
  <2>3. QED
    BY <2>1, <2>2, Zenon
<1>2. SUFFICES ASSUME Len(items) > 1,
                      NEW n \in 0..Len(SubSeq(Blob, Len(MAGIC) + 1, Len(Blob) - MD5_LEN))
               PROVE  LET proto == SubSeq(Blob, Len(MAGIC) + 1, Len(Blob) - MD5_LEN)
                          d == DecodeAggregated(Framed(SubSeq(proto, 1, n)))
                      IN  d = ValueError \/ IsPrefix(d, items)
  BY DEF NoPartialRecord
<1>3. Blob = Framed(x)
  <2>1. Len(items) # 1
    BY <1>1a, <1>2, Zenon
  <2>2. QED
    BY <2>1 DEF Blob, EncodeAggregated
<1>4. x \in ByteString
  BY <1>1, PlainWhole
<1>5. SubSeq(Blob, Len(MAGIC) + 1, Len(Blob) - MD5_LEN) = x
  <2> HIDE DEF x
  <2>1. QED
    BY <1>3, <1>4, Unframed
<1>6. n \in 0..Len(x)
  BY <1>2, <1>5
<1>7. LET d == DecodeAggregated(Framed(SubSeq(x, 1, n)))
      IN  d = ValueError \/ IsPrefix(d, items)
  BY <1>1, <1>6, ReadCut
<1> HIDE DEF x
<1>8. QED
  BY <1>5, <1>7

\* No decoder returns part of a record: for every batch that can be built and
\* every place where its message may end, decode_aggregated raises or returns
\* the first records, whole.
THEOREM WholeRecordsOnly == Spec => []NoPartialRecord
<1>1. BatchInv => NoPartialRecord
  BY NoPartialFrom
<1>2. QED
  BY <1>1, BatchIsItsRecords, PTL

-----------------------------------------------------------------------------
(* Lengths                                                                 *)

\* One byte for an index below 128.
LEMMA IndexLength ==
    ASSUME NEW v \in Nat, v <= 127
    PROVE  Len(EncodeVarint[v]) = 1 /\ EncodeVarint[v] \in ByteString
  BY VarintBytes

\* Two at most for a length below 2^14.
LEMMA VarintLength ==
    ASSUME NEW v \in Nat
    PROVE  v < TWO_BYTES => Len(EncodeVarint[v]) <= 2
<1>1. CASE v <= 127
  <2>1. Len(EncodeVarint[v]) = 1
    BY <1>1, IndexLength
  <2>2. QED
    BY <2>1
<1>2. CASE ~(v <= 127)
  <2> DEFINE w == v \div 128
             x == <<(v % 128) + 128>>
             y == EncodeVarint[w]
  <2>1. v > 127 /\ w \in Nat /\ (v < TWO_BYTES => w <= 127)
    BY <1>2 DEF TWO_BYTES
  <2>2. EncodeVarint[v] = x \o y /\ y \in ByteString
    <3>1. v > 127 => /\ EncodeVarint[v \div 128] \in ByteString
                     /\ EncodeVarint[v] = <<(v % 128) + 128>> \o EncodeVarint[v \div 128]
      BY VarintBytes
    <3>2. QED
      BY <2>1, <3>1, Zenon
  <2>3. w <= 127 => Len(y) = 1
    <3> HIDE DEF w
    <3>1. QED
      BY <2>1, IndexLength
  <2>4. x \in ByteString /\ Len(x) = 1
    <3>1. (v % 128) + 128 \in 0..255
      OBVIOUS
    <3>2. QED
      BY <3>1 DEF ByteString
  <2> HIDE DEF x, y, w
  <2>5. Len(x \o y) = Len(x) + Len(y)
    <3>1. x \in ByteString /\ y \in ByteString
      BY <2>2, <2>4
    <3>2. QED
      BY <3>1, Joined
  <2>6. v < TWO_BYTES => Len(EncodeVarint[v]) = 2
    BY <2>1, <2>2, <2>3, <2>4, <2>5
  <2>7. 2 <= 2
    OBVIOUS
  <2>8. QED
    BY <2>6, <2>7, Zenon
<1>3. QED
  BY <1>1, <1>2

\* The bytes of a field: tag, length and payload, or tag and number.
LEMMA FieldLength ==
    ASSUME NEW num \in 1..9
    PROVE  /\ \A p \in ByteString : Readable(Len(p)) /\ Len(p) < TWO_BYTES =>
                  Len(EncodeField(LengthDelimited(num, p))) <= 3 + Len(p)
           /\ \A v \in 0..127 : Len(EncodeField(Uint64(num, v))) = 2
<1> DEFINE t == num * 8 + 2
           z == num * 8 + 0
<1>1. t \in Nat /\ z \in Nat /\ t <= 127 /\ z <= 127
  OBVIOUS
<1>1a. t % 8 = 2 /\ z % 8 = 0
  OBVIOUS
<1> HIDE DEF t, z
<1>2. Len(EncodeVarint[t]) = 1 /\ Len(EncodeVarint[z]) = 1
  BY <1>1, IndexLength
<1>3. ASSUME NEW p \in ByteString, Readable(Len(p)), Len(p) < TWO_BYTES
      PROVE  Len(EncodeField(LengthDelimited(num, p))) <= 3 + Len(p)
  <2> DEFINE f == LengthDelimited(num, p)
             l == EncodeVarint[Len(p)]
  <2>1. Proper(f) /\ f.tag = num * 8 + 2 /\ f.value = p
    BY <1>3, ProperFields
  <2> HIDE DEF f
  <2>1a. f.tag = t /\ Len(p) \in Nat
    BY <2>1, Bytes DEF t
  <2>2. Body(f) = l \o p
    BY <1>1a, <2>1, <2>1a DEF Body, WIRE_VARINT
  <2>3. l \in ByteString /\ Len(l) <= 2 /\ Len(l) \in Nat
    <3> DEFINE n == Len(p)
    <3>1. n \in Nat /\ n < TWO_BYTES
      BY <1>3, <2>1a
    <3> HIDE DEF n
    <3>2. EncodeVarint[n] \in ByteString
      BY <3>1, VarintBytes
    <3>3. n < TWO_BYTES => Len(EncodeVarint[n]) <= 2
      BY <3>1, VarintLength
    <3>4. Len(EncodeVarint[n]) <= 2
      BY <3>1, <3>3, Zenon
    <3>5. Len(EncodeVarint[n]) \in Nat
      BY <3>2, Bytes
    <3>6. QED
      BY <3>2, <3>4, <3>5, Zenon DEF n
  <2> HIDE DEF l
  <2>4. Len(l \o p) = Len(l) + Len(p)
    BY <2>3, Joined
  <2>5. Len(EncodeField(f)) = Len(EncodeVarint[t]) + Len(l \o p)
    BY <2>1, <2>1a, <2>2, FieldBytes
  <2>6. QED
    BY <1>2, <2>1a, <2>3, <2>4, <2>5 DEF f
<1>4. ASSUME NEW v \in 0..127
      PROVE  Len(EncodeField(Uint64(num, v))) = 2
  <2> DEFINE f == Uint64(num, v)
  <2>1. v \in Nat /\ v <= 127 /\ Readable(v)
    BY SmallReadable
  <2>2. Proper(f) /\ f.tag = num * 8 + 0 /\ f.value = v
    BY <2>1, ProperFields
  <2> HIDE DEF f
  <2>3. f.tag = z
    BY <2>2 DEF z
  <2>4. Body(f) = EncodeVarint[v]
    BY <1>1a, <2>2, <2>3 DEF Body, WIRE_VARINT
  <2>5. Len(EncodeVarint[v]) = 1
    BY <2>1, IndexLength
  <2>6. Len(EncodeField(f)) = Len(EncodeVarint[z]) + Len(EncodeVarint[v])
    BY <2>2, <2>3, <2>4, FieldBytes
  <2>7. QED
    BY <1>2, <2>5, <2>6 DEF f
<1>5. QED
  BY <1>3, <1>4

\* A number's field.
LEMMA NumberLength ==
    ASSUME NEW num \in 1..9, NEW v \in 0..127
    PROVE  Len(EncodeField(Uint64(num, v))) = 2
<1>1. \A w \in 0..127 : Len(EncodeField(Uint64(num, w))) = 2
  BY FieldLength
<1>2. QED
  BY <1>1, Zenon

\* A string's field.
LEMMA PayloadLength ==
    ASSUME NEW num \in 1..9, NEW x \in ByteString, Readable(Len(x)), Len(x) < TWO_BYTES
    PROVE  Len(EncodeField(LengthDelimited(num, x))) <= 3 + Len(x)
<1>1. \A p \in ByteString : Readable(Len(p)) /\ Len(p) < TWO_BYTES =>
          Len(EncodeField(LengthDelimited(num, p))) <= 3 + Len(p)
  BY FieldLength
<1>2. QED
  BY <1>1, Zenon

\* The bytes of one field are those of its message; no field has none.
LEMMA OneLength ==
    ASSUME NEW f, Proper(f)
    PROVE  /\ Encode(<<f>>) = EncodeField(f) /\ Message(<<f>>) /\ EncodeField(f) \in ByteString
           /\ Encode(<<>>) = <<>>
<1>1. Message(<<f>>) /\ EncodeField(f) \in ByteString
  BY OneField, FieldBytes
<1> DEFINE m == <<f>>
           ss == Pieces(m)
<1>2. Len(m) = 1 /\ m[1] = f
  OBVIOUS
<1> HIDE DEF m
<1>2a. Message(m)
  BY <1>1 DEF m
<1>3. /\ ss \in Seq(Seq(0..255)) /\ Len(ss) = 1 /\ ss[1] = EncodeField(f) /\ Encode(m) = FlattenSeq(ss)
  <2>1. /\ ss \in Seq(Seq(0..255)) /\ Len(ss) = Len(m) /\ Encode(m) = FlattenSeq(ss)
        /\ \A i \in 1..Len(m) : ss[i] = EncodeField(m[i])
    BY <1>2a, PiecesType
  <2> HIDE DEF ss
  <2>2. QED
    BY <1>2, <2>1
<1> HIDE DEF ss
<1>4. PICK P : Flattens(0..255, ss, P) /\ FlattenSeq(ss) = P[Len(ss)]
  BY <1>3, Flattened
<1>5. P[0] = <<>> /\ P[1] = P[0] \o ss[1]
  <2>1. 1 \in 1..Len(ss) /\ 1 - 1 = 0
    BY <1>3
  <2>2. P[0] = <<>> /\ \A i \in 1..Len(ss) : P[i] = P[i - 1] \o ss[i]
    BY <1>4 DEF Flattens
  <2>3. QED
    BY <2>1, <2>2
<1>6. <<>> \o ss[1] = ss[1]
  <2>1. ss[1] \in Seq(0..255)
    BY <1>1, <1>3 DEF ByteString
  <2>2. QED
    BY <2>1, ConcatEmptySeq
<1>7. Encode(m) = EncodeField(f)
  BY <1>3, <1>4, <1>5, <1>6
<1>8. Encode(<<>>) = <<>>
  <2> DEFINE e == <<>>
  <2>1. Pieces(e) \in Seq(Seq(0..255)) /\ Len(Pieces(e)) = Len(e) /\ Encode(e) = FlattenSeq(Pieces(e))
    BY NoField, PiecesType
  <2>2. Len(e) = 0
    OBVIOUS
  <2> HIDE DEF e
  <2>3. Encode(e) = <<>>
    BY <2>1, <2>2, FlattenType
  <2>4. QED
    BY <2>3 DEF e
<1>9. QED
  BY <1>1, <1>7, <1>8 DEF m

\* The bytes of two messages.
LEMMA BothLength ==
    ASSUME NEW a, Message(a), NEW b, Message(b)
    PROVE  /\ Message(a \o b) /\ Len(Encode(a \o b)) = Len(Encode(a)) + Len(Encode(b))
           /\ Len(Encode(a)) \in Nat /\ Len(Encode(b)) \in Nat /\ Len(Encode(a \o b)) \in Nat
<1>1. Message(a \o b) /\ Encode(a \o b) = Encode(a) \o Encode(b)
  BY EncodeBoth
<1>2. Encode(a) \in ByteString /\ Encode(b) \in ByteString
  BY FieldsExact
<1> DEFINE x == Encode(a)
           y == Encode(b)
<1> HIDE DEF x, y
<1>3. x \in ByteString /\ y \in ByteString
  BY <1>2 DEF x, y
<1>4. Len(x \o y) = Len(x) + Len(y) /\ Len(x) \in Nat /\ Len(y) \in Nat
  BY <1>3, Joined
<1>5. Len(x) + Len(y) \in Nat
  BY <1>4
<1>6. QED
  BY <1>1, <1>4, <1>5 DEF x, y

\* One more string of a repeated field.
LEMMA RepeatedLength ==
    ASSUME NEW num \in 1..9, NEW ps, ReadableStrings(ps), NEW k \in ByteString,
           Readable(Len(k)), Len(k) < TWO_BYTES
    PROVE  /\ ReadableStrings(Append(ps, k))
           /\ Len(Encode(Repeated(num, ps))) \in Nat
           /\ Len(Encode(Repeated(num, Append(ps, k)))) \in Nat
           /\ Len(Encode(Repeated(num, Append(ps, k)))) <= Len(Encode(Repeated(num, ps))) + 3 + Len(k)
<1> DEFINE qs == Append(ps, k)
           N == Len(ps)
           g == LengthDelimited(num, k)
           a == Repeated(num, ps)
           b == Repeated(num, qs)
<1>1. /\ ps \in Seq(ByteString) /\ N \in Nat /\ \A i \in 1..N : Readable(Len(ps[i]))
  BY DEF ReadableStrings
<1>2. /\ qs \in Seq(ByteString) /\ Len(qs) = N + 1 /\ qs[N + 1] = k
      /\ \A i \in 1..N : qs[i] = ps[i]
  BY <1>1, AppendProperties
<1> HIDE DEF qs, N
<1>3. \A i \in 1..N + 1 : i = N + 1 \/ i \in 1..N
  BY <1>1
<1>4. ReadableStrings(qs)
  <2>1. \A i \in 1..N + 1 : Readable(Len(qs[i]))
    BY <1>1, <1>2, <1>3
  <2>2. QED
    BY <1>2, <2>1 DEF ReadableStrings
<1>5. /\ Message(a) /\ a \in Seq(Field) /\ Len(a) = N
      /\ \A i \in 1..N : a[i] = LengthDelimited(num, ps[i])
  BY <1>1, RepeatedField DEF N
<1>6. /\ Message(b) /\ b \in Seq(Field) /\ Len(b) = N + 1
      /\ \A i \in 1..N + 1 : b[i] = LengthDelimited(num, qs[i])
  <2>1. qs \in Seq(ByteString) /\ \A i \in 1..Len(qs) : Readable(Len(qs[i]))
    BY <1>4 DEF ReadableStrings
  <2>2. /\ Message(b) /\ b \in Seq(Field) /\ Len(b) = Len(qs)
        /\ \A i \in 1..Len(qs) : b[i] = LengthDelimited(num, qs[i])
    BY <2>1, RepeatedField
  <2> HIDE DEF b
  <2>3. QED
    BY <1>2, <2>2
<1>7. Proper(g) /\ g \in Field /\ Len(EncodeField(g)) <= 3 + Len(k)
  <2>1. Proper(g) /\ g \in Field
    BY ProperFields
  <2>2. \A p \in ByteString : Readable(Len(p)) /\ Len(p) < TWO_BYTES =>
            Len(EncodeField(LengthDelimited(num, p))) <= 3 + Len(p)
    BY FieldLength
  <2>3. QED
    BY <2>1, <2>2, Zenon
<1> HIDE DEF a, b, g
<1>8. b = a \o <<g>>
  <2>1. <<g>> \in Seq(Field) /\ Len(<<g>>) = 1 /\ <<g>>[1] = g
    BY <1>7
  <2> DEFINE m == <<g>>
  <2> HIDE DEF m
  <2>2. m \in Seq(Field) /\ Len(m) = 1 /\ m[1] = g
    BY <2>1 DEF m
  <2>3. Len(b) = Len(a) + Len(m)
    BY <1>5, <1>6, <2>2
  <2>4. \A i \in 1..Len(a) : b[i] = a[i]
    <3>1. \A i \in 1..N : i \in 1..N + 1
      BY <1>1
    <3>2. QED
      BY <1>2, <1>5, <1>6, <3>1
  <2>5. \A i \in 1..Len(m) : b[Len(a) + i] = m[i]
    <3>1. N + 1 \in 1..N + 1
      BY <1>1
    <3>2. b[N + 1] = g
      BY <1>2, <1>6, <3>1 DEF g
    <3>3. \A i \in 1..Len(m) : i = 1
      BY <2>2
    <3>4. QED
      BY <1>5, <2>2, <3>2, <3>3
  <2>6. b = a \o m
    <3>1. a \in Seq(Field) /\ b \in Seq(Field) /\ m \in Seq(Field)
      BY <1>5, <1>6, <2>2
    <3>2. QED
      BY <2>3, <2>4, <2>5, <3>1, IsConcat
  <2>7. QED
    BY <2>6 DEF m
<1>9. Message(<<g>>) /\ Encode(<<g>>) = EncodeField(g)
  BY <1>7, OneLength
<1>10. /\ Len(Encode(a \o <<g>>)) = Len(Encode(a)) + Len(Encode(<<g>>))
       /\ Len(Encode(a)) \in Nat /\ Len(Encode(<<g>>)) \in Nat
  BY <1>5, <1>9, BothLength
<1>11. Len(k) \in Nat
  BY Bytes
<1> DEFINE la == Len(Encode(a))
           lb == Len(Encode(b))
           lg == Len(Encode(<<g>>))
           lk == Len(k)
<1>12. la \in Nat /\ lg \in Nat /\ lk \in Nat /\ lb = la + lg /\ lg <= 3 + lk
  BY <1>7, <1>8, <1>9, <1>10, <1>11
<1> HIDE DEF la, lb, lg, lk
<1>13. lb \in Nat /\ lb <= la + 3 + lk
  BY <1>12
<1>14. QED
  BY <1>4, <1>12, <1>13 DEF la, lb, lk, a, b, qs

\* An index of one byte.
LEMMA ByteReadable ==
    \A v \in 0..127 : v \in Nat /\ Readable(v)
<1>1. SUFFICES ASSUME NEW v \in 0..127 PROVE v \in Nat /\ Readable(v)
  OBVIOUS
<1>2. v \in Nat /\ v <= 127
  OBVIOUS
<1>3. Readable(v)
  BY <1>2, SmallReadable
<1>4. QED
  BY <1>2, <1>3

\* The messages of a record's tags.
LEMMA TagStrings ==
    ASSUME NEW r, ReadableRecord(r)
    PROVE  ReadableStrings(TagMessages(r)) /\ Message(Repeated(4, TagMessages(r)))
<1> DEFINE ps == TagMessages(r)
           N == Len(r.tags)
<1>1. r.tags \in Seq(Tag)
  BY DEF ReadableRecord, UserRecord
<1>2. N \in Nat /\ DOMAIN r.tags = 1..N
  BY <1>1, LenProperties
<1>3. \A i \in 1..N : /\ Encode(TagFields(r.tags[i])) \in ByteString
                      /\ Readable(Len(Encode(TagFields(r.tags[i]))))
  BY <1>2, TagRead DEF ReadableRecord, ReadableTag
<1>4. ps = [i \in 1..N |-> Encode(TagFields(r.tags[i]))]
  BY <1>2 DEF TagMessages
<1> HIDE DEF ps, N
<1>5. ps \in [1..N -> ByteString]
  BY <1>3, <1>4
<1>6. ps \in Seq(ByteString) /\ Len(ps) = N
  BY <1>2, <1>5
<1>7. \A i \in 1..Len(ps) : Readable(Len(ps[i]))
  BY <1>3, <1>4, <1>6
<1>8. Message(Repeated(4, ps))
  BY <1>6, <1>7, RepeatedField
<1>9. QED
  BY <1>6, <1>7, <1>8 DEF ps, ReadableStrings

\* The bytes of a record: two for each index, three and the data, the tags.
LEMMA RecordLength ==
    ASSUME NEW r, ReadableRecord(r), Len(r.data) < TWO_BYTES, NEW pk \in 0..127,
           NEW ehk, ehk = None \/ ehk \in 0..127
    PROVE  /\ TagBytes(r) \in Nat /\ Len(r.data) \in Nat
           /\ Len(Encode(RecordFields(pk, ehk, r))) \in Nat
           /\ Len(Encode(RecordFields(pk, ehk, r))) <=
                  2 + (IF ehk = None THEN 0 ELSE 2) + 3 + Len(r.data) + TagBytes(r)
<1> DEFINE g == Uint64(1, pk)
           h == LengthDelimited(3, r.data)
           a == <<g>>
           b == Optional(2, ehk)
           c == <<h>>
           d == Repeated(4, TagMessages(r))
<1>1. RecordFields(pk, ehk, r) = a \o b \o c \o d
  BY DEF RecordFields, Optional
<1>2. pk \in Nat /\ Readable(pk) /\ (ehk = None \/ (ehk \in Nat /\ Readable(ehk)))
  <2>1. \A v \in 0..127 : v \in Nat /\ Readable(v)
    BY ByteReadable
  <2>2. QED
    BY <2>1, Zenon
<1>3. r.data \in ByteString /\ Readable(Len(r.data)) /\ Len(r.data) \in Nat
  BY Bytes DEF ReadableRecord, UserRecord
<1>4. Message(a) /\ Len(Encode(a)) = 2
  <2>1. Proper(g)
    BY <1>2, ProperFields
  <2>2. Len(EncodeField(g)) = 2
    <3>1. 1 \in 1..9
      OBVIOUS
    <3>2. QED
      BY <3>1, NumberLength, Zenon
  <2> HIDE DEF g
  <2>3. QED
    BY <2>1, <2>2, OneLength
<1>5. Message(b) /\ Len(Encode(b)) = IF ehk = None THEN 0 ELSE 2
  <2>1. Message(b)
    BY <1>2, KeyField
  <2>2. CASE ehk = None
    <3>1. b = <<>>
      BY <2>2 DEF Optional
    <3>2. Encode(<<>>) = <<>> /\ Len(<<>>) = 0
      <4>1. Proper(g)
        BY <1>2, ProperFields
      <4> HIDE DEF g
      <4>2. Encode(<<>>) = <<>>
        BY <4>1, OneLength
      <4>3. QED
        BY <4>2
    <3> HIDE DEF b
    <3>3. QED
      BY <2>1, <2>2, <3>1, <3>2
  <2>3. CASE ehk # None
    <3> DEFINE e == Uint64(2, ehk)
    <3>1. b = <<e>>
      BY <2>3 DEF Optional
    <3>2. Proper(e)
      BY <1>2, <2>3, ProperFields
    <3>3. Len(EncodeField(e)) = 2
      <4>1. ehk \in 0..127
        BY <2>3
      <4>2. 2 \in 1..9
        OBVIOUS
      <4>3. QED
        BY <4>1, <4>2, NumberLength, Zenon
    <3> HIDE DEF e, b
    <3>4. Encode(<<e>>) = EncodeField(e)
      BY <3>2, OneLength
    <3>5. QED
      BY <2>1, <2>3, <3>1, <3>3, <3>4
  <2>4. QED
    BY <2>2, <2>3
<1>6. Message(c) /\ Len(Encode(c)) <= 3 + Len(r.data)
  <2>1. Proper(h)
    BY <1>3, ProperFields
  <2>2. Len(EncodeField(h)) <= 3 + Len(r.data)
    <3>1. 3 \in 1..9
      OBVIOUS
    <3>2. QED
      BY <1>3, <3>1, PayloadLength, Zenon
  <2> HIDE DEF h
  <2>3. Message(c) /\ Encode(c) = EncodeField(h)
    BY <2>1, OneLength
  <2>4. QED
    BY <2>2, <2>3
<1>7. Message(d) /\ TagBytes(r) = Len(Encode(d))
  BY TagStrings DEF TagBytes
<1> HIDE DEF a, b, c, d
<1>8. /\ Message(a \o b) /\ Len(Encode(a \o b)) = Len(Encode(a)) + Len(Encode(b))
      /\ Len(Encode(a)) \in Nat /\ Len(Encode(b)) \in Nat
  BY <1>4, <1>5, BothLength
<1>9. /\ Message(a \o b \o c) /\ Len(Encode(a \o b \o c)) = Len(Encode(a \o b)) + Len(Encode(c))
      /\ Len(Encode(c)) \in Nat
  BY <1>6, <1>8, BothLength
<1>10. /\ Len(Encode(a \o b \o c \o d)) = Len(Encode(a \o b \o c)) + Len(Encode(d))
       /\ Len(Encode(d)) \in Nat
  BY <1>7, <1>9, BothLength
<1> DEFINE la == Len(Encode(a))
           lb == Len(Encode(b))
           lc == Len(Encode(c))
           ld == Len(Encode(d))
           lf == Len(Encode(RecordFields(pk, ehk, r)))
           n == Len(r.data)
<1>11. lf = la + lb + lc + ld /\ la \in Nat /\ lb \in Nat /\ lc \in Nat /\ ld \in Nat /\ n \in Nat
  BY <1>1, <1>3, <1>8, <1>9, <1>10
<1>12. la = 2 /\ lb = (IF ehk = None THEN 0 ELSE 2) /\ lc <= 3 + n /\ TagBytes(r) = ld
  BY <1>4, <1>5, <1>6, <1>7
<1> HIDE DEF la, lb, lc, ld, lf, n
<1>13. lf \in Nat /\ lf <= 2 + (IF ehk = None THEN 0 ELSE 2) + 3 + n + ld
  BY <1>11, <1>12
<1>14. QED
  BY <1>11, <1>12, <1>13 DEF lf, n

\* The message of a record in a batch of small ones.
LEMMA WrittenLength ==
    ASSUME SmallRecords, NEW r \in Records, NEW n \in Nat, n <= MaxRecords, NEW pks, Table(pks, n),
           NEW ehks, Table(ehks, n), NEW x, Written(x, r, pks, ehks)
    PROVE  /\ x \in ByteString /\ Readable(Len(x)) /\ Len(x) < TWO_BYTES
           /\ Uncounted(r) \in Nat /\ Len(r.data) \in Nat
           /\ Len(x) \in Nat /\ Len(x) <= 5 + Len(r.data) + Uncounted(r)
<1>1. ReadableRecord(r) /\ Len(r.data) < TWO_BYTES /\ MaxRecords <= 128 /\ MaxRecords \in Nat
  BY BatchAssumption DEF SmallRecords
<1>2. PICK p, e : /\ Refers(p, r.partition_key, pks) /\ Refers(e, r.explicit_hash_key, ehks)
                  /\ x = Encode(RecordFields(p, e, r))
  BY DEF Written
<1>3. r.partition_key # None
  BY <1>1, CodecAssumption DEF ReadableRecord, UserRecord
<1>4. p \in 0..MaxRecords
  BY <1>2, <1>3, SmallIndex
<1>5. IF r.explicit_hash_key = None THEN e = None ELSE e \in 0..MaxRecords
  BY <1>2, SmallIndex
<1>6. p \in 0..127 /\ (r.explicit_hash_key # None => e \in 0..127)
  <2>1. ASSUME NEW i, NEW k, NEW t, Table(t, n), k # None, Refers(i, k, t)
        PROVE  i \in 0..127
    <3>1. i \in Nat /\ i < Len(t) /\ Len(t) \in Nat /\ Len(t) <= n
      BY <2>1 DEF Refers, Table
    <3>2. QED
      BY <1>1, <3>1
  <2>2. QED
    BY <1>2, <1>3, <2>1
<1>7. None \notin Nat
  BY CodecAssumption
<1>8. /\ (e = None <=> r.explicit_hash_key = None) /\ (e = None \/ e \in 0..127)
      /\ e \in 0..MaxRecords \cup {None}
  BY <1>5, <1>6, <1>7
<1> DEFINE f == RecordFields(p, e, r)
<1>9. /\ TagBytes(r) \in Nat /\ Len(r.data) \in Nat /\ Len(Encode(f)) \in Nat
      /\ Len(Encode(f)) <= 2 + (IF e = None THEN 0 ELSE 2) + 3 + Len(r.data) + TagBytes(r)
  BY <1>1, <1>6, <1>8, RecordLength
<1>10. Len(Encode(f)) < TWO_BYTES
  BY <1>4, <1>8 DEF SmallRecords
<1>11. Message(f)
  <2>1. pks \in Seq(ByteString) /\ ehks \in Seq(ByteString)
    BY DEF Table
  <2>2. QED
    BY <1>1, <1>2, <2>1, RecordReadPlain
<1>12. Readable(Len(Encode(f)))
  <2> DEFINE z == <<>>
  <2>1. z \in Additions
    BY DEF Additions
  <2> HIDE DEF z
  <2>2. Readable(Len(Encode(z \o f \o z)))
    BY <1>4, <1>8, <2>1, BatchAssumption
  <2>3. z \o f \o z = f
    <3> HIDE DEF f
    <3>1. f \in Seq(Field)
      BY <1>11 DEF Message
    <3>2. QED
      BY <3>1, OnlyOne DEF z
  <2>4. QED
    BY <2>2, <2>3
<1>13. Encode(f) \in ByteString
  <2> HIDE DEF f
  <2>1. QED
    BY <1>11, FieldsExact
<1>14. Uncounted(r) = TagBytes(r) + (IF e = None THEN 0 ELSE 2)
  BY <1>8 DEF Uncounted, INDEX_REFERENCE
<1> DEFINE lx == Len(Encode(f))
           ld == TagBytes(r)
           ln == Len(r.data)
           lu == Uncounted(r)
<1>15. /\ ld \in Nat /\ ln \in Nat /\ lx \in Nat /\ lx <= 2 + (IF e = None THEN 0 ELSE 2) + 3 + ln + ld
       /\ lu = ld + (IF e = None THEN 0 ELSE 2)
  BY <1>9, <1>14
<1> HIDE DEF lx, ld, ln, lu
<1>16. lu \in Nat /\ lx <= 5 + ln + lu
  BY <1>15
<1>17. x = Encode(f)
  BY <1>2
<1> HIDE DEF f
<1>18. QED
  BY <1>10, <1>12, <1>13, <1>15, <1>16, <1>17 DEF lx, ln, lu

\* A key costs no more than the estimate says.
LEMMA KeyLength ==
    ASSUME NEW num \in 1..9, NEW t, ReadableStrings(t), NEW k \in ByteString \cup {None},
           k # None => Readable(Len(k)) /\ Len(k) < TWO_BYTES
    PROVE  LET s == WithKey(t, k)
               old == Len(Encode(Repeated(num, t)))
               new == Len(Encode(Repeated(num, s)))
           IN  /\ ReadableStrings(s) /\ ToSet(s) = ToSet(t) \cup ({k} \ {None})
               /\ KeyCost(ToSet(t), k) \in Nat /\ old \in Nat /\ new \in Nat
               /\ new <= old + KeyCost(ToSet(t), k)
<1> DEFINE s == WithKey(t, k)
           a == Repeated(num, t)
<1>1. /\ t \in Seq(ByteString) /\ Len(t) \in Nat /\ DOMAIN t = 1..Len(t)
      /\ \A i \in 1..Len(t) : Readable(Len(t[i]))
  BY LenProperties DEF ReadableStrings
<1>2. Message(a) /\ Len(Encode(a)) \in Nat
  <2>1. Message(a)
    BY <1>1, RepeatedField
  <2> HIDE DEF a
  <2>2. Encode(a) \in ByteString
    BY <2>1, FieldsExact
  <2>3. QED
    BY <2>1, <2>2, Bytes
<1>3. CASE k = None \/ k \in ToSet(t)
  <2>1. s = t /\ KeyCost(ToSet(t), k) = 0
    BY <1>3 DEF WithKey, KeyCost
  <2>2. ToSet(t) = ToSet(t) \cup ({k} \ {None})
    BY <1>3
  <2> DEFINE la == Len(Encode(a))
  <2>3. la \in Nat
    BY <1>2
  <2> HIDE DEF la
  <2>4. la <= la + 0
    BY <2>3
  <2>5. QED
    BY <2>1, <2>2, <2>3, <2>4 DEF la
<1>4. CASE ~(k = None \/ k \in ToSet(t))
  <2>1. /\ s = Append(t, k) /\ KeyCost(ToSet(t), k) = Len(k) + 3 /\ k \in ByteString
        /\ Readable(Len(k)) /\ Len(k) < TWO_BYTES /\ Len(k) \in Nat
    BY <1>4, Bytes DEF WithKey, KeyCost, FIELD_FRAMING
  <2>2. ToSet(Append(t, k)) = ToSet(t) \cup ({k} \ {None})
    <3> DEFINE q == Append(t, k)
    <3>1. /\ q \in Seq(ByteString) /\ Len(q) = Len(t) + 1 /\ q[Len(t) + 1] = k
          /\ \A i \in 1..Len(t) : q[i] = t[i]
      BY <1>1, <2>1, AppendProperties
    <3>2. DOMAIN q = 1..Len(t) + 1
      BY <3>1, LenProperties
    <3> HIDE DEF q
    <3>3. \A i \in 1..Len(t) + 1 : i = Len(t) + 1 \/ i \in 1..Len(t)
      BY <1>1
    <3>4. Len(t) + 1 \in 1..Len(t) + 1 /\ \A i \in 1..Len(t) : i \in 1..Len(t) + 1
      BY <1>1
    <3>5. ToSet(q) = {q[i] : i \in 1..Len(t) + 1} /\ ToSet(t) = {t[i] : i \in 1..Len(t)}
      BY <1>1, <3>2 DEF ToSet
    <3>6. ToSet(q) = ToSet(t) \cup {k}
      BY <3>1, <3>3, <3>4, <3>5
    <3>7. QED
      BY <1>4, <3>6 DEF q
  <2>3. /\ ReadableStrings(Append(t, k))
        /\ Len(Encode(Repeated(num, Append(t, k)))) \in Nat
        /\ Len(Encode(Repeated(num, Append(t, k)))) <= Len(Encode(a)) + 3 + Len(k)
    BY <2>1, RepeatedLength
  <2> DEFINE la == Len(Encode(a))
             ls == Len(Encode(Repeated(num, Append(t, k))))
             lk == Len(k)
  <2>4. la \in Nat /\ ls \in Nat /\ lk \in Nat /\ ls <= la + 3 + lk
    BY <1>2, <2>1, <2>3
  <2> HIDE DEF la, ls, lk
  <2>5. lk + 3 \in Nat /\ ls <= la + (lk + 3)
    BY <2>4
  <2>6. QED
    BY <2>1, <2>2, <2>3, <2>4, <2>5 DEF la, ls, lk
<1>5. QED
  BY <1>3, <1>4

-----------------------------------------------------------------------------
(* The estimate                                                            *)

\* The bytes of a builder's tables and records.
PartBytes(b, num) ==
    Len(Encode(Repeated(num, IF num = 1 THEN b.pks ELSE IF num = 2 THEN b.ehks ELSE b.records)))
BuilderBytes(b) == PartBytes(b, 1) + PartBytes(b, 2) + PartBytes(b, 3)

\* The batch c knows the keys of the builder b, and counts all but s of it.
Counted(b, c, s) ==
    /\ ReadableStrings(b.pks) /\ ReadableStrings(b.ehks) /\ ReadableStrings(b.records)
    /\ c.pkSet = ToSet(b.pks) /\ c.ehkSet = ToSet(b.ehks)
    /\ c.estimate \in Nat /\ s \in Nat /\ BuilderBytes(b) <= c.estimate + s

\* One more record.
LEMMA CountOne ==
    ASSUME SmallRecords, NEW r \in Records, NEW n \in Nat \ {0}, n <= MaxRecords,
           NEW rs, rs[n] = r, NEW b, NEW c, NEW s, Counted(b, c, s),
           BuiltTo(rs, n - 1, b), BuiltTo(rs, n, BuilderAdd(b, r))
    PROVE  /\ Counted(BuilderAdd(b, r), Plus(c, r), s + Uncounted(r))
           /\ Len(r.data) \in Nat /\ Len(r.data) <= Plus(c, r).estimate /\ Uncounted(r) \in Nat
<1> DEFINE d == BuilderAdd(b, r)
           e == Plus(c, r)
           pks == b.pks
           ehks == b.ehks
           xs == b.records
           p == r.partition_key
           h == r.explicit_hash_key
           x == Encode(RecordFields(Index(WithKey(pks, p), p), Index(WithKey(ehks, h), h), r))
<1>1. /\ ReadableRecord(r)
      /\ p \in ByteString \cup {None} /\ p # None /\ Readable(Len(p)) /\ Len(p) < TWO_BYTES
      /\ h \in ByteString \cup {None} /\ (h # None => Readable(Len(h)) /\ Len(h) < TWO_BYTES)
  BY BatchAssumption, CodecAssumption DEF SmallRecords, ReadableRecord, UserRecord
<1>2. d.pks = WithKey(pks, p) /\ d.ehks = WithKey(ehks, h) /\ d.records = Append(xs, x)
  BY DEF BuilderAdd
<1>3. /\ e.estimate = c.estimate + 3 + Len(r.data) + 3 + 2 + KeyCost(c.pkSet, p) + KeyCost(c.ehkSet, h)
      /\ e.pkSet = c.pkSet \cup {p} /\ e.ehkSet = c.ehkSet \cup ({h} \ {None})
  BY DEF Plus, RECORD_FRAMING, FIELD_FRAMING, INDEX_REFERENCE
<1>4. /\ ReadableStrings(pks) /\ ReadableStrings(ehks) /\ ReadableStrings(xs)
      /\ c.pkSet = ToSet(pks) /\ c.ehkSet = ToSet(ehks)
      /\ c.estimate \in Nat /\ s \in Nat /\ BuilderBytes(b) <= c.estimate + s
  BY DEF Counted
<1>5. BuiltTo(rs, n, d) /\ BuiltTo(rs, n - 1, b)
  OBVIOUS
<1> HIDE DEF d, e, x, p, h
<1>6. /\ Table(d.pks, n) /\ Table(d.ehks, n) /\ d.records[n] = x
      /\ Written(x, r, d.pks, d.ehks)
  <2>1. /\ Table(d.pks, n) /\ Table(d.ehks, n) /\ n \in 1..n
        /\ \A i \in 1..n : Written(d.records[i], rs[i], d.pks, d.ehks)
    BY <1>5 DEF BuiltTo
  <2>2. /\ xs \in Seq(ByteString) /\ Len(xs) = n - 1
        /\ d.records \in Seq(ByteString) /\ Len(d.records) = n
    BY <1>5 DEF BuiltTo
  <2>3. d.records[n] = x
    <3>1. (n - 1) + 1 = n
      OBVIOUS
    <3>2. QED
      BY <1>2, <2>2, <3>1
  <2>4. QED
    BY <2>1, <2>3
<1>7. /\ x \in ByteString /\ Readable(Len(x)) /\ Len(x) < TWO_BYTES
      /\ Uncounted(r) \in Nat /\ Len(r.data) \in Nat
      /\ Len(x) \in Nat /\ Len(x) <= 5 + Len(r.data) + Uncounted(r)
  <2> DEFINE tp == d.pks
             th == d.ehks
  <2>1. Table(tp, n) /\ Table(th, n) /\ Written(x, r, tp, th) /\ n \in Nat
    BY <1>6
  <2> HIDE DEF tp, th
  <2>2. QED
    BY <2>1, WrittenLength
<1> HIDE DEF pks, ehks, xs
<1> DEFINE t == WithKey(pks, p)
           u == WithKey(ehks, h)
           v == Append(xs, x)
<1>8. /\ ReadableStrings(t) /\ ToSet(t) = ToSet(pks) \cup ({p} \ {None})
      /\ KeyCost(ToSet(pks), p) \in Nat
      /\ Len(Encode(Repeated(1, pks))) \in Nat /\ Len(Encode(Repeated(1, t))) \in Nat
      /\ Len(Encode(Repeated(1, t))) <= Len(Encode(Repeated(1, pks))) + KeyCost(ToSet(pks), p)
  <2>1. 1 \in 1..9
    OBVIOUS
  <2>2. QED
    BY <1>1, <1>4, <2>1, KeyLength
<1>9. /\ ReadableStrings(u) /\ ToSet(u) = ToSet(ehks) \cup ({h} \ {None})
      /\ KeyCost(ToSet(ehks), h) \in Nat
      /\ Len(Encode(Repeated(2, ehks))) \in Nat /\ Len(Encode(Repeated(2, u))) \in Nat
      /\ Len(Encode(Repeated(2, u))) <= Len(Encode(Repeated(2, ehks))) + KeyCost(ToSet(ehks), h)
  <2>1. 2 \in 1..9
    OBVIOUS
  <2>2. QED
    BY <1>1, <1>4, <2>1, KeyLength
<1>10. /\ ReadableStrings(v)
       /\ Len(Encode(Repeated(3, xs))) \in Nat /\ Len(Encode(Repeated(3, v))) \in Nat
       /\ Len(Encode(Repeated(3, v))) <= Len(Encode(Repeated(3, xs))) + 3 + Len(x)
  <2>1. 3 \in 1..9
    OBVIOUS
  <2>2. QED
    BY <1>4, <1>7, <2>1, RepeatedLength
<1> HIDE DEF t, u, v
<1> DEFINE a1 == Len(Encode(Repeated(1, pks)))
           a2 == Len(Encode(Repeated(2, ehks)))
           a3 == Len(Encode(Repeated(3, xs)))
           b1 == Len(Encode(Repeated(1, t)))
           b2 == Len(Encode(Repeated(2, u)))
           b3 == Len(Encode(Repeated(3, v)))
           k1 == KeyCost(ToSet(pks), p)
           k2 == KeyCost(ToSet(ehks), h)
           lx == Len(x)
           ld == Len(r.data)
           lu == Uncounted(r)
           old == c.estimate
           new == e.estimate
<1>11. BuilderBytes(b) = a1 + a2 + a3
  BY DEF BuilderBytes, PartBytes, pks, ehks, xs
<1>12. BuilderBytes(d) = b1 + b2 + b3
  BY <1>2 DEF BuilderBytes, PartBytes, t, u, v
<1>13. /\ a1 \in Nat /\ a2 \in Nat /\ a3 \in Nat /\ b1 \in Nat /\ b2 \in Nat /\ b3 \in Nat
       /\ k1 \in Nat /\ k2 \in Nat /\ lx \in Nat /\ ld \in Nat /\ lu \in Nat /\ old \in Nat /\ s \in Nat
       /\ b1 <= a1 + k1 /\ b2 <= a2 + k2 /\ b3 <= a3 + 3 + lx
  BY <1>4, <1>7, <1>8, <1>9, <1>10
<1>14. /\ lx <= 5 + ld + lu /\ a1 + a2 + a3 <= old + s
       /\ new = old + 3 + ld + 3 + 2 + k1 + k2
  BY <1>3, <1>4, <1>7, <1>11
<1> HIDE DEF a1, a2, a3, b1, b2, b3, k1, k2, lx, ld, lu, old, new
<1>15. new \in Nat /\ s + lu \in Nat /\ b1 + b2 + b3 <= new + (s + lu) /\ ld <= new
  BY <1>13, <1>14
<1>16. /\ e.pkSet = ToSet(t) /\ e.ehkSet = ToSet(u)
  BY <1>1, <1>3, <1>4, <1>8, <1>9
<1>17. /\ ReadableStrings(d.pks) /\ ReadableStrings(d.ehks) /\ ReadableStrings(d.records)
       /\ e.pkSet = ToSet(d.pks) /\ e.ehkSet = ToSet(d.ehks)
  BY <1>2, <1>8, <1>9, <1>10, <1>16 DEF t, u, v
<1>18. Counted(d, e, s + lu)
  BY <1>12, <1>15, <1>17 DEF Counted, new
<1>19. QED
  BY <1>13, <1>15, <1>18 DEF d, e, lu, ld, new

\* A builder with nothing in it has no bytes.
LEMMA CountNone == Counted(Builder, Empty, 0)
<1> DEFINE z == <<>>
<1>1. Builder.pks = z /\ Builder.ehks = z /\ Builder.records = z
  BY DEF Builder
<1>2. Empty.estimate = 0 /\ Empty.pkSet = {} /\ Empty.ehkSet = {}
  BY DEF Empty
<1>3. ReadableStrings(z) /\ ToSet(z) = {} /\ Len(z) = 0
  BY DEF ReadableStrings, ToSet
<1>4. \A num : Repeated(num, z) = z
  BY DEF Repeated
<1>5. Encode(z) = z
  <2>1. Pieces(z) \in Seq(Seq(0..255)) /\ Len(Pieces(z)) = Len(z) /\ Encode(z) = FlattenSeq(Pieces(z))
    BY NoField, PiecesType
  <2> HIDE DEF z
  <2>2. Encode(z) = <<>>
    BY <1>3, <2>1, FlattenType
  <2>3. QED
    BY <2>2 DEF z
<1> HIDE DEF z
<1>6. BuilderBytes(Builder) = 0 + 0 + 0
  BY <1>1, <1>3, <1>4, <1>5 DEF BuilderBytes, PartBytes
<1>7. 0 \in Nat /\ 0 + 0 + 0 <= 0 + 0
  OBVIOUS
<1>8. QED
  BY <1>1, <1>2, <1>3, <1>6, <1>7 DEF Counted

\* One more summand of a sequence.
LEMMA SumNext ==
    ASSUME NEW N \in Nat, NEW f \in [1..N -> Int], NEW m \in 1..N
    PROVE  SumFunctionOnSet(f, 1..m) = f[m] + SumFunctionOnSet(f, 1..m - 1)
<1> DEFINE D == 1..N
           S == 1..m - 1
<1>1. 1..m = S \cup {m} /\ S \in SUBSET D /\ m \in D \ S
  OBVIOUS
<1>2. IsFiniteSet(S)
  BY FS_Interval
<1>3. f \in [D -> Int]
  OBVIOUS
<1> HIDE DEF D, S
<1>4. SumFunctionOnSet(f, S \cup {m}) = f[m] + SumFunctionOnSet(f, S)
  BY <1>1, <1>2, <1>3, SumAdd
<1>5. QED
  BY <1>1, <1>4 DEF S

\* What the records of a sequence leave uncounted.
AllUncounted(rs) == [i \in DOMAIN rs |-> Uncounted(rs[i])]

\* The builder's loop and the batch's, side by side.
LEMMA CountAll ==
    ASSUME SmallRecords, NEW rs, Addable(rs)
    PROVE  /\ Counted(Built(rs), Rebuilt(rs), SumFunction(AllUncounted(rs)))
           /\ Len(rs) # 0 => /\ Len(rs[Len(rs)].data) \in Nat
                             /\ Len(rs[Len(rs)].data) <= Rebuilt(rs).estimate
<1> DEFINE N == Len(rs)
           f == AllUncounted(rs)
           Sum(m) == SumFunctionOnSet(f, 1..m)
<1>1. /\ rs \in Seq(Records) /\ N \in Nat /\ N <= MaxRecords /\ MaxRecords \in Nat
      /\ DOMAIN rs = 1..N /\ \A i \in 1..N : rs[i] \in Records
  BY BatchAssumption, LenProperties, ElementOfSeq DEF Addable
<1>2. /\ \A i \in 1..N : ReadableRecord(rs[i])
      /\ \A i \in 0..N : Readable(i)
  <2>1. \A i \in 0..N : i \in 0..MaxRecords
    BY <1>1
  <2>2. QED
    BY <1>1, <2>1, BatchAssumption
<1>3. PICK B : /\ Built(rs) = B[N] /\ B[0] = Builder
               /\ \A m \in 1..N : B[m] = BuilderAdd(B[m - 1], rs[m])
               /\ \A m \in 0..N : BuiltTo(rs, m, B[m])
  BY <1>1, <1>2, BuiltLoop
<1>4. PICK C : /\ Rebuilt(rs) = C[N] /\ C[0] = Empty
               /\ \A m \in 1..N : C[m] = Plus(C[m - 1], rs[m])
  BY <1>1, RebuiltLoop
<1>5. f = [i \in 1..N |-> Uncounted(rs[i])]
  BY <1>1 DEF AllUncounted
<1> HIDE DEF N
<1>6. f \in [1..N -> Int]
  <2>1. ASSUME NEW i \in 1..N PROVE Uncounted(rs[i]) \in Int
    <3>1. /\ rs[i] \in Records /\ BuiltTo(rs, i, B[i]) /\ i \in Nat /\ i <= MaxRecords /\ i \in 1..i
      BY <1>1, <1>3
    <3> DEFINE tp == B[i].pks
               th == B[i].ehks
    <3>2. Table(tp, i) /\ Table(th, i) /\ Written(B[i].records[i], rs[i], tp, th)
      BY <3>1 DEF BuiltTo
    <3> HIDE DEF tp, th
    <3>3. Uncounted(rs[i]) \in Nat
      BY <3>1, <3>2, WrittenLength
    <3>4. QED
      BY <3>3
  <2>2. QED
    BY <1>5, <2>1
<1> HIDE DEF f
<1>7. Sum(0) = 0
  <2>1. 1..0 = {}
    OBVIOUS
  <2>2. QED
    BY <1>6, <2>1, SumEmpty
<1>8. ASSUME NEW m \in 1..N PROVE Sum(m) = Uncounted(rs[m]) + Sum(m - 1)
  <2>1. /\ SumFunctionOnSet(f, 1..m) = f[m] + SumFunctionOnSet(f, 1..m - 1)
        /\ f[m] = Uncounted(rs[m])
    <3>1. f[m] = Uncounted(rs[m])
      BY <1>5
    <3>2. QED
      BY <1>1, <1>6, <3>1, SumNext
  <2>2. QED
    BY <2>1
<1> HIDE DEF Sum
<1>9. ASSUME NEW m \in 1..N, Counted(B[m - 1], C[m - 1], Sum(m - 1))
      PROVE  /\ Counted(B[m], C[m], Sum(m))
             /\ Len(rs[m].data) \in Nat /\ Len(rs[m].data) <= C[m].estimate
  <2> DEFINE b == B[m - 1]
             c == C[m - 1]
             s == Sum(m - 1)
             r == rs[m]
  <2>1. /\ m \in Nat \ {0} /\ m <= MaxRecords /\ m \in 0..N /\ m - 1 \in 0..N
    BY <1>1
  <2>2. B[m] = BuilderAdd(b, r) /\ C[m] = Plus(c, r) /\ r \in Records
    BY <1>1, <1>3, <1>4
  <2>3. BuiltTo(rs, m - 1, b) /\ BuiltTo(rs, m, BuilderAdd(b, r)) /\ Counted(b, c, s)
    <3>1. BuiltTo(rs, m - 1, B[m - 1]) /\ BuiltTo(rs, m, B[m])
      BY <1>3, <2>1
    <3>2. QED
      BY <1>9, <2>2, <3>1
  <2>4. rs[m] = r
    OBVIOUS
  <2> HIDE DEF b, c, s, r
  <2>5. /\ Counted(BuilderAdd(b, r), Plus(c, r), s + Uncounted(r))
        /\ Len(r.data) \in Nat /\ Len(r.data) <= Plus(c, r).estimate /\ Uncounted(r) \in Nat
    BY <2>1, <2>2, <2>3, <2>4, CountOne
  <2>6. Sum(m) = s + Uncounted(r)
    <3>1. s \in Nat /\ Sum(m) = Uncounted(r) + s
      BY <1>8, <2>3, <2>4 DEF Counted, s
    <3>2. QED
      BY <2>5, <3>1
  <2>7. QED
    BY <2>2, <2>4, <2>5, <2>6
<1> DEFINE Bad == {m \in 0..N : ~Counted(B[m], C[m], Sum(m))}
<1>10. Bad = {}
  <2>1. SUFFICES ASSUME Bad # {} PROVE FALSE
    OBVIOUS
  <2>2. PICK m \in Bad : \A i \in Bad : m <= i
    <3>1. Bad \in SUBSET Nat
      BY <1>1
    <3> HIDE DEF Bad
    <3>2. QED
      BY <2>1, <3>1, LeastNat
  <2>3. m \in 0..N /\ ~Counted(B[m], C[m], Sum(m))
    OBVIOUS
  <2>4. m # 0
    BY <1>3, <1>4, <1>7, <2>3, CountNone
  <2>5. m \in 1..N /\ m - 1 \in 0..N /\ ~(m <= m - 1)
    BY <1>1, <2>3, <2>4
  <2>6. Counted(B[m - 1], C[m - 1], Sum(m - 1))
    BY <2>2, <2>5
  <2>7. QED
    BY <1>9, <2>3, <2>5, <2>6
<1>11. N \in 0..N /\ (N # 0 => N \in 1..N /\ N - 1 \in 0..N)
  BY <1>1
<1>12. SumFunction(f) = Sum(N)
  <2>1. DOMAIN f = 1..N
    BY <1>6
  <2>2. QED
    BY <2>1 DEF SumFunction, Sum
<1>13. Counted(Built(rs), Rebuilt(rs), SumFunction(f))
  BY <1>3, <1>4, <1>10, <1>11, <1>12
<1>14. ASSUME N # 0
       PROVE  Len(rs[N].data) \in Nat /\ Len(rs[N].data) <= Rebuilt(rs).estimate
  BY <1>4, <1>9, <1>10, <1>11, <1>14
<1>15. QED
  BY <1>13, <1>14 DEF f, N

\* The bytes of a batch of records, in a frame.
LEMMA SerializedBytes ==
    ASSUME NEW rs, Addable(rs)
    PROVE  /\ Len(Framed(Serialize(Built(rs)))) = BuilderBytes(Built(rs)) + 20
           /\ BuilderBytes(Built(rs)) \in Nat
<1> DEFINE b == Built(rs)
           f == Repeated(1, b.pks)
           g == Repeated(2, b.ehks)
           h == Repeated(3, b.records)
           x == Serialize(b)
<1>1. ReadableStrings(b.pks) /\ ReadableStrings(b.ehks)
  BY AddableBuilt
<1>2. ReadableStrings(b.records) /\ x \in ByteString
  BY PlainWhole
<1>3. BuilderBytes(b) = Len(Encode(f)) + Len(Encode(g)) + Len(Encode(h))
  BY DEF BuilderBytes, PartBytes
<1>4. x = Encode(f \o g \o h)
  BY DEF Serialize
<1>5. Message(f) /\ Message(g) /\ Message(h)
  <2>1. ASSUME NEW num \in 1..9, NEW t, ReadableStrings(t) PROVE Message(Repeated(num, t))
    <3>1. t \in Seq(ByteString) /\ \A i \in 1..Len(t) : Readable(Len(t[i]))
      BY <2>1 DEF ReadableStrings
    <3>2. QED
      BY <3>1, RepeatedField
  <2>2. 1 \in 1..9 /\ 2 \in 1..9 /\ 3 \in 1..9
    OBVIOUS
  <2>3. QED
    BY <1>1, <1>2, <2>1, <2>2, Zenon
<1> HIDE DEF b, f, g, h, x
<1>6. /\ Message(f \o g) /\ Len(Encode(f \o g)) = Len(Encode(f)) + Len(Encode(g))
      /\ Len(Encode(f)) \in Nat /\ Len(Encode(g)) \in Nat
  BY <1>5, BothLength
<1>7. /\ Len(Encode(f \o g \o h)) = Len(Encode(f \o g)) + Len(Encode(h))
      /\ Len(Encode(h)) \in Nat
  BY <1>5, <1>6, BothLength
<1>8. Len(x) = BuilderBytes(b) /\ BuilderBytes(b) \in Nat
  BY <1>3, <1>4, <1>6, <1>7
<1>9. Len(Framed(x)) = Len(x) + 20
  BY <1>2, Unframed
<1>10. QED
  BY <1>8, <1>9 DEF b, x

\* What a batch of small records says of its estimate.
LEMMA EstimateFrom ==
    ASSUME SmallRecords, BatchInv
    PROVE  EstimateCovers
<1> DEFINE s == SumFunction(AllUncounted(items))
<1>1. Addable(items) /\ estimate = Rebuilt(items).estimate
  BY DEF BatchInv, Batch
<1>2. Len(items) \in Nat /\ items \in Seq(Records)
  BY <1>1, AddableBuilt DEF Addable
<1>3. /\ Counted(Built(items), Rebuilt(items), s)
      /\ Len(items) # 0 => /\ Len(items[Len(items)].data) \in Nat
                           /\ Len(items[Len(items)].data) <= Rebuilt(items).estimate
  BY <1>1, CountAll
<1>4. Len(MAGIC) = 4 /\ MD5_LEN = 16
  BY DEF MAGIC, MD5_LEN
<1> HIDE DEF s
<1>5. estimate \in Nat /\ s \in Nat /\ BuilderBytes(Built(items)) <= estimate + s
  BY <1>1, <1>3 DEF Counted
<1>6. SUFFICES ASSUME items # <<>>
               PROVE  Len(Blob) <= estimate + 4 + 16 + s
  BY <1>4 DEF EstimateCovers, AllUncounted, s
<1>7. Len(items) # 0
  BY <1>2, <1>6, EmptySeq
<1>8. CASE Len(items) = 1
  <2> DEFINE n == Len(items[1].data)
  <2>1. n \in Nat /\ n <= estimate
    BY <1>1, <1>3, <1>7, <1>8
  <2>2. Len(Blob) = n
    BY <1>8 DEF Blob, EncodeAggregated
  <2> HIDE DEF n
  <2>3. QED
    BY <1>5, <2>1, <2>2
<1>9. CASE Len(items) # 1
  <2> DEFINE n == BuilderBytes(Built(items))
  <2>1. Blob = Framed(Serialize(Built(items)))
    BY <1>9 DEF Blob, EncodeAggregated
  <2>2. Len(Blob) = n + 20 /\ n \in Nat /\ n <= estimate + s
    BY <1>1, <1>5, <2>1, SerializedBytes
  <2> HIDE DEF n
  <2>3. QED
    BY <1>5, <2>2
<1>10. QED
  BY <1>8, <1>9

\* The size estimate that the reducer compares with its limit never falls
\* short of the encoding by more than what it does not count, for any sequence
\* of adds and removals of small records.
THEOREM EstimateHolds ==
    ASSUME SmallRecords
    PROVE  Spec => []EstimateCovers
<1>1. BatchInv => EstimateCovers
  BY EstimateFrom
<1>2. QED
  BY <1>1, BatchIsItsRecords, PTL
=============================================================================
