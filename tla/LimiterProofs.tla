--------------------------- MODULE LimiterProofs ---------------------------
(***************************************************************************)
(* Proofs about Limiter for any records, shards, sizes, rates, capacities  *)
(* and delays: the rate is kept, queues drain in deadline order, and a     *)
(* record has a bounded life.                                              *)
(***************************************************************************)
EXTENDS Limiter, WellOrder

-----------------------------------------------------------------------------
(* The token bucket                                                        *)

StreamState == [tokens : Nat, last : Nat]

\* A stream with tokens left when u have been taken since the moment `since`:
\* both together are within a full bucket and the growth from then to the
\* last growth.  A stream that has not grown since then either has had nothing
\* taken or never grows.
Kept(m, st, u) ==
    /\ st.tokens <= MaxTokens[m]
    /\ st.last <= now
    /\ u + st.tokens <= MaxTokens[m] + (IF since < st.last THEN Rate[m] * (st.last - since) ELSE 0)
    /\ st.last < since => u = 0 \/ Rate[m] = 0

\* Growth over two consecutive spans adds up.
LEMMA Products ==
    ASSUME NEW a \in Nat, NEW b \in Int, NEW c \in Int, NEW d \in Int
    PROVE  /\ a * (d - c) = a * (d - b) + a * (b - c)
           /\ b <= d => a * (d - b) \in Nat
           /\ a * (d - b) = 0 => a = 0 \/ d = b
<1>1. a * (d - c) = a * (d - b) + a * (b - c)
  OBVIOUS
<1>2. b <= d => a * (d - b) \in Nat
  OBVIOUS
<1>3. a * (d - b) = 0 => a = 0 \/ d = b
  OBVIOUS
<1>4. QED
  BY <1>1, <1>2, <1>3

\* What a growth yields.
LEMMA GrowFacts ==
    ASSUME NEW m \in Stream, NEW st \in StreamState, now \in Nat,
           st.tokens <= MaxTokens[m], st.last <= now
    PROVE  LET g == Grow(m, st, now) IN
           /\ g \in StreamState
           /\ g.tokens <= MaxTokens[m]
           /\ \/ g = st /\ (Rate[m] = 0 \/ st.last = now)
              \/ g.last = now /\ g.tokens <= st.tokens + Rate[m] * (now - st.last)
<1> DEFINE growth == Rate[m] * (now - st.last)
           grown == st.tokens + growth
<1>1. /\ Rate[m] \in Nat /\ MaxTokens[m] \in Nat /\ st.tokens \in Nat /\ st.last \in Nat
  BY TokenBucketAssumption DEF StreamState
<1>2. growth \in Nat /\ (growth = 0 => Rate[m] = 0 \/ now = st.last)
  BY <1>1, Products
<1>3. CASE growth > 0
  <2>1. Grow(m, st, now) = [tokens |-> IF grown < MaxTokens[m] THEN grown ELSE MaxTokens[m],
                            last   |-> now]
    BY <1>3 DEF Grow
  <2>2. /\ Grow(m, st, now) \in StreamState
        /\ Grow(m, st, now).tokens <= MaxTokens[m]
        /\ Grow(m, st, now).last = now
        /\ Grow(m, st, now).tokens <= st.tokens + growth
    <3> HIDE DEF growth
    <3>1. QED
      BY <1>1, <1>2, <2>1 DEF StreamState
  <2>3. QED
    BY <2>2, Zenon
<1>4. CASE ~(growth > 0)
  <2>1. Grow(m, st, now) = st
    BY <1>4 DEF Grow
  <2> HIDE DEF growth
  <2>2. QED
    BY <1>2, <1>4, <2>1
<1>5. QED
  BY <1>3, <1>4

\* A growth keeps the budget, and brings `last` up to `since`.
LEMMA GrowKeeps ==
    ASSUME NEW m \in Stream, NEW st \in StreamState, NEW u \in Nat,
           now \in Nat, since \in Nat, Kept(m, st, u)
    PROVE  LET g == Grow(m, st, now) IN
           /\ g \in StreamState
           /\ Kept(m, g, u)
           /\ since <= now => since <= g.last \/ Rate[m] = 0
<1> DEFINE g == Grow(m, st, now)
           G == Rate[m] * (now - st.last)
           H == Rate[m] * (st.last - since)
           A == Rate[m] * (now - since)
<1>1. /\ Rate[m] \in Nat /\ MaxTokens[m] \in Nat /\ st.tokens \in Nat /\ st.last \in Nat
  BY TokenBucketAssumption DEF StreamState
<1>2. /\ g \in StreamState /\ g.tokens <= MaxTokens[m]
      /\ \/ g = st /\ (Rate[m] = 0 \/ st.last = now)
         \/ g.last = now /\ g.tokens <= st.tokens + G
  BY GrowFacts DEF Kept
<1>3. g.tokens \in Nat /\ g.last \in Nat
  BY <1>2 DEF StreamState
<1>4. A = G + H /\ G \in Int /\ H \in Int /\ (since <= now => A \in Nat)
  BY <1>1, Products
<1>4a. Rate[m] = 0 => A = 0 /\ G = 0 /\ H = 0
  BY <1>1
<1>5. CASE g = st /\ (Rate[m] = 0 \/ st.last = now)
  BY <1>1, <1>2, <1>5
<1>6. CASE g.last = now /\ g.tokens <= st.tokens + G
  <2>0. /\ st.last <= now
        /\ since < st.last => u + st.tokens <= MaxTokens[m] + H
        /\ ~(since < st.last) => u + st.tokens <= MaxTokens[m]
        /\ st.last < since => u = 0 \/ Rate[m] = 0
    BY <1>1 DEF Kept
  <2>1. since < now => u + g.tokens <= MaxTokens[m] + A
    <3> HIDE DEF g, G, H, A
    <3>1. CASE since < st.last
      BY <1>1, <1>3, <1>4, <1>6, <2>0, <3>1
    <3>2. CASE since = st.last
      <4>1. H = 0
        BY <1>1, <3>2 DEF H
      <4>2. QED
        BY <1>1, <1>3, <1>4, <1>6, <2>0, <3>2, <4>1
    <3>3. CASE st.last < since
      BY <1>1, <1>2, <1>3, <1>4, <1>4a, <1>6, <2>0, <3>3
    <3>4. QED
      BY <1>1, <3>1, <3>2, <3>3
  <2>2. ~(since < now) => u + g.tokens <= MaxTokens[m]
    <3>1. CASE st.last = now
      <4>1. G = 0
        BY <1>1, <3>1
      <4> HIDE DEF g, G, H, A
      <4>2. QED
        BY <1>1, <1>3, <1>6, <2>0, <3>1, <4>1
    <3>2. CASE st.last # now
      <4> HIDE DEF g, G, H, A
      <4>1. QED
        BY <1>1, <1>2, <1>3, <1>4a, <1>6, <2>0, <3>2
    <3>3. QED
      BY <3>1, <3>2
  <2>3. g.last < since => u = 0 \/ Rate[m] = 0
    <3> HIDE DEF g, G, H, A
    <3>1. QED
      BY <1>1, <1>6, <2>0
  <2>4. since <= now => since <= g.last
    BY <1>6
  <2>5. Kept(m, g, u)
    <3> HIDE DEF g
    <3>1. QED
      BY <1>1, <1>2, <1>3, <1>6, <2>1, <2>2, <2>3 DEF Kept
  <2>6. QED
    BY <1>2, <2>4, <2>5
<1>7. QED
  BY <1>2, <1>5, <1>6

\* try_take keeps the budget, with the debit counted if it succeeds.
LEMMA TryTakeKeeps ==
    ASSUME NEW b \in Bucket, NEW amounts \in [Stream -> Nat], NEW u \in [Stream -> Nat],
           now \in Nat, since \in Nat, \A m \in Stream : Kept(m, b[m], u[m])
    PROVE  LET c == TryTake(b, amounts, now) IN
           /\ c \in Bucket
           /\ \A m \in Stream : Kept(m, c[m], u[m])
           /\ CanTake(b, amounts, now) /\ since <= now =>
                  \A m \in Stream : Kept(m, c[m], u[m] + amounts[m])
<1> DEFINE g(m) == Grow(m, b[m], now)
           c == TryTake(b, amounts, now)
<1>1. ASSUME NEW m \in Stream
      PROVE  /\ b[m] \in StreamState /\ u[m] \in Nat /\ amounts[m] \in Nat
             /\ g(m) \in StreamState /\ Kept(m, g(m), u[m])
             /\ since <= now => since <= g(m).last \/ Rate[m] = 0
  <2>1. b[m] \in StreamState /\ u[m] \in Nat /\ amounts[m] \in Nat
    BY DEF Bucket, StreamState
  <2>2. QED
    BY <2>1, GrowKeeps
<1>2. CASE CanTake(b, amounts, now)
  <2>1. \A m \in Stream : amounts[m] <= g(m).tokens
    BY <1>2 DEF CanTake
  <2>2. Grown(b, amounts, now) = [m \in Stream |-> g(m)]
    <3>1. ~(amounts["records"] > g("records").tokens)
      BY <1>1, <2>1 DEF Stream, StreamState
    <3>2. b \in [Stream -> StreamState]
      BY DEF Bucket, StreamState
    <3> HIDE DEF g
    <3>3. Grown(b, amounts, now) = [b EXCEPT !["records"] = g("records"), !["bytes"] = g("bytes")]
      BY <3>1, <3>2 DEF Grown, g, Stream
    <3>4. QED
      BY <3>2, <3>3 DEF Stream
  <2>3. c = [m \in Stream |-> [g(m) EXCEPT !.tokens = @ - amounts[m]]]
    BY <1>2, <2>2 DEF TryTake
  <2>4. ASSUME NEW m \in Stream
        PROVE  /\ c[m] \in StreamState
               /\ c[m].tokens = g(m).tokens - amounts[m] /\ c[m].last = g(m).last
    <3> HIDE DEF g, c
    <3>1. c[m] = [g(m) EXCEPT !.tokens = @ - amounts[m]]
      BY <2>3
    <3>2. QED
      BY <1>1, <2>1, <3>1 DEF StreamState
  <2>5. c \in Bucket
    <3> HIDE DEF g
    <3>1. DOMAIN c = Stream /\ c = [m \in Stream |-> c[m]]
      BY <2>3
    <3> HIDE DEF c
    <3>2. QED
      BY <2>4, <3>1 DEF Bucket, StreamState
  <2>6. ASSUME NEW m \in Stream
        PROVE  Kept(m, c[m], u[m]) /\ (since <= now => Kept(m, c[m], u[m] + amounts[m]))
    <3>1. Rate[m] \in Nat /\ MaxTokens[m] \in Nat
      BY TokenBucketAssumption
    <3>2. g(m).tokens \in Nat /\ g(m).last \in Nat
      BY <1>1 DEF StreamState
    <3> DEFINE H == IF since < g(m).last THEN Rate[m] * (g(m).last - since) ELSE 0
    <3>3. H \in Nat
      BY <3>1, <3>2, Products
    <3>4. /\ g(m).tokens <= MaxTokens[m] /\ g(m).last <= now
          /\ u[m] + g(m).tokens <= MaxTokens[m] + H
          /\ g(m).last < since => u[m] = 0 \/ Rate[m] = 0
      BY <1>1 DEF Kept
    <3>5. (IF since < c[m].last THEN Rate[m] * (c[m].last - since) ELSE 0) = H
      BY <2>4
    <3> HIDE DEF g, c, H
    <3>6. QED
      BY <1>1, <2>1, <2>4, <3>1, <3>2, <3>3, <3>4, <3>5 DEF Kept
  <2>7. QED
    BY <2>5, <2>6
<1>3. CASE ~CanTake(b, amounts, now)
  <2>1. c = Grown(b, amounts, now)
    BY <1>3 DEF TryTake
  <2>2. b \in [Stream -> StreamState]
    BY DEF Bucket, StreamState
  <2>3. /\ c \in [Stream -> StreamState]
        /\ \A m \in Stream : c[m] = b[m] \/ c[m] = g(m)
    <3> HIDE DEF g
    <3>1. c = [b EXCEPT !["records"] = g("records"),
                        !["bytes"] = IF amounts["records"] > g("records").tokens THEN @
                                     ELSE g("bytes")]
      BY <2>1, <2>2 DEF Grown, g, Stream
    <3> HIDE DEF c
    <3>2. QED
      BY <1>1, <2>2, <3>1 DEF Stream
  <2>4. \A m \in Stream : Kept(m, c[m], u[m])
    <3> HIDE DEF g, c
    <3>1. QED
      BY <1>1, <2>3
  <2>5. QED
    BY <1>3, <2>3, <2>4 DEF Bucket, StreamState
<1>4. QED
  BY <1>2, <1>3

-----------------------------------------------------------------------------
(* The queue of a shard                                                    *)

\* Insertion ranks tell the batches of a queue apart.
Ranked(Q, rk) == \A p, r \in Q : rk[p] = rk[r] => p = r

\* (deadline, rank) is a strict order.
LEMMA BeforeOrders ==
    ASSUME deadline \in [Record -> Nat], NEW rk \in [Record -> Nat]
    PROVE  /\ \A p, q, r \in Record : Before(p, q, rk) /\ Before(q, r, rk) => Before(p, r, rk)
           /\ \A r \in Record : ~Before(r, r, rk)
BY DEF Before

\* A queue that is not empty has a batch at its end, and one at its head.
LEMMA EndsOfQueue ==
    ASSUME deadline \in [Record -> Nat], NEW rk \in [Record -> Nat],
           NEW Q \in SUBSET Record, Q # {}
    PROVE  /\ \E m \in Q : \A r \in Q : ~Before(m, r, rk)
           /\ \E h \in Q : UpTo(h, Q, rk) = {h}
<1>1. IsFiniteSet(Q)
  BY FS_Subset, LimiterAssumption
<1> DEFINE R == {e \in Q \X Q : Before(e[1], e[2], rk)}
           B == {e \in Q \X Q : Before(e[2], e[1], rk)}
<1>2. /\ \A i, j \in Q : <<i, j>> \in R <=> Before(i, j, rk)
      /\ \A i, j \in Q : <<i, j>> \in B <=> Before(j, i, rk)
  OBVIOUS
<1> HIDE DEF R, B
<1>3. /\ \A i, j, k \in Q : <<i, j>> \in R /\ <<j, k>> \in R => <<i, k>> \in R
      /\ \A i \in Q : <<i, i>> \notin R
  BY <1>2, BeforeOrders
<1>4. /\ \A i, j, k \in Q : <<i, j>> \in B /\ <<j, k>> \in B => <<i, k>> \in B
      /\ \A i \in Q : <<i, i>> \notin B
  BY <1>2, BeforeOrders
<1>5. \E m \in Q : \A r \in Q : <<m, r>> \notin R
  BY <1>1, <1>3, MaximalElement
<1>6. \E h \in Q : \A r \in Q : <<h, r>> \notin B
  BY <1>1, <1>4, MaximalElement
<1>7. \E h \in Q : UpTo(h, Q, rk) = {h}
  BY <1>2, <1>6 DEF UpTo
<1>8. QED
  BY <1>2, <1>5, <1>7

\* What is admitted is a prefix of the queue, and the bucket can pay for it.
LEMMA AdmittedPrefix ==
    ASSUME deadline \in [Record -> Nat], NEW rk \in [Record -> Nat],
           NEW Q \in SUBSET Record, NEW b
    PROVE  LET A == Admitted(Q, b, rk) IN
           /\ A \in SUBSET Q
           /\ \A r \in A, p \in Q : Before(p, r, rk) => p \in A
           /\ Ranked(Q, rk) => A = {} \/ CanTake(b, Cost(A), now)
<1> DEFINE A == Admitted(Q, b, rk)
<1>1. A \in SUBSET Q
  BY DEF Admitted
<1>2. ASSUME NEW r \in A, NEW p \in Q, Before(p, r, rk) PROVE p \in A
  <2>1. UpTo(p, Q, rk) \subseteq UpTo(r, Q, rk)
    <3>1. ASSUME NEW q \in Q, Before(q, p, rk) PROVE Before(q, r, rk)
      BY <1>1, <1>2, <3>1, BeforeOrders
    <3>2. QED
      BY <1>2, <3>1 DEF UpTo
  <2>2. QED
    BY <1>2, <2>1 DEF Admitted
<1>3. ASSUME Ranked(Q, rk), A # {} PROVE CanTake(b, Cost(A), now)
  <2>1. PICK m \in A : \A r \in A : ~Before(m, r, rk)
    <3>1. A \in SUBSET Record
      BY <1>1
    <3> HIDE DEF A
    <3>2. QED
      BY <1>3, <3>1, EndsOfQueue
  <2>2. ASSUME NEW r \in A, r # m PROVE Before(r, m, rk)
    <3>1. r \in Q /\ m \in Q /\ rk[r] # rk[m] /\ ~Before(m, r, rk)
      BY <1>1, <1>3, <2>1, <2>2 DEF Ranked
    <3>2. /\ deadline[r] \in Nat /\ deadline[m] \in Nat
          /\ rk[r] \in Nat /\ rk[m] \in Nat
      BY <3>1
    <3>3. QED
      BY <3>1, <3>2 DEF Before
  <2>3. UpTo(m, Q, rk) = A
    <3> HIDE DEF A
    <3>1. QED
      BY <1>1, <1>2, <2>2 DEF UpTo
  <2>4. \A p \in UpTo(m, Q, rk) : CanTake(b, Cost(UpTo(p, Q, rk)), now)
    BY <2>1 DEF Admitted
  <2>5. m \in UpTo(m, Q, rk)
    BY DEF UpTo
  <2>6. CanTake(b, Cost(UpTo(m, Q, rk)), now)
    BY <2>4, <2>5
  <2> HIDE DEF A
  <2>7. QED
    BY <2>3, <2>6
<1>4. QED
  BY <1>1, <1>2, <1>3

\* The cost of records is a natural in both streams.
LEMMA CostType ==
    ASSUME NEW S \in SUBSET Record
    PROVE  Cost(S) \in [Stream -> Nat] /\ (S = {} => \A m \in Stream : Cost(S)[m] = 0)
<1>1. IsFiniteSet(S) /\ Cardinality(S) \in Nat /\ BytesOf(S) \in Nat
  BY FS_Subset, FS_CardinalityType, LimiterAssumption
<1>2. S = {} => Cardinality(S) = 0 /\ BytesOf(S) = 0
  BY FS_EmptySet, LimiterAssumption
<1>3. QED
  BY <1>1, <1>2 DEF Cost

\* A drain of the queue Q that admits A keeps the budget of its bucket.
LEMMA DebitedKeeps ==
    ASSUME deadline \in [Record -> Nat], NEW rk \in [Record -> Nat],
           NEW Q \in SUBSET Record, NEW A \in SUBSET Q,
           NEW b \in Bucket, NEW u \in [Stream -> Nat],
           now \in Nat, since \in Nat, \A m \in Stream : Kept(m, b[m], u[m]),
           A = {} \/ CanTake(b, Cost(A), now)
    PROVE  LET d == Debited(Q, A, b, rk) IN
           /\ d \in Bucket
           /\ \A m \in Stream :
                  Kept(m, d[m], u[m] + IF since <= now THEN Cost(A)[m] ELSE 0)
<1> DEFINE c == IF A = {} THEN b ELSE TryTake(b, Cost(A), now)
           v == [m \in Stream |-> u[m] + IF since <= now THEN Cost(A)[m] ELSE 0]
           d == Debited(Q, A, b, rk)
<1>1. Cost(A) \in [Stream -> Nat] /\ (A = {} => \A m \in Stream : Cost(A)[m] = 0)
  BY CostType
<1>2. v \in [Stream -> Nat]
  BY <1>1
<1>3. c \in Bucket /\ \A m \in Stream : Kept(m, c[m], v[m])
  <2>1. CASE A = {}
    <3>1. \A m \in Stream : v[m] = u[m]
      BY <1>1, <2>1
    <3> HIDE DEF v
    <3>2. QED
      BY <2>1, <3>1
  <2>2. CASE A # {}
    <3>1. c = TryTake(b, Cost(A), now)
      BY <2>2
    <3> HIDE DEF c
    <3>2. /\ c \in Bucket /\ \A m \in Stream : Kept(m, c[m], u[m])
          /\ since <= now => \A m \in Stream : Kept(m, c[m], u[m] + Cost(A)[m])
      BY <1>1, <2>2, <3>1, TryTakeKeeps
    <3>3. CASE since <= now
      <4>1. \A m \in Stream : v[m] = u[m] + Cost(A)[m]
        BY <3>3
      <4> HIDE DEF v
      <4>2. QED
        BY <3>2, <3>3, <4>1
    <3>4. CASE ~(since <= now)
      <4>1. \A m \in Stream : v[m] = u[m]
        BY <3>4
      <4> HIDE DEF v
      <4>2. QED
        BY <3>2, <4>1
    <3>5. QED
      BY <3>3, <3>4
  <2>3. QED
    BY <2>1, <2>2
<1>4. d = TryHead(Q \ A, c, rk)
  BY DEF Debited
<1> HIDE DEF c, d, v
<1>5. CASE Q \ A = {}
  <2>1. d = c
    BY <1>4, <1>5 DEF TryHead
  <2>2. QED
    BY <1>3, <2>1 DEF v, d
<1>6. CASE Q \ A # {}
  <2> DEFINE head == CHOOSE r \in Q \ A : UpTo(r, Q \ A, rk) = {r}
  <2>1. head \in Q \ A
    <3>1. \E r \in Q \ A : UpTo(r, Q \ A, rk) = {r}
      BY <1>6, EndsOfQueue
    <3>2. QED
      BY <3>1
  <2>2. d = TryTake(c, Cost({head}), now)
    BY <1>4, <1>6 DEF TryHead
  <2> HIDE DEF head
  <2>3. Cost({head}) \in [Stream -> Nat]
    BY <2>1, CostType
  <2>4. d \in Bucket /\ \A m \in Stream : Kept(m, d[m], v[m])
    BY <1>2, <1>3, <2>2, <2>3, TryTakeKeeps
  <2>5. QED
    BY <2>4 DEF v, d
<1>7. QED
  BY <1>5, <1>6

\* The next rank is above those in the queue.
LEMMA NextRankFacts ==
    ASSUME rank \in [Record -> Nat], NEW s
    PROVE  NextRank(s) \in Nat /\ \A p \in Queue(s) : rank[p] < NextRank(s)
<1> DEFINE Q == Queue(s)
           ranks == {rank[p] : p \in Q}
<1>1. Q \in SUBSET Record
  BY DEF Queue
<1>2. CASE Q = {}
  <2>1. ranks = {}
    BY <1>2
  <2>2. NextRank(s) = 1
    BY <2>1 DEF NextRank
  <2>3. QED
    BY <1>2, <2>2
<1>3. CASE Q # {}
  <2> DEFINE R == {e \in Q \X Q : rank[e[1]] < rank[e[2]]}
             top == CHOOSE n \in ranks : \A k \in ranks : k <= n
  <2>1. \A i, j \in Q : <<i, j>> \in R <=> rank[i] < rank[j]
    <3> HIDE DEF Q
    <3>1. QED
      OBVIOUS
  <2>2. \A i \in Q : rank[i] \in Nat
    BY <1>1
  <2>3. IsFiniteSet(Q)
    BY <1>1, FS_Subset, LimiterAssumption
  <2> HIDE DEF Q, R
  <2>4. /\ \A i, j, k \in Q : <<i, j>> \in R /\ <<j, k>> \in R => <<i, k>> \in R
        /\ \A i \in Q : <<i, i>> \notin R
    BY <2>1, <2>2
  <2>5. PICK m \in Q : \A j \in Q : <<m, j>> \notin R
    BY <1>3, <2>3, <2>4, MaximalElement
  <2>6. ASSUME NEW j \in Q PROVE rank[j] <= rank[m]
    <3>1. ~(rank[m] < rank[j])
      BY <2>1, <2>5
    <3>2. rank[m] \in Nat /\ rank[j] \in Nat
      BY <2>2
    <3>3. QED
      BY <3>1, <3>2
  <2>7. \E n \in ranks : \A k \in ranks : k <= n
    BY <2>6
  <2>8. top \in ranks /\ \A k \in ranks : k <= top
    BY <2>7
  <2>9. NextRank(s) = 1 + top
    <3>1. ranks # {}
      BY <1>3
    <3>2. QED
      BY <3>1 DEF NextRank, Q
  <2> HIDE DEF top
  <2>10. top \in Nat /\ \A p \in Q : rank[p] <= top
    BY <2>2, <2>8
  <2>11. QED
    <3> HIDE DEF ranks
    <3>1. QED
      BY <2>2, <2>9, <2>10 DEF Q
<1>4. QED
  BY <1>2, <1>3

\* Where a drain of the shards S leaves the records.
LEMMA DrainPlaces ==
    ASSUME NEW S, NEW queue, NEW rk, NEW un, Drain(S, queue, rk, un),
           NEW r \in Record, place[r] \in Place
    PROVE  /\ place'[r] \in Place
           /\ \/ place'[r] = place[r] /\ \A s \in S : r \notin queue[s]
              \/ place'[r] = "expired" /\ \E s \in S : r \in queue[s] /\ un[r] <= now
              \/ place'[r] = "admitted" /\ \E s \in S : r \in queue[s] /\ ~(un[r] <= now)
              \/ place'[r] = "queue" /\ \E s \in S : r \in queue[s] /\ ~(un[r] <= now)
<1> DEFINE gone(s) == Expired(queue[s], un)
           rest(s) == queue[s] \ gone(s)
           taken(s) == Admitted(rest(s), bucket[s], rk)
<1>1. place'[r] = IF \E s \in S : r \in gone(s) THEN "expired"
                  ELSE IF \E s \in S : r \in taken(s) THEN "admitted"
                  ELSE IF \E s \in S : r \in rest(s) THEN "queue"
                  ELSE place[r]
  BY DEF Drain
<1>2. \A s : /\ r \in gone(s) <=> r \in queue[s] /\ un[r] <= now
             /\ r \in taken(s) => r \in rest(s)
  BY DEF Expired, Admitted
<1>3. \A s : r \in rest(s) <=> r \in queue[s] /\ ~(un[r] <= now)
  BY <1>2
<1> HIDE DEF gone, rest, taken
<1>4. CASE \E s \in S : r \in gone(s)
  BY <1>1, <1>2, <1>4 DEF Place
<1>5. CASE ~(\E s \in S : r \in gone(s)) /\ \E s \in S : r \in taken(s)
  <2>1. place'[r] = "admitted"
    BY <1>1, <1>5
  <2>2. QED
    BY <1>2, <1>3, <1>5, <2>1 DEF Place
<1>6. CASE /\ ~(\E s \in S : r \in gone(s)) /\ ~(\E s \in S : r \in taken(s))
           /\ \E s \in S : r \in rest(s)
  <2>1. place'[r] = "queue"
    BY <1>1, <1>6
  <2>2. QED
    BY <1>3, <1>6, <2>1 DEF Place
<1>7. CASE /\ ~(\E s \in S : r \in gone(s)) /\ ~(\E s \in S : r \in taken(s))
           /\ ~(\E s \in S : r \in rest(s))
  <2>1. place'[r] = place[r]
    BY <1>1, <1>7
  <2>2. QED
    BY <1>2, <1>3, <1>7, <2>1
<1>8. QED
  BY <1>4, <1>5, <1>6, <1>7

-----------------------------------------------------------------------------
(* Types and the rate                                                      *)

RankInv == \A s \in Shard : Ranked(Queue(s), rank)
RateInv == \A s \in Shard, m \in Stream : Kept(m, bucket[s][m], used[s][m])

\* A drain keeps the budgets of all shards.
LEMMA DrainKeeps ==
    ASSUME TypeOK, RateInv, NEW S, NEW queue \in [Shard -> SUBSET Record],
           NEW rk \in [Record -> Nat], NEW un,
           \A s \in Shard : Ranked(queue[s], rk),
           Drain(S, queue, rk, un), now' = now, since' = since
    PROVE  /\ place' \in [Record -> Place]
           /\ bucket' \in [Shard -> Bucket]
           /\ used' \in [Shard -> [Stream -> Nat]]
           /\ RateInv'
<1> DEFINE gone(s) == Expired(queue[s], un)
           rest(s) == queue[s] \ gone(s)
           taken(s) == Admitted(rest(s), bucket[s], rk)
           b(s) == IF s \in S THEN Debited(rest(s), taken(s), bucket[s], rk) ELSE bucket[s]
           u(s, m) == used[s][m] + IF s \in S /\ since <= now THEN Cost(taken(s))[m] ELSE 0
<1>1. place' \in [Record -> Place]
  <2>1. place' = [r \in Record |-> place'[r]]
    BY DEF Drain
  <2>2. \A r \in Record : place'[r] \in Place
    BY DrainPlaces DEF TypeOK
  <2>3. QED
    BY <2>1, <2>2
<1>2. /\ bucket' = [s \in Shard |-> b(s)]
      /\ used' = [s \in Shard |-> [m \in Stream |-> u(s, m)]]
  BY DEF Drain
<1>3. ASSUME NEW s \in Shard
      PROVE  /\ b(s) \in Bucket
             /\ \A m \in Stream : u(s, m) \in Nat /\ Kept(m, b(s)[m], u(s, m))
  <2>1. /\ bucket[s] \in Bucket /\ used[s] \in [Stream -> Nat]
        /\ now \in Nat /\ since \in Nat /\ deadline \in [Record -> Nat]
    BY DEF TypeOK
  <2>2. \A m \in Stream : Kept(m, bucket[s][m], used[s][m])
    BY DEF RateInv
  <2>3. CASE s \in S
    <3>1. rest(s) \in SUBSET Record /\ Ranked(rest(s), rk)
      BY DEF Ranked
    <3> HIDE DEF rest
    <3>2. /\ taken(s) \in SUBSET rest(s)
          /\ taken(s) = {} \/ CanTake(bucket[s], Cost(taken(s)), now)
      BY <2>1, <3>1, AdmittedPrefix
    <3> HIDE DEF taken
    <3>3. Cost(taken(s)) \in [Stream -> Nat]
      BY <3>1, <3>2, CostType
    <3> DEFINE d == Debited(rest(s), taken(s), bucket[s], rk)
    <3>4. /\ d \in Bucket
          /\ \A m \in Stream : Kept(m, d[m], used[s][m] + IF since <= now THEN Cost(taken(s))[m] ELSE 0)
      BY <2>1, <2>2, <3>1, <3>2, DebitedKeeps
    <3>5. b(s) = d /\ \A m \in Stream : u(s, m) = used[s][m] + IF since <= now THEN Cost(taken(s))[m] ELSE 0
      BY <2>3
    <3>6. \A m \in Stream : u(s, m) \in Nat
      BY <2>1, <3>3
    <3> HIDE DEF d, b, u
    <3>7. QED
      BY <3>4, <3>5, <3>6
  <2>4. CASE s \notin S
    <3>1. b(s) = bucket[s] /\ \A m \in Stream : u(s, m) = used[s][m]
      BY <2>1, <2>4
    <3> HIDE DEF b, u
    <3>2. QED
      BY <2>1, <2>2, <3>1
  <2>5. QED
    BY <2>3, <2>4
<1> HIDE DEF b, u
<1>4. bucket' \in [Shard -> Bucket] /\ used' \in [Shard -> [Stream -> Nat]]
  BY <1>2, <1>3
<1>5. \A s \in Shard, m \in Stream : Kept(m, bucket'[s][m], used'[s][m])
  BY <1>2, <1>3
<1>6. RateInv'
  BY <1>5 DEF RateInv, Kept
<1>7. QED
  BY <1>1, <1>4, <1>6

\* A step that takes no tokens and queues nothing keeps budgets and ranks.
LEMMA FrameKeeps ==
    ASSUME TypeOK, RankInv, RateInv, now' \in Nat, now <= now',
           UNCHANGED <<since, bucket, used>>,
           \A r \in Record : place'[r] = "queue" =>
               place[r] = "queue" /\ shard'[r] = shard[r] /\ rank'[r] = rank[r]
    PROVE  RankInv' /\ RateInv'
<1>1. RankInv'
  BY DEF RankInv, Ranked, Queue
<1>2. ASSUME NEW s \in Shard, NEW m \in Stream PROVE Kept(m, bucket[s][m], used[s][m])'
  <2>1. Kept(m, bucket[s][m], used[s][m]) /\ bucket[s][m].last \in Nat /\ now \in Nat
    BY DEF RateInv, TypeOK, Bucket
  <2>2. QED
    BY <2>1 DEF Kept
<1>3. QED
  BY <1>1, <1>2 DEF RateInv

\* A put or an iteration of the drain loop, with the queues it drains.
LEMMA DrainStep ==
    ASSUME TypeOK, RateInv, NEW S \in SUBSET Shard, NEW queue \in [Shard -> SUBSET Record],
           NEW rk \in [Record -> Nat], NEW un \in [Record -> Nat],
           \A s \in Shard : Ranked(queue[s], rk),
           Drain(S, queue, rk, un), rank' = rk, UNCHANGED <<now, since>>,
           \A s \in Shard : Queue(s)' \subseteq queue[s]
    PROVE  /\ place' \in [Record -> Place]
           /\ bucket' \in [Shard -> Bucket]
           /\ used' \in [Shard -> [Stream -> Nat]]
           /\ RankInv' /\ RateInv'
<1>1. RankInv'
  BY DEF RankInv, Ranked
<1>2. QED
  BY <1>1, DrainKeeps

\* The queues put drains, with the ranks and expirations they then have.
PutQueue(r, s) == [t \in Shard |-> Queue(t) \cup (IF t = s THEN {r} ELSE {})]
PutRank(r, s) == [rank EXCEPT ![r] = NextRank(s)]
PutUntil(r) == [until EXCEPT ![r] = now + Ttl]

\* What a put makes of queues, ranks and expirations, and the drain it ends with.
LEMMA PutQueues ==
    ASSUME TypeOK, RankInv, NEW r \in Record, NEW s \in Shard, Put(r, s)
    PROVE  /\ PutQueue(r, s) \in [Shard -> SUBSET Record]
           /\ PutRank(r, s) \in [Record -> Nat] /\ PutUntil(r) \in [Record -> Nat]
           /\ \A t \in Shard : Ranked(PutQueue(r, s)[t], PutRank(r, s))
           /\ Drain({s}, PutQueue(r, s), PutRank(r, s), PutUntil(r))
           /\ rank' = PutRank(r, s) /\ until' = PutUntil(r)
           /\ \A t \in Shard : Queue(t)' \subseteq PutQueue(r, s)[t]
<1> DEFINE queue == [t \in Shard |-> Queue(t) \cup (IF t = s THEN {r} ELSE {})]
           rk == [rank EXCEPT ![r] = NextRank(s)]
           un == [until EXCEPT ![r] = now + Ttl]
<1>1. /\ rank \in [Record -> Nat] /\ until \in [Record -> Nat] /\ now \in Nat
      /\ place \in [Record -> Place] /\ shard \in [Record -> Shard]
  BY DEF TypeOK
<1>2. NextRank(s) \in Nat /\ \A p \in Queue(s) : rank[p] < NextRank(s)
  BY <1>1, NextRankFacts
<1>3. /\ queue \in [Shard -> SUBSET Record]
      /\ rk \in [Record -> Nat] /\ un \in [Record -> Nat]
  BY <1>1, <1>2, LimiterAssumption DEF Queue
<1>4. /\ Drain({s}, queue, rk, un) /\ rank' = rk /\ until' = un
      /\ place[r] = "aggregator" /\ shard' = [shard EXCEPT ![r] = s]
  BY DEF Put
<1>5. ASSUME NEW t \in Shard PROVE Ranked(queue[t], rk)
  <2>1. \A p \in Queue(t) : p # r /\ rk[p] = rank[p] /\ rank[p] \in Nat
    BY <1>1, <1>4 DEF Queue
  <2>2. rk[r] = NextRank(s)
    BY <1>1
  <2>3. Ranked(Queue(t), rank)
    BY DEF RankInv
  <2>4. queue[t] = Queue(t) \cup (IF t = s THEN {r} ELSE {})
    OBVIOUS
  <2> HIDE DEF rk, queue
  <2>5. QED
    BY <1>2, <2>1, <2>2, <2>3, <2>4 DEF Ranked
<1>6. ASSUME NEW t \in Shard, NEW p \in Queue(t)' PROVE p \in queue[t]
  <2>1. p \in Record /\ place'[p] = "queue" /\ shard'[p] = t
    BY <1>6 DEF Queue
  <2>2. queue[t] = Queue(t) \cup (IF t = s THEN {r} ELSE {})
    OBVIOUS
  <2>3. CASE p = r
    BY <1>1, <1>4, <2>1, <2>2, <2>3
  <2>4. CASE p # r
    <3>1. shard[p] = t
      BY <1>1, <1>4, <2>1, <2>4
    <3>2. place'[p] = place[p] \/ p \in queue[s]
      <4>1. place[p] \in Place
        BY <1>1, <2>1
      <4> HIDE DEF queue, rk, un
      <4>2. QED
        BY <1>4, <2>1, <4>1, DrainPlaces
    <3>3. p \in queue[s] => p \in Queue(s)
      BY <2>4
    <3>4. QED
      BY <2>1, <2>2, <3>1, <3>2, <3>3 DEF Queue
  <2>5. QED
    BY <2>3, <2>4
<1>7. QED
  BY <1>3, <1>4, <1>5, <1>6 DEF PutQueue, PutRank, PutUntil

\* The queues the drain loop drains.
LEMMA LoopQueues ==
    ASSUME TypeOK, RankInv, DrainLoop
    PROVE  LET queue == [s \in Shard |-> Queue(s)] IN
           /\ queue \in [Shard -> SUBSET Record]
           /\ \A s \in Shard : Ranked(queue[s], rank)
           /\ Drain(Shard, queue, rank, until)
           /\ \A s \in Shard : Queue(s)' \subseteq queue[s]
<1> DEFINE queue == [s \in Shard |-> Queue(s)]
<1>1. queue \in [Shard -> SUBSET Record] /\ \A s \in Shard : Ranked(queue[s], rank)
  BY DEF Queue, RankInv
<1>2. Drain(Shard, queue, rank, until) /\ shard' = shard
  BY DEF DrainLoop
<1>3. ASSUME NEW s \in Shard, NEW p \in Queue(s)' PROVE p \in queue[s]
  <2>1. p \in Record /\ place'[p] = "queue" /\ shard[p] = s /\ place[p] \in Place
    BY <1>2, <1>3 DEF Queue, TypeOK
  <2>2. place'[p] = place[p] \/ \E t \in Shard : p \in queue[t]
    <3> HIDE DEF queue
    <3>1. QED
      BY <1>2, <2>1, DrainPlaces
  <2>3. QED
    BY <2>1, <2>2 DEF Queue
<1>4. QED
  BY <1>1, <1>2, <1>3

RateIInv == TypeOK /\ RankInv /\ RateInv

\* Types of the functions of records, which most steps change at one record.
LEMMA RecordTypes ==
    TypeOK => /\ now \in Nat /\ place \in [Record -> Place] /\ shard \in [Record -> Shard]
              /\ arrival \in [Record -> Nat] /\ deadline \in [Record -> Nat]
              /\ until \in [Record -> Nat] /\ rank \in [Record -> Nat]
              /\ held \in SUBSET Record /\ wake \in Nat
BY DEF TypeOK

\* The retrier's decision, whichever it is, is typed and queues nothing.
LEMMA RetryTypes ==
    ASSUME TypeOK, NEW r \in Record,
           \/ RetryNotExpired(r)
           \/ \E result \in {"success", "failure"} : Finish(r, result)
    PROVE  /\ place' \in [Record -> Place]
           /\ arrival' \in [Record -> Nat] /\ deadline' \in [Record -> Nat]
           /\ until' \in [Record -> Nat]
           /\ place'[r] # "queue" /\ \A p \in Record \ {r} : place'[p] = place[p]
<1> USE RecordTypes
<1>1. ASSUME NEW result \in {"success", "failure"}, Finish(r, result)
      PROVE  /\ place' \in [Record -> Place]
             /\ arrival' \in [Record -> Nat] /\ deadline' \in [Record -> Nat]
             /\ until' \in [Record -> Nat]
             /\ place'[r] # "queue" /\ \A p \in Record \ {r} : place'[p] = place[p]
  BY <1>1 DEF Finish, Place
<1>2. CASE RetryNotExpired(r) /\ now - arrival[r] > Ttl
  BY <1>1, <1>2 DEF RetryNotExpired
<1>3. CASE RetryNotExpired(r) /\ ~(now - arrival[r] > Ttl)
  <2>1. /\ place' = [place EXCEPT ![r] = "aggregator"]
        /\ deadline' = [deadline EXCEPT ![r] = now + RetryDelay]
        /\ until' = [until EXCEPT ![r] = now + RetryDelay]
        /\ arrival' = arrival
    BY <1>3 DEF RetryNotExpired
  <2>2. now + RetryDelay \in Nat
    BY LimiterAssumption
  <2>3. QED
    BY <2>1, <2>2 DEF Place
<1>4. QED
  BY <1>1, <1>2, <1>3

\* Starting the loop keeps its types.
LEMMA StartLoopTypes ==
    ASSUME TypeOK, StartLoop
    PROVE  loop' \in {"unstarted", "sleeping", "dispatching", "cancelled"} /\ wake' \in Nat
BY LimiterAssumption DEF StartLoop, TypeOK

\* Every step keeps types and budget.
LEMMA RateStep == RateIInv /\ [Next]_vars => RateIInv'
<1> SUFFICES ASSUME TypeOK, RankInv, RateInv, [Next]_vars
             PROVE  TypeOK' /\ RankInv' /\ RateInv'
  BY DEF RateIInv
<1> USE RecordTypes
<1>1. ASSUME NEW r \in Record, Submit(r) PROVE TypeOK' /\ RankInv' /\ RateInv'
  <2>1. now + BufferedTime \in Nat
    BY LimiterAssumption
  <2>2. TypeOK'
    BY <1>1, <2>1 DEF TypeOK, Submit, Place
  <2>3. QED
    BY <1>1, <2>2, FrameKeeps DEF Submit
<1>2. ASSUME NEW r \in Record, Admit(r) PROVE TypeOK' /\ RankInv' /\ RateInv'
  <2>1. Later(deadline[r], now) + SendTime \in Nat
    BY LimiterAssumption DEF Later
  <2>2. TypeOK'
    BY <1>2, <2>1 DEF TypeOK, Admit, Place
  <2>3. QED
    BY <1>2, <2>2, FrameKeeps DEF Admit
<1>3. ASSUME NEW r \in Record, Expire(r) PROVE TypeOK' /\ RankInv' /\ RateInv'
  <2>1. /\ place' \in [Record -> Place]
        /\ arrival' \in [Record -> Nat] /\ deadline' \in [Record -> Nat]
        /\ until' \in [Record -> Nat]
        /\ place'[r] # "queue" /\ \A p \in Record \ {r} : place'[p] = place[p]
    BY <1>3, RetryTypes DEF Expire
  <2>1a. /\ rank' \in [Record -> Nat] /\ held' \in SUBSET Record
         /\ UNCHANGED <<now, shard, bucket, loop, wake, closed, since, used>>
    BY <1>3 DEF Expire
  <2>2. TypeOK'
    BY <2>1, <2>1a DEF TypeOK
  <2>3. QED
    BY <1>3, <2>1, <2>2, FrameKeeps DEF Expire
<1>4. ASSUME NEW r \in Record, Reply(r) PROVE TypeOK' /\ RankInv' /\ RateInv'
  <2>1. /\ place' \in [Record -> Place]
        /\ arrival' \in [Record -> Nat] /\ deadline' \in [Record -> Nat]
        /\ until' \in [Record -> Nat]
        /\ place'[r] # "queue" /\ \A p \in Record \ {r} : place'[p] = place[p]
    BY <1>4, RetryTypes DEF Reply
  <2>2. TypeOK'
    BY <1>4, <2>1 DEF TypeOK, Reply
  <2>3. QED
    BY <1>4, <2>1, <2>2, FrameKeeps DEF Reply
<1>5. ASSUME NEW r \in Record, NEW s \in Shard, Put(r, s)
      PROVE  TypeOK' /\ RankInv' /\ RateInv'
  <2>1. /\ PutQueue(r, s) \in [Shard -> SUBSET Record]
        /\ PutRank(r, s) \in [Record -> Nat] /\ PutUntil(r) \in [Record -> Nat]
        /\ \A t \in Shard : Ranked(PutQueue(r, s)[t], PutRank(r, s))
        /\ Drain({s}, PutQueue(r, s), PutRank(r, s), PutUntil(r))
        /\ rank' = PutRank(r, s) /\ until' = PutUntil(r)
        /\ \A t \in Shard : Queue(t)' \subseteq PutQueue(r, s)[t]
    BY <1>5, PutQueues
  <2>2. /\ UNCHANGED <<now, arrival, deadline, held, closed, since>>
        /\ shard' \in [Record -> Shard]
        /\ StartLoop
    BY <1>5 DEF Put
  <2>3. /\ place' \in [Record -> Place]
        /\ bucket' \in [Shard -> Bucket]
        /\ used' \in [Shard -> [Stream -> Nat]]
        /\ RankInv' /\ RateInv'
    BY <2>1, <2>2, DrainStep
  <2>4. TypeOK'
    BY <2>1, <2>2, <2>3, StartLoopTypes DEF TypeOK
  <2>5. QED
    BY <2>3, <2>4
<1>6. CASE DrainLoop
  <2> DEFINE queue == [s \in Shard |-> Queue(s)]
  <2>1. /\ queue \in [Shard -> SUBSET Record]
        /\ \A s \in Shard : Ranked(queue[s], rank)
        /\ Drain(Shard, queue, rank, until)
        /\ \A s \in Shard : Queue(s)' \subseteq queue[s]
    BY <1>6, LoopQueues
  <2>2. /\ UNCHANGED <<now, shard, time, wake, closed, since>>
        /\ loop' = "dispatching" /\ held' \in SUBSET Record
    BY <1>6 DEF DrainLoop
  <2> HIDE DEF queue
  <2>3. /\ place' \in [Record -> Place]
        /\ bucket' \in [Shard -> Bucket]
        /\ used' \in [Shard -> [Stream -> Nat]]
        /\ RankInv' /\ RateInv'
    BY <2>1, <2>2, DrainStep DEF time
  <2>4. TypeOK'
    BY <2>2, <2>3 DEF TypeOK, time
  <2>5. QED
    BY <2>3, <2>4
<1>7. CASE DrainLoopSleeps
  <2>1. TypeOK'
    BY <1>7, LimiterAssumption DEF TypeOK, DrainLoopSleeps, time
  <2>2. QED
    BY <1>7, <2>1, FrameKeeps DEF DrainLoopSleeps, time
<1>8. CASE Flush
  <2>1. TypeOK'
    BY <1>8 DEF TypeOK, Flush, time, Place
  <2>2. QED
    BY <1>8, <2>1, FrameKeeps DEF Flush, time
<1>9. CASE Aclose
  <2>1. TypeOK'
    BY <1>9 DEF TypeOK, Aclose, time, Place
  <2>2. QED
    BY <1>9, <2>1, FrameKeeps DEF Aclose, time
<1>10. CASE Tick
  <2>1. TypeOK' /\ now <= now'
    BY <1>10 DEF TypeOK, Tick, time
  <2>2. QED
    BY <1>10, <2>1, FrameKeeps DEF Tick, time
<1>11. CASE UNCHANGED vars
  <2>1. TypeOK'
    BY <1>11 DEF TypeOK, vars, time
  <2>2. QED
    BY <1>11, <2>1, FrameKeeps DEF vars, time
<1>12. QED
  BY <1>1, <1>2, <1>3, <1>4, <1>5, <1>6, <1>7, <1>8, <1>9, <1>10, <1>11 DEF Next

\* Types and budget hold throughout.
LEMMA RateInvariant == Spec => []RateIInv
<1>1. Init => RateIInv
  <2> SUFFICES ASSUME Init PROVE RateIInv
    OBVIOUS
  <2>1. since \in Nat
    BY LimiterAssumption DEF Init
  <2>2. ASSUME NEW s \in Shard
        PROVE  /\ bucket[s] = FullBucket(0) /\ bucket[s] \in Bucket
               /\ used[s] = [m \in Stream |-> 0]
    BY TokenBucketAssumption DEF Init, FullBucket, Bucket
  <2>3. TypeOK
    <3>1. bucket \in [Shard -> Bucket]
      <4>1. FullBucket(0) \in Bucket
        BY TokenBucketAssumption DEF FullBucket, Bucket
      <4>2. QED
        BY <4>1 DEF Init
    <3>2. /\ place \in [Record -> Place] /\ shard \in [Record -> Shard]
          /\ {arrival, deadline, until, rank} \subseteq [Record -> Nat]
          /\ used \in [Shard -> [Stream -> Nat]]
      BY DEF Init, Place
    <3>3. now \in Nat /\ wake \in Nat
      BY DEF Init
    <3>4. held \in SUBSET Record /\ loop = "unstarted" /\ closed = FALSE
      BY DEF Init
    <3>5. QED
      BY <2>1, <3>1, <3>2, <3>3, <3>4 DEF TypeOK
  <2>4. RankInv
    BY DEF Init, RankInv, Ranked, Queue
  <2>5. RateInv
    <3> SUFFICES ASSUME NEW s \in Shard, NEW m \in Stream
                 PROVE  Kept(m, bucket[s][m], used[s][m])
      BY DEF RateInv
    <3>1. /\ bucket[s][m].tokens = MaxTokens[m] /\ bucket[s][m].last = 0
          /\ used[s][m] = 0 /\ MaxTokens[m] \in Nat /\ now = 0
      BY <2>2, TokenBucketAssumption DEF FullBucket, Init
    <3>2. QED
      BY <2>1, <3>1 DEF Kept
  <2>6. QED
    BY <2>3, <2>4, <2>5 DEF RateIInv
<1>2. QED
  BY <1>1, RateStep, PTL DEF Spec

\* The state of the limiter is well typed: no bucket is overdrawn, and every
\* insertion has a rank.
THEOREM LimiterTypeCorrect == Spec => []TypeOK
<1>1. RateIInv => TypeOK
  BY DEF RateIInv
<1>2. QED
  BY <1>1, RateInvariant, PTL

\* The rate limit, for any rates, capacities, sizes, shards and moments: since
\* any moment drains admit at most a full bucket and the growth since.
THEOREM RateIsKept == Spec => []RateKept
<1>1. RateIInv => RateKept
  <2> SUFFICES ASSUME TypeOK, RateInv, NEW s \in Shard, NEW m \in Stream, since <= now
               PROVE  used[s][m] <= MaxTokens[m] + Rate[m] * (now - since)
    BY DEF RateIInv, RateKept
  <2> DEFINE st == bucket[s][m]
             A == Rate[m] * (now - since)
             H == Rate[m] * (st.last - since)
             G == Rate[m] * (now - st.last)
  <2>1. /\ Rate[m] \in Nat /\ MaxTokens[m] \in Nat /\ now \in Nat /\ since \in Nat
        /\ st.tokens \in Nat /\ st.last \in Nat /\ used[s][m] \in Nat
    BY TokenBucketAssumption DEF TypeOK, Bucket
  <2>2. Kept(m, st, used[s][m])
    BY DEF RateInv
  <2>3. st.last <= now
    BY <2>2 DEF Kept
  <2>4. A = G + H /\ G \in Nat /\ A \in Nat /\ H \in Int
    BY <2>1, <2>3, Products
  <2>5. \/ used[s][m] + st.tokens <= MaxTokens[m]
        \/ used[s][m] + st.tokens <= MaxTokens[m] + H
    BY <2>1, <2>2 DEF Kept
  <2> HIDE DEF st, A, H, G
  <2>6. used[s][m] <= MaxTokens[m] + A
    BY <2>1, <2>4, <2>5
  <2>7. QED
    BY <2>6 DEF A
<1>2. QED
  BY <1>1, RateInvariant, PTL

-----------------------------------------------------------------------------
(* Order and delay                                                         *)

\* What a drain admits does not overtake what it leaves in the same queue.
LEMMA DrainOrdered ==
    ASSUME TypeOK, NEW S, NEW queue \in [Shard -> SUBSET Record], S \in SUBSET Shard,
           NEW rk \in [Record -> Nat], NEW un, Drain(S, queue, rk, un),
           \A s \in Shard : Queue(s)' \subseteq queue[s],
           \A s \in S : \A p \in queue[s] : shard'[p] = s,
           NEW p \in Record, NEW r \in Record,
           place'[p] = "admitted", place[p] # "admitted", place'[r] = "queue",
           shard'[p] = shard'[r]
    PROVE  deadline[p] <= deadline[r]
<1> DEFINE gone(s) == Expired(queue[s], un)
           rest(s) == queue[s] \ gone(s)
           taken(s) == Admitted(rest(s), bucket[s], rk)
<1>1. \A q \in Record :
          place'[q] = IF \E s \in S : q \in gone(s) THEN "expired"
                      ELSE IF \E s \in S : q \in taken(s) THEN "admitted"
                      ELSE IF \E s \in S : q \in rest(s) THEN "queue"
                      ELSE place[q]
  BY DEF Drain
<1>2. \A s : taken(s) \subseteq rest(s) /\ rest(s) \subseteq queue[s]
  BY DEF Admitted
<1>3. PICK s \in S : p \in taken(s)
  <2> HIDE DEF gone, rest, taken
  <2>1. QED
    BY <1>1
<1>4. shard'[p] = s /\ s \in Shard
  <2> HIDE DEF gone, rest, taken
  <2>1. QED
    BY <1>2, <1>3
<1>5. r \in queue[s]
  BY <1>4 DEF Queue
<1>6. r \notin gone(s) /\ r \notin taken(s)
  <2> HIDE DEF gone, rest, taken
  <2>1. QED
    BY <1>1
<1>7. r \in rest(s)
  BY <1>5, <1>6
<1>8. rest(s) \in SUBSET Record /\ deadline \in [Record -> Nat]
  BY <1>4 DEF TypeOK
<1>9. ~Before(r, p, rk)
  <2> HIDE DEF gone, rest
  <2>1. QED
    BY <1>3, <1>6, <1>7, <1>8, AdmittedPrefix
<1>10. QED
  BY <1>8, <1>9 DEF Before

\* What a drain admits has no later deadline than what it leaves queued.
LEMMA OrderStep ==
    ASSUME RateIInv, [Next]_vars, bucket' # bucket,
           NEW p \in Record, NEW r \in Record,
           place'[p] = "admitted", place[p] # "admitted", place'[r] = "queue",
           shard'[p] = shard'[r]
    PROVE  deadline[p] <= deadline[r]
<1>0. TypeOK /\ RankInv
  BY DEF RateIInv
<1>1. ASSUME NEW q \in Record, NEW s \in Shard, Put(q, s) PROVE deadline[p] <= deadline[r]
  <2>1. /\ PutQueue(q, s) \in [Shard -> SUBSET Record] /\ PutRank(q, s) \in [Record -> Nat]
        /\ Drain({s}, PutQueue(q, s), PutRank(q, s), PutUntil(q))
        /\ \A t \in Shard : Queue(t)' \subseteq PutQueue(q, s)[t]
    BY <1>0, <1>1, PutQueues
  <2>2. ASSUME NEW x \in PutQueue(q, s)[s] PROVE shard'[x] = s
    <3>1. x = q \/ x \in Queue(s)
      BY <2>2 DEF PutQueue
    <3>2. shard' = [shard EXCEPT ![q] = s] /\ shard \in [Record -> Shard]
      BY <1>0, <1>1 DEF Put, TypeOK
    <3>3. QED
      BY <3>1, <3>2 DEF Queue
  <2>3. QED
    BY <1>0, <2>1, <2>2, DrainOrdered
<1>2. CASE DrainLoop
  <2> DEFINE queue == [s \in Shard |-> Queue(s)]
  <2>1. /\ queue \in [Shard -> SUBSET Record]
        /\ Drain(Shard, queue, rank, until)
        /\ \A s \in Shard : Queue(s)' \subseteq queue[s]
    BY <1>0, <1>2, LoopQueues
  <2>2. \A s \in Shard : \A x \in queue[s] : shard'[x] = s
    BY <1>2 DEF DrainLoop, Queue
  <2>3. rank \in [Record -> Nat]
    BY <1>0 DEF TypeOK
  <2> HIDE DEF queue
  <2>4. QED
    BY <1>0, <2>1, <2>2, <2>3, DrainOrdered
<1>3. CASE \/ Flush \/ Aclose \/ Tick \/ DrainLoopSleeps \/ UNCHANGED vars
           \/ \E q \in Record : Submit(q) \/ Admit(q) \/ Expire(q) \/ Reply(q)
  BY <1>3 DEF Flush, Aclose, Tick, DrainLoopSleeps, Submit, Admit, Expire, Reply, vars
<1>4. QED
  BY <1>1, <1>2, <1>3 DEF Next

\* Batches are admitted in order of their deadlines, shard by shard.
THEOREM DeadlinesRespected == Spec => AdmitsByDeadline
<1>1. RateIInv /\ [Next]_vars =>
         [bucket' # bucket =>
             \A p, r \in Record :
                 place'[p] = "admitted" /\ place[p] # "admitted" /\ place'[r] = "queue"
                     /\ shard'[p] = shard'[r] => deadline[p] <= deadline[r]]_vars
  BY OrderStep
<1>2. QED
  BY <1>1, RateInvariant, PTL DEF Spec, AdmitsByDeadline

\* The drain loop is never further away than the expiration of what is queued
\* and one interval.
LoopInv ==
    /\ ~closed => loop # "cancelled"
    /\ loop = "sleeping" => now <= wake /\ wake <= now + DrainInterval
    /\ ~closed => \A r \in Record : place[r] = "queue" =>
           /\ loop # "unstarted"
           /\ loop = "sleeping" => wake <= until[r] + DrainInterval
           /\ loop = "dispatching" => now < until[r]

\* Every step keeps the loop ahead of the expirations.
LEMMA LoopStep == RateIInv /\ LoopInv /\ [Next]_vars => LoopInv'
<1> SUFFICES ASSUME TypeOK, RankInv, LoopInv, [Next]_vars PROVE LoopInv'
  BY DEF RateIInv
<1> USE RecordTypes
<1>0. /\ DrainInterval \in Nat /\ Ttl \in Nat /\ Ttl > 0 /\ wake \in Nat
      /\ \A r \in Record : until[r] \in Nat
  BY LimiterAssumption
<1>1. ASSUME NEW r \in Record, Submit(r) \/ Admit(r) \/ Expire(r) \/ Reply(r) PROVE LoopInv'
  <2>1. UNCHANGED <<now, loop, wake, closed>>
    BY <1>1 DEF Submit, Admit, Expire, Reply
  <2>2. \A p \in Record : place'[p] = "queue" => place[p] = "queue" /\ until'[p] = until[p]
    <3>1. CASE Submit(r)
      BY <3>1 DEF Submit
    <3>2. CASE Admit(r)
      BY <3>2 DEF Admit
    <3>3. CASE Expire(r) \/ Reply(r)
      <4>1. /\ place'[r] # "queue" /\ \A p \in Record \ {r} : place'[p] = place[p]
        BY <3>3, RetryTypes DEF Expire, Reply
      <4>2. \A p \in Record \ {r} : until'[p] = until[p]
        BY <3>3 DEF Expire, Reply, RetryNotExpired, Finish
      <4>3. QED
        BY <4>1, <4>2
    <3>4. QED
      BY <1>1, <3>1, <3>2, <3>3
  <2>3. QED
    BY <2>1, <2>2 DEF LoopInv
<1>2. ASSUME NEW r \in Record, NEW s \in Shard, Put(r, s) PROVE LoopInv'
  <2>1. /\ UNCHANGED <<now, closed>> /\ StartLoop
        /\ until' = [until EXCEPT ![r] = now + Ttl]
    BY <1>2 DEF Put
  <2>2. ASSUME NEW p \in Record, place'[p] = "queue", p # r PROVE place[p] = "queue"
    <3>1. Drain({s}, PutQueue(r, s), PutRank(r, s), PutUntil(r))
      BY <1>2, PutQueues
    <3>2. place[p] = "queue" \/ p \in PutQueue(r, s)[s]
      BY <2>2, <3>1, DrainPlaces
    <3>3. QED
      BY <2>2, <3>2 DEF PutQueue, Queue
  <2>3. ASSUME NEW p \in Record, place'[p] = "queue"
        PROVE  \/ p = r /\ until'[p] = now + Ttl
               \/ place[p] = "queue" /\ until'[p] = until[p]
    BY <2>1, <2>2, <2>3
  <2>4. CASE loop = "unstarted" /\ ~closed
    <3>1. loop' = "sleeping" /\ wake' = now + DrainInterval
      BY <2>1, <2>4 DEF StartLoop
    <3>2. \A p \in Record : place'[p] = "queue" => until'[p] = now + Ttl
      BY <2>3, <2>4 DEF LoopInv
    <3>3. QED
      BY <1>0, <2>1, <3>1, <3>2 DEF LoopInv
  <2>5. CASE ~(loop = "unstarted" /\ ~closed)
    <3>1. loop' = loop /\ wake' = wake
      BY <2>1, <2>5 DEF StartLoop
    <3>2. QED
      BY <1>0, <2>1, <2>3, <2>5, <3>1 DEF LoopInv
  <2>6. QED
    BY <2>4, <2>5
<1>3. CASE DrainLoop
  <2>1. UNCHANGED <<now, closed, until>> /\ loop' = "dispatching" /\ ~(loop = "cancelled")
    BY <1>3 DEF DrainLoop, time
  <2>2. ASSUME NEW p \in Record, place'[p] = "queue" PROVE now < until[p]
    <3> DEFINE queue == [s \in Shard |-> Queue(s)]
    <3>1. Drain(Shard, queue, rank, until)
      BY <1>3, LoopQueues
    <3>2. place[p] = "queue" => p \in queue[shard[p]] /\ shard[p] \in Shard
      BY DEF Queue
    <3> HIDE DEF queue
    <3>3. ~(until[p] <= now)
      BY <2>2, <3>1, <3>2, DrainPlaces
    <3>4. QED
      BY <1>0, <3>3
  <2>3. QED
    BY <2>1, <2>2 DEF LoopInv
<1>4. CASE DrainLoopSleeps
  BY <1>0, <1>4 DEF DrainLoopSleeps, LoopInv, time
<1>5. CASE Flush
  BY <1>5 DEF Flush, LoopInv, time
<1>6. CASE Aclose
  BY <1>6 DEF Aclose, LoopInv, time
<1>7. CASE Tick
  <2>1. /\ now' = now + 1 /\ loop # "dispatching" /\ (loop = "sleeping" => wake > now)
        /\ UNCHANGED <<loop, wake, closed, place, until>>
    BY <1>7 DEF Tick, time
  <2>2. QED
    BY <1>0, <2>1 DEF LoopInv
<1>8. CASE UNCHANGED vars
  BY <1>8 DEF vars, time, LoopInv
<1>9. QED
  BY <1>1, <1>2, <1>3, <1>4, <1>5, <1>6, <1>7, <1>8 DEF Next

\* The loop stays ahead of the expirations.
LEMMA LoopInvariant == Spec => []LoopInv
<1>1. Init => LoopInv
  BY DEF Init, LoopInv
<1>2. QED
  BY <1>1, RateInvariant, LoopStep, PTL DEF Spec

\* A loop ahead of the expirations drains its queues in time.
LEMMA LoopDrains == RateIInv /\ LoopInv => QueueDrains
<1> SUFFICES ASSUME TypeOK, LoopInv, ~closed, NEW r \in Record, place[r] = "queue"
             PROVE  now <= until[r] + DrainInterval
  BY DEF RateIInv, QueueDrains
<1>1. /\ now \in Nat /\ wake \in Nat /\ until[r] \in Nat /\ DrainInterval \in Nat
      /\ loop \in {"unstarted", "sleeping", "dispatching", "cancelled"}
  BY LimiterAssumption DEF TypeOK
<1>2. QED
  BY <1>1 DEF LoopInv

\* No queue is left undrained, whatever the sizes: a batch waits at most for
\* its expiration and one interval of the drain loop.
THEOREM QueuesDrain == Spec => []QueueDrains
BY RateInvariant, LoopInvariant, LoopDrains, PTL

-----------------------------------------------------------------------------
(* The life of a record                                                    *)

\* How long after its arrival a record may still reach a queue: its first
\* deadline, or that of the last retry the TTL check allows.
Longest == Later(BufferedTime, Ttl + RetryDelay)

\* A record that arrived at a, with the deadline d, given up by its stage at u,
\* is at time t as old as the stages before allow.
Alive(pl, a, d, u, t) ==
    /\ pl \in {"aggregator", "queue", "admitted", "expired", "sending"} => d <= a + Longest
    /\ pl = "aggregator" => t <= u /\ u <= a + Longest
    /\ pl = "queue" => u <= a + Longest + Ttl
    /\ pl = "admitted" => t <= a + Longest + Ttl
    /\ pl = "expired" => t <= a + Longest + Ttl + DrainInterval
    /\ pl = "sending" => t <= u /\ u <= a + Longest + Ttl + SendTime

LifeInv ==
    ~closed => \A r \in Record : Alive(place[r], arrival[r], deadline[r], until[r], now)

\* Longest covers the buffering time and a retry; the delays are naturals.
LEMMA LongestFacts ==
    /\ Longest \in Nat /\ BufferedTime <= Longest /\ Ttl + RetryDelay <= Longest
    /\ Ttl \in Nat /\ BufferedTime \in Nat /\ RetryDelay \in Nat /\ SendTime \in Nat
    /\ DrainInterval \in Nat
BY LimiterAssumption DEF Longest, Later

\* The retrier's decision: a record it lets go on is young enough.
LEMMA RetryLives ==
    ASSUME TypeOK, NEW r \in Record,
           \/ RetryNotExpired(r)
           \/ \E result \in {"success", "failure"} : Finish(r, result)
    PROVE  /\ Alive(place'[r], arrival'[r], deadline'[r], until'[r], now)
           /\ \A p \in Record \ {r} : /\ place'[p] = place[p] /\ arrival'[p] = arrival[p]
                                      /\ deadline'[p] = deadline[p] /\ until'[p] = until[p]
<1> USE RecordTypes, LongestFacts
<1>1. ASSUME NEW result \in {"success", "failure"}, Finish(r, result)
      PROVE  /\ Alive(place'[r], arrival'[r], deadline'[r], until'[r], now)
             /\ \A p \in Record \ {r} : /\ place'[p] = place[p] /\ arrival'[p] = arrival[p]
                                        /\ deadline'[p] = deadline[p] /\ until'[p] = until[p]
  BY <1>1 DEF Finish, Alive
<1>2. CASE RetryNotExpired(r) /\ now - arrival[r] > Ttl
  BY <1>1, <1>2 DEF RetryNotExpired
<1>3. CASE RetryNotExpired(r) /\ ~(now - arrival[r] > Ttl)
  <2>1. /\ place' = [place EXCEPT ![r] = "aggregator"]
        /\ deadline' = [deadline EXCEPT ![r] = now + RetryDelay]
        /\ until' = [until EXCEPT ![r] = now + RetryDelay]
        /\ arrival' = arrival
    BY <1>3 DEF RetryNotExpired
  <2>2. now + RetryDelay <= arrival[r] + Longest /\ now <= now + RetryDelay
    BY <1>3
  <2>3. QED
    BY <2>1, <2>2 DEF Alive
<1>4. QED
  BY <1>1, <1>2, <1>3

\* A drain leaves a queued record in the queue before its expiration, and
\* expires it at most an interval after.
LEMMA DrainLives ==
    ASSUME NEW pl \in {"queue", "admitted", "expired"}, NEW a \in Nat, NEW d \in Nat,
           NEW u \in Nat, NEW t \in Nat, Alive("queue", a, d, u, t),
           t <= u + DrainInterval,
           pl = "admitted" => ~(u <= t)
    PROVE  Alive(pl, a, d, u, t)
BY LongestFacts DEF Alive

\* Every step keeps the age of each record within the bound of its stage.
LEMMA LifeStep == RateIInv /\ LoopInv /\ LifeInv /\ [Next]_vars => LifeInv'
<1> SUFFICES ASSUME TypeOK, RankInv, LoopInv, LifeInv, QueueDrains, [Next]_vars, ~closed'
             PROVE  \A r \in Record :
                        Alive(place'[r], arrival'[r], deadline'[r], until'[r], now')
  BY LoopDrains DEF RateIInv, LifeInv
<1> USE RecordTypes, LongestFacts
<1>0. ~closed /\ ~Aclose
  <2>1. Aclose => closed'
    BY DEF Aclose
  <2>2. ASSUME ~Aclose PROVE closed' = closed
    <3>1. ASSUME NEW r \in Record, Submit(r) \/ Admit(r) \/ Expire(r) \/ Reply(r)
          PROVE  closed' = closed
      BY <3>1 DEF Submit, Admit, Expire, Reply
    <3>2. ASSUME NEW r \in Record, NEW s \in Shard, Put(r, s) PROVE closed' = closed
      BY <3>2 DEF Put
    <3>3. CASE DrainLoop \/ DrainLoopSleeps \/ Flush \/ Tick \/ UNCHANGED vars
      BY <3>3 DEF DrainLoop, DrainLoopSleeps, Flush, Tick, vars
    <3>4. QED
      BY <2>2, <3>1, <3>2, <3>3 DEF Next
  <2>3. QED
    BY <2>1, <2>2
<1>a. \A p \in Record : /\ Alive(place[p], arrival[p], deadline[p], until[p], now)
                        /\ place[p] = "queue" => now <= until[p] + DrainInterval
  BY <1>0 DEF LifeInv, QueueDrains
<1>b. \A p \in Record : /\ place[p] \in Place /\ arrival[p] \in Nat /\ deadline[p] \in Nat
                        /\ until[p] \in Nat
  OBVIOUS
<1>1. ASSUME NEW r \in Record, Submit(r)
      PROVE  \A p \in Record : Alive(place'[p], arrival'[p], deadline'[p], until'[p], now')
  <2>1. /\ place' = [place EXCEPT ![r] = "aggregator"]
        /\ arrival' = [arrival EXCEPT ![r] = now]
        /\ deadline' = [deadline EXCEPT ![r] = now + BufferedTime]
        /\ until' = [until EXCEPT ![r] = now + BufferedTime]
        /\ now' = now
    BY <1>1 DEF Submit
  <2>2. Alive("aggregator", now, now + BufferedTime, now + BufferedTime, now)
    BY DEF Alive
  <2>3. QED
    BY <1>a, <2>1, <2>2
<1>2. ASSUME NEW r \in Record, Admit(r)
      PROVE  \A p \in Record : Alive(place'[p], arrival'[p], deadline'[p], until'[p], now')
  <2> DEFINE u == Later(deadline[r], now) + SendTime
  <2>1. /\ place' = [place EXCEPT ![r] = "sending"]
        /\ until' = [until EXCEPT ![r] = u]
        /\ place[r] = "admitted" /\ UNCHANGED <<now, arrival, deadline>>
    BY <1>2 DEF Admit
  <2>2. deadline[r] <= arrival[r] + Longest /\ now <= arrival[r] + Longest + Ttl
    BY <1>a, <2>1 DEF Alive
  <2>3. Alive("sending", arrival[r], deadline[r], u, now)
    BY <1>b, <2>2 DEF Alive, Later
  <2> HIDE DEF u
  <2>4. QED
    BY <1>a, <2>1, <2>3
<1>3. ASSUME NEW r \in Record, Expire(r) \/ Reply(r)
      PROVE  \A p \in Record : Alive(place'[p], arrival'[p], deadline'[p], until'[p], now')
  <2>1. now' = now
    BY <1>3 DEF Expire, Reply
  <2>2. /\ Alive(place'[r], arrival'[r], deadline'[r], until'[r], now)
        /\ \A p \in Record \ {r} : /\ place'[p] = place[p] /\ arrival'[p] = arrival[p]
                                   /\ deadline'[p] = deadline[p] /\ until'[p] = until[p]
    BY <1>3, RetryLives DEF Expire, Reply
  <2>3. QED
    BY <1>a, <2>1, <2>2
<1>4. ASSUME NEW r \in Record, NEW s \in Shard, Put(r, s)
      PROVE  \A p \in Record : Alive(place'[p], arrival'[p], deadline'[p], until'[p], now')
  <2> SUFFICES ASSUME NEW p \in Record
               PROVE  Alive(place'[p], arrival'[p], deadline'[p], until'[p], now')
    OBVIOUS
  <2>1. /\ UNCHANGED <<now, arrival, deadline>> /\ place[r] = "aggregator"
        /\ until' = [until EXCEPT ![r] = now + Ttl]
    BY <1>4 DEF Put
  <2>2. Drain({s}, PutQueue(r, s), PutRank(r, s), PutUntil(r))
    BY <1>4, PutQueues
  <2>3. \/ place'[p] = place[p] /\ p \notin PutQueue(r, s)[s]
        \/ /\ p \in PutQueue(r, s)[s] /\ place'[p] \in {"queue", "admitted", "expired"}
           /\ place'[p] = "admitted" => ~(PutUntil(r)[p] <= now)
    BY <1>b, <2>2, DrainPlaces
  <2>4. p \in PutQueue(r, s)[s] <=> p \in Queue(s) \/ p = r
    BY DEF PutQueue
  <2>5. CASE p \notin PutQueue(r, s)[s]
    BY <1>a, <2>1, <2>3, <2>4, <2>5
  <2>6. CASE p = r
    <3>1. now <= arrival[r] + Longest /\ deadline[r] <= arrival[r] + Longest
      BY <1>a, <1>b, <2>1 DEF Alive
    <3>2. Alive("queue", arrival[r], deadline[r], now + Ttl, now)
      BY <1>b, <3>1 DEF Alive
    <3>3. PutUntil(r)[r] = now + Ttl /\ until'[r] = now + Ttl /\ now + Ttl \in Nat
          /\ now <= now + Ttl + DrainInterval
      BY <2>1 DEF PutUntil
    <3>4. QED
      BY <1>b, <2>1, <2>3, <2>4, <2>6, <3>2, <3>3, DrainLives
  <2>7. CASE p \in Queue(s) /\ p # r
    <3>1. place[p] = "queue" /\ PutUntil(r)[p] = until[p] /\ until'[p] = until[p]
      BY <2>1, <2>7 DEF Queue, PutUntil
    <3>2. /\ Alive("queue", arrival[p], deadline[p], until[p], now)
          /\ now <= until[p] + DrainInterval
      BY <1>a, <3>1
    <3>3. QED
      BY <1>b, <2>1, <2>3, <2>4, <2>7, <3>1, <3>2, DrainLives
  <2>8. QED
    BY <2>4, <2>5, <2>6, <2>7
<1>5. CASE DrainLoop \/ Flush
  <2> SUFFICES ASSUME NEW p \in Record
               PROVE  Alive(place'[p], arrival'[p], deadline'[p], until'[p], now')
    OBVIOUS
  <2>1. UNCHANGED <<now, arrival, deadline, until>>
    BY <1>5 DEF DrainLoop, Flush, time
  <2>2. \/ place'[p] = place[p]
        \/ /\ place[p] = "queue" /\ place'[p] \in {"queue", "admitted", "expired"}
           /\ place'[p] = "admitted" => ~(until[p] <= now)
    <3>1. CASE Flush
      BY <3>1 DEF Flush
    <3>2. CASE DrainLoop
      <4> DEFINE queue == [s \in Shard |-> Queue(s)]
      <4>1. Drain(Shard, queue, rank, until)
        BY <3>2, LoopQueues
      <4>2. \A s \in Shard : p \in queue[s] => place[p] = "queue"
        BY DEF Queue
      <4> HIDE DEF queue
      <4>3. QED
        BY <1>b, <4>1, <4>2, DrainPlaces
    <3>3. QED
      BY <1>5, <3>1, <3>2
  <2>3. CASE place'[p] = place[p]
    BY <1>a, <2>1, <2>3
  <2>4. CASE /\ place[p] = "queue" /\ place'[p] \in {"queue", "admitted", "expired"}
             /\ place'[p] = "admitted" => ~(until[p] <= now)
    <3>1. /\ Alive("queue", arrival[p], deadline[p], until[p], now)
          /\ now <= until[p] + DrainInterval
      BY <1>a, <2>4
    <3>2. QED
      BY <1>b, <2>1, <2>4, <3>1, DrainLives
  <2>5. QED
    BY <2>2, <2>3, <2>4
<1>6. CASE DrainLoopSleeps \/ UNCHANGED vars
  <2>1. UNCHANGED <<now, place, arrival, deadline, until>>
    BY <1>6 DEF DrainLoopSleeps, vars, time
  <2>2. QED
    BY <1>a, <2>1
<1>7. CASE Tick
  <2> SUFFICES ASSUME NEW p \in Record
               PROVE  Alive(place'[p], arrival'[p], deadline'[p], until'[p], now')
    OBVIOUS
  <2>1. /\ UNCHANGED <<place, arrival, deadline, until>> /\ now' = now + 1
        /\ place[p] \notin {"admitted", "expired"}
        /\ place[p] \in {"aggregator", "sending"} => until[p] > now
    BY <1>7 DEF Tick, time
  <2>2. Alive(place[p], arrival[p], deadline[p], until[p], now + 1)
    BY <1>a, <1>b, <2>1 DEF Alive
  <2>3. QED
    BY <2>1, <2>2
<1>8. QED
  BY <1>0, <1>1, <1>2, <1>3, <1>4, <1>5, <1>6, <1>7 DEF Next

\* Every age is within the bound of its stage.
LEMMA LifeInvariant == Spec => []LifeInv
<1>1. Init => LifeInv
  BY DEF Init, LifeInv, Alive
<1>2. QED
  BY <1>1, RateInvariant, LoopInvariant, LifeStep, PTL DEF Spec

\* The bounds of the stages are within Lifetime.
LEMMA LifeBounds == RateIInv /\ LoopInv /\ LifeInv => LifetimeBounded
<1> SUFFICES ASSUME TypeOK, LifeInv, QueueDrains, ~closed, NEW r \in Record,
                    place[r] \notin Over \cup {"idle"}
             PROVE  now - arrival[r] <= Lifetime
  BY LoopDrains DEF RateIInv, LifetimeBounded
<1>1. /\ now \in Nat /\ arrival[r] \in Nat /\ until[r] \in Nat /\ deadline[r] \in Nat
      /\ place[r] \in {"aggregator", "queue", "admitted", "expired", "sending"}
  BY RecordTypes DEF Place, Over
<1>2. Alive(place[r], arrival[r], deadline[r], until[r], now)
      /\ (place[r] = "queue" => now <= until[r] + DrainInterval)
  BY DEF LifeInv, QueueDrains
<1>3. Lifetime = Longest + Ttl + Later(DrainInterval, SendTime)
  BY DEF Lifetime, Longest
<1>4. /\ DrainInterval <= Later(DrainInterval, SendTime)
      /\ SendTime <= Later(DrainInterval, SendTime)
      /\ Later(DrainInterval, SendTime) \in Nat
  BY LongestFacts DEF Later
<1>5. now <= arrival[r] + Longest + Ttl + Later(DrainInterval, SendTime)
  BY <1>1, <1>2, <1>4, LongestFacts DEF Alive
<1>6. QED
  BY <1>1, <1>3, <1>4, <1>5, LongestFacts

\* A record lives at most Lifetime while the producer is open, for every TTL,
\* retry delay, buffering time, drain interval and time a PutRecords takes.
THEOREM LifetimeIsBounded == Spec => []LifetimeBounded
BY RateInvariant, LoopInvariant, LifeInvariant, LifeBounds, PTL
=============================================================================
