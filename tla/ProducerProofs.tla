--------------------------- MODULE ProducerProofs ---------------------------
(***************************************************************************)
(* Proofs about Producer for any number of records, slots and attempts,    *)
(* with or without cancellation and exit: a record is in one place at a    *)
(* time, is not lost before the exit, its Outcome is truthful, and every   *)
(* slot is accounted for.                                                  *)
(***************************************************************************)
EXTENDS Producer, FiniteSetTheorems, TLAPS

-----------------------------------------------------------------------------
(* Hand-offs and places                                                    *)

\* No record is in two of the aggregator a, the limiter's queues l, the
\* collector c and the hand-offs f, or in two batches of them.
Apart(a, l, c, f) ==
    \A r \in Record :
        /\ ~(r \in a /\ r \in c)
        /\ \A b \in l : r \in b => r \notin a /\ r \notin c
        /\ \A b, d \in l : r \in b /\ r \in d => b = d
        /\ \A h \in f : r \in h.recs => r \notin a /\ r \notin c /\ \A b \in l : r \notin b
        /\ \A h, k \in f : r \in h.recs /\ r \in k.recs => h = k

\* What r being placed means.
At(r, a, l, c, f) ==
    r \in a \/ r \in c \/ (\E b \in l : r \in b) \/ (\E h \in f : r \in h.recs)

\* The fields of a hand-over.
LEMMA HandFields ==
    \A t, to, R : /\ Hand(t, to, R).task = t /\ Hand(t, to, R).to = to
                  /\ Hand(t, to, R).recs = R /\ Hand(t, to, R).ok = {}
BY DEF Hand

\* A hand-over of some records has its type.
LEMMA HandType ==
    ASSUME NEW t \in Task, NEW to \in {"limiter", "collector", "kinesis", "retrier", "aggregator"},
           NEW R \in (SUBSET Record) \ {{}}
    PROVE  Hand(t, to, R) \in HandOff
BY DEF Hand, HandOff

\* The types of the fields of a hand-over.
LEMMA HandOffFields ==
    ASSUME NEW h \in HandOff
    PROVE  /\ h.task \in Task /\ h.recs \in (SUBSET Record) \ {{}} /\ h.ok \in SUBSET Record
           /\ h.to \in {"limiter", "collector", "kinesis", "retrier", "aggregator"}
BY DEF HandOff

\* A part C of a buffer B is handed to a task: of the aggregator or of the
\* collector, to which a hand-off's records may just have been added.
LEMMA CloseApart ==
    ASSUME NEW a, NEW l, NEW c, NEW f, Apart(a, l, c, f), NEW R \in SUBSET Record,
           \A r \in R : ~At(r, a, l, c, f),
           NEW C \in SUBSET (a \cup R), NEW t, NEW to
    PROVE  /\ Apart((a \cup R) \ C, l, c, f \cup {Hand(t, to, C)})
           /\ Apart((a \cup R) \ C, l, c, f)
           /\ \A r : At(r, (a \cup R) \ C, l, c, f \cup {Hand(t, to, C)})
                       <=> At(r, a, l, c, f) \/ r \in R
           /\ C = {} => \A r : At(r, (a \cup R) \ C, l, c, f) <=> At(r, a, l, c, f) \/ r \in R
<1>2. Hand(t, to, C).recs = C
  BY HandFields
<1>3. Apart((a \cup R) \ C, l, c, f \cup {Hand(t, to, C)})
  BY <1>2 DEF Apart, At
<1>4. Apart((a \cup R) \ C, l, c, f)
  BY DEF Apart, At
<1>5. \A r : At(r, (a \cup R) \ C, l, c, f \cup {Hand(t, to, C)})
                       <=> At(r, a, l, c, f) \/ r \in R
  BY <1>2 DEF At
<1>6. C = {} => \A r : At(r, (a \cup R) \ C, l, c, f) <=> At(r, a, l, c, f) \/ r \in R
  BY DEF At
<1>7. QED
  BY <1>3, <1>4, <1>5, <1>6

\* Aggregator and collector are alike.
LEMMA ApartSymmetric ==
    ASSUME NEW a, NEW l, NEW c, NEW f
    PROVE  /\ Apart(a, l, c, f) <=> Apart(c, l, a, f)
           /\ \A r : At(r, a, l, c, f) <=> At(r, c, l, a, f)
<1>1. Apart(a, l, c, f) => Apart(c, l, a, f)
  BY DEF Apart
<1>2. Apart(c, l, a, f) => Apart(a, l, c, f)
  BY DEF Apart
<1>3. \A r : At(r, a, l, c, f) <=> At(r, c, l, a, f)
  BY DEF At
<1>4. QED
  BY <1>1, <1>2, <1>3

\* Without some hand-offs, and without some of the queues.
LEMMA ShrinkApart ==
    ASSUME NEW a, NEW l, NEW c, NEW f, Apart(a, l, c, f),
           NEW a2 \in SUBSET a, NEW l2 \in SUBSET l, NEW c2 \in SUBSET c, NEW f2 \in SUBSET f
    PROVE  /\ Apart(a2, l2, c2, f2)
           /\ \A r : At(r, a2, l2, c2, f2) => At(r, a, l, c, f)
<1>1. Apart(a2, l2, c2, f2)
  BY DEF Apart
<1>2. \A r : At(r, a2, l2, c2, f2) => At(r, a, l, c, f)
  BY DEF At
<1>3. QED
  BY <1>1, <1>2

\* A hand-off is taken up: its records are then nowhere.
LEMMA TakeUp ==
    ASSUME NEW a, NEW l, NEW c, NEW f, Apart(a, l, c, f), NEW h \in f, NEW R \in SUBSET Record,
           h.recs = R
    PROVE  /\ Apart(a, l, c, f \ {h})
           /\ \A r \in Record : At(r, a, l, c, f \ {h}) <=> At(r, a, l, c, f) /\ r \notin R
           /\ \A r : At(r, a, l, c, f) <=> At(r, a, l, c, f \ {h}) \/ r \in R
<1>1. Apart(a, l, c, f \ {h})
  BY DEF Apart
<1>2. ASSUME NEW r \in Record PROVE At(r, a, l, c, f \ {h}) <=> At(r, a, l, c, f) /\ r \notin R
  BY DEF Apart, At
<1>3. \A r : At(r, a, l, c, f) <=> At(r, a, l, c, f \ {h}) \/ r \in R
  BY DEF At
<1>4. QED
  BY <1>1, <1>2, <1>3

\* Some of the queued batches leave the limiter, each once.
LEMMA DispatchApart ==
    ASSUME NEW a, NEW l, NEW c, NEW f, Apart(a, l, c, f), NEW adm \in SUBSET l,
           NEW exp \in SUBSET (l \ adm), NEW t
    PROVE  /\ Apart(a, l \ (adm \cup exp), c, f \cup Dispatched(t, adm, exp))
           /\ \A r : At(r, a, l \ (adm \cup exp), c, f \cup Dispatched(t, adm, exp))
                       <=> At(r, a, l, c, f)
<1> DEFINE D == Dispatched(t, adm, exp)
<1>1. \A k \in D : \/ k \in {Hand(t, "collector", b) : b \in adm}
                   \/ k \in {Hand(t, "retrier", b) : b \in exp}
  BY DEF Dispatched
<1>2. \A k \in D : \E b \in adm \cup exp :
           k.recs = b /\ k = Hand(t, IF b \in adm THEN "collector" ELSE "retrier", b)
  BY <1>1, HandFields
<1>3. \A b \in adm \cup exp : \E k \in D : k.recs = b
  BY HandFields DEF Dispatched
<1> HIDE DEF D
<1>4. \A h, k \in D : \A r : r \in h.recs /\ r \in k.recs /\ h.recs = k.recs => h = k
  BY <1>2
<1>5. Apart(a, l \ (adm \cup exp), c, f \cup D)
  <2> SUFFICES ASSUME NEW r \in Record
      PROVE  /\ ~(r \in a /\ r \in c)
             /\ \A b \in l \ (adm \cup exp) : r \in b => r \notin a /\ r \notin c
             /\ \A b, d \in l \ (adm \cup exp) : r \in b /\ r \in d => b = d
             /\ \A h \in f \cup D : r \in h.recs => /\ r \notin a /\ r \notin c
                                                    /\ \A b \in l \ (adm \cup exp) : r \notin b
             /\ \A h, k \in f \cup D : r \in h.recs /\ r \in k.recs => h = k
    BY DEF Apart
  <2>1. \A k \in D : k.recs \in adm \cup exp
    BY <1>2
  <2>2. \A k \in D : r \in k.recs => /\ r \notin a /\ r \notin c
                                     /\ \A b \in l \ (adm \cup exp) : r \notin b
                                     /\ \A h \in f : r \notin h.recs
    BY <2>1 DEF Apart
  <2>3. \A h, k \in D : r \in h.recs /\ r \in k.recs => h.recs = k.recs
    BY <2>1 DEF Apart
  <2>4. QED
    BY <1>4, <2>2, <2>3 DEF Apart
<1>6. \A r : At(r, a, l \ (adm \cup exp), c, f \cup D) <=> At(r, a, l, c, f)
  <2>1. \A k \in D : k.recs \in l
    BY <1>2
  <2>2. QED
    BY <1>3, <2>1 DEF At
<1>7. QED
  BY <1>5, <1>6 DEF D

\* Records that are nowhere get into a queue, or into the hands of a task.
LEMMA PlaceApart ==
    ASSUME NEW a, NEW l, NEW c, NEW f, Apart(a, l, c, f), NEW R \in SUBSET Record,
           \A r \in R : ~At(r, a, l, c, f), NEW k, k.recs = R
    PROVE  /\ Apart(a, l \cup {R}, c, f)
           /\ \A r : At(r, a, l \cup {R}, c, f) <=> At(r, a, l, c, f) \/ r \in R
           /\ Apart(a, l, c, f \cup {k})
           /\ \A r : At(r, a, l, c, f \cup {k}) <=> At(r, a, l, c, f) \/ r \in R
<1>1. Apart(a, l \cup {R}, c, f)
  BY DEF Apart, At
<1>2. \A r : At(r, a, l \cup {R}, c, f) <=> At(r, a, l, c, f) \/ r \in R
  BY DEF At
<1>3. Apart(a, l, c, f \cup {k})
  BY DEF Apart, At
<1>4. \A r : At(r, a, l, c, f \cup {k}) <=> At(r, a, l, c, f) \/ r \in R
  BY DEF At
<1>5. QED
  BY <1>1, <1>2, <1>3, <1>4

-----------------------------------------------------------------------------
(* Steps that move records                                                 *)

StageType ==
    /\ agg \in SUBSET Record /\ col \in SUBSET Record
    /\ lim \in SUBSET ((SUBSET Record) \ {{}})
    /\ flight \in SUBSET HandOff

\* A call that holds something is dispatching it, and what is reported
\* successful has been stored.
HandInv ==
    \A h \in flight : /\ h.ok \subseteq stored
                      /\ h.task \in Record => pc[h.task] = "dispatching"

PlaceInv == StageType /\ Apart(agg, lim, col, flight) /\ HandInv

\* The records are where they were, or some have been dropped.
SamePlaced == \A r : At(r, agg', lim', col', flight') <=> At(r, agg, lim, col, flight)
LessPlaced == \A r : At(r, agg', lim', col', flight') => At(r, agg, lim, col, flight)

\* The tasks are the callers and those of the pipeline.
LEMMA Tasks == {"timer", "drain", "flush", "send"} \subseteq Task
               /\ Record \subseteq Task
               /\ \A t \in {"timer", "drain", "flush", "send"} : t \notin Record
BY ProducerAssumption DEF Task

\* What a drain dispatches are hand-overs of its task.
LEMMA DispatchedHands ==
    ASSUME NEW t, NEW adm, NEW exp
    PROVE  /\ \A k \in Dispatched(t, adm, exp) : k.task = t /\ k.ok = {}
           /\ t \in Task /\ adm \cup exp \subseteq (SUBSET Record) \ {{}}
                  => Dispatched(t, adm, exp) \subseteq HandOff
BY HandFields, HandType DEF Dispatched

\* Entering the limiter moves records on: none comes or goes.
LEMMA LimiterMoves ==
    ASSUME PlaceInv, NEW h \in flight, EnterLimiter(h)
    PROVE  PlaceInv' /\ SamePlaced
<1> DEFINE R == h.recs
           f == flight \ {h}
           queue == lim \cup {R}
<1>0. R \in (SUBSET Record) \ {{}} /\ h.task \in Task
  BY HandOffFields DEF PlaceInv, StageType
<1>a. PICK adm \in SUBSET queue : \E exp \in SUBSET (lim \ adm) :
          /\ lim' = queue \ (adm \cup exp)
          /\ flight' = f \cup Dispatched(h.task, adm, exp)
  BY DEF EnterLimiter
<1>1. PICK exp \in SUBSET (lim \ adm) :
          /\ lim' = queue \ (adm \cup exp)
          /\ flight' = f \cup Dispatched(h.task, adm, exp)
  BY <1>a
<1>2. agg' = agg /\ col' = col /\ stored' = stored /\ pc' = pc
  BY DEF EnterLimiter, call
<1>3. /\ Apart(agg, lim, col, f)
      /\ \A r \in R : ~At(r, agg, lim, col, f)
      /\ \A r : At(r, agg, lim, col, flight) <=> At(r, agg, lim, col, f) \/ r \in R
  BY <1>0, TakeUp DEF PlaceInv
<1>4. /\ Apart(agg, queue, col, f)
      /\ \A r : At(r, agg, queue, col, f) <=> At(r, agg, lim, col, f) \/ r \in R
  <2> HIDE DEF f
  <2>1. QED
    BY <1>0, <1>3, PlaceApart
<1>5. exp \in SUBSET (queue \ adm)
  OBVIOUS
<1>6. /\ Apart(agg, lim', col, flight')
      /\ \A r : At(r, agg, lim', col, flight') <=> At(r, agg, queue, col, f)
  <2> HIDE DEF queue, f
  <2>1. QED
    BY <1>1, <1>4, <1>5, DispatchApart
<1>7. SamePlaced
  <2> HIDE DEF queue, f, R
  <2>1. QED
    <3>1. \A r : At(r, agg, lim', col, flight') <=> At(r, agg, lim, col, flight)
      BY <1>3, <1>4, <1>6
    <3>2. QED
      BY <1>2, <3>1 DEF SamePlaced
<1>8. adm \in SUBSET ((SUBSET Record) \ {{}}) /\ exp \in SUBSET ((SUBSET Record) \ {{}})
  BY <1>0 DEF PlaceInv, StageType
<1>9. StageType'
  BY <1>0, <1>1, <1>2, <1>8, DispatchedHands DEF PlaceInv, StageType
<1>10. HandInv'
  <2> SUFFICES ASSUME NEW k \in flight'
               PROVE  k.ok \subseteq stored /\ (k.task \in Record => pc[k.task] = "dispatching")
    BY <1>2 DEF HandInv
  <2>1. k \in flight \/ (k.task = h.task /\ k.ok = {})
    <3>1. \A d \in Dispatched(h.task, adm, exp) : d.task = h.task /\ d.ok = {}
      BY DispatchedHands
    <3>2. QED
      BY <1>1, <3>1
  <2>2. QED
    BY <2>1 DEF PlaceInv, HandInv
<1>11. QED
  BY <1>2, <1>6, <1>7, <1>9, <1>10 DEF PlaceInv

\* A task that raises: what it held is gone, and nothing else.
LEMMA FailFacts ==
    ASSUME TypeOK, NEW t \in Task, Fail(t) \/ (t \in Record /\ Raise(t))
    PROVE  /\ flight' = flight \ Held(t)
           /\ pc' = IF t \in Record THEN [pc EXCEPT ![t] = "raised"] ELSE pc
           /\ \A k \in flight' : /\ k \in flight /\ k.task # t
                                 /\ k.task \in Record => pc'[k.task] = pc[k.task]
<1>1. /\ flight' = flight \ Held(t)
      /\ pc' = IF t \in Record THEN [pc EXCEPT ![t] = "raised"] ELSE pc
  BY DEF Fail, Raise, call
<1>2. \A k \in flight' : k \in flight /\ k.task # t
  BY <1>1 DEF Held
<1>3. QED
  BY <1>1, <1>2 DEF TypeOK

\* Likewise for the invariant, whatever buffers are emptied meanwhile.
LEMMA FailPlaces ==
    ASSUME TypeOK, PlaceInv, NEW t \in Task, Fail(t) \/ (t \in Record /\ Raise(t)),
           agg' \in SUBSET agg, col' \in SUBSET col, lim' \in SUBSET lim, stored' = stored
    PROVE  PlaceInv' /\ LessPlaced
<1>1. flight' \in SUBSET flight
  BY FailFacts
<1>2. /\ Apart(agg', lim', col', flight')
      /\ \A r : At(r, agg', lim', col', flight') => At(r, agg, lim, col, flight)
  BY <1>1, ShrinkApart DEF PlaceInv
<1>3. StageType'
  BY <1>1 DEF PlaceInv, StageType
<1>4. HandInv'
  <2> SUFFICES ASSUME NEW k \in flight'
               PROVE  k.ok \subseteq stored' /\ (k.task \in Record => pc'[k.task] = "dispatching")
    BY DEF HandInv
  <2>1. k \in flight /\ (k.task \in Record => pc'[k.task] = pc[k.task])
    BY FailFacts
  <2>2. QED
    BY <2>1 DEF PlaceInv, HandInv
<1>5. QED
  BY <1>2, <1>3, <1>4 DEF PlaceInv, LessPlaced

\* Entering the collector moves records on, or drops them once it is closed.
LEMMA CollectorMoves ==
    ASSUME TypeOK, PlaceInv, NEW h \in flight, EnterCollector(h)
    PROVE  PlaceInv' /\ LessPlaced /\ (~Closed => SamePlaced)
<1> DEFINE R == h.recs
           f == flight \ {h}
<1>0. R \in SUBSET Record /\ R # {} /\ h.task \in Task
  BY HandOffFields DEF PlaceInv, StageType
<1>1. /\ Apart(agg, lim, col, f)
      /\ \A r \in R : ~At(r, agg, lim, col, f)
      /\ \A r : At(r, agg, lim, col, flight) <=> At(r, agg, lim, col, f) \/ r \in R
  BY <1>0, TakeUp DEF PlaceInv
<1>2. PICK C \in SUBSET (col \cup R) :
          /\ col' = (col \cup R) \ C
          /\ \/ C = {} /\ flight' = f /\ UNCHANGED <<call, crashed>>
             \/ /\ C # {} /\ ~Closed
                /\ flight' = f \cup {Hand("send", "kinesis", C)}
                /\ UNCHANGED <<call, crashed>>
             \/ Closed /\ Fail(h.task)
  BY DEF EnterCollector, CollectorClosed, Closed
<1>3. agg' = agg /\ lim' = lim /\ stored' = stored
  BY DEF EnterCollector
<1>4. /\ Apart((col \cup R) \ C, lim, agg, f \cup {Hand("send", "kinesis", C)})
      /\ Apart((col \cup R) \ C, lim, agg, f)
      /\ \A r : At(r, (col \cup R) \ C, lim, agg, f \cup {Hand("send", "kinesis", C)})
                  <=> At(r, col, lim, agg, f) \/ r \in R
      /\ C = {} => \A r : At(r, (col \cup R) \ C, lim, agg, f) <=> At(r, col, lim, agg, f) \/ r \in R
  <2>1. Apart(col, lim, agg, f) /\ \A r \in R : ~At(r, col, lim, agg, f)
    BY <1>1, ApartSymmetric
  <2> HIDE DEF R, f
  <2>2. QED
    BY <1>0, <2>1, CloseApart
<1>5. \A r : At(r, agg, lim, col, flight) <=> At(r, col, lim, agg, f) \/ r \in R
  BY <1>1, ApartSymmetric
<1> HIDE DEF R, f
<1>6. CASE C = {} /\ flight' = f /\ UNCHANGED <<call, crashed>>
  <2>1. flight' = f /\ pc' = pc
    BY <1>2, <1>6 DEF call
  <2>2. Apart(agg', lim', col', flight') /\ SamePlaced
    <3>1. /\ Apart(col', lim', agg', flight')
          /\ \A r : At(r, col', lim', agg', flight') <=> At(r, agg, lim, col, flight)
      BY <1>2, <1>3, <1>4, <1>5, <1>6, <2>1
    <3>2. QED
      BY <3>1, ApartSymmetric DEF SamePlaced
  <2>3. StageType' /\ HandInv'
    BY <1>0, <1>2, <1>3, <2>1 DEF PlaceInv, StageType, HandInv, f
  <2>4. QED
    BY <2>2, <2>3 DEF PlaceInv, SamePlaced, LessPlaced
<1>7. CASE /\ C # {} /\ ~Closed
           /\ flight' = f \cup {Hand("send", "kinesis", C)}
           /\ UNCHANGED <<call, crashed>>
  <2>1. flight' = f \cup {Hand("send", "kinesis", C)} /\ pc' = pc
    BY <1>2, <1>7 DEF call
  <2>2. Apart(agg', lim', col', flight') /\ SamePlaced
    <3>1. /\ Apart(col', lim', agg', flight')
          /\ \A r : At(r, col', lim', agg', flight') <=> At(r, agg, lim, col, flight)
      BY <1>2, <1>3, <1>4, <1>5, <2>1
    <3>2. QED
      BY <3>1, ApartSymmetric DEF SamePlaced
  <2>3. Hand("send", "kinesis", C) \in HandOff
    <3>1. C \in (SUBSET Record) \ {{}}
      BY <1>0, <1>7 DEF PlaceInv, StageType
    <3>2. QED
      BY <3>1, HandType, Tasks
  <2>4. StageType'
    BY <1>0, <1>2, <1>3, <2>1, <2>3 DEF PlaceInv, StageType, f
  <2>5. HandInv'
    BY <1>3, <2>1, HandFields, Tasks DEF PlaceInv, HandInv, f
  <2>6. QED
    BY <2>2, <2>4, <2>5 DEF PlaceInv, SamePlaced, LessPlaced
<1>8. CASE Closed /\ Fail(h.task)
  <2>1. Fail(h.task)
    BY <1>2, <1>8
  <2>2. flight' \in SUBSET f
    <3>1. \A k \in flight' : k \in flight /\ k.task # h.task
      BY <1>0, <2>1, FailFacts
    <3>2. QED
      BY <3>1 DEF f
  <2>3. /\ Apart((col \cup R) \ C, lim, agg, flight')
        /\ \A r : At(r, (col \cup R) \ C, lim, agg, flight') => At(r, (col \cup R) \ C, lim, agg, f)
    BY <1>4, <2>2, ShrinkApart
  <2>4. \A r : At(r, (col \cup R) \ C, lim, agg, f) => At(r, col, lim, agg, f) \/ r \in R
    BY DEF At
  <2>5. Apart(agg', lim', col', flight') /\ LessPlaced
    <3>1. /\ Apart(col', lim', agg', flight')
          /\ \A r : At(r, col', lim', agg', flight') => At(r, agg, lim, col, flight)
      BY <1>2, <1>3, <1>5, <2>3, <2>4
    <3>2. QED
      BY <3>1, ApartSymmetric DEF LessPlaced
  <2>6. StageType'
    BY <1>0, <1>2, <1>3, <2>2 DEF PlaceInv, StageType, f
  <2>7. HandInv'
    <3> SUFFICES ASSUME NEW k \in flight'
                 PROVE  k.ok \subseteq stored /\ (k.task \in Record => pc'[k.task] = "dispatching")
      BY <1>3 DEF HandInv
    <3>1. k \in flight /\ (k.task \in Record => pc'[k.task] = pc[k.task])
      BY <1>0, <2>1, FailFacts
    <3>2. QED
      BY <3>1 DEF PlaceInv, HandInv
  <2>8. QED
    BY <1>8, <2>5, <2>6, <2>7 DEF PlaceInv
<1>9. QED
  BY <1>2, <1>6, <1>7, <1>8

\* What aggregator.flush, a timer, an add and a re-entry have in common: the
\* records R, so far nowhere, join the aggregator, and a part C of it leaves.
LEMMA AggregatorCloses ==
    ASSUME StageType, HandInv, NEW f \in SUBSET flight, Apart(agg, lim, col, f),
           NEW R \in SUBSET Record, \A r \in R : ~At(r, agg, lim, col, f),
           NEW C \in SUBSET (agg \cup R), NEW t \in Task,
           agg' = (agg \cup R) \ C, lim' = lim, col' = col, stored' = stored,
           \/ C = {} /\ flight' = f
           \/ C # {} /\ flight' = f \cup {Hand(t, "limiter", C)},
           t \in Record => pc'[t] = "dispatching",
           \A k \in f : k.task \in Record => pc'[k.task] = pc[k.task]
    PROVE  /\ PlaceInv'
           /\ \A r : At(r, agg', lim', col', flight') <=> At(r, agg, lim, col, f) \/ r \in R
<1>1. /\ Apart(agg', lim', col', flight')
      /\ \A r : At(r, agg', lim', col', flight') <=> At(r, agg, lim, col, f) \/ r \in R
  <2>1. CASE C = {} /\ flight' = f
    BY <2>1, CloseApart
  <2>2. CASE C # {} /\ flight' = f \cup {Hand(t, "limiter", C)}
    BY <2>2, CloseApart
  <2>3. QED
    BY <2>1, <2>2
<1>2. C # {} => Hand(t, "limiter", C) \in HandOff
  BY HandType DEF StageType
<1>3. StageType'
  BY <1>2 DEF StageType
<1>4. HandInv'
  BY HandFields DEF HandInv
<1>5. QED
  BY <1>1, <1>3, <1>4 DEF PlaceInv

\* A retry moves records back, or drops them once the aggregator is closed.
LEMMA ReenterMoves ==
    ASSUME TypeOK, PlaceInv, NEW h \in flight, Reenter(h)
    PROVE  PlaceInv' /\ LessPlaced /\ (~Closed => SamePlaced)
<1> DEFINE R == h.recs
           f == flight \ {h}
<1>0. R \in SUBSET Record /\ h.task \in Task
  BY HandOffFields DEF PlaceInv, StageType
<1>1. /\ Apart(agg, lim, col, f)
      /\ \A r \in R : ~At(r, agg, lim, col, f)
      /\ \A r : At(r, agg, lim, col, flight) <=> At(r, agg, lim, col, f) \/ r \in R
  BY <1>0, TakeUp DEF PlaceInv
<1>2. lim' = lim /\ col' = col /\ stored' = stored
  BY DEF Reenter
<1>3. CASE AggregatorClosed /\ Fail(h.task) /\ agg' = agg
  <2>1. PlaceInv' /\ LessPlaced
    BY <1>0, <1>2, <1>3, FailPlaces
  <2>2. QED
    BY <1>3, <2>1 DEF AggregatorClosed, Closed
<1>4. ASSUME NEW C \in SUBSET (agg \cup R), agg' = (agg \cup R) \ C,
             flight' = f \cup (IF C = {} THEN {} ELSE {Hand(h.task, "limiter", C)}),
             pc' = pc
      PROVE  PlaceInv' /\ SamePlaced
  <2>1. \/ C = {} /\ flight' = f
        \/ C # {} /\ flight' = f \cup {Hand(h.task, "limiter", C)}
    BY <1>4
  <2>2. h.task \in Record => pc'[h.task] = "dispatching"
    BY <1>4 DEF PlaceInv, HandInv
  <2>3. f \in SUBSET flight
    OBVIOUS
  <2> HIDE DEF f, R
  <2>4. /\ PlaceInv'
        /\ \A r : At(r, agg', lim', col', flight') <=> At(r, agg, lim, col, f) \/ r \in R
    BY <1>0, <1>1, <1>2, <1>4, <2>1, <2>2, <2>3, AggregatorCloses DEF PlaceInv
  <2>5. QED
    BY <1>1, <2>4 DEF SamePlaced
<1>5. CASE /\ ~AggregatorClosed /\ pc' = pc
           /\ \E C \in SUBSET (agg \cup R) :
                  /\ agg' = (agg \cup R) \ C
                  /\ flight' = f \cup (IF C = {} THEN {} ELSE {Hand(h.task, "limiter", C)})
  BY <1>4, <1>5 DEF SamePlaced, LessPlaced
<1>6. QED
  BY <1>3, <1>5 DEF Reenter, call

\* The answer of Kinesis, and the verdict on a record that is retried.
LEMMA ReplyMoves ==
    ASSUME PlaceInv, NEW h \in flight, Reply(h)
    PROVE  PlaceInv' /\ SamePlaced
<1> DEFINE R == h.recs
           f == flight \ {h}
<1>0. R \in (SUBSET Record) \ {{}} /\ h.task \in Task
  BY HandOffFields DEF PlaceInv, StageType
<1>1. /\ Apart(agg, lim, col, f)
      /\ \A r \in R : ~At(r, agg, lim, col, f)
      /\ \A r : At(r, agg, lim, col, flight) <=> At(r, agg, lim, col, f) \/ r \in R
  BY <1>0, TakeUp DEF PlaceInv
<1>2. PICK accepted \in SUBSET R : \E ok \in SUBSET accepted :
          /\ stored' = stored \cup accepted
          /\ flight' = f \cup {[task |-> h.task, to |-> "retrier", recs |-> R, ok |-> ok]}
  BY DEF Reply
<1>3. PICK ok \in SUBSET accepted :
          /\ stored' = stored \cup accepted
          /\ flight' = f \cup {[task |-> h.task, to |-> "retrier", recs |-> R, ok |-> ok]}
  BY <1>2
<1>4. agg' = agg /\ lim' = lim /\ col' = col /\ pc' = pc
  BY DEF Reply, stage, call
<1> DEFINE k == [task |-> h.task, to |-> "retrier", recs |-> R, ok |-> ok]
<1>5. k.recs = R /\ k.task = h.task /\ k.ok = ok /\ k \in HandOff
  BY <1>0 DEF HandOff
<1>6. flight' = f \cup {k}
  BY <1>3
<1> HIDE DEF k, R, f
<1>7. Apart(agg', lim', col', flight') /\ SamePlaced
  <2>1. /\ Apart(agg, lim, col, f \cup {k})
        /\ \A r : At(r, agg, lim, col, f \cup {k}) <=> At(r, agg, lim, col, f) \/ r \in R
    BY <1>0, <1>1, <1>5, PlaceApart
  <2>2. QED
    BY <1>1, <1>4, <1>6, <2>1 DEF SamePlaced
<1>8. StageType'
  BY <1>4, <1>5, <1>6 DEF PlaceInv, StageType, f
<1>9. HandInv'
  BY <1>3, <1>4, <1>5, <1>6 DEF PlaceInv, HandInv, f
<1>10. QED
  BY <1>7, <1>8, <1>9 DEF PlaceInv

\* What is left of a hand-off after one of its records has been dealt with.
LEMMA WithoutApart ==
    ASSUME PlaceInv, NEW h \in flight, NEW r \in h.recs
    PROVE  LET f == (flight \ {h}) \cup Without(h, r) IN
           /\ Apart(agg, lim, col, f) /\ f \subseteq HandOff
           /\ \A p : At(p, agg, lim, col, f) <=> At(p, agg, lim, col, flight) /\ p # r
           /\ \A k \in f : k \in flight \/ (k.task = h.task /\ k.ok \subseteq h.ok)
<1> DEFINE R == h.recs
           g == flight \ {h}
<1>0. /\ R \in SUBSET Record /\ h.task \in Task /\ h.ok \in SUBSET Record
      /\ h.to \in {"limiter", "collector", "kinesis", "retrier", "aggregator"}
      /\ flight \subseteq HandOff
  BY HandOffFields DEF PlaceInv, StageType
<1>1. /\ Apart(agg, lim, col, g)
      /\ \A p \in R : ~At(p, agg, lim, col, g)
      /\ \A p : At(p, agg, lim, col, flight) <=> At(p, agg, lim, col, g) \/ p \in R
  <2>1. R \in SUBSET Record /\ h.recs = R /\ Apart(agg, lim, col, flight)
    BY <1>0 DEF PlaceInv
  <2> HIDE DEF R
  <2>2. QED
    BY <2>1, TakeUp
<1> DEFINE k == [task |-> h.task, to |-> h.to, recs |-> R \ {r}, ok |-> h.ok \ {r}]
<1>2. CASE R = {r}
  <2>1. g \cup Without(h, r) = g
    BY <1>2 DEF Without
  <2> HIDE DEF R, g
  <2>2. QED
    BY <1>0, <1>1, <1>2, <2>1 DEF g
<1>3. CASE R # {r}
  <2>1. g \cup Without(h, r) = g \cup {k}
    BY <1>3 DEF Without
  <2>2. k.recs = R \ {r} /\ k.task = h.task /\ k.ok = h.ok \ {r} /\ k \in HandOff
    BY <1>0, <1>3 DEF HandOff
  <2>3. g \subseteq flight
    OBVIOUS
  <2> HIDE DEF k, R, g
  <2>4. R \ {r} \in SUBSET Record /\ \A p \in R \ {r} : ~At(p, agg, lim, col, g)
    BY <1>0, <1>1
  <2>5. /\ Apart(agg, lim, col, g \cup {k})
        /\ \A p : At(p, agg, lim, col, g \cup {k}) <=> At(p, agg, lim, col, g) \/ p \in R \ {r}
    BY <1>1, <2>2, <2>4, PlaceApart
  <2>6. \A p : At(p, agg, lim, col, g \cup {k}) <=> At(p, agg, lim, col, flight) /\ p # r
    BY <1>1, <2>5 DEF R
  <2>7. QED
    BY <1>0, <2>1, <2>2, <2>3, <2>5, <2>6 DEF g
<1>4. QED
  BY <1>2, <1>3

\* Classify, apart from what it does to the Outcome: the record is out of the
\* pipeline, or on its way to the aggregator.
LEMMA ClassifyMoves ==
    ASSUME PlaceInv, NEW h \in flight, NEW r \in h.recs,
           agg' = agg, lim' = lim, col' = col, stored' = stored, pc' = pc
    PROVE  /\ flight' = (flight \ {h}) \cup Without(h, r) =>
                  /\ PlaceInv'
                  /\ \A p : At(p, agg', lim', col', flight')
                                <=> At(p, agg, lim, col, flight) /\ p # r
           /\ flight' = (flight \ {h}) \cup Without(h, r) \cup {Hand(h.task, "aggregator", {r})} =>
                  PlaceInv' /\ SamePlaced
<1> DEFINE f == (flight \ {h}) \cup Without(h, r)
           k == Hand(h.task, "aggregator", {r})
<1>1. /\ Apart(agg, lim, col, f) /\ f \subseteq HandOff
      /\ \A p : At(p, agg, lim, col, f) <=> At(p, agg, lim, col, flight) /\ p # r
      /\ \A q \in f : q \in flight \/ (q.task = h.task /\ q.ok \subseteq h.ok)
  BY WithoutApart
<1>2. /\ h.task \in Task /\ r \in Record /\ {r} \in SUBSET Record /\ {r} # {}
      /\ At(r, agg, lim, col, flight)
  BY HandOffFields DEF PlaceInv, StageType, At
<1>3. k \in HandOff /\ k.recs = {r} /\ k.task = h.task /\ k.ok = {}
  BY <1>2, HandType, HandFields
<1>4. \A q \in f \cup {k} : /\ q.ok \subseteq stored
                            /\ q.task \in Record => pc[q.task] = "dispatching"
  BY <1>1, <1>3 DEF PlaceInv, HandInv
<1>5. /\ Apart(agg, lim, col, f \cup {k})
      /\ \A p : At(p, agg, lim, col, f \cup {k}) <=> At(p, agg, lim, col, f) \/ p \in {r}
  <2> HIDE DEF f, k
  <2>1. \A p \in {r} : ~At(p, agg, lim, col, f)
    BY <1>1
  <2>2. QED
    BY <1>1, <1>2, <1>3, <2>1, PlaceApart
<1> HIDE DEF f, k
<1>6. ASSUME flight' = f
      PROVE  /\ PlaceInv'
             /\ \A p : At(p, agg', lim', col', flight') <=> At(p, agg, lim, col, flight) /\ p # r
  BY <1>1, <1>4, <1>6 DEF PlaceInv, StageType, HandInv
<1>7. ASSUME flight' = f \cup {k} PROVE PlaceInv' /\ SamePlaced
  <2>1. SamePlaced
    BY <1>1, <1>2, <1>5, <1>7 DEF SamePlaced
  <2>2. StageType' /\ HandInv'
    BY <1>1, <1>3, <1>4, <1>7 DEF PlaceInv, StageType, HandInv
  <2>3. QED
    BY <1>5, <1>7, <2>1, <2>2 DEF PlaceInv
<1>8. QED
  BY <1>6, <1>7 DEF f, k

\* Batches leave the limiter's queues in the hands of t.
LEMMA DrainMoves ==
    ASSUME PlaceInv, NEW t \in {"drain", "flush"}, NEW adm \in SUBSET lim,
           NEW exp \in SUBSET (lim \ adm),
           lim' = lim \ (adm \cup exp), flight' = flight \cup Dispatched(t, adm, exp),
           agg' = agg, col' = col, stored' = stored, pc' = pc
    PROVE  PlaceInv' /\ SamePlaced
<1>1. /\ Apart(agg', lim', col', flight')
      /\ \A r : At(r, agg', lim', col', flight') <=> At(r, agg, lim, col, flight)
  BY DispatchApart DEF PlaceInv
<1>2. t \in Task /\ t \notin Record
  BY Tasks
<1>3. StageType'
  BY <1>2, DispatchedHands DEF PlaceInv, StageType
<1>4. HandInv'
  <2>1. \A d \in Dispatched(t, adm, exp) : d.task = t /\ d.ok = {}
    BY DispatchedHands
  <2>2. QED
    BY <1>2, <2>1 DEF PlaceInv, HandInv
<1>5. QED
  BY <1>1, <1>3, <1>4 DEF PlaceInv, SamePlaced

\* A part C of the collector is given to a send task.
LEMMA CollectorCloses ==
    ASSUME PlaceInv, NEW C \in SUBSET col, col' = col \ C,
           \/ C = {} /\ flight' = flight
           \/ C # {} /\ flight' = flight \cup {Hand("send", "kinesis", C)},
           agg' = agg, lim' = lim, stored' = stored, pc' = pc
    PROVE  PlaceInv' /\ SamePlaced
<1>1. /\ Apart(col, lim, agg, flight)
      /\ \A r : At(r, col, lim, agg, flight) <=> At(r, agg, lim, col, flight)
  BY ApartSymmetric DEF PlaceInv
<1> DEFINE R == {}
<1>2. /\ R \in SUBSET Record /\ C \in SUBSET (col \cup R) /\ col' = (col \cup R) \ C
      /\ \A r \in R : ~At(r, col, lim, agg, flight)
  OBVIOUS
<1>3. /\ Apart(col', lim, agg, flight \cup {Hand("send", "kinesis", C)})
      /\ Apart(col', lim, agg, flight)
      /\ \A r : At(r, col', lim, agg, flight \cup {Hand("send", "kinesis", C)})
                  <=> At(r, col, lim, agg, flight)
      /\ C = {} => \A r : At(r, col', lim, agg, flight) <=> At(r, col, lim, agg, flight)
  <2>1. \A r : r \notin R
    OBVIOUS
  <2> DEFINE c == (col \cup R) \ C
  <2> HIDE DEF R
  <2>2. /\ Apart(c, lim, agg, flight \cup {Hand("send", "kinesis", C)})
        /\ Apart(c, lim, agg, flight)
        /\ \A r : At(r, c, lim, agg, flight \cup {Hand("send", "kinesis", C)})
                    <=> At(r, col, lim, agg, flight) \/ r \in R
        /\ C = {} => \A r : At(r, c, lim, agg, flight) <=> At(r, col, lim, agg, flight) \/ r \in R
    BY <1>1, <1>2, CloseApart
  <2>3. col' = c
    BY <1>2
  <2> HIDE DEF c
  <2>4. QED
    BY <2>1, <2>2, <2>3
<1>4. Apart(agg', lim', col', flight') /\ SamePlaced
  <2>1. /\ Apart(col', lim', agg', flight')
        /\ \A r : At(r, col', lim', agg', flight') <=> At(r, agg, lim, col, flight)
    BY <1>1, <1>3
  <2>2. QED
    BY <2>1, ApartSymmetric DEF SamePlaced
<1>5. C # {} => Hand("send", "kinesis", C) \in HandOff
  BY Tasks, HandType DEF PlaceInv, StageType
<1>6. StageType'
  BY <1>5 DEF PlaceInv, StageType
<1>7. HandInv'
  BY HandFields, Tasks DEF PlaceInv, HandInv
<1>8. QED
  BY <1>4, <1>6, <1>7 DEF PlaceInv

\* Buffers and hand-offs are dropped.
LEMMA DropMoves ==
    ASSUME PlaceInv, agg' \in SUBSET agg, lim' \in SUBSET lim, col' \in SUBSET col,
           flight' \in SUBSET flight, stored' = stored,
           \A k \in flight' : k.task \in Record => pc'[k.task] = pc[k.task]
    PROVE  PlaceInv' /\ LessPlaced
<1>1. /\ Apart(agg', lim', col', flight')
      /\ \A r : At(r, agg', lim', col', flight') => At(r, agg, lim, col, flight)
  BY ShrinkApart DEF PlaceInv
<1>2. StageType' /\ HandInv'
  BY DEF PlaceInv, StageType, HandInv
<1>3. QED
  BY <1>1, <1>2 DEF PlaceInv, LessPlaced

-----------------------------------------------------------------------------
(* The kinds of steps                                                      *)

Early == {"idle", "acquiring", "building", "routing"}

\* A record is nowhere before it is routed.
EarlyInv == \A r \in Record : pc[r] \in Early => ~At(r, agg, lim, col, flight)

SamePlaces == UNCHANGED <<pending, outcome, finished>> /\ SamePlaced

\* The step of a call that goes on: r registers before it is routed, and is
\* placed by being routed.
Advances(r) ==
    \/ /\ \/ pc[r] = "idle" /\ pc' = [pc EXCEPT ![r] = "acquiring"]
          \/ pc[r] \in {"idle", "acquiring"} /\ pc' = [pc EXCEPT ![r] = "raised"]
          \/ pc[r] = "dispatching" /\ pc' = [pc EXCEPT ![r] = "returned"]
       /\ UNCHANGED <<permits, outstanding>>
       /\ SamePlaces
    \/ /\ pc[r] = "acquiring" /\ pc' = [pc EXCEPT ![r] = "building"]
       /\ permits > 0 /\ permits' = permits - 1 /\ outstanding' = outstanding + 1
       /\ SamePlaces
    \/ /\ pc[r] = "building" /\ pc' = [pc EXCEPT ![r] = "routing"]
       /\ pending' = pending \cup {r}
       /\ UNCHANGED <<permits, outstanding, outcome, finished>> /\ SamePlaced
    \/ /\ pc[r] = "routing"
       /\ \E v \in {"returned", "dispatching"} : pc' = [pc EXCEPT ![r] = v]
       /\ UNCHANGED <<permits, outstanding, pending, outcome, finished>>
       /\ \A p : At(p, agg', lim', col', flight') <=> At(p, agg, lim, col, flight) \/ p = r

\* A call raises and gives its slot back.
GivesUp(r) ==
    /\ pc[r] \in {"building", "routing", "dispatching"}
    /\ pc' = [pc EXCEPT ![r] = "raised"]
    /\ permits' = permits + 1 /\ outstanding' = outstanding - 1
    /\ UNCHANGED <<pending, outcome, finished>> /\ LessPlaced

\* The terminal callback runs for r.
Resolves(r) ==
    /\ At(r, agg, lim, col, flight)
    /\ \E result \in {"success", "failure"} :
           Finish(r, result) /\ (result = "success" => r \in stored)
    /\ pc' = pc
    /\ \A p : At(p, agg', lim', col', flight') <=> At(p, agg, lim, col, flight) /\ p # r

\* Everything else: records are moved, and dropped only once the exit has
\* closed the producer.
Moves ==
    /\ UNCHANGED <<pc, permits, outstanding, pending, outcome, finished>>
    /\ LessPlaced /\ (~Closed => SamePlaced)

StepKind == Moves \/ \E r \in Record : Advances(r) \/ GivesUp(r) \/ Resolves(r)

\* A step of a call keeps the places apart and is of one of the kinds.
LEMMA CallerStep ==
    ASSUME TypeOK, PlaceInv, EarlyInv, NEW r \in Record, Caller(r) \/ Cancel(r)
    PROVE  PlaceInv' /\ StepKind
<1>0. pc \in [Record -> {"idle", "acquiring", "building", "routing", "dispatching",
                         "returned", "raised"}]
  BY DEF TypeOK
<1>a. ASSUME UNCHANGED <<agg, lim, col, flight>> PROVE SamePlaced
  BY <1>a DEF SamePlaced
<1>b. ASSUME UNCHANGED <<agg, lim, col, flight, stored>>, NEW v, pc' = [pc EXCEPT ![r] = v],
             \A k \in flight : k.task # r
      PROVE  PlaceInv'
  BY <1>0, <1>b DEF PlaceInv, StageType, HandInv
<1>c. pc[r] # "dispatching" => \A k \in flight : k.task # r
  BY DEF PlaceInv, HandInv
<1>1. CASE PutRecord(r)
  <2>1. /\ pc[r] = "idle" /\ pc' = [pc EXCEPT ![r] = IF Closed THEN "raised" ELSE "acquiring"]
        /\ UNCHANGED <<permits, outstanding, pending, outcome, finished, agg, lim, col,
                       flight, stored>>
    BY <1>1 DEF PutRecord, fate, stage
  <2>2. PlaceInv'
    BY <1>b, <1>c, <2>1
  <2>3. Advances(r)
    BY <1>a, <2>1 DEF Advances, SamePlaces
  <2>4. QED
    BY <2>2, <2>3 DEF StepKind
<1>2. CASE Acquire(r)
  <2>1. /\ pc[r] = "acquiring" /\ pc' = [pc EXCEPT ![r] = "building"]
        /\ permits > 0 /\ permits' = permits - 1 /\ outstanding' = outstanding + 1
        /\ UNCHANGED <<pending, outcome, finished, agg, lim, col, flight, stored>>
    BY <1>2 DEF Acquire, fate, stage
  <2>2. PlaceInv'
    BY <1>b, <1>c, <2>1
  <2>3. Advances(r)
    BY <1>a, <2>1 DEF Advances, SamePlaces
  <2>4. QED
    BY <2>2, <2>3 DEF StepKind
<1>3. CASE StartPipeline(r)
  <2>1. UNCHANGED <<pc, permits, outstanding, pending, outcome, finished, agg, lim, col,
                    flight, stored>>
    BY <1>3 DEF StartPipeline, call, fate, stage
  <2>2. PlaceInv' /\ Moves
    BY <2>1 DEF PlaceInv, StageType, HandInv, Moves, SamePlaced, LessPlaced
  <2>3. QED
    BY <2>2 DEF StepKind
<1>4. CASE Register(r)
  <2>1. /\ pc[r] = "building" /\ pc' = [pc EXCEPT ![r] = "routing"]
        /\ pending' = pending \cup {r}
        /\ UNCHANGED <<permits, outstanding, outcome, finished, agg, lim, col, flight, stored>>
    BY <1>4 DEF Register, stage
  <2>2. PlaceInv'
    BY <1>b, <1>c, <2>1
  <2>3. Advances(r)
    BY <1>a, <2>1 DEF Advances
  <2>4. QED
    BY <2>2, <2>3 DEF StepKind
<1>5. CASE Return(r)
  <2>1. /\ pc[r] = "dispatching" /\ pc' = [pc EXCEPT ![r] = "returned"] /\ Held(r) = {}
        /\ UNCHANGED <<permits, outstanding, pending, outcome, finished, agg, lim, col,
                       flight, stored>>
    BY <1>5 DEF Return, fate, stage
  <2>2. PlaceInv'
    BY <1>b, <2>1 DEF Held
  <2>3. Advances(r)
    BY <1>a, <2>1 DEF Advances, SamePlaces
  <2>4. QED
    BY <2>2, <2>3 DEF StepKind
<1>6. ASSUME Raise(r), UNCHANGED <<agg, lim, col, stored, pending, outcome, finished>>,
             pc[r] \in {"building", "routing", "dispatching"}
      PROVE  PlaceInv' /\ StepKind
  <2>1. PlaceInv' /\ LessPlaced
    BY <1>6, Tasks, FailPlaces
  <2>2. GivesUp(r)
    BY <1>6, <2>1 DEF Raise, GivesUp
  <2>3. QED
    BY <2>1, <2>2 DEF StepKind
<1>7. CASE Route(r)
  <2>1. /\ pc[r] = "routing"
        /\ UNCHANGED <<pending, outcome, finished, stored>>
    BY <1>7 DEF Route, fate
  <2>2. CASE Raise(r) /\ UNCHANGED stage
    BY <1>6, <2>1, <2>2 DEF stage
  <2>3. ASSUME NEW C \in SUBSET (agg \cup {r}), agg' = (agg \cup {r}) \ C,
               \/ C = {} /\ flight' = flight /\ pc' = [pc EXCEPT ![r] = "returned"]
               \/ /\ C # {} /\ flight' = flight \cup {Hand(r, "limiter", C)}
                  /\ pc' = [pc EXCEPT ![r] = "dispatching"],
               UNCHANGED <<permits, outstanding, lim, col>>
        PROVE  PlaceInv' /\ StepKind
    <3>1. \A p \in {r} : ~At(p, agg, lim, col, flight)
      BY <2>1 DEF EarlyInv, Early
    <3>2. \A k \in flight : k.task \in Record => pc'[k.task] = pc[k.task]
      BY <1>0, <1>c, <2>1, <2>3
    <3>3. {r} \in SUBSET Record /\ r \in Task
      BY Tasks
    <3>4. /\ PlaceInv'
          /\ \A p : At(p, agg', lim', col', flight')
                       <=> At(p, agg, lim, col, flight) \/ p \in {r}
      <4> DEFINE R == {r}
      <4> HIDE DEF R
      <4>1. CASE C = {}
        <5>1. flight' = flight /\ lim' = lim /\ col' = col /\ stored' = stored
          BY <2>1, <2>3, <4>1
        <5>2. "timer" \in Task /\ "timer" \notin Record
          BY Tasks
        <5>3. /\ R \in SUBSET Record /\ (\A p \in R : ~At(p, agg, lim, col, flight))
              /\ C \in SUBSET (agg \cup R) /\ agg' = (agg \cup R) \ C
          BY <2>3, <3>1, <3>3 DEF R
        <5>4. /\ PlaceInv'
              /\ \A p : At(p, agg', lim', col', flight')
                           <=> At(p, agg, lim, col, flight) \/ p \in R
          BY <3>2, <4>1, <5>1, <5>2, <5>3, AggregatorCloses DEF PlaceInv
        <5>5. QED
          BY <5>4 DEF R
      <4>2. CASE C # {}
        <5>1. /\ flight' = flight \cup {Hand(r, "limiter", C)} /\ lim' = lim /\ col' = col
              /\ stored' = stored /\ pc'[r] = "dispatching"
          BY <1>0, <2>1, <2>3, <4>2
        <5>3. /\ R \in SUBSET Record /\ (\A p \in R : ~At(p, agg, lim, col, flight))
              /\ C \in SUBSET (agg \cup R) /\ agg' = (agg \cup R) \ C
          BY <2>3, <3>1, <3>3 DEF R
        <5>4. /\ PlaceInv'
              /\ \A p : At(p, agg', lim', col', flight')
                           <=> At(p, agg, lim, col, flight) \/ p \in R
          BY <3>2, <3>3, <4>2, <5>1, <5>3, AggregatorCloses DEF PlaceInv
        <5>5. QED
          BY <5>4 DEF R
      <4>3. QED
        BY <4>1, <4>2
    <3>5. \E v \in {"returned", "dispatching"} : pc' = [pc EXCEPT ![r] = v]
      BY <2>3
    <3>6. Advances(r)
      BY <2>1, <2>3, <3>4, <3>5 DEF Advances
    <3>7. QED
      BY <3>4, <3>6 DEF StepKind
  <2>4. CASE /\ agg' = agg \cup {r} /\ pc' = [pc EXCEPT ![r] = "returned"]
             /\ UNCHANGED <<permits, outstanding, lim, col, flight>>
    <3>1. {} \in SUBSET (agg \cup {r}) /\ agg' = (agg \cup {r}) \ {}
      BY <2>4
    <3>2. QED
      BY <2>3, <2>4, <3>1
  <2>5. QED
    BY <1>7, <2>2, <2>3, <2>4 DEF Route
<1>8. CASE Cancel(r)
  <2>1. UNCHANGED <<agg, lim, col, stored, pending, outcome, finished>>
    BY <1>8 DEF Cancel, fate, stage
  <2>2. CASE /\ pc[r] = "acquiring" /\ pc' = [pc EXCEPT ![r] = "raised"]
             /\ UNCHANGED <<permits, outstanding, flight>>
    <3>1. PlaceInv'
      BY <1>b, <1>c, <2>1, <2>2
    <3>2. Advances(r)
      BY <1>a, <2>1, <2>2 DEF Advances, SamePlaces
    <3>3. QED
      BY <3>1, <3>2 DEF StepKind
  <2>3. CASE (pc[r] \in {"building", "routing"} \/ Awaits(r)) /\ Raise(r)
    <3>1. Awaits(r) => pc[r] = "dispatching"
      BY DEF Awaits, Held, PlaceInv, HandInv
    <3>2. QED
      BY <1>6, <2>1, <2>3, <3>1
  <2>4. QED
    BY <1>8, <2>2, <2>3 DEF Cancel
<1>9. QED
  BY <1>1, <1>2, <1>3, <1>4, <1>5, <1>7, <1>8 DEF Caller

\* A task that fails in a stage: a call gives up, a background task moves on.
LEMMA FailKind ==
    ASSUME TypeOK, PlaceInv, NEW h \in flight, Fail(h.task), Closed, LessPlaced,
           UNCHANGED <<pending, outcome, finished>>
    PROVE  StepKind
<1>1. h.task \in Task
  BY HandOffFields DEF PlaceInv, StageType
<1>2. CASE h.task \in Record
  <2>1. pc[h.task] = "dispatching"
    BY <1>2 DEF PlaceInv, HandInv
  <2>2. GivesUp(h.task)
    BY <1>2, <2>1 DEF Fail, Raise, GivesUp
  <2>3. QED
    BY <1>2, <2>2 DEF StepKind
<1>3. CASE h.task \notin Record
  BY <1>3 DEF Fail, call, Moves, StepKind
<1>4. QED
  BY <1>2, <1>3

\* So does the step of a batch in flight.
LEMMA MoveStep ==
    ASSUME TypeOK, PlaceInv, NEW h \in flight, Move(h)
    PROVE  PlaceInv' /\ StepKind
<1>1. CASE EnterLimiter(h)
  <2>1. PlaceInv' /\ SamePlaced
    BY <1>1, LimiterMoves
  <2>2. UNCHANGED <<pc, permits, outstanding, pending, outcome, finished>>
    BY <1>1 DEF EnterLimiter, call, fate
  <2>3. QED
    BY <2>1, <2>2 DEF StepKind, Moves, SamePlaced, LessPlaced
<1>2. CASE EnterCollector(h)
  <2>1. PlaceInv' /\ LessPlaced /\ (~Closed => SamePlaced)
    BY <1>2, CollectorMoves
  <2>2. UNCHANGED <<pending, outcome, finished>>
    BY <1>2 DEF EnterCollector, fate
  <2>3. (Fail(h.task) /\ Closed) \/ UNCHANGED call
    BY <1>2 DEF EnterCollector, CollectorClosed, Closed
  <2>4. CASE Fail(h.task) /\ Closed
    BY <2>1, <2>2, <2>4, FailKind
  <2>5. CASE UNCHANGED call
    BY <2>1, <2>2, <2>5 DEF call, StepKind, Moves
  <2>6. QED
    BY <2>1, <2>3, <2>4, <2>5
<1>3. CASE Reply(h)
  <2>1. PlaceInv' /\ SamePlaced
    BY <1>3, ReplyMoves
  <2>2. UNCHANGED <<pc, permits, outstanding, pending, outcome, finished>>
    BY <1>3 DEF Reply, call, fate
  <2>3. QED
    BY <2>1, <2>2 DEF StepKind, Moves, SamePlaced, LessPlaced
<1>4. CASE Reenter(h)
  <2>1. PlaceInv' /\ LessPlaced /\ (~Closed => SamePlaced)
    BY <1>4, ReenterMoves
  <2>2. UNCHANGED <<pending, outcome, finished>>
    BY <1>4 DEF Reenter, fate
  <2>3. (Fail(h.task) /\ Closed) \/ UNCHANGED call
    BY <1>4 DEF Reenter, AggregatorClosed, Closed
  <2>4. CASE Fail(h.task) /\ Closed
    BY <2>1, <2>2, <2>4, FailKind
  <2>5. CASE UNCHANGED call
    BY <2>1, <2>2, <2>5 DEF call, StepKind, Moves
  <2>6. QED
    BY <2>1, <2>3, <2>4, <2>5
<1>5. ASSUME NEW r \in Record, Classify(h, r) PROVE PlaceInv' /\ StepKind
  <2>1. /\ r \in h.recs /\ agg' = agg /\ lim' = lim /\ col' = col /\ stored' = stored
        /\ pc' = pc
    BY <1>5 DEF Classify, stage
  <2>2. At(r, agg, lim, col, flight)
    BY <2>1 DEF At
  <2>3. r \in h.ok => r \in stored
    BY DEF PlaceInv, HandInv
  <2>4. ASSUME NEW result \in {"success", "failure"}, Finish(r, result),
               result = "success" => r \in h.ok,
               flight' = (flight \ {h}) \cup Without(h, r)
        PROVE  PlaceInv' /\ StepKind
    <3>1. /\ PlaceInv'
          /\ \A p : At(p, agg', lim', col', flight')
                        <=> At(p, agg, lim, col, flight) /\ p # r
      BY <2>1, <2>4, ClassifyMoves
    <3>2. Resolves(r)
      BY <2>1, <2>2, <2>3, <2>4, <3>1 DEF Resolves
    <3>3. QED
      BY <3>1, <3>2 DEF StepKind
  <2>5. CASE /\ flight' = (flight \ {h}) \cup Without(h, r)
                              \cup {Hand(h.task, "aggregator", {r})}
             /\ UNCHANGED <<fate, permits, outstanding>>
    <3>1. PlaceInv' /\ SamePlaced
      BY <2>1, <2>5, ClassifyMoves
    <3>2. QED
      BY <2>1, <2>5, <3>1 DEF StepKind, Moves, SamePlaced, LessPlaced, fate
  <2>6. QED
    BY <1>5, <2>4, <2>5 DEF Classify
<1>6. QED
  BY <1>1, <1>2, <1>3, <1>4, <1>5 DEF Move

\* Timers, the drain loop, flush and exit.
LEMMA BackgroundStep ==
    ASSUME TypeOK, PlaceInv,
           \/ ShardMapStarted \/ AggregatorTimer \/ DrainLoop \/ CollectorTimer
           \/ FlushBegin \/ ExitBegin \/ FlushStep \/ ExitStep \/ UNCHANGED vars
    PROVE  PlaceInv' /\ StepKind
<1>0. UNCHANGED <<pc, permits, outstanding, pending, outcome, finished, stored>>
  <2>1. CASE ShardMapStarted \/ AggregatorTimer \/ DrainLoop \/ CollectorTimer
    BY <2>1 DEF ShardMapStarted, AggregatorTimer, DrainLoop, CollectorTimer, call, fate
  <2>2. CASE FlushBegin \/ ExitBegin \/ FlushStep
    BY <2>2 DEF FlushBegin, ExitBegin, FlushStep, FlushLock, FlushAggregator, FlushLimiter,
                FlushCollector, FlushEnd, call, fate
  <2>3. CASE ExitStep \/ UNCHANGED vars
    BY <2>3 DEF ExitStep, ExitCollector, ExitLimiter, ExitAggregator, ExitClient, ExitDone,
                vars, call, fate
  <2>4. QED
    BY <2>1, <2>2, <2>3
<1>1. SUFFICES PlaceInv' /\ LessPlaced /\ (~Closed => SamePlaced)
  BY <1>0 DEF StepKind, Moves
<1>2. SUFFICES ASSUME TRUE PROVE PlaceInv' /\ (SamePlaced \/ (Closed /\ LessPlaced))
  BY DEF SamePlaced, LessPlaced
<1>3. CASE UNCHANGED <<stage, flight>>
  BY <1>0, <1>3 DEF stage, PlaceInv, StageType, HandInv, SamePlaced
<1>4. ASSUME NEW C \in SUBSET agg, agg' = agg \ C, NEW t \in {"timer", "flush"},
             flight' = flight \cup (IF C = {} THEN {} ELSE {Hand(t, "limiter", C)}),
             UNCHANGED <<lim, col>>
      PROVE  PlaceInv' /\ SamePlaced
  <2> DEFINE R == {}
  <2>1. /\ R \in SUBSET Record /\ C \in SUBSET (agg \cup R) /\ agg' = (agg \cup R) \ C
        /\ \A r \in R : ~At(r, agg, lim, col, flight)
    BY <1>4
  <2>2. \A r : r \notin R
    OBVIOUS
  <2>3. \/ C = {} /\ flight' = flight
        \/ C # {} /\ flight' = flight \cup {Hand(t, "limiter", C)}
    BY <1>4
  <2>4. t \in Task /\ t \notin Record
    BY <1>4, Tasks
  <2> HIDE DEF R
  <2>5. /\ PlaceInv'
        /\ \A r : At(r, agg', lim', col', flight') <=> At(r, agg, lim, col, flight) \/ r \in R
    BY <1>0, <1>4, <2>1, <2>3, <2>4, AggregatorCloses DEF PlaceInv
  <2>6. QED
    BY <2>2, <2>5 DEF SamePlaced
<1>5. CASE AggregatorTimer
  <2>1. PICK C \in (SUBSET agg) \ {{}} :
            agg' = agg \ C /\ flight' = flight \cup {Hand("timer", "limiter", C)}
    BY <1>5 DEF AggregatorTimer
  <2>2. lim' = lim /\ col' = col
    BY <1>5 DEF AggregatorTimer
  <2>3. QED
    BY <1>4, <2>1, <2>2
<1>6. CASE FlushAggregator
  <2>1. PICK C \in SUBSET agg :
            /\ agg' = agg \ C
            /\ flight' = flight \cup (IF C = {} THEN {} ELSE {Hand("flush", "limiter", C)})
    BY <1>6 DEF FlushAggregator
  <2>2. lim' = lim /\ col' = col
    BY <1>6 DEF FlushAggregator
  <2>3. QED
    BY <1>4, <2>1, <2>2
<1>7. CASE DrainLoop
  <2>1. PICK adm \in SUBSET lim : \E exp \in SUBSET (lim \ adm) :
            /\ lim' = lim \ (adm \cup exp)
            /\ flight' = flight \cup Dispatched("drain", adm, exp)
    BY <1>7 DEF DrainLoop
  <2>2. agg' = agg /\ col' = col
    BY <1>7 DEF DrainLoop
  <2>3. QED
    BY <1>0, <2>1, <2>2, DrainMoves
<1>8. CASE FlushLimiter
  <2>1. PICK exp \in SUBSET lim : flight' = flight \cup Dispatched("flush", lim \ exp, exp)
    BY <1>8 DEF FlushLimiter
  <2>2. agg' = agg /\ col' = col /\ lim' = {}
    BY <1>8 DEF FlushLimiter
  <2>3. /\ lim \ exp \in SUBSET lim /\ exp \in SUBSET (lim \ (lim \ exp))
        /\ lim' = lim \ ((lim \ exp) \cup exp)
    BY <2>2
  <2>4. QED
    BY <1>0, <2>1, <2>2, <2>3, DrainMoves
<1>9. CASE FlushCollector
  <2>1. PICK C \in SUBSET col :
            /\ col' = col \ C
            /\ flight' = flight \cup (IF C = {} THEN {} ELSE {Hand("send", "kinesis", C)})
    BY <1>9 DEF FlushCollector
  <2>2. agg' = agg /\ lim' = lim
    BY <1>9 DEF FlushCollector
  <2>3. \/ C = {} /\ flight' = flight
        \/ C # {} /\ flight' = flight \cup {Hand("send", "kinesis", C)}
    BY <2>1
  <2>4. QED
    BY <1>0, <2>1, <2>2, <2>3, CollectorCloses
<1>10. CASE CollectorTimer
  <2>1. PICK C \in (SUBSET col) \ {{}} :
            /\ col' = col \ C
            /\ flight' = IF Closed THEN flight
                         ELSE flight \cup {Hand("send", "kinesis", C)}
    BY <1>10 DEF CollectorTimer
  <2>2. agg' = agg /\ lim' = lim
    BY <1>10 DEF CollectorTimer
  <2>3. CASE Closed
    <3>1. PlaceInv' /\ LessPlaced
      BY <1>0, <2>1, <2>2, <2>3, DropMoves
    <3>2. QED
      BY <2>3, <3>1
  <2>4. CASE ~Closed
    BY <1>0, <2>1, <2>2, <2>4, CollectorCloses
  <2>5. QED
    BY <2>3, <2>4
<1>11. CASE ExitCollector \/ ExitLimiter \/ ExitAggregator
  <2>1. Closed
    BY <1>11 DEF ExitCollector, ExitLimiter, ExitAggregator, Closed
  <2>2. /\ agg' \in SUBSET agg /\ lim' \in SUBSET lim /\ col' \in SUBSET col
        /\ flight' \in SUBSET flight
    BY <1>11 DEF ExitCollector, ExitLimiter, ExitAggregator, stage
  <2>3. PlaceInv' /\ LessPlaced
    BY <1>0, <2>2, DropMoves
  <2>4. QED
    BY <2>1, <2>3
<1>12. CASE ShardMapStarted \/ FlushBegin \/ ExitBegin \/ FlushLock \/ FlushEnd
            \/ ExitClient \/ ExitDone \/ UNCHANGED vars
  <2>1. UNCHANGED <<stage, flight>>
    BY <1>12 DEF ShardMapStarted, FlushBegin, ExitBegin, FlushLock, FlushEnd, ExitClient,
                 ExitDone, vars
  <2>2. QED
    BY <1>3, <2>1
<1>13. QED
  BY <1>5, <1>6, <1>7, <1>8, <1>9, <1>10, <1>11, <1>12 DEF FlushStep, ExitStep
\* Every step is of one of the kinds.
LEMMA NextKind ==
    ASSUME TypeOK, PlaceInv, EarlyInv, [Next]_vars
    PROVE  PlaceInv' /\ StepKind
<1>1. ASSUME NEW r \in Record, Caller(r) \/ Cancel(r) PROVE PlaceInv' /\ StepKind
  BY <1>1, CallerStep
<1>2. ASSUME NEW h \in flight, Move(h) PROVE PlaceInv' /\ StepKind
  BY <1>2, MoveStep
<1>3. CASE \/ ShardMapStarted \/ AggregatorTimer \/ DrainLoop \/ CollectorTimer
           \/ FlushBegin \/ ExitBegin \/ FlushStep \/ ExitStep \/ UNCHANGED vars
  BY <1>3, BackgroundStep
<1>4. QED
  BY <1>1, <1>2, <1>3 DEF Next

-----------------------------------------------------------------------------
(* Types                                                                   *)

\* The part of the type invariant that no kind of step is about.
RestType ==
    /\ pipeline \in BOOLEAN
    /\ builder \in Record \cup {NoRecord}
    /\ attempts \in [Record -> Nat]
    /\ stored \in SUBSET Record
    /\ flushing \in {"no", "lock", "aggregator", "limiter", "collector", "done"}
    /\ phase \in {"open", "flushing", "closing", "collector", "limiter", "aggregator",
                  "client", "exited"}
    /\ crashed \in BOOLEAN
    /\ sent \in SUBSET Record

\* What is stored stays stored, and the producer is never reopened.
LEMMA RestStep ==
    ASSUME TypeOK, [Next]_vars
    PROVE  RestType' /\ stored \subseteq stored' /\ (Closed => Closed')
<1> USE DEF RestType, TypeOK
<1>1. ASSUME NEW r \in Record, Caller(r) \/ Cancel(r)
      PROVE  RestType' /\ stored \subseteq stored' /\ (Closed => Closed')
  <2>1. /\ UNCHANGED <<attempts, stored, flushing, phase, crashed, sent>>
        /\ pipeline' = pipeline /\ builder' \in {builder, r, NoRecord}
    BY <1>1 DEF Caller, PutRecord, Acquire, StartPipeline, Register, Route, Return, Cancel,
                setup, exit
  <2>2. QED
    BY <2>1 DEF Closed
<1>2. ASSUME NEW h \in flight, Move(h)
      PROVE  RestType' /\ stored \subseteq stored' /\ (Closed => Closed')
  <2>1. h.recs \in SUBSET Record
    BY HandOffFields
  <2>2. CASE EnterLimiter(h)
    BY <2>2 DEF EnterLimiter, setup, exit, Closed
  <2>3. CASE EnterCollector(h)
    <3>1. UNCHANGED <<pipeline, builder, attempts, stored, flushing, phase, sent>>
      BY <2>3 DEF EnterCollector, setup
    <3>2. crashed' \in {crashed, TRUE}
      BY <2>3 DEF EnterCollector, Fail
    <3>3. QED
      BY <3>1, <3>2 DEF Closed
  <2>4. CASE Reply(h)
    <3>1. UNCHANGED <<pipeline, builder, attempts, flushing, phase, crashed, sent>>
      BY <2>4 DEF Reply, setup, exit
    <3>2. \E accepted \in SUBSET h.recs : stored' = stored \cup accepted
      BY <2>4 DEF Reply
    <3>3. QED
      BY <2>1, <3>1, <3>2 DEF Closed
  <2>5. CASE Reenter(h)
    <3>1. UNCHANGED <<pipeline, builder, attempts, stored, flushing, phase, sent>>
      BY <2>5 DEF Reenter, setup
    <3>2. crashed' \in {crashed, TRUE}
      BY <2>5 DEF Reenter, Fail
    <3>3. QED
      BY <3>1, <3>2 DEF Closed
  <2>6. ASSUME NEW r \in Record, Classify(h, r)
        PROVE  RestType' /\ stored \subseteq stored' /\ (Closed => Closed')
    <3>1. UNCHANGED <<pipeline, builder, stored, flushing, phase, crashed, sent>>
      BY <2>6 DEF Classify, setup, exit
    <3>2. attempts' = attempts \/ attempts' = [attempts EXCEPT ![r] = @ + 1]
      BY <2>6 DEF Classify
    <3>3. QED
      BY <3>1, <3>2 DEF Closed
  <2>7. QED
    BY <1>2, <2>2, <2>3, <2>4, <2>5, <2>6 DEF Move
<1>3. CASE ShardMapStarted \/ AggregatorTimer \/ DrainLoop \/ UNCHANGED vars
  BY <1>3 DEF ShardMapStarted, AggregatorTimer, DrainLoop, vars, setup, exit, Closed
<1>4. CASE CollectorTimer
  BY <1>4 DEF CollectorTimer, setup, Closed
<1>5. CASE FlushBegin \/ ExitBegin \/ FlushLock \/ FlushAggregator \/ FlushLimiter
           \/ FlushCollector
  BY <1>5 DEF FlushBegin, ExitBegin, FlushLock, FlushAggregator, FlushLimiter,
              FlushCollector, setup, Closed
<1>6. CASE FlushEnd
  <2>1. UNION {h.recs : h \in {k \in flight : k.to = "kinesis"}} \in SUBSET Record
    BY HandOffFields
  <2>2. UNCHANGED <<pipeline, builder, attempts, stored, crashed>> /\ flushing' = "no"
    BY <1>6 DEF FlushEnd, setup
  <2>3. CASE phase = "flushing"
    BY <1>6, <2>1, <2>2, <2>3 DEF FlushEnd, Closed
  <2>4. CASE phase # "flushing"
    BY <1>6, <2>2, <2>4 DEF FlushEnd, Closed
  <2>5. QED
    BY <2>3, <2>4
<1>7. CASE ExitStep
  BY <1>7 DEF ExitStep, ExitCollector, ExitLimiter, ExitAggregator, ExitClient, ExitDone,
              setup, Closed
<1>8. QED
  BY <1>1, <1>2, <1>3, <1>4, <1>5, <1>6, <1>7 DEF Next, FlushStep

\* Every step keeps the types.
LEMMA TypeStep ==
    ASSUME TypeOK, PlaceInv, EarlyInv, [Next]_vars
    PROVE  TypeOK'
<1>1. PlaceInv' /\ StepKind
  BY NextKind
<1>2. RestType'
  BY RestStep
<1>3. StageType'
  BY <1>1 DEF PlaceInv
<1> DEFINE CallType ==
        /\ pc \in [Record -> {"idle", "acquiring", "building", "routing", "dispatching",
                              "returned", "raised"}]
        /\ permits \in Nat /\ outstanding \in Int /\ pending \in SUBSET Record
        /\ outcome \in [Record -> {"unset", "success", "failure"}]
        /\ finished \in [Record -> Nat]
<1>4. CallType
  BY DEF TypeOK
<1>5. CallType'
  <2>1. CASE Moves
    BY <1>4, <2>1 DEF Moves
  <2>2. ASSUME NEW r \in Record, Advances(r) PROVE CallType'
    BY <1>4, <2>2 DEF Advances, SamePlaces
  <2>3. ASSUME NEW r \in Record, GivesUp(r) PROVE CallType'
    BY <1>4, <2>3 DEF GivesUp
  <2>4. ASSUME NEW r \in Record, Resolves(r) PROVE CallType'
    BY <1>4, <2>4 DEF Resolves, Finish
  <2>5. QED
    BY <1>1, <2>1, <2>2, <2>3, <2>4 DEF StepKind
<1>6. QED
  BY <1>2, <1>3, <1>5 DEF TypeOK, RestType, StageType

-----------------------------------------------------------------------------
(* The fate of a record                                                    *)

Here(r) == At(r, agg, lim, col, flight)

\* A record is in some buffer or batch exactly when it is placed.
LEMMA EverywhereHere == \A r : r \in UNION Everywhere <=> Here(r)
BY DEF Everywhere, Here, At

\* A record that is somewhere has an entry in pending, which its terminal
\* callback will find; a record that has had it is nowhere.
FateInv ==
    \A r \in Record :
        /\ pc[r] \in Early => finished[r] = 0 /\ ~Here(r)
        /\ Here(r) => finished[r] = 0 /\ r \in pending
        /\ pc[r] \in {"routing", "dispatching", "returned"} /\ finished[r] = 0
              => r \in pending
        /\ finished[r] = (IF outcome[r] = "unset" THEN 0 ELSE 1)
        /\ outcome[r] = "success" => r \in stored

\* Before the exit, and with no call raised, nothing that was routed is lost.
KeptInv ==
    ~Closed /\ (\A r \in Record : pc[r] # "raised") =>
        \A r \in Record :
            pc[r] \in {"dispatching", "returned"} /\ finished[r] = 0 => Here(r)

\* Every kind of step keeps FateInv.
LEMMA FateStep ==
    ASSUME TypeOK, FateInv, StepKind, stored \subseteq stored'
    PROVE  FateInv'
<1> USE DEF TypeOK, Early
<1>0. \A r : Here(r)' <=> At(r, agg', lim', col', flight')
  BY DEF Here
<1>1. CASE Moves
  BY <1>0, <1>1 DEF Moves, LessPlaced, FateInv, Here
<1>2. ASSUME NEW r \in Record, Advances(r) PROVE FateInv'
  BY <1>0, <1>2 DEF Advances, SamePlaces, SamePlaced, FateInv, Here
<1>3. ASSUME NEW r \in Record, GivesUp(r) PROVE FateInv'
  BY <1>0, <1>3 DEF GivesUp, LessPlaced, FateInv, Here
<1>4. ASSUME NEW r \in Record, Resolves(r) PROVE FateInv'
  <2>1. Here(r) /\ finished[r] = 0 /\ r \in pending /\ outcome[r] = "unset"
    BY <1>4 DEF Resolves, FateInv, Here
  <2>2. PICK result \in {"success", "failure"} :
            Finish(r, result) /\ (result = "success" => r \in stored)
    BY <1>4 DEF Resolves
  <2>3. /\ finished' = [finished EXCEPT ![r] = 1]
        /\ outcome' = [outcome EXCEPT ![r] = result]
        /\ pending' = pending \ {r}
        /\ pc' = pc
        /\ \A p : Here(p)' <=> Here(p) /\ p # r
    BY <1>0, <1>4, <2>1, <2>2 DEF Finish, Resolves, Here
  <2> SUFFICES ASSUME NEW p \in Record
      PROVE  /\ pc[p] \in Early => finished'[p] = 0 /\ ~Here(p)'
             /\ Here(p)' => finished'[p] = 0 /\ p \in pending'
             /\ pc[p] \in {"routing", "dispatching", "returned"} /\ finished'[p] = 0
                    => p \in pending'
             /\ finished'[p] = (IF outcome'[p] = "unset" THEN 0 ELSE 1)
             /\ outcome'[p] = "success" => p \in stored'
    BY <2>3 DEF FateInv
  <2>4. CASE p = r
    BY <2>1, <2>2, <2>3, <2>4 DEF FateInv
  <2>5. CASE p # r
    <3>1. finished'[p] = finished[p] /\ outcome'[p] = outcome[p]
      BY <2>3, <2>5
    <3>2. QED
      BY <2>3, <2>5, <3>1 DEF FateInv
  <2>6. QED
    BY <2>4, <2>5
<1>5. QED
  BY <1>1, <1>2, <1>3, <1>4 DEF StepKind

\* Every kind of step keeps KeptInv.
LEMMA KeptStep ==
    ASSUME TypeOK, FateInv, KeptInv, StepKind, Closed => Closed'
    PROVE  KeptInv'
<1> SUFFICES ASSUME ~Closed', \A p \in Record : pc'[p] # "raised", NEW q \in Record,
                    pc'[q] \in {"dispatching", "returned"}, finished'[q] = 0
             PROVE  At(q, agg', lim', col', flight')
  BY DEF KeptInv, Here
<1> USE DEF TypeOK
<1>1. ~Closed
  OBVIOUS
<1>2. CASE Moves
  BY <1>1, <1>2 DEF Moves, SamePlaced, KeptInv, Here
<1>3. ASSUME NEW r \in Record, GivesUp(r) PROVE FALSE
  BY <1>3 DEF GivesUp
<1>4. ASSUME NEW r \in Record, Resolves(r) PROVE At(q, agg', lim', col', flight')
  <2>1. pc' = pc /\ finished' = [finished EXCEPT ![r] = @ + 1] /\ finished[r] \in Nat
    BY <1>4 DEF Resolves, Finish
  <2>2. q # r /\ finished[q] = 0
    BY <2>1
  <2>3. QED
    BY <1>1, <1>4, <2>1, <2>2 DEF Resolves, KeptInv, Here
<1>5. ASSUME NEW r \in Record, Advances(r) PROVE At(q, agg', lim', col', flight')
  <2>0. \A p \in Record : pc[p] # "raised"
    BY <1>5 DEF Advances
  <2>1. \A p \in Record : pc[p] \in {"dispatching", "returned"} /\ finished[p] = 0 => Here(p)
    BY <1>1, <2>0 DEF KeptInv
  <2>2. finished' = finished /\ (Here(q) => At(q, agg', lim', col', flight'))
    BY <1>5 DEF Advances, SamePlaces, SamePlaced, Here
  <2>3. CASE pc[q] \in {"dispatching", "returned"}
    BY <2>1, <2>2, <2>3
  <2>4. CASE pc[q] \notin {"dispatching", "returned"}
    <3>1. q = r
      BY <1>5, <2>4 DEF Advances
    <3>2. QED
      BY <1>5, <2>4, <3>1 DEF Advances
  <2>5. QED
    BY <2>3, <2>4
<1>6. QED
  BY <1>2, <1>3, <1>4, <1>5 DEF StepKind

-----------------------------------------------------------------------------
(* Slots                                                                   *)

\* The records whose slot was given back twice: by the call that raised, and
\* by the terminal callback.
TwiceReturned == {r \in Record : pc[r] = "raised" /\ finished[r] > 0}

\* The semaphore and the counter go together; the counter is the number of
\* records that hold a slot, less those that returned theirs twice.
SlotInv ==
    /\ permits + outstanding = MaxOutstanding
    /\ outstanding = Cardinality(InPipeline) - Cardinality(TwiceReturned)

\* The parts that slots are counted by are finite.
LEMMA FiniteParts == /\ IsFiniteSet(InPipeline) /\ IsFiniteSet(TwiceReturned)
                     /\ Cardinality(InPipeline) \in Nat /\ Cardinality(TwiceReturned) \in Nat
<1>1. InPipeline \subseteq Record /\ TwiceReturned \subseteq Record
  BY DEF InPipeline, TwiceReturned
<1>2. IsFiniteSet(InPipeline) /\ IsFiniteSet(TwiceReturned)
  BY <1>1, ProducerAssumption, FS_Subset
<1>3. QED
  BY <1>2, FS_CardinalityType

\* One record joins or leaves a part.
LEMMA CountOne ==
    ASSUME NEW S, IsFiniteSet(S), NEW r
    PROVE  /\ r \notin S => Cardinality(S \cup {r}) = Cardinality(S) + 1
           /\ r \in S => Cardinality(S \ {r}) = Cardinality(S) - 1
           /\ Cardinality(S) \in Nat
BY FS_AddElement, FS_RemoveElement, FS_CardinalityType

\* Every kind of step keeps the slots accounted for.
LEMMA SlotStep ==
    ASSUME TypeOK, FateInv, SlotInv, StepKind
    PROVE  SlotInv'
<1> USE DEF TypeOK
<1>0. /\ IsFiniteSet(InPipeline) /\ IsFiniteSet(TwiceReturned)
      /\ Cardinality(InPipeline) \in Nat /\ Cardinality(TwiceReturned) \in Nat
      /\ MaxOutstanding \in Nat
  BY FiniteParts, ProducerAssumption
<1>a. ASSUME UNCHANGED <<permits, outstanding>>, InPipeline' = InPipeline,
             TwiceReturned' = TwiceReturned
      PROVE  SlotInv'
  BY <1>a DEF SlotInv
<1>b. ASSUME NEW r \in Record, permits' = permits + 1, outstanding' = outstanding - 1,
             \/ /\ r \in InPipeline /\ InPipeline' = InPipeline \ {r}
                /\ TwiceReturned' = TwiceReturned
             \/ /\ r \notin TwiceReturned /\ TwiceReturned' = TwiceReturned \cup {r}
                /\ InPipeline' = InPipeline
      PROVE  SlotInv'
  <2>1. /\ r \in InPipeline => Cardinality(InPipeline \ {r}) = Cardinality(InPipeline) - 1
        /\ r \notin TwiceReturned
              => Cardinality(TwiceReturned \cup {r}) = Cardinality(TwiceReturned) + 1
    BY <1>0, CountOne
  <2>2. Cardinality(InPipeline') - Cardinality(TwiceReturned')
            = Cardinality(InPipeline) - Cardinality(TwiceReturned) - 1
    <3>1. CASE /\ r \in InPipeline /\ InPipeline' = InPipeline \ {r}
               /\ TwiceReturned' = TwiceReturned
      <4>1. /\ Cardinality(InPipeline') = Cardinality(InPipeline) - 1
            /\ Cardinality(TwiceReturned') = Cardinality(TwiceReturned)
        BY <2>1, <3>1
      <4>2. QED
        BY <1>0, <4>1
    <3>2. CASE /\ r \notin TwiceReturned /\ TwiceReturned' = TwiceReturned \cup {r}
               /\ InPipeline' = InPipeline
      <4>1. /\ Cardinality(InPipeline') = Cardinality(InPipeline)
            /\ Cardinality(TwiceReturned') = Cardinality(TwiceReturned) + 1
        BY <2>1, <3>2
      <4>2. QED
        BY <1>0, <4>1
    <3>3. QED
      BY <1>b, <3>1, <3>2
  <2>3. QED
    BY <1>0, <1>b, <2>2 DEF SlotInv
<1>1. CASE Moves
  <2>1. UNCHANGED <<permits, outstanding, pc, finished>>
    BY <1>1 DEF Moves
  <2>2. QED
    BY <1>a, <2>1 DEF InPipeline, TwiceReturned
<1>2. ASSUME NEW r \in Record, Advances(r) PROVE SlotInv'
  <2>1. finished' = finished
    BY <1>2 DEF Advances, SamePlaces
  <2>2. CASE pc[r] = "acquiring" /\ pc' = [pc EXCEPT ![r] = "building"]
    <3>1. finished[r] = 0
      BY <2>2 DEF FateInv, Early
    <3>2. r \notin InPipeline /\ InPipeline' = InPipeline \cup {r}
      BY <2>1, <2>2, <3>1 DEF InPipeline
    <3>3. TwiceReturned' = TwiceReturned
      BY <2>1, <2>2 DEF TwiceReturned
    <3>4. permits' = permits - 1 /\ outstanding' = outstanding + 1
      BY <1>2, <2>2 DEF Advances
    <3>5. Cardinality(InPipeline') = Cardinality(InPipeline) + 1
      BY <1>0, <3>2, CountOne
    <3>6. QED
      BY <1>0, <3>3, <3>4, <3>5 DEF SlotInv
  <2>3. CASE ~(pc[r] = "acquiring" /\ pc' = [pc EXCEPT ![r] = "building"])
    <3>1. permits' = permits /\ outstanding' = outstanding
      BY <1>2, <2>3 DEF Advances
    <3>2. pc[r] \in Early => finished[r] = 0
      BY DEF FateInv
    <3>3. InPipeline' = InPipeline /\ TwiceReturned' = TwiceReturned
      BY <1>2, <2>1, <2>3, <3>2 DEF Advances, InPipeline, TwiceReturned, Early
    <3>4. QED
      BY <1>a, <3>1, <3>3
  <2>4. QED
    BY <2>2, <2>3
<1>3. ASSUME NEW r \in Record, GivesUp(r) PROVE SlotInv'
  <2>1. /\ pc[r] \in {"building", "routing", "dispatching"}
        /\ pc' = [pc EXCEPT ![r] = "raised"] /\ finished' = finished
        /\ permits' = permits + 1 /\ outstanding' = outstanding - 1
    BY <1>3 DEF GivesUp
  <2>2. CASE finished[r] = 0
    <3>1. r \in InPipeline /\ InPipeline' = InPipeline \ {r} /\ TwiceReturned' = TwiceReturned
      BY <2>1, <2>2 DEF InPipeline, TwiceReturned
    <3>2. QED
      BY <1>b, <2>1, <3>1
  <2>3. CASE finished[r] # 0
    <3>1. /\ r \notin TwiceReturned /\ TwiceReturned' = TwiceReturned \cup {r}
          /\ InPipeline' = InPipeline
      BY <2>1, <2>3 DEF InPipeline, TwiceReturned
    <3>2. QED
      BY <1>b, <2>1, <3>1
  <2>4. QED
    BY <2>2, <2>3
<1>4. ASSUME NEW r \in Record, Resolves(r) PROVE SlotInv'
  <2>1. pc[r] \notin Early /\ finished[r] = 0
    BY <1>4 DEF Resolves, FateInv, Here
  <2>2. /\ pc' = pc /\ finished' = [finished EXCEPT ![r] = 1]
        /\ permits' = permits + 1 /\ outstanding' = outstanding - 1
    BY <1>4, <2>1 DEF Resolves, Finish
  <2>3. CASE pc[r] = "raised"
    <3>1. /\ r \notin TwiceReturned /\ TwiceReturned' = TwiceReturned \cup {r}
          /\ InPipeline' = InPipeline
      BY <2>1, <2>2, <2>3 DEF InPipeline, TwiceReturned
    <3>2. QED
      BY <1>b, <2>2, <3>1
  <2>4. CASE pc[r] # "raised"
    <3>0. pc[r] \in {"dispatching", "returned"}
      BY <2>1, <2>4 DEF Early
    <3>1. r \in InPipeline /\ InPipeline' = InPipeline \ {r} /\ TwiceReturned' = TwiceReturned
      BY <2>1, <2>2, <3>0 DEF InPipeline, TwiceReturned
    <3>2. QED
      BY <1>b, <2>2, <3>1
  <2>5. QED
    BY <2>3, <2>4
<1>5. QED
  BY <1>1, <1>2, <1>3, <1>4 DEF StepKind

-----------------------------------------------------------------------------
(* The theorems                                                            *)

ProducerInv == TypeOK /\ PlaceInv /\ FateInv /\ KeptInv /\ SlotInv

\* The producer starts in the invariant.
LEMMA ProducerInvInit == Init => ProducerInv
<1> SUFFICES ASSUME Init PROVE ProducerInv
  OBVIOUS
<1> USE DEF Init
<1>1. TypeOK
  <2>1. RestType /\ StageType
    BY DEF RestType, StageType
  <2>2. /\ pc \in [Record -> {"idle", "acquiring", "building", "routing", "dispatching",
                              "returned", "raised"}]
        /\ outcome \in [Record -> {"unset", "success", "failure"}]
        /\ finished \in [Record -> Nat]
    OBVIOUS
  <2>3. permits \in Nat /\ outstanding \in Int /\ pending \in SUBSET Record
    BY ProducerAssumption
  <2>4. QED
    BY <2>1, <2>2, <2>3 DEF TypeOK, RestType, StageType
<1>2. PlaceInv
  BY DEF PlaceInv, StageType, Apart, HandInv
<1>3. \A r \in Record : ~Here(r)
  BY DEF Here, At
<1>4. FateInv /\ KeptInv
  BY <1>3 DEF FateInv, KeptInv, Early
<1>5. InPipeline = {} /\ TwiceReturned = {}
  BY DEF InPipeline, TwiceReturned
<1>6. SlotInv
  BY <1>5, FS_EmptySet, ProducerAssumption DEF SlotInv
<1>7. QED
  BY <1>1, <1>2, <1>4, <1>6 DEF ProducerInv

\* Every step keeps the invariant.
LEMMA ProducerInvStep == ProducerInv /\ [Next]_vars => ProducerInv'
<1> SUFFICES ASSUME ProducerInv, [Next]_vars PROVE ProducerInv'
  OBVIOUS
<1>1. TypeOK /\ PlaceInv /\ FateInv /\ KeptInv /\ SlotInv
  BY DEF ProducerInv
<1>2. EarlyInv
  BY <1>1 DEF FateInv, EarlyInv, Here
<1>3. PlaceInv' /\ StepKind
  BY <1>1, <1>2, NextKind
<1>4. TypeOK'
  BY <1>1, <1>2, TypeStep
<1>5. stored \subseteq stored' /\ (Closed => Closed')
  BY <1>1, RestStep
<1>6. FateInv' /\ KeptInv' /\ SlotInv'
  BY <1>1, <1>3, <1>5, FateStep, KeptStep, SlotStep
<1>7. QED
  BY <1>3, <1>4, <1>6 DEF ProducerInv

\* The invariant holds throughout.
LEMMA ProducerInductive == Spec => []ProducerInv
BY ProducerInvInit, ProducerInvStep, PTL DEF Spec

\* The state keeps its types: the semaphore is never below zero and no task
\* holds an empty batch, however calls, retries, cancellation and exit
\* interleave.
THEOREM ProducerTypes == Spec => []TypeOK
<1>1. ProducerInv => TypeOK
  BY DEF ProducerInv
<1>2. QED
  BY <1>1, ProducerInductive, PTL

\* However many tasks move batches through the stages, a record is in one
\* place at a time and nowhere once on_retrier_finish has run for it.
THEOREM PlacesDisjoint == Spec => []NeverDuplicated
<1>1. ProducerInv => NeverDuplicated
  <2> SUFFICES ASSUME ProducerInv PROVE NeverDuplicated
    OBVIOUS
  <2>1. StageType /\ Apart(agg, lim, col, flight) /\ TypeOK /\ FateInv
    BY DEF ProducerInv, PlaceInv
  <2>2. \A h \in flight : h.recs \subseteq Record
    BY <2>1, HandOffFields DEF StageType
  <2>3. agg \cap col = {} /\ \A b \in lim : b \cap (agg \cup col) = {}
    BY <2>1 DEF StageType, Apart
  <2>4. \A b, d \in lim : b # d => b \cap d = {}
    BY <2>1 DEF StageType, Apart
  <2>5. \A h \in flight : h.recs \cap (agg \cup col \cup UNION lim) = {}
    BY <2>1, <2>2 DEF Apart
  <2>6. \A h, k \in flight : h # k => h.recs \cap k.recs = {}
    BY <2>1, <2>2 DEF Apart
  <2>7. \A r \in Record : finished[r] > 0 => r \notin UNION Everywhere
    <3>1. \A r \in Record : r \in UNION Everywhere => Here(r)
      BY EverywhereHere
    <3>2. \A r \in Record : Here(r) => ~(finished[r] > 0)
      BY <2>1 DEF FateInv, TypeOK
    <3>3. QED
      BY <3>1, <3>2
  <2>8. QED
    BY <2>3, <2>4, <2>5, <2>6, <2>7 DEF NeverDuplicated
<1>2. QED
  BY <1>1, ProducerInductive, PTL

\* Until the exit closes the producer, and unless a call is cancelled, every
\* record that put_record routed and that is not resolved is in a buffer, a
\* queue or a task's hands.
THEOREM NothingLost == Spec => []NeverLost
<1>1. ProducerInv => NeverLost
  <2> SUFFICES ASSUME ProducerInv PROVE NeverLost
    OBVIOUS
  <2>a. \A r \in Record : Here(r) => r \in UNION Everywhere
    BY EverywhereHere
  <2>1. KeptInv
    BY DEF ProducerInv
  <2>2. QED
    BY <2>1, <2>a DEF NeverLost, KeptInv
<1>2. QED
  BY <1>1, ProducerInductive, PTL

\* on_retrier_finish runs at most once for a record, finds its entry in
\* pending, and reports a success only of what Kinesis has stored; also with
\* cancelled calls and across the exit.
THEOREM TruthfulOutcomes == Spec => []OutcomesTruthful
<1>1. ProducerInv => OutcomesTruthful
  BY DEF ProducerInv, FateInv, OutcomesTruthful
<1>2. QED
  BY <1>1, ProducerInductive, PTL

\* The slots of the semaphore: unless a call raised while its record was on
\* its way, outstanding_records is the number of records that hold one and
\* the semaphore has the rest.
THEOREM SlotsConserved == Spec => []SlotsAccounted
<1>1. ProducerInv => SlotsAccounted
  <2> SUFFICES ASSUME ProducerInv, CleanlyRaised PROVE /\ outstanding = Cardinality(InPipeline)
                                                       /\ permits + outstanding = MaxOutstanding
    BY DEF SlotsAccounted
  <2>1. SlotInv
    BY DEF ProducerInv
  <2>2. TwiceReturned = {}
    BY DEF CleanlyRaised, TwiceReturned
  <2>3. Cardinality(TwiceReturned) = 0 /\ Cardinality(InPipeline) \in Nat
    BY <2>2, FS_EmptySet, FiniteParts
  <2>4. QED
    BY <2>1, <2>3 DEF SlotInv
<1>2. QED
  BY <1>1, ProducerInductive, PTL

\* What a call cancelled late costs, exactly: the counter falls short of the
\* records that hold a slot by one for each record that both raised and was
\* resolved, and the semaphore lets that many more in.
THEOREM SlotsReturnedTwice == Spec => []SlotInv
<1>1. ProducerInv => SlotInv
  BY DEF ProducerInv
<1>2. QED
  BY <1>1, ProducerInductive, PTL

=============================================================================
