------------------------------ MODULE Reducer ------------------------------
(***************************************************************************)
(* The generic deadline-driven batcher (reducer.py), the stage behind both *)
(* the Aggregator (one instance per predicted shard) and the Collector.    *)
(*                                                                         *)
(* Everything the class does to its state happens in a body guarded by     *)
(* `async with self._lock` that contains no await, on a single event loop, *)
(* so each such body is one action.  What interleaves with those bodies is *)
(* the tasks waiting outside the lock: callers of add, flush and aclose,   *)
(* and the timer tasks, of which several can be alive because cancelling a *)
(* scope only asks the task to stop.                                       *)
(*                                                                         *)
(* The active batch is a set of items with their arrival numbers.  That is *)
(* exact: `sorted` is stable, a re-injected remainder keeps its order and  *)
(* new items are appended, so the packing order is always (deadline,       *)
(* arrival), and neither size estimate depends on the order of the items.  *)
(***************************************************************************)
EXTENDS Integers, Sequences, FiniteSets

CONSTANTS
    Item,                  \* the items that may be added, each at most once
    Deadline,              \* Deadline[i]: the item's monotonic deadline
    BatchSize(_),          \* the size estimate of a batch of items
    FlushPredicate(_, _),  \* flush_predicate(just added, active batch)
    CountLimit, SizeLimit, \* the hard limits of one batch
    MaxTime                \* bound on the clock

ASSUME ReducerAssumption ==
    /\ Deadline \in [Item -> Nat]
    /\ \A S \in SUBSET Item : BatchSize(S) \in Nat
    /\ \A i \in Item, S \in SUBSET Item : FlushPredicate(i, S) \in BOOLEAN
    /\ CountLimit \in Nat \ {0}
    /\ SizeLimit \in Nat
    /\ MaxTime \in Nat

VARIABLES
    active,     \* items of self._active
    arrival,    \* arrival[i]: when i was added, as a rank; 0 before that
    arrivals,   \* how many items have been added
    scope,      \* self._timer_scope: a scope number, or NoScope
    scopes,     \* how many cancel scopes have been created
    timers,     \* the live timer tasks
    closed,     \* self._closed
    out,        \* the batches handed over, in the order they were closed
    dropped,    \* items discarded by aclose
    now         \* self._clock()

vars == <<active, arrival, arrivals, scope, scopes, timers, closed, out,
          dropped, now>>

NoScope == 0

\* A timer task: the scope it owns, the time its sleep ends, and whether it
\* has slept and now waits for the lock inside _fire.
Timer == [id : Nat \ {0}, due : Nat, awake : BOOLEAN]

\* A closed batch, never empty, and how it left: returned by add or flush, or
\* given to on_deadline.
Batch == [items : (SUBSET Item) \ {{}}, via : {"add", "flush", "deadline"}]

Added == {i \in Item : arrival[i] > 0}

Init ==
    /\ active = {}
    /\ arrival = [i \in Item |-> 0]
    /\ arrivals = 0
    /\ scope = NoScope
    /\ scopes = 0
    /\ timers = {}
    /\ closed = FALSE
    /\ out = <<>>
    /\ dropped = {}
    /\ now = 0

-----------------------------------------------------------------------------
(* Packing: _pack_and_split                                                *)

\* Mutant: the candidates are packed as they came, unsorted.
BeforeUnsorted(i, j, arr) == arr[i] < arr[j]

\* The order of `sorted(active.items, key=deadline)`, stable in arr.
Before(i, j, arr) ==
    \/ Deadline[i] < Deadline[j]
    \/ Deadline[i] = Deadline[j] /\ arr[i] < arr[j]

\* The contents of the closing batch just after candidate i was added to it.
UpTo(i, S, arr) == {i} \cup {j \in S : Before(j, i, arr)}

Overflows(S) == Cardinality(S) > CountLimit \/ BatchSize(S) > SizeLimit

\* Mutant: the candidate that overflows is kept with those before it.
PackedNoUndo(S, arr) ==
    {i \in S : \A j \in UpTo(i, S, arr) :
                  j # i => ~Overflows(UpTo(j, S, arr))}

\* Greedy packing: candidates enter in order until one overflows; that one is
\* undone, unless it is the first, which is closed alone.
Packed(S, arr) ==
    {i \in S : \/ UpTo(i, S, arr) = {i}
               \/ \A j \in UpTo(i, S, arr) : ~Overflows(UpTo(j, S, arr))}

\* active.deadline, the earliest deadline of a non-empty batch.
EarliestDeadline(S) ==
    CHOOSE d \in {Deadline[i] : i \in S} : \A i \in S : d <= Deadline[i]

-----------------------------------------------------------------------------
(* Timers                                                                  *)

\* _cancel_timer_locked: forget the scope; its task is now merely asked to
\* stop, and stays in timers until CancelDelivered or TimerFire ends it.
CancelTimer == scope' = NoScope /\ UNCHANGED scopes

\* _reschedule_locked for a batch S: a fresh scope, a task sleeping until the
\* earliest deadline or not at all when that has passed.
Reschedule(S, base) ==
    LET d == EarliestDeadline(S)
    IN  /\ scope' = scopes + 1
        /\ scopes' = scopes + 1
        /\ timers' = base \cup {[id |-> scopes + 1,
                                 due |-> IF d > now THEN d ELSE now,
                                 awake |-> FALSE]}

\* Mutant: the candidate that overflowed is undone but not kept.
PackAndSplitLosing(S, arr, via, base) ==
    LET done == Packed(S, arr)
        rest == {i \in S \ done : \E j \in S \ done : Before(j, i, arr)}
    IN  /\ out' = Append(out, [items |-> done, via |-> via])
        /\ active' = rest
        /\ IF rest = {} THEN CancelTimer /\ timers' = base
                        ELSE Reschedule(rest, base)

\* Mutant: the remainder is re-injected without a timer.
PackAndSplitUntimed(S, arr, via, base) ==
    /\ out' = Append(out, [items |-> Packed(S, arr), via |-> via])
    /\ active' = S \ Packed(S, arr)
    /\ CancelTimer
    /\ timers' = base

\* _pack_and_split of the batch S: close what fits, keep the rest with a timer.
\* base: the timer tasks alive besides the one that may be started.
PackAndSplit(S, arr, via, base) ==
    LET done == Packed(S, arr)
        rest == S \ done
    IN  /\ out' = Append(out, [items |-> done, via |-> via])
        /\ active' = rest
        /\ IF rest = {} THEN CancelTimer /\ timers' = base
                        ELSE Reschedule(rest, base)

-----------------------------------------------------------------------------
(* Operations                                                              *)

\* add(item).  There is no check of _closed: a late caller still gets in.
Add(i) ==
    LET S   == active \cup {i}
        arr == [arrival EXCEPT ![i] = arrivals + 1]
    IN  /\ arrival[i] = 0
        /\ arrival' = arr
        /\ arrivals' = arrivals + 1
        /\ IF \/ FlushPredicate(i, S)
              \/ Cardinality(S) >= CountLimit
              \/ BatchSize(S) >= SizeLimit
           THEN PackAndSplit(S, arr, "add", timers)
           ELSE /\ active' = S
                /\ Reschedule(S, timers)
                /\ UNCHANGED out
        /\ UNCHANGED <<closed, dropped, now>>

\* Mutant: flush does not look whether there is anything to close.
FlushBlind ==
    /\ PackAndSplit(active, arrival, "flush", timers)
    /\ UNCHANGED <<arrival, arrivals, closed, dropped, now>>

\* flush(): one batch at most; an empty reducer only loses its timer.
Flush ==
    /\ IF active = {}
       THEN CancelTimer /\ UNCHANGED <<active, timers, out>>
       ELSE PackAndSplit(active, arrival, "flush", timers)
    /\ UNCHANGED <<arrival, arrivals, closed, dropped, now>>

\* aclose(): what is buffered is discarded.
Aclose ==
    /\ closed' = TRUE
    /\ CancelTimer
    /\ active' = {}
    /\ dropped' = dropped \cup active
    /\ UNCHANGED <<arrival, arrivals, timers, out, now>>

\* _timer_task after its sleep.  A cancelled task never returns from the
\* sleep; on a closed reducer the task ends here and leaves the slot alone.
TimerWake(t) ==
    /\ ~t.awake
    /\ t.id = scope
    /\ t.due <= now
    /\ timers' = (timers \ {t}) \cup
                     (IF closed THEN {}
                      ELSE {[id |-> t.id, due |-> t.due, awake |-> TRUE]})
    /\ UNCHANGED <<active, arrival, arrivals, scope, scopes, closed, out,
                   dropped, now>>

\* Mutant: _fire does not compare its scope with the current one.
TimerFireStale(t) ==
    /\ t.awake
    /\ IF closed \/ active = {}
       THEN timers' = timers \ {t} /\ UNCHANGED <<active, scope, scopes, out>>
       ELSE PackAndSplit(active, arrival, "deadline", timers \ {t})
    /\ UNCHANGED <<arrival, arrivals, closed, dropped, now>>

\* _fire: the awake task has the lock.  Closed, stale and empty return early.
TimerFire(t) ==
    /\ t.awake
    /\ IF closed \/ t.id # scope
       THEN timers' = timers \ {t} /\ UNCHANGED <<active, scope, scopes, out>>
       ELSE IF active = {}
            THEN CancelTimer /\ timers' = timers \ {t}
                 /\ UNCHANGED <<active, out>>
            ELSE PackAndSplit(active, arrival, "deadline", timers \ {t})
    /\ UNCHANGED <<arrival, arrivals, closed, dropped, now>>

\* The cancellation of a replaced or cleared scope reaches its task, in the
\* sleep or in the wait for the lock.
CancelDelivered(t) ==
    /\ t.id # scope
    /\ timers' = timers \ {t}
    /\ UNCHANGED <<active, arrival, arrivals, scope, scopes, closed, out,
                   dropped, now>>

Tick ==
    /\ now < MaxTime
    /\ now' = now + 1
    /\ UNCHANGED <<active, arrival, arrivals, scope, scopes, timers, closed,
                   out, dropped>>

Next ==
    \/ \E i \in Item : Add(i)
    \/ Flush
    \/ Aclose
    \/ \E t \in timers : TimerWake(t) \/ TimerFire(t) \/ CancelDelivered(t)
    \/ Tick

\* The clock advances and the event loop resumes a timer task that is ready.
\* Nothing is assumed of the callers.
Fairness ==
    /\ WF_vars(Tick)
    /\ WF_vars(\E t \in timers : TimerWake(t))
    /\ WF_vars(\E t \in timers : TimerFire(t))

Spec == Init /\ [][Next]_vars

FairSpec == Spec /\ Fairness

-----------------------------------------------------------------------------
(* Properties                                                              *)

\* Types of the state; a closed batch is never empty.
TypeOK ==
    /\ active \in SUBSET Item
    /\ arrival \in [Item -> Nat]
    /\ arrivals \in Nat
    /\ scope \in Nat
    /\ scopes \in Nat
    /\ timers \in SUBSET Timer
    /\ closed \in BOOLEAN
    /\ out \in Seq(Batch)
    /\ dropped \in SUBSET Item
    /\ now \in Nat

\* No item is lost or closed twice, whatever add, flush, aclose and the
\* timers interleave to: each item added is in exactly one place, the active
\* batch, one closed batch, or the items that aclose discarded.
Conservation ==
    /\ Added = active \cup dropped \cup UNION {out[k].items : k \in DOMAIN out}
    /\ active \cap dropped = {}
    /\ \A k \in DOMAIN out : out[k].items \cap (active \cup dropped) = {}
    /\ \A k, l \in DOMAIN out : k # l => out[k].items \cap out[l].items = {}

\* While the reducer is open, a non-empty batch always has a live, uncancelled
\* timer that is due no later than its earliest deadline (or is due already):
\* no reschedule, flush or stale fire leaves items without a wake-up.
TimerArmed ==
    ~closed /\ active # {} =>
        \E t \in timers : /\ t.id = scope
                          /\ t.due <= now \/ t.due <= EarliestDeadline(active)

\* A scope is held exactly while there is something to time out, so at most
\* one of the live timer tasks can ever close a batch.
ScopeMatchesBatch ==
    /\ scope # NoScope <=> active # {}
    /\ \A s, t \in timers : s.id = scope /\ t.id = scope => s = t

\* The active batch never sits on the timer with count_limit items; with
\* count_limit = 1 (aggregation disabled) nothing is ever buffered.
CountBelowLimit == Cardinality(active) < CountLimit

\* A deadline batch is never closed before the earliest deadline in it: a
\* timer armed for items that have already left does not close the next batch.
NeverEarly ==
    [][\A b \in {out'[k] : k \in DOMAIN out' \ DOMAIN out} :
           b.via = "deadline" => \E i \in b.items : Deadline[i] <= now]_vars

\* What leaves is first by deadline, and among equals first by arrival, with
\* respect to what stays: no item is overtaken inside the reducer.
FifoByDeadline ==
    [][\A b \in {out'[k] : k \in DOMAIN out' \ DOMAIN out} :
           \A i \in b.items, j \in active' :
               \/ Deadline[i] < Deadline[j]
               \/ Deadline[i] = Deadline[j] /\ arrival'[i] < arrival'[j]]_vars

\* A closed batch respects both hard limits unless it is one oversized item.
BatchesFit ==
    \A k \in DOMAIN out :
        Cardinality(out[k].items) > 1 =>
            /\ Cardinality(out[k].items) <= CountLimit
            /\ BatchSize(out[k].items) <= SizeLimit

\* Every item added leaves, unless the reducer is closed.
EveryItemLeaves ==
    \A i \in Item : (arrival[i] > 0) ~> (closed \/ i \notin active)

\* The batching stage that the other components take a reducer for.
Stage == INSTANCE Batcher WITH waiting <- active,
                               batches <- {out[k].items : k \in DOMAIN out},
                               lost <- dropped

\* With all its limits, timers, stale wake-ups and late adds the reducer does
\* to its items only what a batching stage may do: accept a new one, let the
\* earliest leave together, once, or discard what waits when it is closed.
ImplementsBatcher == Stage!Spec
=============================================================================
