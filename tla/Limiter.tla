------------------------------ MODULE Limiter ------------------------------
(***************************************************************************)
(* The per-shard rate limiter (limiter.py) on a clock, with the two other  *)
(* parts that decide how long a record lives: the deadlines the aggregator *)
(* and the collector wait for, and the retrier's check of record_ttl_ms.   *)
(*                                                                         *)
(* A batch is one record: a batch of several is split into its records     *)
(* when it is retried, and everything here is decided per batch.  A queue  *)
(* is the set of records placed in it; SortedKeyList orders it by          *)
(* deadline, equals by insertion, which rank records.                      *)
(*                                                                         *)
(* Each body under `async with self._lock` has no await and is one action. *)
(* What it drained is dispatched after the lock is released, one await per *)
(* batch, so other tasks run in between.                                   *)
(*                                                                         *)
(* The clock is discrete and tasks are prompt: time passes only when no    *)
(* task is ready to run.  A tick is thus the resolution at which the delay *)
(* of the event loop is neglected.                                         *)
(***************************************************************************)
EXTENDS TokenBucket, FiniteSets

CONSTANTS
    Record,         \* one put_record each
    Shard,          \* the keys of self._shards
    BytesOf(_),     \* the total size of a set of batches
    Ttl,            \* record_ttl_ms, the limiter's expiration and the retrier's
    BufferedTime,   \* record_max_buffered_time_ms
    RetryDelay,     \* half of retry_deadline_ms
    DrainInterval,  \* drain_interval_ms
    SendTime,       \* how long a PutRecords may take
    Origin,         \* the moments since when admissions may be counted
    MaxTime         \* bound on the clock

ASSUME LimiterAssumption ==
    /\ IsFiniteSet(Record)
    /\ \A S \in SUBSET Record : BytesOf(S) \in Nat
    /\ BytesOf({}) = 0
    /\ {Ttl, BufferedTime, RetryDelay, DrainInterval, SendTime, MaxTime} \subseteq Nat
    /\ Origin \subseteq Nat
    /\ Ttl > 0 /\ DrainInterval > 0

VARIABLES
    now,       \* the clock
    place,     \* place[r]: where the record is
    shard,     \* shard[r]: the queue it is or was last in
    arrival,   \* arrival[r]: arrival_time, set by build_buffered
    deadline,  \* deadline[r]: buffered.deadline
    until,     \* until[r]: when the stage it is in gives it up at the latest;
               \* in a queue, _Pending.expires_at
    rank,      \* rank[r]: its insertion rank among those queued with it
    bucket,    \* bucket[s]: the TokenBucket of the shard
    loop,      \* the drain loop's task
    held,      \* what it has drained and not dispatched yet
    wake,      \* when its sleep ends
    closed,    \* self._closed
    since,     \* history: a moment, chosen at the start,
    used       \* and used[s][m]: the tokens of stream m taken since then

time == <<arrival, deadline, until, rank>>
vars == <<now, place, shard, time, bucket, loop, held, wake, closed, since, used>>

\* admitted, expired: drained, and waiting for the dispatch by the task that
\* drained it; sending: in the collector or in a PutRecords.
Place == {"idle", "aggregator", "queue", "admitted", "expired", "sending", "success",
          "failure", "lost"}
Over == {"success", "failure", "lost"}

Init ==
    /\ now = 0
    /\ place = [r \in Record |-> "idle"]
    /\ shard \in [Record -> Shard]
    /\ arrival = [r \in Record |-> 0]
    /\ deadline = [r \in Record |-> 0]
    /\ until = [r \in Record |-> 0]
    /\ rank = [r \in Record |-> 0]
    /\ bucket = [s \in Shard |-> FullBucket(0)]
    /\ loop = "unstarted"
    /\ held = {}
    /\ wake = 0
    /\ closed = FALSE
    /\ since \in Origin
    /\ used = [s \in Shard |-> [m \in Stream |-> 0]]

Later(a, b) == IF a < b THEN b ELSE a

-----------------------------------------------------------------------------
(* ShardLimiter                                                            *)

Queue(s) == {r \in Record : place[r] = "queue" /\ shard[r] = s}

\* Mutant: the queue is in order of insertion.
BeforeFifo(p, r, rk) == rk[p] < rk[r]

\* The order of the SortedKeyList; rk: the insertion ranks.
Before(p, r, rk) ==
    \/ deadline[p] < deadline[r]
    \/ deadline[p] = deadline[r] /\ rk[p] < rk[r]

UpTo(r, Q, rk) == {r} \cup {p \in Q : Before(p, r, rk)}

\* [1, head.batch.size] for each batch of S.
Cost(S) == [m \in Stream |-> IF m = "records" THEN Cardinality(S) ELSE BytesOf(S)]

\* The while loop of drain: from the front, as long as try_take succeeds.
Admitted(Q, b, rk) ==
    {r \in Q : \A p \in UpTo(r, Q, rk) : CanTake(b, Cost(UpTo(p, Q, rk)), now)}

\* The try_take that ends the loop, on the head that stays.
TryHead(Q, b, rk) ==
    IF Q = {} THEN b
    ELSE LET head == CHOOSE r \in Q : UpTo(r, Q, rk) = {r}
         IN  TryTake(b, Cost({head}), now)

\* The bucket of a shard after drain admitted A of the queue Q.
Debited(Q, A, b, rk) ==
    TryHead(Q \ A, IF A = {} THEN b ELSE TryTake(b, Cost(A), now), rk)

\* The batches of Q past their expires_at.
Expired(Q, un) == {r \in Q : un[r] <= now}

\* drain() of the shards S with the queues queue[s]: what expired leaves first
\* and takes no tokens, then what the bucket admits.
Drain(S, queue, rk, un) ==
    LET gone(s)  == Expired(queue[s], un)
        rest(s)  == queue[s] \ gone(s)
        taken(s) == Admitted(rest(s), bucket[s], rk)
    IN  /\ place' = [r \in Record |->
                IF \E s \in S : r \in gone(s) THEN "expired"
                ELSE IF \E s \in S : r \in taken(s) THEN "admitted"
                ELSE IF \E s \in S : r \in rest(s) THEN "queue"
                ELSE place[r]]
        /\ bucket' = [s \in Shard |->
                IF s \in S THEN Debited(rest(s), taken(s), bucket[s], rk) ELSE bucket[s]]
        /\ used' = [s \in Shard |-> [m \in Stream |->
                used[s][m] + IF s \in S /\ since <= now THEN Cost(taken(s))[m] ELSE 0]]

-----------------------------------------------------------------------------
(* Limiter                                                                 *)

\* Mutant: the loop is left to be started by a batch that has to wait.
StartLoopLazily ==
    IF loop = "unstarted" /\ ~closed /\ \E r \in Record : place[r] = "queue"
    THEN loop' = "sleeping" /\ wake' = now + DrainInterval
    ELSE UNCHANGED <<loop, wake>>

\* The first put starts the drain loop, which begins with a sleep.
StartLoop ==
    IF loop = "unstarted" /\ ~closed
    THEN loop' = "sleeping" /\ wake' = now + DrainInterval
    ELSE UNCHANGED <<loop, wake>>

\* The rank of the next batch in the queue of s.
NextRank(s) ==
    LET ranks == {rank[p] : p \in Queue(s)}
    IN  IF ranks = {} THEN 1 ELSE 1 + CHOOSE n \in ranks : \A k \in ranks : k <= n

\* put(batch): enqueue in the limiter of its predicted shard, drain that one.
\* The limiter of a shard is made with a full bucket by its first put, which
\* is no different from having had it since the start.
Put(r, s) ==
    LET queue == [t \in Shard |-> Queue(t) \cup (IF t = s THEN {r} ELSE {})]
        rk == [rank EXCEPT ![r] = NextRank(s)]
        un == [until EXCEPT ![r] = now + Ttl]
    IN  /\ place[r] = "aggregator"
        /\ shard' = [shard EXCEPT ![r] = s]
        /\ Drain({s}, queue, rk, un)
        /\ rank' = rk /\ until' = un
        /\ StartLoop
        /\ UNCHANGED <<now, arrival, deadline, held, closed, since>>

\* The body of the drain loop after its sleep: all shards, under one lock.
DrainLoop ==
    /\ loop = "sleeping"
    /\ wake <= now
    /\ Drain(Shard, [s \in Shard |-> Queue(s)], rank, until)
    /\ loop' = "dispatching"
    /\ held' = {r \in Record : place[r] = "queue" /\ place'[r] # "queue"}
    /\ UNCHANGED <<now, shard, time, wake, closed, since>>

\* Everything is dispatched: sleep again.
DrainLoopSleeps ==
    /\ loop = "dispatching"
    /\ held = {}
    /\ loop' = "sleeping"
    /\ wake' = now + DrainInterval
    /\ UNCHANGED <<now, place, shard, time, bucket, held, closed, since, used>>

\* flush(): drain_force of every shard, whatever the tokens, none taken.
Flush ==
    /\ place' = [r \in Record |->
            IF place[r] = "queue"
            THEN IF until[r] <= now THEN "expired" ELSE "admitted"
            ELSE place[r]]
    /\ UNCHANGED <<now, shard, time, bucket, loop, held, wake, closed, since, used>>

\* aclose(): the loop's task is cancelled, at whichever await; what it had
\* drained is gone.
Aclose ==
    /\ ~closed
    /\ closed' = TRUE
    /\ loop' = IF loop = "unstarted" THEN loop ELSE "cancelled"
    /\ place' = [r \in Record |-> IF r \in held THEN "lost" ELSE place[r]]
    /\ held' = {}
    /\ wake' = 0
    /\ UNCHANGED <<now, shard, time, bucket, since, used>>

-----------------------------------------------------------------------------
(* The stages around it                                                    *)

\* put_record: build_buffered stamps the arrival and the deadline.
Submit(r) ==
    /\ place[r] = "idle"
    /\ place' = [place EXCEPT ![r] = "aggregator"]
    /\ arrival' = [arrival EXCEPT ![r] = now]
    /\ deadline' = [deadline EXCEPT ![r] = now + BufferedTime]
    /\ until' = [until EXCEPT ![r] = now + BufferedTime]
    /\ UNCHANGED <<now, shard, rank, bucket, loop, held, wake, closed, since, used>>

\* on_admit: the collector keeps the batch at most until its deadline, then a
\* send task has it.
Admit(r) ==
    /\ place[r] = "admitted"
    /\ place' = [place EXCEPT ![r] = "sending"]
    /\ until' = [until EXCEPT ![r] = Later(deadline[r], now) + SendTime]
    /\ rank' = [rank EXCEPT ![r] = 0]
    /\ held' = held \ {r}
    /\ UNCHANGED <<now, shard, arrival, deadline, bucket, loop, wake, closed, since, used>>

\* on_finish.  What the record was stamped with is of no more use.
Finish(r, result) ==
    /\ place' = [place EXCEPT ![r] = result]
    /\ arrival' = [arrival EXCEPT ![r] = 0]
    /\ deadline' = [deadline EXCEPT ![r] = 0]
    /\ until' = [until EXCEPT ![r] = 0]

\* Mutant: the age is measured from the deadline, which a retry renews.
RetryNotExpiredAnew(r) ==
    IF now - deadline[r] > Ttl
    THEN Finish(r, "failure")
    ELSE /\ place' = [place EXCEPT ![r] = "aggregator"]
         /\ deadline' = [deadline EXCEPT ![r] = now + RetryDelay]
         /\ until' = [until EXCEPT ![r] = now + RetryDelay]
         /\ UNCHANGED arrival

\* _retry_not_expired: fail, or put_buffered with a new deadline and the old
\* arrival time.
RetryNotExpired(r) ==
    IF now - arrival[r] > Ttl
    THEN Finish(r, "failure")
    ELSE /\ place' = [place EXCEPT ![r] = "aggregator"]
         /\ deadline' = [deadline EXCEPT ![r] = now + RetryDelay]
         /\ until' = [until EXCEPT ![r] = now + RetryDelay]
         /\ UNCHANGED arrival

\* on_expired: _handle_expired gives the batch to the retrier as a request
\* error.
Expire(r) ==
    /\ place[r] = "expired"
    /\ RetryNotExpired(r)
    /\ rank' = [rank EXCEPT ![r] = 0]
    /\ held' = held \ {r}
    /\ UNCHANGED <<now, shard, bucket, loop, wake, closed, since, used>>

\* The answer to the PutRecords, and its classification: success, a failure
\* that is final because throttled and fail_if_throttled, or a failure.
Reply(r) ==
    /\ place[r] = "sending"
    /\ \/ \E result \in {"success", "failure"} : Finish(r, result)
       \/ RetryNotExpired(r)
    /\ UNCHANGED <<now, shard, rank, bucket, loop, held, wake, closed, since, used>>

\* Time passes when no task is ready: nothing is left to dispatch, the loop
\* sleeps, no timer of the aggregator and no answer is due.
Tick ==
    /\ now < MaxTime
    /\ \A r \in Record :
           /\ place[r] \notin {"admitted", "expired"}
           /\ place[r] \in {"aggregator", "sending"} => until[r] > now
    /\ loop # "dispatching"
    /\ loop = "sleeping" => wake > now
    /\ now' = now + 1
    /\ UNCHANGED <<place, shard, time, bucket, loop, held, wake, closed, since, used>>

Next ==
    \/ \E r \in Record : Submit(r) \/ Admit(r) \/ Expire(r) \/ Reply(r)
    \/ \E r \in Record, s \in Shard : Put(r, s)
    \/ DrainLoop \/ DrainLoopSleeps
    \/ Flush \/ Aclose
    \/ Tick

Spec == Init /\ [][Next]_vars

-----------------------------------------------------------------------------
(* Properties                                                              *)

\* Types of the state.  Tokens are natural numbers: no stream is overdrawn.
TypeOK ==
    /\ now \in Nat
    /\ place \in [Record -> Place]
    /\ shard \in [Record -> Shard]
    /\ {arrival, deadline, until, rank} \subseteq [Record -> Nat]
    /\ bucket \in [Shard -> Bucket]
    /\ loop \in {"unstarted", "sleeping", "dispatching", "cancelled"}
    /\ held \in SUBSET Record
    /\ wake \in Nat
    /\ closed \in BOOLEAN
    /\ since \in Nat
    /\ used \in [Shard -> [Stream -> Nat]]

\* The rate limit: what drains have admitted on a shard since any moment t is
\* at most a full bucket and the growth since t, in records and in bytes,
\* however puts, the drain loop and failed takes interleave.
RateKept ==
    \A s \in Shard, m \in Stream :
        since <= now => used[s][m] <= MaxTokens[m] + Rate[m] * (now - since)

\* While the limiter is open nothing stays queued longer than its expiration
\* and one drain interval: a batch too large ever to be admitted does not
\* block the batches behind it for longer than that, and no put is left
\* without a running loop.
QueueDrains ==
    ~closed => \A r \in Record : place[r] = "queue" => now <= until[r] + DrainInterval

\* A batch is admitted by tokens before every batch of the same shard that has
\* a later deadline, and after every one that has an earlier one.
AdmitsByDeadline ==
    [][bucket' # bucket =>
         \A p, r \in Record :
             place'[p] = "admitted" /\ place[p] # "admitted" /\ place'[r] = "queue"
                 /\ shard'[p] = shard'[r] => deadline[p] <= deadline[r]]_vars

\* How long a record can live: until the TTL check that lets it be retried for
\* the last time, its retry delay, and a second full expiration in a queue.
Lifetime == Later(BufferedTime, Ttl + RetryDelay) + Ttl + Later(DrainInterval, SendTime)

\* record_ttl_ms bounds a record's life, though only through the retrier's
\* check on a failure, a fresh expires_at per put, and `<=` in one place
\* against `>` in the other: it is resolved within Lifetime.
LifetimeBounded ==
    ~closed => \A r \in Record : place[r] \notin Over \cup {"idle"} => now - arrival[r] <= Lifetime
=============================================================================
