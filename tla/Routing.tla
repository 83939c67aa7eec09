------------------------------ MODULE Routing ------------------------------
(***************************************************************************)
(* Where records go: prediction and per-shard batching in the aggregator,  *)
(* the shard Kinesis picks for a batch, the retrier's validation of that   *)
(* shard, and its calls of invalidate, composed with the shard map of the  *)
(* stream while the stream is resharded.                                   *)
(*                                                                         *)
(* The limiter, the collector and the request are one step here (Store):   *)
(* they keep batches as they are.  Deadlines are abstracted (any part of a *)
(* reducer may be closed), and record_ttl_ms to a bound on the attempts.   *)
(***************************************************************************)
EXTENDS ShardMap

CONSTANTS
    HashOf,       \* HashOf[r]: the hash key of record r
    MaxAttempts   \* how many attempts fit in record_ttl_ms

\* The handling of a batch calls invalidate under the name of its first record.
Record == Invalidator

NoShard == -1

ASSUME RoutingAssumption ==
    /\ NoShard \notin Shard
    /\ HashOf \in [Record -> Hash]
    /\ MaxAttempts \in Nat

VARIABLES
    at,        \* at[r]: "new", "buffered", "sent", "retried", "success" or "failure"
    key,       \* key[r]: the reducer r is in, that is its predicted shard
    batches,   \* the batches between the aggregator and the retrier
    attempts,  \* failed attempts of r
    reported,  \* reported[r]: the shard in the result of r
    copies     \* copies[r]: the shards that hold r

routeVars == <<at, key, batches, attempts, reported, copies>>
allVars == <<mapVars, routeVars>>

\* lead: the first record; actual: the shard of a response that came back.
Batch == [key : Shard \cup {NoShard}, recs : (SUBSET Record) \ {{}},
          lead : Record, actual : Shard \cup {NoShard}]

RoutingInit ==
    /\ MapInit
    /\ at = [r \in Record |-> "new"]
    /\ key = [r \in Record |-> NoShard]
    /\ batches = {}
    /\ attempts = [r \in Record |-> 0]
    /\ reported = [r \in Record |-> NoShard]
    /\ copies = [r \in Record |-> {}]

-----------------------------------------------------------------------------
\* put_buffered, for a new record of a pipeline that is built (start() has
\* returned) and for a retried one: predict, and add to that shard's reducer.
PutBuffered(r) ==
    /\ at[r] \in {"new", "retried"}
    /\ starting = "returned"
    /\ at' = [at EXCEPT ![r] = "buffered"]
    /\ key' = [key EXCEPT ![r] = IF Predict(HashOf[r]) = {} THEN NoShard
                                 ELSE CHOOSE s \in Predict(HashOf[r]) : TRUE]
    /\ UNCHANGED <<mapVars, batches, attempts, reported, copies>>

\* A reducer closes a batch, by a limit or by its timer.
CloseBatch ==
    /\ \E s \in Shard \cup {NoShard} :
       \E C \in (SUBSET {r \in Record : at[r] = "buffered" /\ key[r] = s}) \ {{}} :
       \E lead \in C :
           /\ batches' = batches \cup {[key |-> s, recs |-> C, lead |-> lead, actual |-> NoShard]}
           /\ at' = [r \in Record |-> IF r \in C THEN "sent" ELSE at[r]]
    /\ UNCHANGED <<mapVars, key, attempts, reported, copies>>

\* Mutant: an aggregated batch is routed by its partition key "a", whose hash
\* is, say, the last one.
AnchorOfKeyA(b) ==
    IF Cardinality(b.recs) > 1 THEN CHOOSE h \in Hash : \A k \in Hash : k <= h
    ELSE HashOf[b.lead]

\* The hash key a batch is sent with: its first record's.
Anchor(b) == HashOf[b.lead]

\* Kinesis stores the batch on the open shard that owns the anchor.
Store(b) ==
    /\ b \in batches /\ b.actual = NoShard
    /\ \E s \in Topology[epoch] :
           /\ InRange(Anchor(b), s)
           /\ batches' = (batches \ {b}) \cup {[b EXCEPT !.actual = s]}
           /\ copies' = [r \in Record |-> copies[r] \cup (IF r \in b.recs THEN {s} ELSE {})]
    /\ UNCHANGED <<mapVars, at, key, attempts, reported>>

\* The verdicts on a batch: success for the records in done; _retry_not_expired
\* for those in F, each of which is retried or has expired.
Retry(F, done) ==
    \E expired \in SUBSET F :
        /\ \A r \in F \ expired : attempts[r] < MaxAttempts
        /\ attempts' = [r \in Record |-> IF r \in F THEN attempts[r] + 1 ELSE attempts[r]]
        /\ at' = [r \in Record |-> CASE r \in done        -> "success"
                                     [] r \in expired     -> "failure"
                                     [] r \in F \ expired -> "retried"
                                     [] OTHER             -> at[r]]

\* The slot of the batch failed.
Reject(b) ==
    /\ b \in batches /\ b.actual = NoShard
    /\ batches' = batches \ {b}
    /\ Retry(b.recs, {})
    /\ UNCHANGED <<mapVars, key, reported, copies>>

\* Mutant: a successful slot is accepted whatever the shard.
AcceptedBlind(b) == b.recs

\* The records of a stored batch that _handle_success accepts.  (It also accepts
\* those whose actual shard id it cannot parse: no shard of Topology is such.)
Accepted(b) ==
    {r \in b.recs : b.key \in {NoShard, b.actual} \/ InKnownRange(HashOf[r], b.actual)}

\* _handle_success, with its call of invalidate(now, actual) after the first
\* record.  Its loop over the records is one step: the range of the actual shard
\* is read once, before it, and what a record does next (put_buffered) is a
\* step of its own.
HandleSuccess(b) ==
    /\ b \in batches /\ b.actual # NoShard
    /\ asking[b.lead] = Never
    /\ batches' = batches \ {b}
    /\ Retry(b.recs \ Accepted(b), Accepted(b))
    /\ reported' = [r \in Record |-> IF r \in Accepted(b) THEN b.actual ELSE reported[r]]
    /\ asking' = IF b.key \notin {NoShard, b.actual} /\ Worthwhile(b.actual)
                 THEN [asking EXCEPT ![b.lead] = now] ELSE asking
    /\ UNCHANGED <<stream, snap, backoff, refresh, starting, cleanup, closed, key, copies>>

Handling == \E b \in batches : Store(b) \/ Reject(b) \/ HandleSuccess(b)

RoutingNext ==
    \/ MapStep /\ UNCHANGED routeVars
    \/ \E r \in Record : PutBuffered(r)
    \/ CloseBatch
    \/ Handling

RoutingSpec == RoutingInit /\ [][RoutingNext]_allVars

\* Records once handed over are retried, closed by timers, sent and handled.
FairRoutingSpec ==
    /\ RoutingSpec
    /\ MapFairness
    /\ \A r \in Record : WF_allVars(PutBuffered(r))
    /\ WF_allVars(CloseBatch) /\ WF_allVars(Handling)

-----------------------------------------------------------------------------
(* Properties                                                              *)

\* Types of the routing state; attempts end with the TTL.
RoutingTypeOK ==
    /\ at \in [Record -> {"new", "buffered", "sent", "retried", "success", "failure"}]
    /\ key \in [Record -> Shard \cup {NoShard}]
    /\ batches \in SUBSET Batch
    /\ attempts \in [Record -> 0 .. (MaxAttempts + 1)]
    /\ reported \in [Record -> Shard \cup {NoShard}]
    /\ copies \in [Record -> SUBSET Shard]

\* A success is never reported for a record that lies on a shard outside whose
\* range its hash key is, where the consumer of that shard would find a record
\* that is not its own: whatever was resharded between prediction and storage.
SuccessOnRightShard ==
    \A r \in Record :
        at[r] = "success" => /\ reported[r] \in copies[r]
                             /\ InRange(HashOf[r], reported[r])

\* Kinesis answers with another shard than the predicted one only when that
\* one has been closed: prediction, grouping by shard and the anchor agree.
MismatchMeansResharded ==
    \A b \in batches :
        b.actual # NoShard /\ b.key \notin {NoShard, b.actual} => b.key \notin Topology[epoch]

\* architecture.md: a success on another shard than predicted is answered with
\* ShardMap.invalidate: the map comes to stop listing the closed shard.
MapCatchesUp ==
    \A s \in Shard :
        (\E b \in batches : b.key = s /\ b.actual \notin {NoShard, s}) ~> (s \notin listed)
=============================================================================
