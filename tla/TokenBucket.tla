---------------------------- MODULE TokenBucket ----------------------------
(***************************************************************************)
(* The two-stream token bucket of a shard (token_bucket.py).  A bucket is  *)
(* a record of streams; each query grows a stream for the time since its   *)
(* last growth.  Tokens and time are integers: a tick is a fraction of a   *)
(* second and Rate is per tick, so no rounding occurs.                     *)
(***************************************************************************)
EXTENDS Integers

CONSTANTS
    Rate,       \* Rate[s]: tokens per tick
    MaxTokens   \* MaxTokens[s]: the most the stream can hold

Stream == {"records", "bytes"}

ASSUME TokenBucketAssumption ==
    /\ Rate \in [Stream -> Nat]
    /\ MaxTokens \in [Stream -> Nat]

Bucket == [Stream -> [tokens : Nat, last : Nat]]

\* TokenBucket(initial_full=True), as ShardLimiter makes it.
FullBucket(now) == [s \in Stream |-> [tokens |-> MaxTokens[s], last |-> now]]

\* Mutant: a growth does not move the time of the last growth.
GrowAgain(s, st, now) ==
    LET grown == st.tokens + Rate[s] * (now - st.last)
    IN  [tokens |-> IF grown < MaxTokens[s] THEN grown ELSE MaxTokens[s],
         last   |-> st.last]

\* _grow: nothing changes, not even the time, unless something grows.
Grow(s, st, now) ==
    LET growth == Rate[s] * (now - st.last)
        grown  == st.tokens + growth
    IN  IF growth > 0
        THEN [tokens |-> IF grown < MaxTokens[s] THEN grown ELSE MaxTokens[s],
              last   |-> now]
        ELSE st

\* What a query grows: the streams in order, up to the first that fails.
Grown(b, amounts, now) ==
    LET first == Grow("records", b["records"], now)
    IN  [b EXCEPT !["records"] = first,
                  !["bytes"] = IF amounts["records"] > first.tokens THEN @
                               ELSE Grow("bytes", @, now)]

\* Mutant: the decision is taken on the stream of records alone.
CanTakeRecords(b, amounts, now) ==
    amounts["records"] <= Grow("records", b["records"], now).tokens

CanTake(b, amounts, now) ==
    \A s \in Stream : amounts[s] <= Grow(s, b[s], now).tokens

\* try_take: every stream is debited or none.
TryTake(b, amounts, now) ==
    LET g == Grown(b, amounts, now)
    IN  IF CanTake(b, amounts, now)
        THEN [s \in Stream |-> [g[s] EXCEPT !.tokens = @ - amounts[s]]]
        ELSE g
=============================================================================
