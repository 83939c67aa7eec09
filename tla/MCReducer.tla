----------------------------- MODULE MCReducer -----------------------------
(***************************************************************************)
(* A small instance of Reducer that has what its two users bring: the size *)
(* estimate of the Aggregator (a partition key shared by several records   *)
(* is counted once) and the per-shard byte threshold of the Collector.     *)
(***************************************************************************)
EXTENDS Reducer, FiniteSetsExt, TLC

CONSTANTS i1, i2, i3, i4

MCItem == {i1, i2, i3, i4}

\* i3 and i4 tie.  Items arrive in any order: a retried record is added with
\* a deadline earlier than that of records already waiting.
MCDeadline == i1 :> 2 @@ i2 :> 1 @@ i3 :> 3 @@ i4 :> 3

\* AggregatedBatch: the data plus each distinct partition key once.
DataSize == i1 :> 5 @@ i2 :> 2 @@ i3 :> 1 @@ i4 :> 8
PartitionKey == i1 :> "n" @@ i2 :> "k" @@ i3 :> "n" @@ i4 :> "k"
AggregatedSize(S) ==
    MapThenSumSet(LAMBDA i : DataSize[i], S)
        + Cardinality({PartitionKey[i] : i \in S})

\* Collector.predicate: flush when the shard of the item just added has
\* per_shard_short_circuit_bytes in the batch.
ShardOf == i1 :> 1 @@ i2 :> 2 @@ i3 :> 1 @@ i4 :> 3
ShortCircuit == 7
PerShardBytes(i, S) == AggregatedSize({j \in S : ShardOf[j] = ShardOf[i]}) >= ShortCircuit
=============================================================================
