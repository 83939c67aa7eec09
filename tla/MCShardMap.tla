----------------------------- MODULE MCShardMap -----------------------------
(* A stream of hash keys 0 .. 3 whose shard 0 is split, then half of it    *)
(* merged away with shard 1.                                               *)
EXTENDS ShardMap, TLC

MCHash == 0 .. 3
MCTopology == <<{0, 1}, {2, 3, 1}, {2, 4}>>
MCLow  == 0 :> 0 @@ 1 :> 2 @@ 2 :> 0 @@ 3 :> 1 @@ 4 :> 1
MCHigh == 0 :> 1 @@ 1 :> 3 @@ 2 :> 0 @@ 3 :> 1 @@ 4 :> 3
=============================================================================
