----------------------------- MODULE MCRouting ------------------------------
(* Hash keys 0 .. 2: shard 0 is split between the two records, then its    *)
(* upper half is merged with shard 1.                                      *)
EXTENDS Routing, TLC

MCHash == 0 .. 2
MCTopology == <<{0, 1}, {2, 3, 1}, {2, 4}>>
MCLow  == 0 :> 0 @@ 1 :> 2 @@ 2 :> 0 @@ 3 :> 1 @@ 4 :> 1
MCHigh == 0 :> 1 @@ 1 :> 2 @@ 2 :> 0 @@ 3 :> 1 @@ 4 :> 2

CONSTANTS r1, r2
MCHashOf == r1 :> 0 @@ r2 :> 1
=============================================================================
