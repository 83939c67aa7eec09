----------------------------- MODULE MCMetrics -----------------------------
(* Half-second ticks and a window of two seconds.  The upload interval and *)
(* an export together fit in it as WindowSuffices asks.                    *)
EXTENDS Metrics, TLC

CONSTANTS o1, o2, o3

MCObs == {o1, o2, o3}
MCValue == o1 :> 1 @@ o2 :> 3 @@ o3 :> 2
MCDimension == o1 :> "shard1" @@ o2 :> "shard1" @@ o3 :> "shard2"
=============================================================================
