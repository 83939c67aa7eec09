----------------------------- MODULE MCLimiter -----------------------------
(***************************************************************************)
(* A tick is half a second of a shard that takes one record and two units  *)
(* of bytes per tick.  r2 is larger than the bucket can ever hold.         *)
(***************************************************************************)
EXTENDS Limiter, FiniteSetsExt, TLC

CONSTANTS r1, r2

MCRecord == {r1, r2}
MCRate == [records |-> 1, bytes |-> 2]
MCMaxTokens == [records |-> 2, bytes |-> 4]

Size == r1 :> 3 @@ r2 :> 5
MCBytesOf(S) == MapThenSumSet(LAMBDA r : Size[r], S)
=============================================================================
