------------------------------ MODULE Batcher ------------------------------
(***************************************************************************)
(* What a batching stage promises: every item it accepts leaves in exactly *)
(* one batch, earliest deadlines first, or is discarded when the stage is  *)
(* closed.  Nothing is said of limits, timers and locks.  The buffers of   *)
(* Producer are used as if they were this; Reducer implements it.          *)
(***************************************************************************)
EXTENDS Integers

CONSTANTS Item, Deadline

VARIABLES
    waiting,  \* the items accepted that have not left
    batches,  \* the batches that have left
    lost      \* the items discarded

vars == <<waiting, batches, lost>>

Known == waiting \cup lost \cup UNION batches

Init ==
    /\ waiting = {}
    /\ batches = {}
    /\ lost = {}

Accept(i) ==
    /\ i \notin Known
    /\ waiting' = waiting \cup {i}
    /\ UNCHANGED <<batches, lost>>

\* A batch of the earliest of the items in S leaves; the others wait.
Close(S) ==
    /\ \E B \in (SUBSET S) \ {{}} :
           /\ \A i \in B, j \in S \ B : Deadline[i] <= Deadline[j]
           /\ waiting' = S \ B
           /\ batches' = batches \cup {B}
    /\ UNCHANGED lost

\* An item that fills the buffer leaves in the same step, or others do.
AcceptAndClose(i) ==
    /\ i \notin Known
    /\ Close(waiting \cup {i})

Discard ==
    /\ lost' = lost \cup waiting
    /\ waiting' = {}
    /\ UNCHANGED batches

Next ==
    \/ \E i \in Item : Accept(i) \/ AcceptAndClose(i)
    \/ Close(waiting)
    \/ Discard

Spec == Init /\ [][Next]_vars
=============================================================================
