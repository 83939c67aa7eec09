------------------------------- MODULE MCSync -------------------------------
(* A small instance of SyncProducer: two threads put, with one slot.       *)
EXTENDS SyncProducer
=============================================================================
