----------------------------- MODULE MCProducer -----------------------------
(* Small instances of Producer.                                            *)
EXTENDS Producer, TLC

Symmetry == Permutations(Record)
=============================================================================
