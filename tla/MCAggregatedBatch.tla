------------------------- MODULE MCAggregatedBatch -------------------------
(* Records that share keys or do not, with and without hash key and tags,  *)
(* and with data around the length at which a varint takes a second byte.  *)
EXTENDS AggregatedBatch

Bytes(n) == [i \in 1..n |-> (i * 37) % 256]
Record(pk, ehk, data, tags) ==
    [partition_key |-> pk, explicit_hash_key |-> ehk, data |-> data, tags |-> tags]

MCRecords ==
    {Record(<<97>>, None, <<>>, <<>>),
     Record(<<97>>, <<49>>, Bytes(122), <<>>),
     Record(<<98, 99>>, <<49, 50>>, Bytes(128), <<>>),
     Record(<<98, 99>>, None, Bytes(127), <<[key |-> <<107>>, value |-> None]>>),
     Record(<<100>>, <<49>>, MAGIC, <<[key |-> <<>>, value |-> <<118>>],
                                      [key |-> <<107>>, value |-> <<>>]>>)}

\* The estimate's theorem is about records like these.
ASSUME MCSmall == SmallRecords
=============================================================================
