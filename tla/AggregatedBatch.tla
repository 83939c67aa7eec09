-------------------------- MODULE AggregatedBatch --------------------------
(***************************************************************************)
(* The aggregator's container (aggregator.py, AggregatedBatch): records    *)
(* are added one at a time and the last one may be taken back, with a size *)
(* estimate that the reducer compares with its limit and that the batch's  *)
(* encoding is held against here.                                          *)
(***************************************************************************)
EXTENDS Aggregation, FiniteSets

CONSTANTS
    Records,    \* the records that may be added
    MaxRecords  \* bound on the length of a batch

\* Fields that the schema does not have, as a later version of it may.
Additions == {<<>>, <<Uint64(9, 300), LengthDelimited(9, <<1, 2>>)>>}

\* Every index and every length is one that a decoder can read.
ASSUME BatchAssumption ==
    /\ MaxRecords \in Nat
    /\ \A i \in 0..MaxRecords : Readable(i)
    /\ \A r \in Records :
        /\ ReadableRecord(r)
        /\ \A u \in Additions, pk \in 0..MaxRecords, ehk \in 0..MaxRecords \cup {None} :
               Readable(Len(Encode(u \o RecordFields(pk, ehk, r) \o u)))

VARIABLES
    items,     \* self._items
    estimate,  \* self._size_estimate
    pkSet,     \* self._pk_set
    ehkSet     \* self._ehk_set

vars == <<items, estimate, pkSet, ehkSet>>

RECORD_FRAMING  == 3
FIELD_FRAMING   == 3
INDEX_REFERENCE == 2

Empty == [items |-> <<>>, estimate |-> 0, pkSet |-> {}, ehkSet |-> {}]

Init ==
    /\ items = <<>>
    /\ estimate = 0
    /\ pkSet = {}
    /\ ehkSet = {}

\* What a key costs: nothing if the batch has it.
KeyCost(set, k) == IF k = None \/ k \in set THEN 0 ELSE Len(k) + FIELD_FRAMING

\* add, on a batch as a value.
Plus(b, r) ==
    [items    |-> Append(b.items, r),
     estimate |-> b.estimate + RECORD_FRAMING + Len(r.data) + FIELD_FRAMING + INDEX_REFERENCE
                  + KeyCost(b.pkSet, r.partition_key)
                  + KeyCost(b.ehkSet, r.explicit_hash_key),
     pkSet    |-> b.pkSet \cup {r.partition_key},
     ehkSet   |-> b.ehkSet \cup ({r.explicit_hash_key} \ {None})]

\* The batch that adding rs one by one makes.
Rebuilt(rs) ==
    LET B[n \in 0..Len(rs)] == IF n = 0 THEN Empty ELSE Plus(B[n - 1], rs[n])
    IN  B[Len(rs)]

Batch == [items |-> items, estimate |-> estimate, pkSet |-> pkSet, ehkSet |-> ehkSet]

Becomes(b) ==
    /\ items' = b.items
    /\ estimate' = b.estimate
    /\ pkSet' = b.pkSet
    /\ ehkSet' = b.ehkSet

Add(r) ==
    /\ Len(items) < MaxRecords
    /\ Becomes(Plus(Batch, r))

\* Mutant: the keys of the record taken back stay in the sets.
RemoveLastKeepsKeys ==
    /\ items # <<>>
    /\ items' = Front(items)
    /\ estimate' = Rebuilt(Front(items)).estimate
    /\ UNCHANGED <<pkSet, ehkSet>>

\* remove_last rebuilds the sets and the estimate from the records kept.
RemoveLast ==
    /\ items # <<>>
    /\ Becomes(Rebuilt(Front(items)))

Next == RemoveLast \/ \E r \in Records : Add(r)

Spec == Init /\ [][Next]_vars

Blob == EncodeAggregated(items)

-----------------------------------------------------------------------------
(* Properties                                                              *)

\* What was aggregated is what a consumer gets: every record with its keys,
\* its data and its tags, in order, whatever keys they share and wherever the
\* message has fields that the schema does not have ("forward-compat with any
\* future Kinesis-side additions"); and a single record is its own data.
RoundTrip ==
    /\ Len(items) = 1 => Blob = items[1].data
    /\ Len(items) > 1 =>
        LET b == Built(items)
            With(u) == Framed(u \o Encode(Repeated(1, b.pks)) \o u \o Encode(Repeated(2, b.ehks))
                \o Encode(Repeated(3, [i \in DOMAIN b.records |-> u \o b.records[i] \o u])))
        IN  /\ Blob = With(<<>>)
            /\ \A u \in Additions : DecodeAggregated(With(Encode(u))) = items

\* A message that ends early (its digest matching) is refused, or yields the
\* records that are whole: no decoder returns part of a record.
NoPartialRecord ==
    Len(items) > 1 =>
        LET proto == SubSeq(Blob, Len(MAGIC) + 1, Len(Blob) - MD5_LEN)
        IN  \A n \in 0..Len(proto) :
                LET d == DecodeAggregated(Framed(SubSeq(proto, 1, n)))
                IN  d = ValueError \/ IsPrefix(d, items)

TWO_BYTES == 128 * 128    \* the first length whose varint takes three

\* Records whose varints are no longer than the framing constants allow for:
\* two bytes for a length, one for an index.
SmallRecords ==
    /\ MaxRecords <= 128
    /\ \A r \in Records :
        /\ Len(r.partition_key) < TWO_BYTES /\ Len(r.data) < TWO_BYTES
        /\ r.explicit_hash_key # None => Len(r.explicit_hash_key) < TWO_BYTES
        /\ \A pk \in 0..MaxRecords, ehk \in 0..MaxRecords \cup {None} :
               Len(Encode(RecordFields(pk, ehk, r))) < TWO_BYTES

\* What the estimate does not count of a record: its tags, and its reference
\* to its explicit hash key.
TagBytes(r) == Len(Encode(Repeated(4, TagMessages(r))))
Uncounted(r) == TagBytes(r) + (IF r.explicit_hash_key = None THEN 0 ELSE INDEX_REFERENCE)

\* The estimate covers the encoding but for what it does not count, and for
\* magic and digest.  This is so for small records only: from TWO_BYTES on a
\* length takes more bytes than the framing constants allow for, from 128 on
\* an index does.
EstimateCovers ==
    items # <<>> =>
        Len(Blob) <= estimate + Len(MAGIC) + MD5_LEN
                     + SumFunction([i \in DOMAIN items |-> Uncounted(items[i])])
=============================================================================
