---------------------------- MODULE Aggregation ----------------------------
(***************************************************************************)
(* The KPL wire format (aggregation.py) as operators on byte strings,      *)
(* which are sequences of 0..255; strings are already encoded as UTF-8.    *)
(* A message is the encoding of a sequence of fields, a field has a tag    *)
(* (number and wire type) and a value.  A decoder that raises returns      *)
(* ValueError.  Loops are recursive functions of the number of rounds.     *)
(***************************************************************************)
EXTENDS Integers, Sequences, SequencesExt

CONSTANTS None, ValueError

MAGIC == <<243, 137, 154, 194>>
MD5_LEN == 16
WIRE_VARINT == 0
WIRE_LENGTH_DELIMITED == 2
MAX_VARINT == 10    \* the bytes of a varint before the decoder's shift passes 64

ByteString == Seq(0..255)
Tag == [key : ByteString, value : ByteString \cup {None}]
UserRecord == [partition_key : ByteString, explicit_hash_key : ByteString \cup {None},
               data : ByteString, tags : Seq(Tag)]
Field == [tag : Nat, value : Nat \cup ByteString]

\* Neither constant is a value of the wire format.
ASSUME CodecAssumption ==
    /\ None \notin Nat \cup ByteString
    /\ ValueError \notin [value : Nat \cup ByteString, next : Nat]
    /\ ValueError \notin [field : Field, next : Nat]
    /\ ValueError \notin Seq(Field) \cup Tag \cup UserRecord

\* hashlib.md5: some function of the payload with sixteen bytes; which one
\* makes no difference to the framing.
Md5(p) ==
    [i \in 1..MD5_LEN |-> IF i <= Len(p) THEN p[Len(p) - i + 1] ELSE Len(p) % 256]

-----------------------------------------------------------------------------
(* Varints and fields                                                      *)

\* Seven bits at a time, the lowest first; the high bit announces another byte.
EncodeVarint[v \in Nat] ==
    IF v > 127 THEN <<(v % 128) + 128>> \o EncodeVarint[v \div 128] ELSE <<v>>

\* The varint at pos, or what is left of it when k more bytes are allowed.
DecodeVarint(buf, pos) ==
    LET Left[k \in 0..MAX_VARINT] ==
            LET at == pos + MAX_VARINT - k
                rest == Left[k - 1]
            IN  IF k = 0 \/ at > Len(buf) THEN ValueError
                ELSE IF buf[at] < 128 THEN [value |-> buf[at], next |-> at + 1]
                ELSE IF rest = ValueError THEN ValueError
                ELSE [value |-> buf[at] - 128 + 128 * rest.value, next |-> rest.next]
    IN  Left[MAX_VARINT]

LengthDelimited(num, p) == [tag |-> num * 8 + WIRE_LENGTH_DELIMITED, value |-> p]
Uint64(num, v) == [tag |-> num * 8 + WIRE_VARINT, value |-> v]

Repeated(num, ps) == [i \in DOMAIN ps |-> LengthDelimited(num, ps[i])]

EncodeField(f) ==
    EncodeVarint[f.tag]
    \o (IF f.tag % 8 = WIRE_VARINT
        THEN EncodeVarint[f.value]
        ELSE EncodeVarint[Len(f.value)] \o f.value)

\* A message: its fields are written one after the other.
Encode(fs) == FlattenSeq([i \in DOMAIN fs |-> EncodeField(fs[i])])

\* Mutant: a length that runs past the end is cut off, as a slice would be.
PayloadSliced(buf, len) ==
    IF len = ValueError THEN ValueError
    ELSE LET last == len.next + len.value - 1
             end == IF last > Len(buf) THEN Len(buf) ELSE last
         IN  [value |-> SubSeq(buf, len.next, end), next |-> end + 1]

\* The payload of a length-delimited field, whose length is len.
Payload(buf, len) ==
    IF len = ValueError THEN ValueError
    ELSE IF len.next + len.value - 1 > Len(buf) THEN ValueError
    ELSE [value |-> SubSeq(buf, len.next, len.next + len.value - 1),
          next  |-> len.next + len.value]

\* The value of a field, known or to be skipped; other wire types raise.
FieldValue(buf, tag) ==
    IF tag.value % 8 = WIRE_VARINT THEN DecodeVarint(buf, tag.next)
    ELSE IF tag.value % 8 = WIRE_LENGTH_DELIMITED
    THEN Payload(buf, DecodeVarint(buf, tag.next))
    ELSE ValueError

\* The field at pos.
ReadField(buf, pos) ==
    LET tag == DecodeVarint(buf, pos)
        val == IF tag = ValueError THEN ValueError ELSE FieldValue(buf, tag)
    IN  IF val = ValueError THEN ValueError
        ELSE [field |-> [tag |-> tag.value, value |-> val.value], next |-> val.next]

\* The fields of a message, in order: every decoder's loop, with n bytes to go.
Fields(buf) ==
    LET Rest[n \in 0..Len(buf)] ==
            LET f == ReadField(buf, Len(buf) + 1 - n)
                rest == Rest[Len(buf) + 1 - f.next]
            IN  IF n = 0 THEN <<>>
                ELSE IF f = ValueError THEN ValueError
                ELSE IF rest = ValueError THEN ValueError
                ELSE <<f.field>> \o rest
    IN  Rest[Len(buf)]

\* The values of the fields with a number and a wire type; others are skipped.
Values(fs, num, wire) ==
    FlattenSeq([i \in DOMAIN fs |->
                   IF fs[i].tag = num * 8 + wire THEN <<fs[i].value>> ELSE <<>>])

\* A field that is not repeated: its last occurrence.
Value(fs, num, wire) ==
    LET all == Values(fs, num, wire)
    IN  IF all = <<>> THEN None ELSE Last(all)

-----------------------------------------------------------------------------
(* Encoding                                                                *)

TagFields(t) ==
    <<LengthDelimited(1, t.key)>>
    \o (IF t.value = None THEN <<>> ELSE <<LengthDelimited(2, t.value)>>)

TagMessages(r) == [i \in DOMAIN r.tags |-> Encode(TagFields(r.tags[i]))]

RecordFields(pk, ehk, r) ==
    <<Uint64(1, pk)>>
    \o (IF ehk = None THEN <<>> ELSE <<Uint64(2, ehk)>>)
    \o <<LengthDelimited(3, r.data)>>
    \o Repeated(4, TagMessages(r))

\* A number that the decoder's bytes can hold: below 2^70, as any length is.
Readable(v) == Len(EncodeVarint[v]) <= MAX_VARINT

ReadableTag(t) ==
    /\ t \in Tag
    /\ Readable(Len(t.key))
    /\ t.value # None => Readable(Len(t.value))
    /\ Readable(Len(Encode(TagFields(t))))

ReadableRecord(r) ==
    /\ r \in UserRecord
    /\ Readable(Len(r.partition_key)) /\ Readable(Len(r.data))
    /\ r.explicit_hash_key # None => Readable(Len(r.explicit_hash_key))
    /\ \A i \in DOMAIN r.tags : ReadableTag(r.tags[i])

\* The tables of the builder: keys in order of first use, without duplicates.
WithKey(table, k) == IF k = None \/ k \in ToSet(table) THEN table ELSE Append(table, k)

\* Mutant: one table index for all the keys that are not the first.
IndexCapped(table, k) == IF k = None THEN None ELSE IF table[1] = k THEN 0 ELSE 1

\* _pk_index and _ehk_index.
Index(table, k) ==
    IF k = None THEN None ELSE (CHOOSE i \in DOMAIN table : table[i] = k) - 1

Builder == [pks |-> <<>>, ehks |-> <<>>, records |-> <<>>]

BuilderAdd(b, r) ==
    LET pks  == WithKey(b.pks, r.partition_key)
        ehks == WithKey(b.ehks, r.explicit_hash_key)
    IN  [pks |-> pks, ehks |-> ehks,
         records |-> Append(b.records,
                            Encode(RecordFields(Index(pks, r.partition_key),
                                                Index(ehks, r.explicit_hash_key), r)))]

Built(rs) ==
    LET B[n \in 0..Len(rs)] == IF n = 0 THEN Builder ELSE BuilderAdd(B[n - 1], rs[n])
    IN  B[Len(rs)]

Serialize(b) == Encode(Repeated(1, b.pks) \o Repeated(2, b.ehks) \o Repeated(3, b.records))

Framed(proto) == MAGIC \o proto \o Md5(proto)

\* A single record is sent raw.
EncodeAggregated(rs) ==
    IF Len(rs) = 1 THEN rs[1].data ELSE Framed(Serialize(Built(rs)))

-----------------------------------------------------------------------------
(* Decoding                                                                *)

TagOf(f) ==
    LET key == Value(f, 1, WIRE_LENGTH_DELIMITED)
    IN  IF f = ValueError \/ key = None
        THEN ValueError
        ELSE [key |-> key, value |-> Value(f, 2, WIRE_LENGTH_DELIMITED)]

DecodeTag(buf) == TagOf(Fields(buf))

RecordOf(f, pks, ehks) ==
    LET pk   == Value(f, 1, WIRE_VARINT)
        ehk  == Value(f, 2, WIRE_VARINT)
        data == Value(f, 3, WIRE_LENGTH_DELIMITED)
        msgs == Values(f, 4, WIRE_LENGTH_DELIMITED)
        tags == [i \in DOMAIN msgs |-> DecodeTag(msgs[i])]
    IN  IF \/ f = ValueError
           \/ \E i \in DOMAIN tags : tags[i] = ValueError
           \/ pk = None
           \/ data = None
           \/ pk >= Len(pks)
           \/ ehk # None /\ ehk >= Len(ehks)
        THEN ValueError
        ELSE [partition_key |-> pks[pk + 1],
              explicit_hash_key |-> IF ehk = None THEN None ELSE ehks[ehk + 1],
              data |-> data,
              tags |-> tags]

DecodeRecord(buf, pks, ehks) == RecordOf(Fields(buf), pks, ehks)

RecordsOf(f) ==
    LET pks   == Values(f, 1, WIRE_LENGTH_DELIMITED)
        ehks  == Values(f, 2, WIRE_LENGTH_DELIMITED)
        blobs == Values(f, 3, WIRE_LENGTH_DELIMITED)
        records == [i \in DOMAIN blobs |-> DecodeRecord(blobs[i], pks, ehks)]
    IN  IF f = ValueError \/ \E i \in DOMAIN records : records[i] = ValueError
        THEN ValueError
        ELSE records

IsAggregated(p) == Len(p) >= Len(MAGIC) + MD5_LEN /\ IsPrefix(MAGIC, p)

DecodeAggregated(p) ==
    LET proto == SubSeq(p, Len(MAGIC) + 1, Len(p) - MD5_LEN)
    IN  IF ~IsAggregated(p) \/ p # Framed(proto) THEN ValueError ELSE RecordsOf(Fields(proto))
=============================================================================
