-------------------------------- MODULE Blob --------------------------------
(***************************************************************************)
(* blob.c: attributes in a buffer that grows.  An attribute is a header    *)
(* word with an id and a length, its payload and padding up to a multiple  *)
(* of four bytes; nested attributes are the payload of their parent, whose *)
(* length is set again with every change.                                  *)
(*                                                                         *)
(* A buffer is a record.  Offsets and lengths are bytes, as in the code;   *)
(* mem has, at the offset of each header, name and payload that has been   *)
(* written, what stands there, and keeps it when the buffer is used again. *)
(* wild says that an access has missed the buffer: bytes beyond buflen, or *)
(* a pointer from before a realloc.  ok is what realloc returns.           *)
(***************************************************************************)
EXTENDS Integers, SequencesExt, FiniteSetsExt

CONSTANTS Chunk,    \* by multiples of which the buffer grows: 256
          LenMod    \* BLOB_ATTR_LEN_MASK + 1

ASSUME BlobAssumption ==
    /\ Chunk \in Nat \ {0} /\ Chunk % 4 = 0
    /\ LenMod \in Nat \ {0} /\ LenMod % Chunk = 0

NoBuf == [buflen |-> 0, head |-> [off |-> 0, fresh |-> TRUE], mem |-> <<>>, wild |-> FALSE]
Null == [NoBuf EXCEPT !.buflen = -1]     \* what a function returns for NULL

Padded(n) == ((n + 3) \div 4) * 4

Zero == [id |-> "unspec", ext |-> FALSE, len |-> 0]     \* cleared memory, as a header
Word(b, off) == IF off \in DOMAIN b.mem THEN b.mem[off] ELSE Zero
Store(b, off, val) == [b EXCEPT !.mem = [o \in DOMAIN @ \cup {off} |-> IF o = off THEN val ELSE @[o]]]

blob_raw_len(b, off) == Word(b, off).len
blob_len(b, off) == Word(b, off).len - 4
blob_pad_len(b, off) == Padded(blob_raw_len(b, off))
blob_next(b, off) == off + blob_pad_len(b, off)
blob_set_raw_len(b, off, len) == Store(b, off, [Word(b, off) EXCEPT !.len = len % LenMod])

\* Bytes up to end are written; the head is used through its pointer
Touch(b, end) == [b EXCEPT !.wild = @ \/ end > b.buflen \/ ~b.head.fresh]

\* blob_buffer_grow and blob_buf_grow
Grown(b, required) == b.buflen + ((required \div Chunk) + 1) * Chunk
blob_buf_grow_Stale(b, required, ok) ==    \* mutant: head is not moved along
    IF b.buflen + required > LenMod - 1 \/ ~ok THEN Null
    ELSE [b EXCEPT !.buflen = Grown(b, required), !.head.fresh = b.buflen = 0]
blob_buf_grow(b, required, ok) ==
    IF b.buflen + required > LenMod - 1 \/ ~ok THEN Null
    ELSE [b EXCEPT !.buflen = Grown(b, required), !.head.fresh = TRUE]

\* blob_init and blob_fill_pad are the two writes at the end
Required(b, pos, payload) == pos + 4 + payload - b.buflen

blob_add(b, pos, id, payload, ok) ==
    LET required == Required(b, pos, payload)
        r == IF required > 0 THEN blob_buf_grow(b, required, ok) ELSE b
    IN IF r = Null THEN Null
       ELSE Touch(Store(r, pos, [id |-> id, ext |-> FALSE, len |-> (payload + 4) % LenMod]),
                  pos + Padded(payload + 4))

blob_buf_init(b, id, ok) == blob_add([b EXCEPT !.head = [off |-> 0, fresh |-> TRUE]], 0, id, 0, ok)

\* The new attribute is where the next one after head's payload would be
NewAt(b) == blob_next(b, b.head.off)

blob_new(b, id, payload, ok) ==
    LET r == blob_add(b, NewAt(b), id, payload, ok)
    IN IF r = Null THEN Null
       ELSE blob_set_raw_len(r, b.head.off, blob_pad_len(r, b.head.off) + blob_pad_len(r, NewAt(b)))

\* ptr points to an attribute with that id and that many bytes of payload, and
\* len counts its padding too: the head's length is set without any
blob_put_raw(b, id, payload, val, ok) ==
    LET len == Padded(4 + payload)
        r == blob_add(b, NewAt(b), "unspec", len - 4, ok)
    IN IF r = Null THEN Null
       ELSE Store(Store(blob_set_raw_len(r, b.head.off, blob_pad_len(r, b.head.off) + len),
                        NewAt(b), [id |-> id, ext |-> FALSE, len |-> 4 + payload]),
                  NewAt(b) + 4, val)

blob_put(b, id, payload, val, ok) ==
    LET r == blob_new(b, id, payload, ok)
    IN IF r = Null THEN Null ELSE Store(r, NewAt(b) + 4, val)

\* The cookie is the offset of the head at the time.  Without memory head is
\* NULL, and nothing more can be done with the buffer before blob_buf_init.
NoHead == -1
blob_nest_start(b, id, ok) ==
    LET r == blob_new(b, id, 0, ok)
    IN IF r = Null THEN [b EXCEPT !.head.off = NoHead] ELSE [r EXCEPT !.head.off = NewAt(b)]

blob_nest_end_Short(b, cookie) ==       \* mutant: the payloads without the parent's header
    [blob_set_raw_len(b, cookie, blob_len(b, cookie) + blob_len(b, b.head.off))
        EXCEPT !.head.off = cookie]
blob_nest_end(b, cookie) ==
    LET r == Touch(b, cookie + 4)
    IN [blob_set_raw_len(r, cookie, blob_pad_len(r, cookie) + blob_len(r, r.head.off))
            EXCEPT !.head.off = cookie]

-----------------------------------------------------------------------------
(* Reading.                                                                *)

\* blob_for_each_attr over the rem bytes at pos: where the attributes are,
\* each with the bytes that were left when it was reached
Attrs(b, pos, rem) ==
    LET step[p \in Nat, r \in Nat] ==
            IF r >= 4 /\ blob_pad_len(b, p) <= r /\ blob_pad_len(b, p) >= 4
            THEN <<[off |-> p, rem |-> r]>> \o step[blob_next(b, p), r - blob_pad_len(b, p)]
            ELSE <<>>
    IN step[pos, rem]

IntTypes == {"int8", "int16", "int32", "int64"}
blob_type_minlen == [string |-> 1, int8 |-> 1, int16 |-> 2, int32 |-> 4, int64 |-> 8, double |-> 8,
                     binary |-> 0, nested |-> 0]

\* val is the payload; a string's last byte must be a NUL
blob_check_type(val, len, type) ==
    /\ IF type \in IntTypes THEN len = blob_type_minlen[type] ELSE len >= blob_type_minlen[type]
    /\ type = "string" => val.nul

\* What blob_parse takes; info has the policy of the ids it knows
blob_parse_attr(b, a, info) ==
    LET w == Word(b, a.off)
        p == info[w.id]
    IN /\ w.id \in DOMAIN info
       /\ w.len \in 4..a.rem
       /\ blob_check_type(Word(b, a.off + 4), w.len - 4, p.type)
       /\ p.minlen = 0 \/ w.len >= p.minlen
       /\ p.maxlen = 0 \/ w.len <= p.maxlen

\* data[id] for every id, 0 for none: a later attribute replaces an earlier one
blob_parse(b, off, info) ==
    LET seen == Attrs(b, off + 4, blob_len(b, off))
        good == SelectSeq(seen, LAMBDA a : blob_parse_attr(b, a, info))
    IN FoldLeft(LAMBDA data, a : [data EXCEPT ![Word(b, a.off).id] = a.off],
                [id \in DOMAIN info |-> 0], good)

=============================================================================
