------------------------------ MODULE Blobmsg -------------------------------
(***************************************************************************)
(* blobmsg.c: attributes with a type and a name, built in a blob buffer,   *)
(* and the functions that check and parse them.  A message is built by one *)
(* action per function of the API; a plain message of blob attributes is   *)
(* built by those of blob.h.  tree is what was asked for: a stack of the   *)
(* open containers, each with the attributes put so far.                   *)
(***************************************************************************)
EXTENDS Blob

CONSTANTS Names, NameLen,   \* names of fields, with their lengths; "" has length 0
          Fields,           \* [type, len, nul]: fields a program adds
          Policy,           \* sequence of [name, type], for blobmsg_parse
          ArrayPolicy,      \* sequence of types, for blobmsg_parse_array
          Info,             \* [id -> [type, minlen, maxlen]], for blob_parse
          PlainIds,         \* ids of plain attributes
          Texts,            \* lengths of texts printed into string buffers
          MaxDepth, MaxOps, \* bounds: open containers, operations of the program
          MaxMessages       \* bound: messages built in the same buffer

VARIABLES buf,      \* struct blob_buf
          cookies,  \* what the calls that open a container have returned
          tree,     \* history: the message asked for
          str,      \* the string buffer between alloc and add: its room, -1 for none
          ops, messages    \* what the bounds count

vars == <<buf, cookies, tree, str, ops, messages>>

Container(id, name) == [id |-> id, name |-> name, kids |-> <<>>]
Leaf(id, name, f) == [id |-> id, name |-> name, len |-> f.len, nul |-> f.nul]
NoName == "none"                        \* a plain attribute
Nested == {"table", "array", "nest"}

blobmsg_hdrlen(name) == Padded(2 + NameLen[name] + 1)

Put(t, a) == [t EXCEPT ![Len(t)].kids = Append(@, a)]
Close(t) == Put(Front(t), Last(t))

Init ==
    /\ buf = NoBuf
    /\ cookies = <<>> /\ tree = <<>> /\ str = -1
    /\ ops = 0 /\ messages = 0

\* The complete length of an attribute that was asked for, with its header
RECURSIVE Size(_)
Size(a) ==
    4 + (IF a.name = NoName THEN 0 ELSE blobmsg_hdrlen(a.name))
      + IF "len" \in DOMAIN a THEN a.len
        ELSE FoldLeft(LAMBDA n, kid : n + Padded(Size(kid)), 0, a.kids)

\* A length that BLOB_ATTR_LEN_MASK does not hold.  blob_buf_grow lets buflen
\* become LenMod, so that the outermost attribute can have LenMod bytes.
Full == \E i \in DOMAIN tree : Size(tree[i]) >= LenMod

\* Bound: a message that is full is freed or begun again.  blob_next takes the
\* 0 in its header for its length, so that the next attribute would be written
\* over that header, and mem no longer says which bytes are whose.
Plain == tree[1].id = "plain"
Busy == tree # <<>> /\ buf.head.off # NoHead
Op == ops < MaxOps /\ ~Full /\ ops' = ops + 1 /\ UNCHANGED messages

\* The result of a function that may fail, and leave everything as it was
Done(r, t) == IF r = Null THEN UNCHANGED <<buf, tree, str>>
                          ELSE buf' = r /\ tree' = t /\ str' = -1

\* blob_buf_init, blobmsg_buf_init: a new message in the same memory
InitBuf(id) ==
    /\ messages < MaxMessages
    /\ messages' = messages + 1 /\ UNCHANGED ops
    /\ \E ok \in BOOLEAN :
          LET r == blob_buf_init(buf, id, ok)
          IN IF r = Null THEN buf' = buf /\ tree' = <<>> ELSE buf' = r /\ tree' = <<Container(id, NoName)>>
    /\ cookies' = <<>> /\ str' = -1

blob_buf_free ==
    /\ Busy /\ messages < MaxMessages
    /\ buf' = NoBuf /\ cookies' = <<>> /\ tree' = <<>> /\ str' = -1
    /\ UNCHANGED <<ops, messages>>

-----------------------------------------------------------------------------
(* Plain attributes.                                                       *)

Value(f) == [nul |-> f.nul, len |-> f.len]

PutPlain(id, f) ==
    /\ Busy /\ Plain /\ Op
    /\ \E ok \in BOOLEAN : Done(blob_put(buf, id, f.len, Value(f), ok), Put(tree, Leaf(id, NoName, f)))
    /\ UNCHANGED cookies

PutRaw(id, f) ==
    /\ Busy /\ Plain /\ Op
    /\ \E ok \in BOOLEAN : Done(blob_put_raw(buf, id, f.len, Value(f), ok), Put(tree, Leaf(id, NoName, f)))
    /\ UNCHANGED cookies

NestStart ==
    /\ Busy /\ Plain /\ Op /\ Len(cookies) < MaxDepth
    /\ \E ok \in BOOLEAN :
          LET r == blob_nest_start(buf, "nest", ok)
          IN /\ buf' = r
             /\ IF r.head.off = NoHead THEN UNCHANGED <<cookies, tree>>
                ELSE cookies' = Append(cookies, buf.head.off) /\ tree' = Append(tree, Container("nest", NoName))
    /\ UNCHANGED str

\* blob_nest_end, blobmsg_close_table, blobmsg_close_array
NestEnd ==
    /\ Busy /\ cookies # <<>> /\ Op
    /\ buf' = blob_nest_end(buf, Last(cookies))
    /\ cookies' = Front(cookies) /\ tree' = Close(tree) /\ str' = -1

-----------------------------------------------------------------------------
(* Fields with a name.                                                     *)

\* The header of the attribute is followed by its name
blobmsg_new(b, type, name, payload, ok) ==
    LET at == NewAt(b)
        r == blob_new(b, type, blobmsg_hdrlen(name) + payload, ok)
    IN IF r = Null THEN Null
       ELSE Store(Store(r, at, [Word(r, at) EXCEPT !.ext = TRUE]), at + 4, [name |-> name])

blobmsg_data(b, off) == off + 4 + IF Word(b, off).ext THEN blobmsg_hdrlen(Word(b, off + 4).name) ELSE 0
blobmsg_data_len(b, off) == blob_len(b, off) - (blobmsg_data(b, off) - (off + 4))

blobmsg_add_field(name, f) ==
    /\ Busy /\ ~Plain /\ Op
    /\ \E ok \in BOOLEAN :
          LET r == blobmsg_new(buf, f.type, name, f.len, ok)
          IN Done(IF r = Null THEN Null ELSE Store(r, blobmsg_data(r, NewAt(buf)), Value(f)),
                  Put(tree, Leaf(f.type, name, f)))
    /\ UNCHANGED cookies

\* Only the four bytes of the header are left in the parent's length; the
\* name is counted when the container is closed
blobmsg_open_nested(name, id) ==
    /\ Busy /\ ~Plain /\ Op /\ Len(cookies) < MaxDepth
    /\ \E ok \in BOOLEAN :
          LET r == blobmsg_new(buf, id, name, 0, ok)
              h == buf.head.off
          IN IF r = Null THEN UNCHANGED <<buf, cookies, tree, str>>
             ELSE /\ buf' = [blob_set_raw_len(r, h, blob_pad_len(r, h) - blobmsg_hdrlen(name))
                                EXCEPT !.head.off = NewAt(buf)]
                  /\ cookies' = Append(cookies, h)
                  /\ tree' = Append(tree, Container(id, name))
                  /\ str' = -1

\* A string is printed behind the message, and is not a part of it before
\* blobmsg_add_string_buffer
blobmsg_alloc_string_buffer(name, maxlen) ==
    /\ Busy /\ ~Plain /\ Op
    /\ \E ok \in BOOLEAN :
          LET at == NewAt(buf)
              h == buf.head.off
              r == blobmsg_new(buf, "string", name, maxlen + 1, ok)
              s == blob_set_raw_len(r, h, blob_pad_len(r, h) - blob_pad_len(r, at))
          IN IF r = Null THEN UNCHANGED <<buf, str>>
             ELSE /\ buf' = blob_set_raw_len(s, at, blob_raw_len(s, at) - (maxlen + 1))
                  /\ str' = maxlen
    /\ UNCHANGED <<cookies, tree>>

blobmsg_realloc_string_buffer(maxlen) ==
    LET at == NewAt(buf)
        required == maxlen + 1 - (buf.buflen - (at + blob_pad_len(buf, at)))
    IN /\ Busy /\ str >= 0 /\ Op
       /\ \E ok \in BOOLEAN :
             LET r == IF required > 0 THEN blob_buf_grow(buf, required, ok) ELSE buf
             IN IF r = Null THEN UNCHANGED <<buf, str>> ELSE buf' = r /\ str' = maxlen
       /\ UNCHANGED <<cookies, tree>>

\* The program prints a text that fits, then adds it (blobmsg_vprintf does)
blobmsg_add_string_buffer(len) ==
    LET at == NewAt(buf)
        data == blobmsg_data(buf, at)
        f == [type |-> "string", len |-> len + 1, nul |-> TRUE]
        printed == Touch(Store(buf, data, Value(f)), data + len + 1)
        a == blob_set_raw_len(printed, at, blob_raw_len(buf, at) + len + 1)
        added == blob_set_raw_len(a, a.head.off, blob_raw_len(a, a.head.off) + blob_pad_len(a, at))
    IN /\ Busy /\ len <= str /\ Op
       /\ buf' = Touch(added, at + blob_pad_len(a, at))
       /\ tree' = Put(tree, Leaf("string", Word(buf, at + 4).name, f))
       /\ str' = -1
       /\ UNCHANGED cookies

Next ==
    \/ \E id \in {"plain", "table"} : InitBuf(id)
    \/ blob_buf_free \/ NestStart \/ NestEnd
    \/ \E id \in PlainIds, f \in Fields : PutPlain(id, f) \/ PutRaw(id, f)
    \/ \E name \in Names :
          \/ \E f \in Fields : blobmsg_add_field(name, f)
          \/ \E id \in {"table", "array"} : blobmsg_open_nested(name, id)
          \/ \E len \in Texts : blobmsg_alloc_string_buffer(name, len)
    \/ \E len \in Texts : blobmsg_realloc_string_buffer(len) \/ blobmsg_add_string_buffer(len)

Spec == Init /\ [][Next]_vars

-----------------------------------------------------------------------------
(* Checking and parsing.                                                   *)

blob_type == [string |-> "string", int64 |-> "int64", int32 |-> "int32", int16 |-> "int16",
              int8 |-> "int8", double |-> "double", unspec |-> "binary"]

blobmsg_check_name(b, off, name) ==
    LET hdr == Word(b, off + 4).name
    IN IF ~Word(b, off).ext THEN ~name
       ELSE /\ blob_len(b, off) >= 2
            /\ name => NameLen[hdr] # 0
            /\ blob_len(b, off) >= blobmsg_hdrlen(hdr)

blobmsg_check_attr_len(b, off, name, len) ==
    /\ blob_raw_len(b, off) \in 4..len
    /\ blobmsg_check_name(b, off, name)
    /\ LET id == Word(b, off).id
       IN id \notin DOMAIN blob_type \/
          blob_check_type(Word(b, blobmsg_data(b, off)), blobmsg_data_len(b, off), blob_type[id])

\* blobmsg_check_array_len of a table or an array: the number of elements, or -1
blobmsg_check_array_len(b, off, type, len) ==
    LET cur == Attrs(b, blobmsg_data(b, off), blobmsg_data_len(b, off))
        name == Word(b, off).id = "table"
    IN IF /\ blobmsg_check_attr_len(b, off, FALSE, len)
          /\ Word(b, off).id \in {"table", "array"}
          /\ \A k \in DOMAIN cur :
                /\ type = "unspec" \/ Word(b, cur[k].off).id = type
                /\ blobmsg_check_attr_len(b, cur[k].off, name, cur[k].rem)
       THEN Len(cur) ELSE -1

\* Does an attribute answer an entry of the policy?
Matches(id, type) ==
    \/ type = "unspec"
    \/ type = "cast_int64" /\ id \in IntTypes
    \/ type = id

\* The attributes before the first one that does not pass the check, which
\* ends the parse
Checked(b, attrs) ==
    LET bad == {k \in DOMAIN attrs : ~blobmsg_check_attr_len(b, attrs[k].off, FALSE, attrs[k].rem)}
    IN IF bad = {} THEN attrs ELSE SubSeq(attrs, 1, Min(bad) - 1)

\* blobmsg_parse: what it returns, and tb with 0 for what is not there.  The
\* first attribute of a name and type counts.
Fill_Last(b, policy, tb, a) ==       \* mutant: a later attribute replaces an earlier one
    [i \in DOMAIN policy |->
        IF /\ Word(b, a.off).ext /\ Matches(Word(b, a.off).id, policy[i].type)
           /\ Word(b, a.off + 4).name = policy[i].name
        THEN a.off ELSE tb[i]]
Fill(b, policy, tb, a) ==
    [i \in DOMAIN policy |->
        IF /\ Word(b, a.off).ext /\ Matches(Word(b, a.off).id, policy[i].type)
           /\ tb[i] = 0 /\ Word(b, a.off + 4).name = policy[i].name
        THEN a.off ELSE tb[i]]

EINVAL == -22
blobmsg_parse(b, policy, pos, len) ==
    LET attrs == Attrs(b, pos, len)
        good == Checked(b, attrs)
    IN [ret |-> IF len = 0 THEN EINVAL ELSE IF Len(good) = Len(attrs) THEN 0 ELSE -1,
        tb |-> FoldLeft(LAMBDA tb, a : Fill(b, policy, tb, a), [i \in DOMAIN policy |-> 0], good)]

\* blobmsg_parse_array: tb is a sequence that grows up to the policy's length;
\* an attribute of the wrong type is skipped before it is checked
blobmsg_parse_array(b, types, pos, len) ==
    LET fits(t, a) == Len(t) < Len(types) /\
                      (types[Len(t) + 1] = "unspec" \/ Word(b, a.off).id = types[Len(t) + 1])
    IN FoldLeft(LAMBDA r, a :
                   IF r.ret # 0 \/ ~fits(r.tb, a) THEN r
                   ELSE IF blobmsg_check_attr_len(b, a.off, FALSE, a.rem)
                        THEN [r EXCEPT !.tb = Append(@, a.off)] ELSE [r EXCEPT !.ret = -1],
                [ret |-> 0, tb |-> <<>>], Attrs(b, pos, len))

-----------------------------------------------------------------------------
(* Building never writes beyond the buffer, and never through a pointer    *)
(* that realloc has made invalid: not in blob_add, with its padding, not   *)
(* in blob_nest_end and not in the string buffers.                         *)
InBuffer == ~buf.wild

(* What a program reads back, with blob_for_each_attr and the accessors,   *)
(* from the innermost open container, is what was put there: ids, names,   *)
(* payloads, order and nesting, whatever was in the memory before.  The    *)
(* exception is a message that is full, of exactly LenMod bytes: its       *)
(* length is stored as 0, blob_len wraps to almost SIZE_MAX, and the loops *)
(* do not end where the message does.                                      *)
RECURSIVE ReadBack(_, _)
ReadBack(b, attrs) ==
    [k \in DOMAIN attrs |->
        LET off == attrs[k].off
            w == Word(b, off)
            name == IF w.ext THEN Word(b, off + 4).name ELSE NoName
            val == Word(b, blobmsg_data(b, off))
        IN IF w.id \in Nested
           THEN [id |-> w.id, name |-> name,
                 kids |-> ReadBack(b, Attrs(b, blobmsg_data(b, off), blobmsg_data_len(b, off)))]
           ELSE [id |-> w.id, name |-> name, len |-> blobmsg_data_len(b, off), nul |-> val.nul]]

Here == Attrs(buf, blobmsg_data(buf, buf.head.off), blobmsg_data_len(buf, buf.head.off))
RoundTrip == Busy /\ ~Full => ReadBack(buf, Here) = Last(tree).kids

(* blob_parse, blobmsg_parse, blobmsg_parse_array and blobmsg_check_array  *)
(* find in a message what its policy asks for: the first field of a name   *)
(* and type, up to a field with a malformed payload; for each entry of an  *)
(* array's policy the next element of its type; the last plain attribute   *)
(* of an id that the policy accepts; the number of elements, if all are    *)
(* well formed and those of a table have names.  Not in a full message.    *)
Sound(a) == a.id \in DOMAIN blob_type => blob_check_type([nul |-> a.nul], a.len, blob_type[a.id])

At(pick(_), S) == IF S = {} THEN 0 ELSE Here[pick(S)].off

TableParsed(kids, r) ==
    LET bad == {k \in DOMAIN kids : ~Sound(kids[k])}
        upto == IF bad = {} THEN Len(kids) ELSE Min(bad) - 1
        answers(i) == {k \in 1..upto : /\ kids[k].name = Policy[i].name
                                       /\ Matches(kids[k].id, Policy[i].type)}
    IN /\ r.ret = IF kids = <<>> THEN EINVAL ELSE IF bad = {} THEN 0 ELSE -1
       /\ \A i \in DOMAIN Policy : r.tb[i] = At(Min, answers(i))

ArrayParsed(kids, r) ==
    LET n == Len(r.tb)
        from == [k \in 0..n |-> IF k = 0 THEN 0 ELSE CHOOSE j \in DOMAIN kids : Here[j].off = r.tb[k]]
        next(k) == {j \in DOMAIN kids : j > from[k] /\ Matches(kids[j].id, ArrayPolicy[k + 1])}
    IN /\ \A k \in 0..n - 1 : next(k) # {} /\ from[k + 1] = Min(next(k)) /\ Sound(kids[from[k + 1]])
       /\ IF n = Len(ArrayPolicy) \/ next(n) = {} THEN r.ret = 0
          ELSE r.ret = -1 /\ ~Sound(kids[Min(next(n))])

PlainParsed(kids, data) ==
    \A id \in DOMAIN Info :
       LET i == Info[id]
           good == {k \in DOMAIN kids : /\ kids[k].id = id
                                        /\ blob_check_type([nul |-> kids[k].nul], kids[k].len, i.type)
                                        /\ kids[k].len + 4 >= i.minlen
                                        /\ i.maxlen # 0 => kids[k].len + 4 <= i.maxlen}
       IN data[id] = At(Max, good)

Counted(c, size) ==
    size = IF \A k \in DOMAIN c.kids : /\ Sound(c.kids[k])
                                       /\ c.id = "table" => NameLen[c.kids[k].name] # 0
           THEN Len(c.kids) ELSE -1

ParseOK ==
    Busy /\ ~Full =>
        LET c == Last(tree)
            h == buf.head.off
            data == blobmsg_data(buf, h)
            len == blobmsg_data_len(buf, h)
        IN IF Plain THEN PlainParsed(c.kids, blob_parse(buf, h, Info))
           ELSE /\ TableParsed(c.kids, blobmsg_parse(buf, Policy, data, len))
                /\ ArrayParsed(c.kids, blobmsg_parse_array(buf, ArrayPolicy, data, len))
                /\ Counted(c, blobmsg_check_array_len(buf, h, "unspec", blob_raw_len(buf, h)))

=============================================================================
