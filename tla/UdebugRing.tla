----------------------------- MODULE UdebugRing -----------------------------
(***************************************************************************)
(* A udebug ring: a header, a ring of entry descriptors and a ring of data *)
(* bytes in memory that one process writes and another one reads, without  *)
(* a lock.  udebug.c has the writer, udebug-remote.c the reader.           *)
(*                                                                         *)
(* A step of either process is what lies between two places where the      *)
(* other one can come in: the writer announces the bytes it will clobber   *)
(* (data_used) before it touches them and moves head when the entry is     *)
(* complete; the reader takes a copy and finds out afterwards, from        *)
(* data_used, what of the copy was clobbered.  The writer never waits: it  *)
(* may begin an entry in a descriptor of the snapshot that is being taken, *)
(* and data_used does not tell of that; such a snapshot is lapped.  Head   *)
(* and data offsets are 32-bit counters that wrap; HeadMod and DataMod     *)
(* stand for 2^32, and the ring starts shortly before head wraps.          *)
(***************************************************************************)
EXTENDS Integers, SequencesExt, FiniteSetsExt

CONSTANTS RingSize, DataSize,   \* descriptors and bytes, powers of two
          HeadMod, DataMod,     \* the moduli of the counters
          StartHead,            \* entries written before the model begins
          Lens,                 \* lengths of what the writer appends
          MinAlloc,             \* UDEBUG_MIN_ALLOC_LEN
          Ticks,                \* by how much the clock advances between two entries
          Offsets, Times,       \* where a reader asks to start
          Handle,               \* the reader's poll_handle, from the server
          MaxWrites,            \* bound: calls that append to one entry
          MaxEntries,           \* bound: entries the writer completes
          MaxReads              \* bound: snapshots and searches

ASSUME RingAssumption ==
    /\ {RingSize, DataSize, HeadMod, DataMod, StartHead, MinAlloc} \subseteq Nat \ {0}
    /\ HeadMod % RingSize = 0 /\ HeadMod >= 4 * RingSize
    /\ DataMod % DataSize = 0 /\ DataMod >= 8 * DataSize     \* udebug_buf_init: at most 1 << 29
    /\ RingSize >= 4 /\ DataSize % 2 = 0                     \* udebug_buf_init: 32, a page
    /\ StartHead \in RingSize..(HeadMod - 1) /\ DataSize <= 2 * StartHead
    /\ \A l \in Lens : l \in 1..(DataSize \div 2)
    /\ Offsets \cup Times \cup {Handle} \subseteq Nat /\ Ticks \subseteq Int

VARIABLES hdr,      \* struct udebug_hdr
          ring,     \* the descriptors
          mem,      \* the data bytes: the number of the entry a byte is part of, 0 for a NUL
          w,        \* the writer: where it is, bytes announced and to be written, clock
          rd,       \* the reader: struct udebug_remote_buf and the snapshot it takes
          log,      \* history: the completed entries, with their bytes
          seen,     \* history: what the snapshots showed that were not lapped, in order
          note,     \* history: the notify bit the reader set last, and if it was sent since
          reads     \* what MaxReads counts

ringVars == <<hdr, ring, mem, w, rd, log, seen, note, reads>>

\* u32_sub: the difference as a signed number
Signed(x, m) == IF x % m < m \div 2 THEN x % m ELSE (x % m) - m
SubHead(a, b) == Signed(a - b, HeadMod)
SubData(a, b) == Signed(a - b, DataMod)
u32_max(a, b) == IF SubData(a, b) > 0 THEN a ELSE b

Slot(i) == i % RingSize                        \* udebug_ring_ptr
Cell(ofs) == ofs % DataSize                    \* udebug_buf_ptr
Bytes(m, start, len) == [k \in 1..len |-> m[Cell(start + k - 1)]]
Entry(start, len, ts, bytes) == [start |-> start % DataMod, len |-> len, ts |-> ts, bytes |-> bytes]

\* The last of the numbers before top that has its place s in a ring of n
Latest(top, n, s) == CHOOSE x \in (top - n)..(top - 1) : x % n = s

\* The ring after StartHead entries of one byte each, in time order: entry i
\* has byte 2 * i, its terminator follows.  Both rings are full; what entries
\* without a descriptor left in the data does not matter.
RingInit ==
    LET i(s) == Latest(StartHead, RingSize, s)
        o(c) == Latest(2 * StartHead, DataSize, c)
        number(x) == x - (StartHead - RingSize) + 1
    IN /\ hdr = [head |-> StartHead, head_hi |-> 0, data_head |-> (2 * StartHead) % DataMod,
                 data_used |-> (2 * StartHead) % DataMod, notify |-> {}]
       /\ ring = [s \in 0..(RingSize - 1) |->
                     [start |-> (2 * i(s)) % DataMod, len |-> 1, ts |-> number(i(s))]]
       /\ mem = [c \in 0..(DataSize - 1) |->
                    IF o(c) % 2 = 0 /\ o(c) \div 2 >= StartHead - RingSize
                    THEN number(o(c) \div 2) ELSE 0]
       /\ w = [pc |-> "idle", clock |-> RingSize, len |-> 0, nul |-> 0, writes |-> 0]
       /\ rd = [pc |-> "idle", rhead |-> StartHead - RingSize, poll |-> FALSE, due |-> FALSE, msg |-> FALSE]
       /\ log = [x \in 1..RingSize |->
                    Entry(2 * (StartHead - RingSize + x - 1), 1, x, <<x>>)]
       /\ seen = <<>>
       /\ note = [bit |-> 0, sent |-> FALSE]
       /\ reads = 0

-----------------------------------------------------------------------------
\* rbuf_advance_read_head(rb, head): the oldest entry that can still be
\* there; then entries whose data is gone are skipped.  The loop ends at an
\* entry that is there, and stays, for all its turns, at one that is newer
\* than the last one before head.
min_head(head) ==
    LET m == (head + 1 - RingSize) % HeadMod
    IN IF hdr.head_hi = 0 /\ SubHead(0, m) > 0 THEN 0 ELSE m

Clamped(head) == IF SubHead(rd.rhead, min_head(head)) < 0 THEN min_head(head) ELSE rd.rhead

rbuf_advance_read_head(head) ==
    LET min_data == hdr.data_used - DataSize
        p(k) == ring[Slot(Clamped(head) + k)]
        stays == {k \in 0..(RingSize - 1) : \/ p(k).ts > ring[Slot(head - 1)].ts
                                            \/ SubData(p(k).start, min_data) > 0}
        turns == IF stays = {} THEN RingSize ELSE Min(stays)
    IN [rhead |-> (Clamped(head) + turns) % HeadMod,
        dstart |-> p(Min({turns, RingSize - 1})).start]

\* The oldest descriptor that the snapshot in progress takes, and whether the
\* writer has come round to it
Snapping == rd.pc \notin {"idle", "search"}
Oldest == IF rd.pc = "advance" THEN Clamped(rd.head) ELSE rd.first
Laps == Snapping /\ (hdr.head - Oldest) % HeadMod >= RingSize

-----------------------------------------------------------------------------
(* The writer.                                                             *)

cur == ring[Slot(hdr.head)]          \* the descriptor of the entry in progress
Number == Len(log) + 1
WriterOnly == UNCHANGED <<rd, seen, note, reads>>

\* udebug_entry_init_ts stores the offset and the length, then the time
InitEntry ==
    /\ w.pc = "idle" /\ Len(log) < RingSize + MaxEntries
    /\ ring' = [ring EXCEPT ![Slot(hdr.head)].start = hdr.data_head, ![Slot(hdr.head)].len = 0]
    /\ w' = [w EXCEPT !.pc = "init", !.writes = 0]
    /\ rd' = IF Laps THEN [rd EXCEPT !.lapped = TRUE] ELSE rd
    /\ UNCHANGED <<hdr, mem, log, seen, note, reads>>

InitTime ==
    /\ w.pc = "init"
    /\ \E t \in {w.clock + d : d \in Ticks} :
          /\ ring' = [ring EXCEPT ![Slot(hdr.head)].ts = t]
          /\ w' = [w EXCEPT !.pc = "open", !.clock = t]
    /\ WriterOnly /\ UNCHANGED <<hdr, mem, log>>

\* udebug_buf_alloc
Announce(len) == hdr' = [hdr EXCEPT !.data_used = u32_max(@, (cur.start + cur.len + len + 1) % DataMod)]

\* Memory with text bytes of the entry and nuls NULs at its end
Printed(text, nuls) ==
    LET at == cur.start + cur.len
    IN [c \in DOMAIN mem |-> IF \E k \in 0..(text - 1) : c = Cell(at + k) THEN Number
                             ELSE IF \E k \in text..(text + nuls - 1) : c = Cell(at + k) THEN 0
                             ELSE mem[c]]

\* udebug_entry_append, up to the copy
Append_(len) ==
    /\ w.pc = "open" /\ w.writes < MaxWrites
    /\ cur.len + len <= DataSize \div 2
    /\ Announce(len)
    /\ w' = [w EXCEPT !.pc = "copy", !.len = len, !.writes = @ + 1]
    /\ WriterOnly /\ UNCHANGED <<ring, mem, log>>

\* udebug_entry_vprintf of a text of len characters: first it announces room
\* for MinAlloc ...
Printf(len) ==
    /\ w.pc = "open" /\ w.writes < MaxWrites
    /\ cur.len <= DataSize \div 2
    /\ Announce(MinAlloc)
    /\ w' = [w EXCEPT !.pc = "try", !.len = len, !.writes = @ + 1]
    /\ WriterOnly /\ UNCHANGED <<ring, mem, log>>

\* ... and prints what fits in there, a NUL included: a text of MinAlloc
\* characters loses its last one.  A longer text is given up when it exceeds
\* half of the buffer, ...
Try ==
    /\ w.pc = "try"
    /\ mem' = Printed(Min({w.len, MinAlloc - 1}), 1)
    /\ IF w.len <= MinAlloc
       THEN /\ ring' = [ring EXCEPT ![Slot(hdr.head)].len = @ + w.len]
            /\ w' = [w EXCEPT !.pc = "open"]
       ELSE /\ w' = [w EXCEPT !.pc = IF cur.len + w.len > DataSize \div 2 THEN "open" ELSE "again"]
            /\ UNCHANGED ring
    /\ WriterOnly /\ UNCHANGED <<hdr, log>>

\* ... or else printed again, into len bytes that end with a NUL
Again ==
    /\ w.pc = "again"
    /\ Announce(w.len + 1)
    /\ w' = [w EXCEPT !.pc = "copy", !.nul = 1]
    /\ WriterOnly /\ UNCHANGED <<ring, mem, log>>

\* The bytes, and ptr->len
Copy ==
    /\ w.pc = "copy"
    /\ mem' = Printed(w.len - w.nul, w.nul)
    /\ ring' = [ring EXCEPT ![Slot(hdr.head)].len = @ + w.len]
    /\ w' = [w EXCEPT !.pc = "open", !.nul = 0]
    /\ WriterOnly /\ UNCHANGED <<hdr, log>>

\* udebug_entry_trim and udebug_entry_set_length make an entry shorter
SetLength(len) ==
    /\ w.pc = "open" /\ len < cur.len
    /\ ring' = [ring EXCEPT ![Slot(hdr.head)].len = len]
    /\ WriterOnly /\ UNCHANGED <<hdr, mem, w, log>>

\* udebug_entry_add up to the new head, and then the upper half of the counter;
\* an entry has something in it
Add ==
    LET end == cur.start + cur.len
        head == (hdr.head + 1) % HeadMod
        m == [mem EXCEPT ![Cell(end)] = 0]
    IN /\ w.pc = "open" /\ cur.len > 0
       /\ mem' = m
       /\ hdr' = [hdr EXCEPT !.data_head = (end + 1) % DataMod, !.head = head]
       /\ log' = Append(log, Entry(cur.start, cur.len, cur.ts, Bytes(m, cur.start, cur.len)))
       /\ w' = [w EXCEPT !.pc = IF head = 0 THEN "carry" ELSE "added", !.len = 0]
       /\ WriterOnly /\ UNCHANGED <<ring>>

Carry ==
    /\ w.pc = "carry"
    /\ hdr' = [hdr EXCEPT !.head_hi = @ + 1]
    /\ w' = [w EXCEPT !.pc = "added"]
    /\ WriterOnly /\ UNCHANGED <<ring, mem, log>>

\* The notify mask is taken and, if there is a bit in it, sent; the server
\* passes the message on to the clients whose bits are set
Exchange ==
    /\ w.pc = "added"
    /\ hdr' = [hdr EXCEPT !.notify = {}]
    /\ rd' = [rd EXCEPT !.msg = @ \/ Handle \in hdr.notify]
    /\ note' = [note EXCEPT !.sent = @ \/ note.bit \in hdr.notify]
    /\ w' = [w EXCEPT !.pc = "idle"]
    /\ UNCHANGED <<ring, mem, log, seen, reads>>

Writer ==
    \/ InitEntry \/ InitTime \/ Try \/ Again \/ Copy \/ Add \/ Carry \/ Exchange
    \/ \E len \in Lens : Append_(len) \/ Printf(len) \/ SetLength(len)

-----------------------------------------------------------------------------
(* The reader.                                                             *)

ReaderOnly == UNCHANGED <<ring, mem, w, log>>
Quiet == UNCHANGED <<hdr, note>>
Sets(bit) == /\ hdr' = [hdr EXCEPT !.notify = @ \cup {bit}]
             /\ note' = [bit |-> bit, sent |-> FALSE]
Idle == [pc |-> "idle", rhead |-> rd.rhead, poll |-> rd.poll, due |-> rd.due, msg |-> rd.msg]

\* udebug_remote_buf_set_poll; who begins to poll reads what is there already.
\* udebug_remote_get_handle returns 0 when all is well, whatever the handle is.
SetPoll(val) ==
    /\ rd.pc = "idle" /\ rd.poll # val
    /\ rd' = [rd EXCEPT !.poll = val, !.due = TRUE]
    /\ IF val THEN Sets(0) ELSE UNCHANGED <<hdr, note>>
    /\ ReaderOnly /\ UNCHANGED <<seen, reads>>

\* __udebug_poll on CL_MSG_RING_NOTIFY: for a ring that is polled the bit is
\* set again, then notify_cb reads the ring
RingNotified_Once ==      \* mutant: the bit is not set again
    /\ rd.pc = "idle" /\ rd.msg
    /\ rd' = [rd EXCEPT !.msg = FALSE, !.due = @ \/ rd.poll]
    /\ ReaderOnly /\ Quiet /\ UNCHANGED <<seen, reads>>

RingNotified ==
    /\ rd.pc = "idle" /\ rd.msg
    /\ rd' = [rd EXCEPT !.msg = FALSE, !.due = @ \/ rd.poll]
    /\ IF rd.poll THEN Sets(Handle) ELSE UNCHANGED <<hdr, note>>
    /\ ReaderOnly /\ UNCHANGED <<seen, reads>>

\* udebug_remote_buf_snapshot reads head
Snapshot ==
    /\ rd.pc = "idle" /\ reads < MaxReads
    /\ rd' = [pc |-> "advance", rhead |-> rd.rhead, poll |-> rd.poll, due |-> FALSE, msg |-> rd.msg,
              head |-> hdr.head, dstart |-> 0, first |-> rd.rhead, size |-> 0,
              data |-> <<>>, ents |-> <<>>, used |-> 0, lapped |-> FALSE]
    /\ reads' = reads + 1
    /\ ReaderOnly /\ Quiet /\ UNCHANGED seen

\* The first advance, and the sizes of the copy; nothing new, or sizes that
\* cannot be, end the snapshot
Advance ==
    LET a == rbuf_advance_read_head(rd.head)
        last == ring[Slot(rd.head - 1)]
        size == (last.start + last.len - a.dstart) % DataMod
        n == (rd.head - a.rhead) % HeadMod
        valid == n # 0 /\ size <= DataSize /\ n <= RingSize
    IN /\ rd.pc = "advance"
       /\ rd' = IF valid THEN [rd EXCEPT !.pc = "data", !.size = size, !.dstart = a.dstart,
                                         !.rhead = a.rhead, !.first = a.rhead]
                         ELSE [Idle EXCEPT !.rhead = rd.head]
       /\ ReaderOnly /\ Quiet /\ UNCHANGED <<seen, reads>>

CopyData ==
    /\ rd.pc = "data"
    /\ rd' = [rd EXCEPT !.pc = "entries", !.data = Bytes(mem, rd.dstart, rd.size)]
    /\ ReaderOnly /\ Quiet /\ UNCHANGED <<seen, reads>>

\* memcpy of the descriptors, which the writer may get ahead of: up to the
\* field cut of the k-th descriptor, and the rest
Descriptors_Swapped ==    \* mutant: the two halves of a copy that wraps, the wrong way round
    LET n == (rd.head - rd.first) % HeadMod
        low == IF Slot(rd.first) > Slot(rd.head - 1) THEN Slot(rd.head - 1) + 1 ELSE 0
    IN [k \in 1..n |-> IF k <= low THEN ring[k - 1] ELSE ring[Slot(rd.first + k - low - 1)]]

Descriptors == [k \in 1..((rd.head - rd.first) % HeadMod) |-> ring[Slot(rd.first + k - 1)]]
CopyEntries ==
    /\ rd.pc = "entries"
    /\ rd' = [rd EXCEPT !.pc = "rest", !.ents = Descriptors]
    /\ ReaderOnly /\ Quiet /\ UNCHANGED <<seen, reads>>

Torn(old, new, k, cut) ==
    [j \in DOMAIN old |->
        LET from(f) == IF j < k \/ (j = k /\ f \in cut) THEN old[j] ELSE new[j]
        IN [start |-> from("start").start, len |-> from("len").len, ts |-> from("ts").ts]]

\* ... then data_used tells what the writer has clobbered
CopyRest ==
    /\ rd.pc = "rest"
    /\ \E k \in DOMAIN rd.ents, cut \in {{}, {"start"}, {"start", "len"}} :
          rd' = [rd EXCEPT !.pc = "used", !.ents = Torn(rd.ents, Descriptors, k, cut)]
    /\ ReaderOnly /\ Quiet /\ UNCHANGED <<seen, reads>>

ReadUsed ==
    /\ rd.pc = "used"
    /\ rd' = [rd EXCEPT !.pc = "finish", !.used = (hdr.data_used - DataSize) % DataMod]
    /\ ReaderOnly /\ Quiet /\ UNCHANGED <<seen, reads>>

\* The entries that are left: the second look at the ring and data_used drop
\* some of them from the front
Kept_Unchecked ==     \* mutant: nothing is checked after the copy
    rd.ents

Kept ==
    LET skipped == (rbuf_advance_read_head(rd.head).rhead - rd.first) % HeadMod
        fit == {k \in DOMAIN rd.ents : k > skipped /\ SubData(rd.ents[k].start, rd.used) >= 0}
    IN IF fit = {} THEN <<>> ELSE SubSeq(rd.ents, Min(fit), Len(rd.ents))

\* Where an entry begins in the copy
At(p) == (p.start - rd.dstart) % DataMod

\* udebug_snapshot_get_entry refuses what does not lie within the copy
Shown(p) == At(p) <= rd.size /\ p.len <= rd.size /\ At(p) + p.len <= rd.size
Show(p) == Entry(p.start, p.len, p.ts, SubSeq(rd.data, At(p) + 1, At(p) + p.len))

\* udebug_iter_next goes through them and skips the refused ones
Iterated(kept) ==
    LET shown[k \in 0..Len(kept)] ==
            IF k = 0 THEN <<>>
            ELSE IF Shown(kept[k]) THEN Append(shown[k - 1], Show(kept[k]))
            ELSE shown[k - 1]
    IN shown[Len(kept)]

Finish ==
    /\ rd.pc = "finish"
    /\ seen' = IF rd.lapped THEN seen ELSE seen \o Iterated(Kept)
    /\ rd' = [Idle EXCEPT !.rhead = rd.head]
    /\ ReaderOnly /\ UNCHANGED <<hdr, note, reads>>

\* udebug_remote_buf_set_start_offset: read again from the n-th last entry on
SetStartOffset(n) ==
    /\ rd.pc = "idle" /\ reads < MaxReads
    /\ rd' = [rd EXCEPT !.rhead = (hdr.head - n) % HeadMod, !.due = TRUE]
    /\ seen' = <<>>
    /\ reads' = reads + 1
    /\ ReaderOnly /\ Quiet

\* udebug_remote_buf_set_start_time searches from the read head as it was
\* before the advance, which it then overwrites; the difference of the ends
\* is unsigned, and goes on below zero
SetStartTime(ts) ==
    /\ rd.pc = "idle" /\ reads < MaxReads
    /\ rd' = [pc |-> "search", rhead |-> rd.rhead, poll |-> rd.poll, due |-> TRUE, msg |-> rd.msg,
              lo |-> rd.rhead, hi |-> hdr.head, since |-> ts]
    /\ seen' = <<>>
    /\ reads' = reads + 1
    /\ ReaderOnly /\ Quiet

Search ==
    LET diff == (rd.hi - rd.lo) % HeadMod
        mid == rd.lo + diff \div 2
    IN /\ rd.pc = "search"
       /\ rd' = IF diff = 0 THEN [Idle EXCEPT !.rhead = rd.lo]
                ELSE IF ring[Slot(mid)].ts > rd.since
                THEN [rd EXCEPT !.hi = (mid - 1) % HeadMod]
                ELSE [rd EXCEPT !.lo = (mid + 1) % HeadMod]
       /\ ReaderOnly /\ Quiet /\ UNCHANGED <<seen, reads>>

Reader ==
    \/ \E n \in Offsets : SetStartOffset(n)
    \/ \E ts \in Times : SetStartTime(ts)
    \/ Search
    \/ \E val \in BOOLEAN : SetPoll(val)
    \/ RingNotified \/ Snapshot \/ Advance
    \/ CopyData \/ CopyEntries \/ CopyRest \/ ReadUsed \/ Finish

RingNext == Writer \/ Reader
RingSpec == RingInit /\ [][RingNext]_ringVars

-----------------------------------------------------------------------------
(* A snapshot shows entries as the writer completed them: offset, length,  *)
(* time and every byte.  Excepted are lapped snapshots: the writer has     *)
(* begun an entry in a descriptor that the snapshot takes, before it was   *)
(* finished.  The reader has no way to find that out: the check after the  *)
(* copy looks at data_used, and may keep an entry with the offset and time *)
(* of one descriptor and the length of another.                            *)
Genuine == \A e \in Range(seen) : e \in Range(log)

(* Over all snapshots that were not lapped no entry is shown twice, and    *)
(* none out of order.                                                      *)
InOrder ==
    \A i, j \in DOMAIN seen : i < j =>
       \A a, b \in DOMAIN log : log[a] = seen[i] /\ log[b] = seen[j] => a < b

(* When a reader that polls has read since it last set a notify bit and    *)
(* there is an entry it has not read, the writer has sent a message with   *)
(* that bit since.  It is on its way to the reader if the bit is the       *)
(* reader's own; set_poll sets bit 0, which under any other handle is the  *)
(* bit of another client.                                                  *)
NoLostNotify ==
    rd.poll /\ ~rd.due /\ rd.pc = "idle" /\ w.pc \notin {"carry", "added"} /\ rd.rhead # hdr.head
    => note.sent /\ (note.bit = Handle => rd.msg)

=============================================================================
