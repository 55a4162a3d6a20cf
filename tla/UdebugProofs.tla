---------------------------- MODULE UdebugProofs ----------------------------
(***************************************************************************)
(* The two halves of udebug: the rings in shared memory (UdebugRing) and   *)
(* the connection to the server (UdebugConnection).                        *)
(***************************************************************************)
EXTENDS UdebugRing, UdebugConnection, ListLemmas, FiniteSetTheorems

-----------------------------------------------------------------------------
(***************************************************************************)
(* The rings.  For rings of any size, and whatever the two processes do    *)
(* between each other's steps: no notification is lost, and what a         *)
(* snapshot shows that was not lapped is what was written.                 *)
(***************************************************************************)

-----------------------------------------------------------------------------
(* The inductive invariant. *)

\* The fields the proof looks at are there.
Shape ==
  /\ hdr = [x \in DOMAIN hdr |-> hdr[x]] /\ {"head", "notify"} \subseteq DOMAIN hdr
  /\ w = [x \in DOMAIN w |-> w[x]] /\ "pc" \in DOMAIN w
  /\ rd = [x \in DOMAIN rd |-> rd[x]] /\ {"pc", "rhead", "poll", "due", "msg"} \subseteq DOMAIN rd
  /\ {rd.poll, rd.due, rd.msg} \subseteq BOOLEAN
  /\ Snapping => "head" \in DOMAIN rd
  /\ note = [x \in DOMAIN note |-> note[x]] /\ {"bit", "sent"} \subseteq DOMAIN note
  /\ note.sent \in BOOLEAN

\* The bit that a polling reader has set is in the mask, or was sent.
RingArmed == rd.poll => note.bit \in hdr.notify \/ note.sent

\* If it was sent and is the reader's own, the reader has not handled the message.
RingTold == rd.poll /\ note.sent /\ note.bit = Handle => rd.msg

\* Up to where the reader has read, or will have when the snapshot is finished.
Known == IF Snapping THEN rd.head ELSE rd.rhead

\* At any point of the two processes: what a reader does not know of, and is not
\* about to look for, is announced, or the writer is about to take the mask.
RingInformed ==
  rd.poll /\ ~rd.due /\ Known # hdr.head => note.sent \/ w.pc \in {"carry", "added"}

SearchDue == rd.pc = "search" => rd.due

RingInv == Shape /\ RingArmed /\ RingTold /\ RingInformed /\ SearchDue

-----------------------------------------------------------------------------
\* A step of the writer before the entry is complete touches neither head nor
\* the mask, and nothing of the reader's.
LEMMA WriterStep ==
  ASSUME RingInv,
         \/ InitEntry \/ InitTime \/ Try \/ Again \/ Copy
         \/ \E len \in Lens : Append_(len) \/ Printf(len) \/ SetLength(len)
  PROVE  RingInv'
<1>1. rd' = rd \/ rd' = [rd EXCEPT !.lapped = TRUE]
  BY DEF InitEntry, InitTime, Try, Again, Copy, Append_, Printf, SetLength, WriterOnly
<1>2. /\ rd' = [x \in DOMAIN rd' |-> rd'[x]] /\ DOMAIN rd' = DOMAIN rd
      /\ rd'.pc = rd.pc /\ rd'.rhead = rd.rhead /\ rd'.poll = rd.poll /\ rd'.due = rd.due
      /\ rd'.msg = rd.msg /\ (Snapping => rd'.head = rd.head)
  BY <1>1 DEF RingInv, Shape
<1>3. note' = note
  BY DEF InitEntry, InitTime, Try, Again, Copy, Append_, Printf, SetLength, WriterOnly
<1>4. /\ hdr' = [x \in DOMAIN hdr' |-> hdr'[x]] /\ {"head", "notify"} \subseteq DOMAIN hdr'
      /\ hdr'.head = hdr.head /\ hdr'.notify = hdr.notify
  BY DEF InitEntry, InitTime, Try, Again, Copy, Append_, Printf, SetLength, Announce, RingInv, Shape
<1>5. w' = [x \in DOMAIN w' |-> w'[x]] /\ "pc" \in DOMAIN w'
  BY DEF InitEntry, InitTime, Try, Again, Copy, Append_, Printf, SetLength, RingInv, Shape
<1>6. w.pc \notin {"carry", "added"}
  BY DEF InitEntry, InitTime, Try, Again, Copy, Append_, Printf, SetLength
<1> QED BY <1>2, <1>3, <1>4, <1>5, <1>6
        DEF RingInv, Shape, RingArmed, RingTold, RingInformed, SearchDue, Known, Snapping

\* The writer completes an entry, and then takes the mask.
LEMMA WriterEnds ==
  ASSUME RingInv, Add \/ Carry \/ Exchange
  PROVE  RingInv'
<1> USE DEF RingInv, Shape, RingArmed, RingTold, RingInformed, SearchDue, Known, Snapping
<1>1. CASE Add
  <2>1. /\ rd' = rd /\ note' = note /\ w'.pc \in {"carry", "added"} /\ hdr'.notify = hdr.notify
        /\ hdr' = [x \in DOMAIN hdr' |-> hdr'[x]] /\ {"head", "notify"} \subseteq DOMAIN hdr'
        /\ w' = [x \in DOMAIN w' |-> w'[x]] /\ "pc" \in DOMAIN w'
    BY <1>1 DEF Add, WriterOnly
  <2> QED BY <2>1
<1>2. CASE Carry
  <2>1. /\ rd' = rd /\ note' = note /\ w'.pc = "added" /\ hdr'.notify = hdr.notify
        /\ hdr' = [x \in DOMAIN hdr' |-> hdr'[x]] /\ {"head", "notify"} \subseteq DOMAIN hdr'
        /\ w' = [x \in DOMAIN w' |-> w'[x]] /\ "pc" \in DOMAIN w'
    BY <1>2 DEF Carry, WriterOnly
  <2> QED BY <2>1
<1>3. CASE Exchange
  <2>1. /\ hdr'.head = hdr.head /\ hdr'.notify = {}
        /\ hdr' = [x \in DOMAIN hdr' |-> hdr'[x]] /\ {"head", "notify"} \subseteq DOMAIN hdr'
        /\ w' = [x \in DOMAIN w' |-> w'[x]] /\ "pc" \in DOMAIN w'
        /\ rd' = [rd EXCEPT !.msg = @ \/ Handle \in hdr.notify]
        /\ note' = [note EXCEPT !.sent = @ \/ note.bit \in hdr.notify]
    BY <1>3 DEF Exchange
  <2>2. /\ rd.poll => note'.sent
        /\ note'.sent \in BOOLEAN /\ note'.bit = note.bit
        /\ note' = [x \in DOMAIN note' |-> note'[x]] /\ DOMAIN note' = DOMAIN note
    BY <2>1
  <2>3. /\ rd.poll /\ note'.bit = Handle => rd'.msg
        /\ rd'.msg \in BOOLEAN /\ DOMAIN rd' = DOMAIN rd /\ rd' = [x \in DOMAIN rd' |-> rd'[x]]
        /\ rd'.pc = rd.pc /\ rd'.rhead = rd.rhead /\ rd'.poll = rd.poll /\ rd'.due = rd.due
    BY <2>1, <2>2
  <2> QED BY <2>1, <2>2, <2>3
<1> QED BY <1>1, <1>2, <1>3

\* The reader sets a bit, for a ring it will read.
LEMMA SetsOK ==
  ASSUME RingInv, NEW bit, Sets(bit), UNCHANGED w, rd.pc = "idle",
         rd' = [x \in DOMAIN rd' |-> rd'[x]], DOMAIN rd' = DOMAIN rd,
         rd'.pc = "idle", rd'.poll \in BOOLEAN, rd'.msg \in BOOLEAN, rd'.due = TRUE
  PROVE  RingInv'
<1>1. /\ hdr' = [x \in DOMAIN hdr' |-> hdr'[x]] /\ DOMAIN hdr' = DOMAIN hdr
      /\ bit \in hdr'.notify
  BY DEF Sets, RingInv, Shape
<1>2. note' = [bit |-> bit, sent |-> FALSE]
  BY DEF Sets
<1> QED BY <1>1, <1>2
        DEF RingInv, Shape, RingArmed, RingTold, RingInformed, SearchDue, Known, Snapping

\* The reader starts or stops to poll, or takes a message.
LEMMA PollStep ==
  ASSUME RingInv, RingNotified \/ \E val \in BOOLEAN : SetPoll(val)
  PROVE  RingInv'
<1>1. CASE RingNotified
  <2>1. /\ rd' = [rd EXCEPT !.msg = FALSE, !.due = @ \/ rd.poll]
        /\ rd.pc = "idle" /\ UNCHANGED w
        /\ IF rd.poll THEN Sets(Handle) ELSE UNCHANGED <<hdr, note>>
    BY <1>1 DEF RingNotified, ReaderOnly
  <2>2. /\ rd' = [x \in DOMAIN rd' |-> rd'[x]] /\ DOMAIN rd' = DOMAIN rd
        /\ rd'.pc = "idle" /\ rd'.poll = rd.poll /\ rd'.msg = FALSE
        /\ rd'.due \in BOOLEAN /\ (rd.poll => rd'.due) /\ rd.poll \in BOOLEAN
    BY <2>1 DEF RingInv, Shape
  <2>3. CASE rd.poll
    BY <2>1, <2>2, <2>3, SetsOK
  <2>4. CASE ~rd.poll
    BY <2>1, <2>2, <2>4
    DEF RingInv, Shape, RingArmed, RingTold, RingInformed, SearchDue, Known, Snapping
  <2> QED BY <2>3, <2>4
<1>2. ASSUME NEW val \in BOOLEAN, SetPoll(val) PROVE RingInv'
  <2>1. /\ rd' = [rd EXCEPT !.poll = val, !.due = TRUE]
        /\ rd.pc = "idle" /\ UNCHANGED w
        /\ IF val THEN Sets(0) ELSE UNCHANGED <<hdr, note>>
    BY <1>2 DEF SetPoll, ReaderOnly
  <2>2. /\ rd' = [x \in DOMAIN rd' |-> rd'[x]] /\ DOMAIN rd' = DOMAIN rd
        /\ rd'.pc = "idle" /\ rd'.poll = val /\ rd'.msg = rd.msg /\ rd'.due = TRUE
        /\ rd.msg \in BOOLEAN
    BY <2>1 DEF RingInv, Shape
  <2>3. CASE val
    BY <2>1, <2>2, <2>3, SetsOK
  <2>4. CASE ~val
    BY <2>1, <2>2, <2>4
    DEF RingInv, Shape, RingArmed, RingTold, RingInformed, SearchDue, Known, Snapping
  <2> QED BY <2>3, <2>4
<1> QED BY <1>1, <1>2

\* A snapshot, from the look at head to its end.
LEMMA SnapshotStep ==
  ASSUME RingInv, Snapshot \/ Advance \/ CopyData \/ CopyEntries \/ CopyRest \/ ReadUsed \/ Finish
  PROVE  RingInv'
<1>1. CASE Snapshot
  BY <1>1 DEF Snapshot, ReaderOnly, Quiet, RingInv, Shape, RingArmed, RingTold, RingInformed, SearchDue, Known, Snapping
<1> DEFINE Goes == /\ rd' = [x \in DOMAIN rd' |-> rd'[x]] /\ DOMAIN rd' = DOMAIN rd
                   /\ rd'.head = rd.head /\ rd'.poll = rd.poll /\ rd'.due = rd.due /\ rd'.msg = rd.msg
                   /\ rd'.pc \notin {"idle", "search"}
           Ends == rd' = [pc |-> "idle", rhead |-> rd.head, poll |-> rd.poll, due |-> rd.due, msg |-> rd.msg]
<1>2. ASSUME Snapping, UNCHANGED <<hdr, w, note>>, Goes PROVE RingInv'
  BY <1>2 DEF RingInv, Shape, RingArmed, RingTold, RingInformed, SearchDue, Known, Snapping
<1>3. ASSUME Snapping, UNCHANGED <<hdr, w, note>>, Ends PROVE RingInv'
  BY <1>3 DEF RingInv, Shape, RingArmed, RingTold, RingInformed, SearchDue, Known, Snapping
<1>4. ASSUME Snapping
      PROVE  rd = [x \in DOMAIN rd |-> rd[x]] /\ {"pc", "rhead", "poll", "due", "msg", "head"} \subseteq DOMAIN rd
  BY <1>4 DEF RingInv, Shape
<1>5. CASE Advance
  <2>1. /\ Snapping /\ UNCHANGED <<hdr, w, note>>
        /\ \/ \E size, dstart, rhead :
                 rd' = [rd EXCEPT !.pc = "data", !.size = size, !.dstart = dstart,
                                  !.rhead = rhead, !.first = rhead]
           \/ rd' = [Idle EXCEPT !.rhead = rd.head]
    BY <1>5, Zenon DEF Advance, ReaderOnly, Quiet, Snapping
  <2>2. Goes \/ Ends
    BY <1>4, <2>1 DEF Idle
  <2> QED BY <1>2, <1>3, <2>1, <2>2
<1>6. CASE CopyData \/ CopyEntries \/ CopyRest \/ ReadUsed
  <2>1. /\ Snapping /\ UNCHANGED <<hdr, w, note>>
        /\ \E x : \/ rd' = [rd EXCEPT !.pc = "entries", !.data = x]
                  \/ rd' = [rd EXCEPT !.pc = "rest", !.ents = x]
                  \/ rd' = [rd EXCEPT !.pc = "used", !.ents = x]
                  \/ rd' = [rd EXCEPT !.pc = "finish", !.used = x]
    BY <1>6, Zenon DEF CopyData, CopyEntries, CopyRest, ReadUsed, ReaderOnly, Quiet, Snapping
  <2>2. Goes
    BY <1>4, <2>1
  <2> QED BY <1>2, <2>1, <2>2
<1>7. CASE Finish
  BY <1>3, <1>7 DEF Finish, Idle, ReaderOnly, Quiet, Snapping
<1> QED BY <1>1, <1>5, <1>6, <1>7

\* The reader moves its start: it is going to read again.
LEMMA StartStep ==
  ASSUME RingInv,
         Search \/ (\E n \in Offsets : SetStartOffset(n)) \/ (\E ts \in Times : SetStartTime(ts))
  PROVE  RingInv'
<1> USE DEF RingInv, Shape, RingArmed, RingTold, RingInformed, SearchDue, Known, Snapping, ReaderOnly, Quiet
<1>1. CASE Search
  <2>1. /\ rd.pc = "search" /\ UNCHANGED <<hdr, w, note>>
        /\ \/ rd' = [Idle EXCEPT !.rhead = rd.lo]
           \/ \E x : rd' = [rd EXCEPT !.hi = x] \/ rd' = [rd EXCEPT !.lo = x]
    BY <1>1, Zenon DEF Search
  <2> QED BY <2>1 DEF Idle
<1>2. ASSUME NEW n \in Offsets, SetStartOffset(n) PROVE RingInv'
  BY <1>2 DEF SetStartOffset
<1>3. ASSUME NEW ts \in Times, SetStartTime(ts) PROVE RingInv'
  BY <1>3 DEF SetStartTime
<1> QED BY <1>1, <1>2, <1>3

\* No entry goes unannounced to a reader that polls, however the writer's
\* exchange of the notify mask (udebug_entry_add) falls between the steps of the
\* reader that sets its bit and reads head (__udebug_poll, snapshot): a message
\* with the bit the reader set was sent.  For every handle; the message is the
\* reader's own if the bit is, and udebug_remote_buf_set_poll sets bit 0.
THEOREM NotifyNotLost == RingSpec => []NoLostNotify
<1>1. RingInit => RingInv
  <2> SUFFICES ASSUME RingInit PROVE RingInv
    OBVIOUS
  <2>1. /\ hdr = [head |-> StartHead, head_hi |-> 0, data_head |-> (2 * StartHead) % DataMod,
                  data_used |-> (2 * StartHead) % DataMod, notify |-> {}]
        /\ w = [pc |-> "idle", clock |-> RingSize, len |-> 0, nul |-> 0, writes |-> 0]
        /\ rd = [pc |-> "idle", rhead |-> StartHead - RingSize, poll |-> FALSE, due |-> FALSE, msg |-> FALSE]
        /\ note = [bit |-> 0, sent |-> FALSE]
    BY Zenon DEF RingInit
  <2> QED BY <2>1 DEF RingInv, Shape, RingArmed, RingTold, RingInformed, SearchDue, Known, Snapping
<1>2. RingInv /\ [RingNext]_ringVars => RingInv'
  <2> SUFFICES ASSUME RingInv, [RingNext]_ringVars PROVE RingInv'
    OBVIOUS
  <2>1. CASE Writer
    BY <2>1, WriterStep, WriterEnds DEF Writer
  <2>2. CASE Reader
    BY <2>2, PollStep, SnapshotStep, StartStep DEF Reader
  <2>3. CASE UNCHANGED ringVars
    BY <2>3 DEF ringVars, RingInv, Shape, RingArmed, RingTold, RingInformed, SearchDue, Known, Snapping
  <2> QED BY <2>1, <2>2, <2>3 DEF RingNext
<1>3. RingInv => NoLostNotify
  BY DEF RingInv, Shape, RingInformed, RingTold, Known, Snapping, NoLostNotify
<1> QED BY <1>1, <1>2, <1>3, PTL DEF RingSpec

-----------------------------------------------------------------------------
(* What a snapshot shows was written.  Offsets are counted on without wrapping: *)
(* A[j] is where entry j of the log begins, A[Len(log) + 1] is where the next   *)
(* one begins, U is the end of what the writer has announced, and V what U was  *)
(* when the reader looked at data_used.                                         *)

\* The furthest an entry, or what is announced for it, reaches from its start.
Reach == (DataSize \div 2) + MinAlloc + 1

\* No entry covers the buffer, and the writer does not get through half the
\* range of an offset in one round of the descriptors.
Roomy ==
  /\ Reach < DataSize
  /\ (RingSize + 1) * Reach <= DataMod \div 2

DataOfs == 0..(DataMod - 1)
HeadOfs == 0..(HeadMod - 1)
Desc == [start : DataOfs, len : Nat, ts : Int]
Shot == [start : DataOfs, len : Nat, ts : Int, bytes : Seq(Nat)]
DescOf(e) == [start |-> e.start, len |-> e.len, ts |-> e.ts]

WPoints == {"idle", "init", "open", "copy", "try", "again", "carry", "added"}

WriterTypes ==
  /\ hdr \in [head : HeadOfs, head_hi : Nat, data_head : DataOfs, data_used : DataOfs,
              notify : SUBSET Nat]
  /\ ring \in [0..(RingSize - 1) -> Desc]
  /\ mem \in [0..(DataSize - 1) -> Nat]
  /\ w \in [pc : WPoints, clock : Int, len : Nat, nul : 0..1, writes : Nat]
  /\ log \in Seq(Shot) /\ Len(log) >= RingSize

\* An entry is in progress.
Open == w.pc \in {"init", "open", "copy", "try", "again"}
Prog == IF Open THEN 1 ELSE 0

\* The entries follow each other, each with its NUL.
Starts(A) ==
  /\ A \in [1..(Len(log) + 1) -> Nat]
  /\ \A j \in 1..Len(log) :
       /\ log[j].start = A[j] % DataMod
       /\ A[j + 1] = A[j] + log[j].len + 1
       /\ log[j].len + 1 <= Reach
       /\ Len(log[j].bytes) = log[j].len

\* The descriptors of the last entries are in the ring.
RingOK ==
  \A i \in 1..(RingSize - Prog) : ring[Slot(hdr.head - i)] = DescOf(log[Len(log) + 1 - i])

\* How many bytes of the entry in progress are or will be written, NUL excluded.
Wanted == cur.len + (IF w.pc = "copy" THEN w.len ELSE IF w.pc = "try" THEN MinAlloc ELSE 0)

\* What is written was announced before.
Announced(A, U) ==
  LET next == Len(log) + 1
  IN /\ U \in Nat /\ hdr.data_used = U % DataMod /\ hdr.data_head = A[next] % DataMod
     /\ A[next] <= U /\ DataSize <= U
     /\ U <= A[IF Open THEN next ELSE Len(log)] + Reach
     /\ Open => /\ cur.start = A[next] % DataMod
                /\ cur.len + 1 <= Reach
                /\ Wanted > 0 => A[next] + Wanted + 1 <= U
     /\ w.pc = "copy" => w.len >= 1 /\ w.nul <= w.len /\ cur.len + w.len <= DataSize \div 2
     /\ w.pc = "try" => cur.len <= DataSize \div 2
     /\ w.pc = "again" => w.len >= 1 /\ cur.len + w.len <= DataSize \div 2

\* The bytes of an entry are in memory until the announced end comes round to it.
BytesOK(A, U) ==
  \A j \in 1..Len(log) : A[j] >= U - DataSize =>
    \A i \in 1..log[j].len : mem[(A[j] + i - 1) % DataSize] = log[j].bytes[i]

\* The upper half of head is counted after head has wrapped.
Wraps == w.pc = "carry" => hdr.head = 0

WriterInv(A, U) ==
  WriterTypes /\ Starts(A) /\ RingOK /\ Announced(A, U) /\ BytesOK(A, U) /\ Wraps

-----------------------------------------------------------------------------

Copying == rd.pc \in {"data", "entries", "rest", "used", "finish"}

ReaderTypes ==
  \/ rd \in [pc : {"idle"}, rhead : HeadOfs, poll : BOOLEAN, due : BOOLEAN, msg : BOOLEAN]
  \/ rd \in [pc : {"search"}, rhead : HeadOfs, poll : BOOLEAN, due : BOOLEAN, msg : BOOLEAN,
             lo : HeadOfs, hi : HeadOfs, since : Nat]
  \/ rd \in [pc : {"advance", "data", "entries", "rest", "used", "finish"},
             rhead : HeadOfs, poll : BOOLEAN, due : BOOLEAN, msg : BOOLEAN,
             head : HeadOfs, dstart : DataOfs, first : HeadOfs, size : Nat,
             data : Seq(Nat), ents : Seq(Desc), used : DataOfs, lapped : {FALSE}]

\* Entries completed since the snapshot looked at head.
Since == (hdr.head - rd.head) % HeadMod

\* Entries from the oldest one the snapshot may take on.
Behind == (hdr.head - Clamped(rd.head)) % HeadMod

\* Entries the snapshot takes.
Taken == (rd.head - rd.first) % HeadMod

\* Before the sizes are known: the writer has begun no entry since, or it has
\* not come round to the oldest one.
AdvanceOK ==
  rd.pc = "advance" =>
    \/ Behind + Prog <= RingSize /\ Since <= Behind + 1
    \/ Since + Prog <= 1

CopyOK ==
  Copying => /\ Taken \in 1..RingSize /\ Taken + Since + Prog <= RingSize
             /\ rd.size <= DataSize

\* The copy has the bytes of the entries that were complete and start at or
\* behind X - DataSize.
DataOK(A, X) ==
  /\ Len(rd.data) = rd.size
  /\ \A j \in 1..(Len(log) - Since) : A[j] >= X - DataSize =>
       \A i \in 1..log[j].len :
         At(log[j]) + i <= rd.size => rd.data[At(log[j]) + i] = log[j].bytes[i]

CopiedOK(A, U) == rd.pc \in {"entries", "rest", "used"} => DataOK(A, U)

EntriesOK ==
  rd.pc \in {"rest", "used", "finish"} =>
    /\ Len(rd.ents) = Taken
    /\ \A k \in 1..Taken : rd.ents[k] = DescOf(log[Len(log) - Since - Taken + k])

UsedOK(A, U, V) ==
  rd.pc = "finish" => /\ V \in DataSize..U /\ rd.used = (V - DataSize) % DataMod
                      /\ DataOK(A, V)

ReaderInv(A, U, V) ==
  ReaderTypes /\ AdvanceOK /\ CopyOK /\ CopiedOK(A, U) /\ EntriesOK /\ UsedOK(A, U, V)

SeenOK == seen \in Seq(Shot) /\ Genuine

\* The writer has come round to the snapshot: nothing is known of what it takes.
Lapped ==
  /\ rd.pc \in {"advance", "data", "entries", "rest", "used", "finish"}
  /\ rd = [x \in DOMAIN rd |-> rd[x]]
  /\ DOMAIN rd = {"pc", "rhead", "poll", "due", "msg", "head", "dstart", "first", "size",
                  "data", "ents", "used", "lapped"}
  /\ rd.head \in HeadOfs /\ {rd.poll, rd.due, rd.msg} \subseteq BOOLEAN
  /\ rd.lapped = TRUE

Sound(A, U, V) == WriterInv(A, U) /\ ReaderInv(A, U, V) /\ SeenOK
Inv(A, U, V) == WriterInv(A, U) /\ (ReaderInv(A, U, V) \/ Lapped) /\ SeenOK
GInv == \E A, U, V : Inv(A, U, V)

-----------------------------------------------------------------------------
(* Numbers. *)

\* What is needed of the assumption on the constants.
LEMMA RingSizes ==
  /\ RingSize \in Nat \ {0} /\ DataSize \in Nat \ {0} /\ HeadMod \in Nat \ {0} /\ DataMod \in Nat \ {0}
  /\ MinAlloc \in Nat \ {0} /\ StartHead \in Nat
  /\ HeadMod % RingSize = 0 /\ DataMod % DataSize = 0
  /\ HeadMod >= 4 * RingSize /\ DataMod >= 8 * DataSize
  /\ RingSize >= 4 /\ DataSize \div 2 \in Nat \ {0} /\ 2 * (DataSize \div 2) = DataSize
  /\ DataMod \div 2 \in Nat /\ 2 * (DataMod \div 2) <= DataMod /\ DataMod <= 2 * (DataMod \div 2) + 1
  /\ HeadMod \div 2 \in Nat /\ 2 * (HeadMod \div 2) <= HeadMod /\ HeadMod <= 2 * (HeadMod \div 2) + 1
  /\ StartHead >= RingSize /\ StartHead < HeadMod /\ DataSize <= 2 * StartHead
  /\ \A l \in Lens : l \in 1..(DataSize \div 2)
  /\ Ticks \subseteq Int
  /\ Reach \in Nat /\ Reach = (DataSize \div 2) + MinAlloc + 1
<1>1. /\ RingSize \in Nat \ {0} /\ DataSize \in Nat \ {0} /\ HeadMod \in Nat \ {0} /\ DataMod \in Nat \ {0}
      /\ MinAlloc \in Nat \ {0} /\ StartHead \in Nat
      /\ HeadMod % RingSize = 0 /\ DataMod % DataSize = 0
      /\ HeadMod >= 4 * RingSize /\ DataMod >= 8 * DataSize
      /\ RingSize >= 4 /\ DataSize % 2 = 0
      /\ StartHead >= RingSize /\ StartHead < HeadMod /\ DataSize <= 2 * StartHead
      /\ \A l \in Lens : l \in 1..(DataSize \div 2)
      /\ Ticks \subseteq Int
  BY RingAssumption
<1>2. DataSize \div 2 \in Nat \ {0} /\ 2 * (DataSize \div 2) = DataSize
  BY <1>1
<1>3. /\ DataMod \div 2 \in Nat /\ 2 * (DataMod \div 2) <= DataMod /\ DataMod <= 2 * (DataMod \div 2) + 1
      /\ HeadMod \div 2 \in Nat /\ 2 * (HeadMod \div 2) <= HeadMod /\ HeadMod <= 2 * (HeadMod \div 2) + 1
  BY <1>1
<1> QED BY <1>1, <1>2, <1>3 DEF Reach

\* The least one of some numbers.
LEMMA MinOf ==
  ASSUME NEW T \in SUBSET Nat, T # {}
  PROVE  Min(T) \in T /\ \A m \in T : Min(T) <= m
BY LeastNumber DEF Min

\* Offsets and heads wrap.
LEMMA OfsOf ==
  ASSUME NEW a \in Int
  PROVE  a % DataMod \in DataOfs /\ a % HeadMod \in HeadOfs
<1>1. DataMod \in Nat \ {0} /\ HeadMod \in Nat \ {0}
  BY RingSizes
<1>2. a % DataMod \in Nat /\ a % DataMod < DataMod /\ a % HeadMod \in Nat /\ a % HeadMod < HeadMod
  BY <1>1, DivMod
<1> QED BY <1>1, <1>2 DEF DataOfs, HeadOfs

\* Different places less than M apart are different modulo M.
LEMMA ModApart ==
  ASSUME NEW M \in Nat \ {0}, NEW a \in Int, NEW b \in Int, a < b, b - a < M
  PROVE  a % M # b % M
<1> DEFINE s == a % M
           p == a \div M
           t == b % M
           q == b \div M
           k == q - p
           d == b - a
<1>1. s \in Nat /\ p \in Int /\ a = M * p + s /\ t \in Nat /\ q \in Int /\ b = M * q + t
  BY DivMod
<1> HIDE DEF s, p, t, q
<1> SUFFICES ASSUME s = t PROVE FALSE
  BY DEF s, t
<1>2. M * (q - p) = M * q - M * p /\ M * q \in Int /\ M * p \in Int
  BY <1>1
<1>3. M * k = d /\ k \in Int /\ d \in Int /\ d < M /\ -M < d
  BY <1>1, <1>2
<1> HIDE DEF k, d
<1>4. k = 0
  BY <1>3, Small
<1> QED BY <1>3, <1>4 DEF d

\* A descriptor's place depends on the head modulo the ring size only.
LEMMA SlotOf ==
  ASSUME NEW a \in Int, NEW k \in Int
  PROVE  /\ Slot((a % HeadMod) + k) = Slot(a + k)
         /\ Slot(a) \in 0..(RingSize - 1)
<1> DEFINE h == a % HeadMod
           x == h + k
           y == a + k
<1>1. h \in Int /\ x \in Int /\ y \in Int
  BY RingSizes, DivMod
<1>2. x % HeadMod = y % HeadMod
  BY RingSizes, ModAdd
<1> HIDE DEF h, x, y
<1>3. (x % HeadMod) % RingSize = x % RingSize /\ (y % HeadMod) % RingSize = y % RingSize
  BY <1>1, RingSizes, ModDivisor
<1>4. x % RingSize = y % RingSize
  BY <1>2, <1>3
<1>5. a % RingSize \in 0..(RingSize - 1)
  BY RingSizes, DivMod
<1> QED BY <1>4, <1>5 DEF x, y, h, Slot

LEMMA CellOf ==
  ASSUME NEW a \in Int, NEW k \in Int
  PROVE  /\ Cell((a % DataMod) + k) = (a + k) % DataSize
         /\ a % DataSize \in 0..(DataSize - 1)
<1> DEFINE h == a % DataMod
           x == h + k
           y == a + k
<1>1. h \in Int /\ x \in Int /\ y \in Int
  BY RingSizes, DivMod
<1>2. x % DataMod = y % DataMod
  BY RingSizes, ModAdd
<1> HIDE DEF h, x, y
<1>3. (x % DataMod) % DataSize = x % DataSize /\ (y % DataMod) % DataSize = y % DataSize
  BY <1>1, RingSizes, ModDivisor
<1>4. x % DataSize = y % DataSize
  BY <1>2, <1>3
<1>5. a % DataSize \in 0..(DataSize - 1)
  BY RingSizes, DivMod
<1> QED BY <1>4, <1>5 DEF x, y, h, Cell

\* Signed differences of offsets that are less than half the range apart.
LEMMA SubDataOf ==
  ASSUME NEW a \in Int, NEW b \in Int
  PROVE  /\ 0 <= a - b /\ a - b < DataMod \div 2 => SubData(a % DataMod, b % DataMod) = a - b
         /\ a < b /\ b - a <= DataMod \div 2 => SubData(a % DataMod, b % DataMod) < 0
<1> DEFINE s == a % DataMod
           t == b % DataMod
           d == a - b
           half == DataMod \div 2
<1>1. s \in Int /\ t \in Int /\ d \in Int
  BY RingSizes, DivMod
<1>2. (s - t) % DataMod = d % DataMod
  <2>1. ((a % DataMod) - t) % DataMod = (a - t) % DataMod
    <3>1. a - t \in Int /\ -t \in Int
      BY <1>1
    <3> HIDE DEF t
    <3> DEFINE u == -t
    <3>2. ((a % DataMod) + u) % DataMod = (a + u) % DataMod
      BY <3>1, RingSizes, ModAdd
    <3>3. (a % DataMod) + u = (a % DataMod) - t /\ a + u = a - t
      BY <1>1 DEF s
    <3> QED BY <3>2, <3>3
  <2>2. (a - (b % DataMod)) % DataMod = (a - b) % DataMod
    BY RingSizes, ModAdd
  <2> QED BY <2>1, <2>2
<1>3. SubData(s, t) = IF d % DataMod < half THEN d % DataMod ELSE (d % DataMod) - DataMod
  BY <1>2 DEF SubData, Signed
<1> HIDE DEF s, t
<1>4. ASSUME 0 <= d, d < half PROVE SubData(s, t) = d
  <2>1. d % DataMod = d
    BY <1>1, <1>4, RingSizes, ModSmall
  <2> QED BY <1>3, <1>4, <2>1
<1>5. ASSUME a < b, -d <= half PROVE SubData(s, t) < 0
  <2>1. d < 0 /\ -DataMod <= d
    BY <1>1, <1>5, RingSizes
  <2>2. d % DataMod = d + DataMod
    BY <1>1, <2>1, RingSizes, ModSmall
  <2>3. ~(d + DataMod < half)
    BY <1>1, <1>5, RingSizes
  <2> HIDE DEF d, half
  <2> QED BY <1>1, <1>3, <2>1, <2>2, <2>3, RingSizes
<1>6. b - a = -d
  BY <1>1
<1> QED BY <1>4, <1>5, <1>6 DEF s, t

\* The starts of entries that are k apart.
LEMMA Span ==
  ASSUME NEW A, WriterTypes, Starts(A), NEW a \in 1..(Len(log) + 1), NEW b \in a..(Len(log) + 1)
  PROVE  /\ A[a] \in Nat /\ A[b] \in Nat /\ A[a] + (b - a) <= A[b]
         /\ A[b] - A[a] <= (b - a) * Reach
<1> DEFINE n == Len(log) + 1
           OK(x, k) == A[x] + k <= A[x + k] /\ A[x + k] - A[x] <= k * Reach
           T == {k \in Nat : \A x \in 1..n : x + k <= n => OK(x, k)}
<1>1. log \in Seq(Shot) /\ n \in Nat /\ Reach \in Nat /\ A \in [1..n -> Nat] /\ Len(log) \in Nat
  <2>1. log \in Seq(Shot) /\ A \in [1..n -> Nat]
    BY DEF WriterTypes, Starts
  <2>2. Len(log) \in Nat
    BY <2>1
  <2>3. n \in Nat
    BY <2>2
  <2>4. Reach \in Nat
    BY RingSizes
  <2> QED BY <2>1, <2>2, <2>3, <2>4
<1>2. 0 \in T
  <2>1. ASSUME NEW x \in 1..n PROVE OK(x, 0)
    <3>1. x + 0 = x /\ 0 * Reach = 0 /\ A[x] \in Nat
      BY <1>1
    <3> QED BY <3>1
  <2> QED BY <2>1
<1>3. ASSUME NEW k \in Nat, k \in T PROVE k + 1 \in T
  <2> SUFFICES ASSUME NEW x \in 1..n, x + (k + 1) <= n PROVE OK(x, k + 1)
    OBVIOUS
  <2> DEFINE y == x + k
  <2>1. y \in 1..Len(log) /\ y \in 1..n /\ y + 1 \in 1..n /\ x + (k + 1) = y + 1
    BY <1>1
  <2>2. A[x] + k <= A[y] /\ A[y] - A[x] <= k * Reach
    BY <1>3, <2>1
  <2>3. log[y].len \in Nat /\ log[y].len + 1 <= Reach /\ A[y + 1] = A[y] + log[y].len + 1
    <3>1. log[y] \in Shot
      BY <1>1, <2>1
    <3> QED BY <3>1, <2>1 DEF Starts, Shot
  <2>4. A[x] \in Nat /\ A[y] \in Nat /\ A[y + 1] \in Nat
    BY <1>1, <2>1
  <2>5. (k + 1) * Reach = k * Reach + Reach /\ k * Reach \in Nat
    BY <1>1
  <2>6. A[x] + (k + 1) <= A[y + 1] /\ A[y + 1] - A[x] <= (k + 1) * Reach
    <3> DEFINE p == k * Reach
               q == (k + 1) * Reach
               ax == A[x]
               ay == A[y]
               az == A[y + 1]
               l == log[y].len
    <3> HIDE DEF p, q, y, ax, ay, az, l
    <3>1. ax + k <= ay /\ ay - ax <= p /\ l \in Nat /\ l + 1 <= Reach /\ az = ay + l + 1
      BY <2>2, <2>3 DEF p, ax, ay, az, l
    <3>2. ax \in Nat /\ ay \in Nat /\ az \in Nat /\ p \in Nat /\ q = p + Reach
      BY <2>4, <2>5 DEF ax, ay, az, p, q
    <3>3. ax + (k + 1) <= az /\ az - ax <= q
      BY <3>1, <3>2, <1>1
    <3> QED BY <3>3 DEF ax, az, q
  <2> QED BY <2>6, <2>1
<1> HIDE DEF OK
<1>4. Nat \subseteq T
  <2> HIDE DEF T
  <2> QED BY <1>2, <1>3, Induction
<1> DEFINE c == b - a
<1>5. c \in Nat /\ a \in 1..n /\ a + c = b /\ b <= n
  BY <1>1
<1> HIDE DEF c, n
<1>6. OK(a, c)
  BY <1>4, <1>5
<1>7. A[a] \in Nat /\ A[b] \in Nat
  BY <1>1, <1>5 DEF n
<1> QED BY <1>5, <1>6, <1>7 DEF OK, c

\* Distances on the ring of heads add up.
LEMMA Chain ==
  ASSUME NEW M \in Nat \ {0}, NEW a \in Int, NEW b \in Int, NEW c \in Int,
         ((a - b) % M) + ((b - c) % M) < M
  PROVE  (a - c) % M = ((a - b) % M) + ((b - c) % M)
<1> DEFINE x == a - b
           y == b - c
           s == x % M
           t == y % M
           p == x \div M
           q == y \div M
           z == a - c
           e == p + q
           f == s + t
<1>1. x \in Int /\ y \in Int /\ z = x + y
  OBVIOUS
<1> HIDE DEF x, y
<1>2. s \in Nat /\ t \in Nat /\ p \in Int /\ q \in Int /\ x = M * p + s /\ y = M * q + t
  BY <1>1, DivMod
<1> HIDE DEF s, t, p, q
<1>3. M * e = M * p + M * q /\ M * p \in Int /\ M * q \in Int /\ e \in Int
  BY <1>2
<1>4. f \in Nat /\ f < M
  BY <1>2 DEF s, t, x, y
<1>5. z = M * e + f /\ z \in Int
  BY <1>1, <1>2, <1>3
<1> HIDE DEF z, e, f
<1>6. z % M = f
  BY <1>3, <1>4, <1>5, ModUnique
<1> QED BY <1>6 DEF z, f, s, t, x, y

\* One entry more.
LEMMA NextHead ==
  ASSUME NEW M \in Nat \ {0}, NEW a \in Int, NEW b \in Int, ((a - b) % M) + 1 < M
  PROVE  (((a + 1) % M) - b) % M = ((a - b) % M) + 1
<1> DEFINE x == a + 1
           y == -b
           z == a - b
           s == z % M
           p == z \div M
           u == z + 1
           v == s + 1
<1>1. x \in Int /\ y \in Int /\ z \in Int /\ x + y = u /\ u \in Int
  OBVIOUS
<1> HIDE DEF x, y
<1>2. ((x % M) + y) % M = u % M
  <2>1. ((x % M) + y) % M = (x + y) % M
    BY <1>1, ModAdd
  <2> QED BY <1>1, <2>1
<1>3. (x % M) + y = (x % M) - b
  BY <1>1, DivMod DEF y
<1> HIDE DEF z
<1>4. s \in Nat /\ p \in Int /\ z = M * p + s
  BY <1>1, DivMod
<1>5. v \in Nat /\ v < M
  BY <1>4 DEF z
<1> HIDE DEF s, p
<1>6. u = M * p + v
  BY <1>4, <1>1
<1> HIDE DEF u, v
<1>7. u % M = v
  BY <1>1, <1>4, <1>5, <1>6, ModUnique
<1> QED BY <1>2, <1>3, <1>7 DEF x, v, s, z

\* The place of what is n descriptors before a.
LEMMA SlotBack ==
  ASSUME NEW a \in Int, NEW b \in Int, NEW n \in Int, (a - b) % HeadMod = n, NEW k \in Int
  PROVE  Slot(b + k) = Slot(a - n + k)
<1> DEFINE d == a - b
           q == d \div HeadMod
           r == -q
           x == b + k
           y == a - n + k
<1>1. d \in Int /\ q \in Int /\ d = HeadMod * q + n
  BY RingSizes, DivMod
<1> HIDE DEF q
<1>2. HeadMod * r = -(HeadMod * q) /\ HeadMod * q \in Int /\ r \in Int
  BY <1>1, RingSizes
<1>3. x \in Int /\ y \in Int /\ x = y + HeadMod * r
  BY <1>1, <1>2
<1> HIDE DEF x, y, r
<1>4. x % HeadMod = y % HeadMod
  BY <1>2, <1>3, RingSizes, ModShift
<1>5. (x % HeadMod) % RingSize = x % RingSize /\ (y % HeadMod) % RingSize = y % RingSize
  BY <1>3, RingSizes, ModDivisor
<1>6. x % RingSize = y % RingSize
  BY <1>4, <1>5
<1> QED BY <1>6 DEF Slot, x, y

LEMMA Ordered ==
  ASSUME NEW A, WriterTypes, Starts(A), NEW a \in 1..(Len(log) + 1), NEW b \in a..(Len(log) + 1)
  PROVE  A[a] <= A[b]
<1>1. A[a] \in Nat /\ A[b] \in Nat /\ A[a] + (b - a) <= A[b]
  BY Span
<1> QED BY <1>1

-----------------------------------------------------------------------------
(* The writer. *)

\* The reader while it takes a snapshot.
Snap(pcs) ==
  [pc : pcs, rhead : HeadOfs, poll : BOOLEAN, due : BOOLEAN, msg : BOOLEAN,
   head : HeadOfs, dstart : DataOfs, first : HeadOfs, size : Nat,
   data : Seq(Nat), ents : Seq(Desc), used : DataOfs, lapped : {FALSE}]

LEMMA SnapFields ==
  ASSUME ReaderTypes, rd.pc \notin {"idle", "search"}
  PROVE  /\ rd.rhead \in HeadOfs /\ rd.head \in HeadOfs /\ rd.first \in HeadOfs
         /\ rd.dstart \in DataOfs /\ rd.used \in DataOfs /\ rd.size \in Nat
<1>1. rd \in Snap({"advance", "data", "entries", "rest", "used", "finish"})
  <2>1. CASE rd \in [pc : {"idle"}, rhead : HeadOfs, poll : BOOLEAN, due : BOOLEAN, msg : BOOLEAN]
    <3>1. rd.pc = "idle"
      BY <2>1
    <3> QED BY <3>1
  <2>2. CASE rd \in [pc : {"search"}, rhead : HeadOfs, poll : BOOLEAN, due : BOOLEAN, msg : BOOLEAN,
                     lo : HeadOfs, hi : HeadOfs, since : Nat]
    <3>1. rd.pc = "search"
      BY <2>2
    <3> QED BY <3>1
  <2> QED BY <2>1, <2>2, Zenon DEF ReaderTypes, Snap
<1> QED BY <1>1 DEF Snap

\* What the reader relies on does not change while the writer is at an entry.
LEMMA ReaderKeeps ==
  ASSUME NEW A, NEW U \in Nat, NEW V, NEW X \in Nat, U <= X, ReaderInv(A, U, V),
         UNCHANGED <<rd, log>>, hdr'.head = hdr.head, hdr'.head_hi = hdr.head_hi, Prog' = Prog,
         WriterTypes, Starts(A)
  PROVE  ReaderInv(A, X, V)'
<1>1. Since' = Since /\ Taken' = Taken /\ Copying' = Copying
  BY DEF Since, Taken, Copying
<1>2. Clamped(rd.head)' = Clamped(rd.head)
  BY DEF Clamped, min_head
<1>3. Behind' = Behind
  BY <1>2 DEF Behind
<1>4. ReaderTypes' /\ AdvanceOK' /\ CopyOK' /\ EntriesOK'
  BY <1>1, <1>3 DEF ReaderInv, ReaderTypes, AdvanceOK, CopyOK, EntriesOK
<1>5. ASSUME NEW Y \in Nat, NEW Z \in Nat, Y <= Z, DataOK(A, Y), rd.pc \in {"entries", "rest", "used", "finish"}
      PROVE  DataOK(A, Z)'
  <2>1. Len(log) \in Nat /\ Since \in Nat
    <3>1. rd.head \in Int /\ hdr.head \in Int
      <4>1. rd.head \in HeadOfs
        BY <1>5, SnapFields DEF ReaderInv
      <4> QED BY <4>1 DEF WriterTypes, HeadOfs
    <3> DEFINE x == hdr.head - rd.head
    <3>2. x \in Int
      BY <3>1
    <3> HIDE DEF x
    <3>3. x % HeadMod \in Nat
      BY <3>2, RingSizes, DivMod
    <3> QED BY <3>3 DEF WriterTypes, Since, x
  <2>2. ASSUME NEW j \in 1..(Len(log) - Since), A[j] >= Z - DataSize PROVE A[j] >= Y - DataSize
    <3>1. j \in 1..(Len(log) + 1)
      BY <2>1
    <3>2. A[j] \in Nat
      BY <3>1 DEF Starts
    <3> QED BY <3>2, <2>2, <1>5, RingSizes
  <2> QED BY <1>1, <1>5, <2>2 DEF DataOK, At
<1>6. CopiedOK(A, X)'
  BY <1>5 DEF CopiedOK, ReaderInv
<1>7. UsedOK(A, X, V)'
  <2> SUFFICES ASSUME rd.pc = "finish"
      PROVE  V \in DataSize..X /\ rd.used = (V - DataSize) % DataMod /\ DataOK(A, V)'
    BY DEF UsedOK
  <2>1. V \in DataSize..U /\ rd.used = (V - DataSize) % DataMod /\ DataOK(A, V)
    BY DEF ReaderInv, UsedOK
  <2>2. V \in Nat /\ V <= V /\ V \in DataSize..X
    BY <2>1, RingSizes
  <2>3. DataOK(A, V)'
    BY <2>1, <2>2, <1>5
  <2> QED BY <2>1, <2>2, <2>3
<1> QED BY <1>4, <1>6, <1>7 DEF ReaderInv

\* The descriptors of complete entries do not change while the next one is written.
LEMMA RingKeeps ==
  ASSUME WriterTypes, RingOK, UNCHANGED log, hdr'.head = hdr.head, Open',
         \A s \in 0..(RingSize - 1) : s # Slot(hdr.head) => ring'[s] = ring[s]
  PROVE  RingOK'
<1> SUFFICES ASSUME NEW i \in 1..(RingSize - 1)
    PROVE  ring'[Slot(hdr.head - i)] = DescOf(log[Len(log) + 1 - i])
  BY DEF RingOK, Prog
<1> DEFINE h == hdr.head
           g == h - i
<1>1. h \in Int /\ g \in Int /\ g < h /\ h - g < RingSize
  BY RingSizes DEF WriterTypes, HeadOfs
<1>2. Slot(g) \in 0..(RingSize - 1)
  BY <1>1, SlotOf
<1>3. g % RingSize # h % RingSize
  <2> HIDE DEF g, h
  <2> QED BY <1>1, RingSizes, ModApart
<1>4. ring'[Slot(g)] = ring[Slot(g)]
  BY <1>2, <1>3 DEF Slot
<1>5. ring[Slot(g)] = DescOf(log[Len(log) + 1 - i])
  BY RingSizes DEF RingOK, Prog
<1> QED BY <1>4, <1>5

\* An entry goes on.
LEMMA EntryGoesOn ==
  ASSUME NEW A, NEW U, NEW V, NEW X \in Nat, U <= X, Inv(A, U, V), Open, Open', WriterOnly, UNCHANGED log,
         hdr'.head = hdr.head, hdr'.head_hi = hdr.head_hi,
         \A s \in 0..(RingSize - 1) : s # Slot(hdr.head) => ring'[s] = ring[s],
         WriterTypes', Announced(A, X)', BytesOK(A, X)'
  PROVE  Inv(A, X, V)'
<1>1. WriterTypes /\ Starts(A) /\ RingOK /\ (ReaderInv(A, U, V) \/ Lapped) /\ SeenOK /\ U \in Nat
  BY DEF Inv, WriterInv, Announced
<1>2. RingOK'
  BY <1>1, RingKeeps
<1>3. Starts(A)' /\ SeenOK'
  BY <1>1 DEF Starts, SeenOK, Genuine, WriterOnly
<1>4. ReaderInv(A, X, V)' \/ Lapped'
  <2>1. Prog' = Prog /\ UNCHANGED <<rd, log>>
    BY DEF Prog, WriterOnly
  <2>2. CASE ReaderInv(A, U, V)
    BY <1>1, <2>1, <2>2, ReaderKeeps
  <2>3. CASE Lapped
    BY <2>1, <2>3 DEF Lapped
  <2> QED BY <1>1, <2>2, <2>3
<1>5. Wraps'
  BY DEF Open, Wraps
<1> QED BY <1>2, <1>3, <1>4, <1>5 DEF Inv, WriterInv

\* The entry in progress, and where it is.
LEMMA CurOK ==
  ASSUME NEW A, NEW U, WriterInv(A, U)
  PROVE  /\ Len(log) \in Nat /\ Len(log) + 1 \in 1..(Len(log) + 1)
         /\ Slot(hdr.head) \in 0..(RingSize - 1) /\ cur \in Desc /\ cur = ring[Slot(hdr.head)]
         /\ cur.start \in DataOfs /\ cur.len \in Nat /\ cur.ts \in Int
         /\ A[Len(log) + 1] \in Nat /\ U \in Nat
<1>1. hdr.head \in Int /\ ring \in [0..(RingSize - 1) -> Desc] /\ log \in Seq(Shot)
  BY DEF WriterInv, WriterTypes, HeadOfs
<1>2. Slot(hdr.head) \in 0..(RingSize - 1)
  BY <1>1, SlotOf
<1>3. cur \in Desc
  BY <1>1, <1>2 DEF cur
<1>4. Len(log) \in Nat
  BY <1>1
<1>5. A \in [1..(Len(log) + 1) -> Nat]
  BY DEF WriterInv, Starts
<1>6. A[Len(log) + 1] \in Nat
  BY <1>4, <1>5
<1> QED BY <1>2, <1>3, <1>4, <1>6 DEF Desc, cur, WriterInv, Announced

\* The place X up to which the entry may be written after it was announced.
Room(A, U, X, len) ==
  /\ X \in Nat /\ U <= X /\ A[Len(log) + 1] + cur.len + len + 1 <= X /\ X <= A[Len(log) + 1] + Reach
  /\ hdr' = [hdr EXCEPT !.data_used = X % DataMod]

\* udebug_buf_alloc: the greater one of two offsets that wrap.
LEMMA Announces ==
  ASSUME NEW A, NEW U, WriterInv(A, U), Open, NEW len \in Nat, cur.len + len + 1 <= Reach,
         Announce(len), Roomy
  PROVE  \E X : Room(A, U, X, len)
<1> DEFINE a == A[Len(log) + 1]
           k == cur.len + len + 1
           T == a + k
           u == U % DataMod
           t == T % DataMod
<1>1. a \in Nat /\ U \in Nat /\ cur.len \in Nat /\ k \in Nat /\ T \in Nat /\ k <= Reach /\ Reach \in Nat
  <2>1. A[Len(log) + 1] \in Nat /\ U \in Nat /\ cur.len \in Nat
    BY CurOK
  <2>2. Reach \in Nat
    BY RingSizes
  <2> QED BY <2>1, <2>2
<1>2. hdr.data_used = u /\ a <= U /\ U <= a + Reach /\ cur.start = a % DataMod
  BY DEF WriterInv, Announced
<1>3. (cur.start + cur.len + len + 1) % DataMod = t
  <2>1. cur.start + cur.len + len + 1 = (a % DataMod) + k
    <3>1. a % DataMod \in Nat
      <4> HIDE DEF a
      <4> QED BY <1>1, RingSizes, DivMod
    <3> QED BY <1>1, <1>2, <3>1
  <2>2. a \in Int /\ k \in Int /\ DataMod \in Nat \ {0}
    BY <1>1, RingSizes
  <2> HIDE DEF k, a
  <2>3. ((a % DataMod) + k) % DataMod = (a + k) % DataMod
    BY <2>2, ModAdd
  <2> QED BY <2>1, <2>3
<1>4. Reach < DataMod \div 2
  BY RingSizes DEF Roomy
<1>5. hdr' = [hdr EXCEPT !.data_used = u32_max(u, t)]
  BY <1>2, <1>3 DEF Announce
<1> HIDE DEF k, a
<1>6. U - T <= Reach /\ T - U <= Reach
  BY <1>1, <1>2
<1>7. DataMod \div 2 \in Nat
  BY RingSizes
<1>8. CASE U > T
  <2>1. 0 <= U - T /\ U - T < DataMod \div 2 /\ U - T > 0
    BY <1>1, <1>4, <1>6, <1>7, <1>8
  <2>2. U \in Int /\ T \in Int
    BY <1>1
  <2> HIDE DEF T
  <2>3. SubData(u, t) = U - T
    BY <2>1, <2>2, SubDataOf
  <2>4. u32_max(u, t) = U % DataMod
    BY <2>1, <2>3 DEF u32_max
  <2>5. T <= U
    BY <1>8, <2>2
  <2>6. hdr' = [hdr EXCEPT !.data_used = U % DataMod]
    BY <1>5, <2>4
  <2>7. T = A[Len(log) + 1] + cur.len + len + 1 /\ U <= A[Len(log) + 1] + Reach
    BY <1>1, <1>2 DEF T, a, k
  <2>8. Room(A, U, U, len)
    BY <1>1, <2>5, <2>6, <2>7 DEF Room
  <2> QED BY <2>8
<1>9. CASE U <= T
  <2>1. U \in Int /\ T \in Int
    BY <1>1
  <2>2. u32_max(u, t) = T % DataMod
    <3>1. CASE U = T
      BY <3>1 DEF u32_max
    <3>2. CASE U < T
      <4>1. T - U <= DataMod \div 2
        BY <1>1, <1>4, <1>6, <1>7, <3>2
      <4> HIDE DEF T
      <4>2. SubData(u, t) < 0
        BY <3>2, <4>1, <2>1, SubDataOf
      <4>3. SubData(u, t) \in Int
        <5>1. u \in Int /\ t \in Int
          BY <2>1, RingSizes, DivMod
        <5> DEFINE d == u - t
        <5>2. d \in Int
          BY <5>1
        <5> HIDE DEF d
        <5>3. d % DataMod \in Nat
          BY <5>2, RingSizes, DivMod
        <5>4. SubData(u, t) = IF d % DataMod < DataMod \div 2 THEN d % DataMod ELSE (d % DataMod) - DataMod
          BY DEF SubData, Signed, d
        <5> QED BY <5>3, <5>4, RingSizes
      <4> QED BY <4>2, <4>3 DEF u32_max
    <3> QED BY <1>9, <2>1, <3>1, <3>2
  <2>3. hdr' = [hdr EXCEPT !.data_used = T % DataMod]
    BY <1>5, <2>2
  <2>4. T = A[Len(log) + 1] + cur.len + len + 1 /\ T <= A[Len(log) + 1] + Reach
    BY <1>1 DEF a, k
  <2>5. Room(A, U, T, len)
    BY <1>1, <1>9, <2>3, <2>4 DEF Room
  <2> QED BY <2>5
<1> QED BY <1>1, <1>8, <1>9

LEMMA BytesStay ==
  ASSUME NEW A, NEW U, NEW X \in Nat, U <= X, WriterInv(A, U), UNCHANGED <<mem, log>>
  PROVE  BytesOK(A, X)'
<1> SUFFICES ASSUME NEW j \in 1..Len(log), A[j] >= X - DataSize
    PROVE  A[j] >= U - DataSize
  BY DEF BytesOK, WriterInv
<1>1. j \in 1..(Len(log) + 1)
  BY CurOK
<1>2. A[j] \in Nat /\ U \in Nat
  BY <1>1 DEF WriterInv, Starts, Announced
<1> QED BY <1>2, RingSizes

\* The bytes of the complete entries after a step.
Survive(A, U) ==
  \A j \in 1..Len(log) : A[j] >= U - DataSize =>
    \A i \in 1..log[j].len : mem'[(A[j] + i - 1) % DataSize] = log[j].bytes[i]

\* Writing n bytes within what is announced leaves the other entries as they are.
LEMMA Overwrites ==
  ASSUME NEW A, NEW U, WriterInv(A, U), Open, NEW n \in Nat, A[Len(log) + 1] + cur.len + n <= U,
         \A c \in 0..(DataSize - 1) :
            (\A k \in 0..(n - 1) : c # Cell(cur.start + cur.len + k)) => mem'[c] = mem[c]
  PROVE  Survive(A, U)
<1> SUFFICES ASSUME NEW j \in 1..Len(log), A[j] >= U - DataSize, NEW i \in 1..log[j].len
    PROVE  mem'[(A[j] + i - 1) % DataSize] = log[j].bytes[i]
  BY DEF Survive
<1> DEFINE a == A[Len(log) + 1]
           p == A[j] + i - 1
           c == p % DataSize
<1>1. /\ a \in Nat /\ U \in Nat /\ cur.len \in Nat /\ cur.start = a % DataMod
      /\ Len(log) \in Nat /\ Len(log) + 1 \in 1..(Len(log) + 1)
  BY CurOK DEF WriterInv, Announced
<1>2. WriterTypes /\ Starts(A) /\ BytesOK(A, U)
  BY DEF WriterInv
<1>3. log[j] \in Shot
  BY DEF WriterInv, WriterTypes
<1>4. /\ log[j].len \in Nat /\ A[j + 1] = A[j] + log[j].len + 1
      /\ j + 1 \in 1..(Len(log) + 1) /\ Len(log) + 1 \in (j + 1)..(Len(log) + 1) /\ j \in 1..(Len(log) + 1)
  <2>1. log[j].len \in Nat
    BY <1>3 DEF Shot
  <2>2. A[j + 1] = A[j] + log[j].len + 1
    BY <1>2 DEF Starts
  <2>3. /\ j + 1 \in 1..(Len(log) + 1) /\ Len(log) + 1 \in (j + 1)..(Len(log) + 1)
        /\ j \in 1..(Len(log) + 1)
    BY <1>1
  <2> QED BY <2>1, <2>2, <2>3
<1>5. A[j] \in Nat /\ A[j + 1] \in Nat
  BY <1>2, <1>4 DEF Starts
<1>6. A[j + 1] <= a
  <2> DEFINE x == j + 1
             y == Len(log) + 1
  <2>1. x \in 1..(Len(log) + 1) /\ y \in x..(Len(log) + 1)
    BY <1>4
  <2> HIDE DEF x, y
  <2>2. A[x] <= A[y]
    BY <1>2, <2>1, Ordered
  <2> QED BY <2>2 DEF x, y
<1>7. p \in Int /\ p >= U - DataSize /\ p < a /\ i \in Nat
  <2> DEFINE aj == A[j]
             ak == A[j + 1]
             l == log[j].len
  <2>1. /\ aj \in Nat /\ ak \in Nat /\ l \in Nat /\ ak = aj + l + 1 /\ ak <= a /\ i \in 1..l
        /\ aj >= U - DataSize /\ U \in Nat /\ a \in Nat
    BY <1>1, <1>4, <1>5, <1>6
  <2> HIDE DEF aj, ak, l, a
  <2>2. DataSize \in Nat
    BY RingSizes
  <2>3. aj + i - 1 \in Int /\ aj + i - 1 >= U - DataSize /\ aj + i - 1 < a /\ i \in Nat
    BY <2>1, <2>2
  <2> QED BY <2>3 DEF aj
<1>8. mem[c] = log[j].bytes[i]
  BY <1>2 DEF BytesOK
<1>9. c \in 0..(DataSize - 1)
  <2> HIDE DEF p
  <2> QED BY <1>7, CellOf
<1> HIDE DEF p, a
<1>10. ASSUME NEW k \in 0..(n - 1) PROVE c # Cell(cur.start + cur.len + k)
  <2> DEFINE l == cur.len
             q == a + (l + k)
             b == l + k
  <2>0. l \in Nat /\ a + l + n <= U
    BY <1>1 DEF a
  <2> HIDE DEF l
  <2>1. q \in Int /\ b \in Int /\ a \in Int /\ p < q /\ q - p < DataSize
    <3>1. DataSize \in Nat /\ U \in Nat /\ a \in Nat
      BY <1>1, RingSizes
    <3> QED BY <1>7, <2>0, <3>1
  <2>2. Cell((a % DataMod) + b) = (a + b) % DataSize
    <3> HIDE DEF b
    <3> QED BY <2>1, CellOf
  <2>3. (a % DataMod) + b = cur.start + cur.len + k
    <3>1. cur.start \in Int
      BY CurOK DEF DataOfs
    <3> QED BY <1>1, <2>0, <3>1 DEF l
  <2>4. p % DataSize # q % DataSize
    <3> HIDE DEF q
    <3> QED BY <1>7, <2>1, RingSizes, ModApart
  <2> QED BY <2>2, <2>3, <2>4
<1>11. mem'[c] = mem[c]
  BY <1>9, <1>10
<1> QED BY <1>8, <1>11 DEF p

\* The descriptor of the entry in progress after a step, the others as they are.
CurBecomes(start, len, ts) ==
  /\ ring' \in [0..(RingSize - 1) -> Desc]
  /\ ring'[Slot(hdr.head)] = [start |-> start, len |-> len, ts |-> ts]
  /\ \A s \in 0..(RingSize - 1) : s # Slot(hdr.head) => ring'[s] = ring[s]

LEMMA CurChanges ==
  ASSUME NEW A, NEW U, WriterInv(A, U)
  PROVE  /\ UNCHANGED ring => CurBecomes(cur.start, cur.len, cur.ts)
         /\ \A l \in Nat : ring' = [ring EXCEPT ![Slot(hdr.head)].len = l] =>
                             CurBecomes(cur.start, l, cur.ts)
         /\ \A t \in Int : ring' = [ring EXCEPT ![Slot(hdr.head)].ts = t] =>
                             CurBecomes(cur.start, cur.len, t)
         /\ ring' = [ring EXCEPT ![Slot(hdr.head)].start = hdr.data_head, ![Slot(hdr.head)].len = 0]
              => CurBecomes(hdr.data_head, 0, cur.ts)
<1> DEFINE s == Slot(hdr.head)
<1>1. s \in 0..(RingSize - 1) /\ ring[s] \in Desc /\ cur = ring[s]
  BY CurOK
<1>2. ring \in [0..(RingSize - 1) -> Desc] /\ hdr.data_head \in DataOfs
  BY DEF WriterInv, WriterTypes
<1> HIDE DEF s
<1>3. UNCHANGED ring => CurBecomes(cur.start, cur.len, cur.ts)
  BY <1>1, <1>2 DEF CurBecomes, s, Desc
<1>4. ASSUME NEW l \in Nat, ring' = [ring EXCEPT ![s].len = l]
      PROVE  CurBecomes(cur.start, l, cur.ts)
  <2>1. ring'[s] = [ring[s] EXCEPT !.len = l]
    BY <1>1, <1>2, <1>4
  <2>2. ring'[s] = [start |-> cur.start, len |-> l, ts |-> cur.ts] /\ ring'[s] \in Desc
    BY <1>1, <2>1 DEF Desc
  <2> QED BY <1>1, <1>2, <1>4, <2>2 DEF CurBecomes, s
<1>5. ASSUME NEW t \in Int, ring' = [ring EXCEPT ![s].ts = t]
      PROVE  CurBecomes(cur.start, cur.len, t)
  <2>1. ring'[s] = [ring[s] EXCEPT !.ts = t]
    BY <1>1, <1>2, <1>5
  <2>2. ring'[s] = [start |-> cur.start, len |-> cur.len, ts |-> t] /\ ring'[s] \in Desc
    BY <1>1, <2>1 DEF Desc
  <2> QED BY <1>1, <1>2, <1>5, <2>2 DEF CurBecomes, s
<1>6. ASSUME ring' = [ring EXCEPT ![s].start = hdr.data_head, ![s].len = 0]
      PROVE  CurBecomes(hdr.data_head, 0, cur.ts)
  <2>1. ring'[s] = [ring[s] EXCEPT !.start = hdr.data_head, !.len = 0]
    BY <1>1, <1>2, <1>6
  <2>2. ring'[s] = [start |-> hdr.data_head, len |-> 0, ts |-> cur.ts] /\ ring'[s] \in Desc
    <3> DEFINE d == hdr.data_head
               r == ring[s]
               q == ring'[s]
    <3>1. r \in Desc /\ d \in DataOfs /\ q = [r EXCEPT !.start = d, !.len = 0] /\ cur.ts = r.ts
      BY <1>1, <1>2, <2>1
    <3> HIDE DEF d, r, q
    <3>2. q \in Desc /\ q.start = d /\ q.len = 0 /\ q.ts = r.ts
      BY <3>1 DEF Desc
    <3>3. q = [start |-> d, len |-> 0, ts |-> cur.ts]
      BY <3>1, <3>2 DEF Desc
    <3> QED BY <3>2, <3>3 DEF q, d
  <2> QED BY <1>1, <1>2, <1>6, <2>2 DEF CurBecomes, s
<1> QED BY <1>3, <1>4, <1>5, <1>6 DEF s

WType == [pc : WPoints, clock : Int, len : Nat, nul : 0..1, writes : Nat]
Busy == {"init", "open", "copy", "try", "again"}

\* What is wanted of the entry once it has len bytes and the writer is at v.
WantedAt(v, len) == len + (IF v.pc = "copy" THEN v.len ELSE IF v.pc = "try" THEN MinAlloc ELSE 0)
AtOK(v, len) ==
  /\ v.pc = "copy" => v.len >= 1 /\ v.nul <= v.len /\ len + v.len <= DataSize \div 2
  /\ v.pc = "try" => len <= DataSize \div 2
  /\ v.pc = "again" => v.len >= 1 /\ len + v.len <= DataSize \div 2

LEMMA EntryStep ==
  ASSUME NEW A, NEW U, NEW V, Inv(A, U, V), Open, WriterOnly, UNCHANGED log,
         NEW X \in Nat, U <= X, X <= A[Len(log) + 1] + Reach,
         hdr' = [hdr EXCEPT !.data_used = X % DataMod],
         NEW l \in Nat, NEW t \in Int, CurBecomes(cur.start, l, t), l + 1 <= Reach,
         mem' \in [0..(DataSize - 1) -> Nat], BytesOK(A, X)',
         w' \in WType, w'.pc \in Busy, AtOK(w', l),
         WantedAt(w', l) > 0 => A[Len(log) + 1] + WantedAt(w', l) + 1 <= X
  PROVE  Inv(A, X, V)'
<1>1. WriterInv(A, U) /\ WriterTypes /\ Announced(A, U)
  BY DEF Inv, WriterInv
<1>2. X % DataMod \in DataOfs
  BY OfsOf
<1>3. /\ hdr' \in [head : HeadOfs, head_hi : Nat, data_head : DataOfs, data_used : DataOfs, notify : SUBSET Nat]
      /\ hdr'.head = hdr.head /\ hdr'.head_hi = hdr.head_hi /\ hdr'.data_head = hdr.data_head
      /\ hdr'.data_used = X % DataMod
  BY <1>1, <1>2 DEF WriterTypes
<1>4. WriterTypes'
  BY <1>1, <1>3 DEF WriterTypes, WType, CurBecomes
<1>5. Open'
  BY DEF Open, Busy
<1>6. cur' = [start |-> cur.start, len |-> l, ts |-> t]
  BY <1>3 DEF cur, CurBecomes
<1>7. Wanted' = WantedAt(w', l)
  BY <1>6 DEF Wanted, WantedAt
<1>8. Announced(A, X)'
  <2>1. A[Len(log) + 1] \in Nat /\ U \in Nat /\ DataSize \in Nat
    BY <1>1, CurOK, RingSizes
  <2>2. A[Len(log) + 1] <= U /\ DataSize <= U /\ cur.start = A[Len(log) + 1] % DataMod
        /\ hdr.data_head = A[Len(log) + 1] % DataMod
    BY <1>1 DEF Announced
  <2>3. A[Len(log) + 1] <= X /\ DataSize <= X
    BY <2>1, <2>2
  <2> QED BY <1>3, <1>5, <1>6, <1>7, <2>2, <2>3 DEF Announced, AtOK
<1> QED BY <1>1, <1>3, <1>4, <1>5, <1>8, EntryGoesOn DEF CurBecomes

LEMMA HdrSame ==
  ASSUME NEW A, NEW U, WriterInv(A, U), Open
  PROVE  /\ [hdr EXCEPT !.data_used = U % DataMod] = hdr
         /\ U <= U /\ U <= A[Len(log) + 1] + Reach /\ U \in Nat
         /\ cur.len + 1 <= Reach
         /\ Wanted > 0 => A[Len(log) + 1] + Wanted + 1 <= U
         /\ AtOK(w, cur.len) /\ Wanted = WantedAt(w, cur.len)
<1>1. hdr.data_used = U % DataMod /\ U \in Nat
  BY DEF WriterInv, Announced
<1>2. hdr \in [head : HeadOfs, head_hi : Nat, data_head : DataOfs, data_used : DataOfs, notify : SUBSET Nat]
  BY DEF WriterInv, WriterTypes
<1>3. [hdr EXCEPT !.data_used = U % DataMod] = hdr
  BY <1>1, <1>2
<1>4. AtOK(w, cur.len) /\ Wanted = WantedAt(w, cur.len)
  BY DEF WriterInv, Announced, AtOK, Wanted, WantedAt
<1> QED BY <1>1, <1>3, <1>4 DEF WriterInv, Announced

LEMMA InitTimeOK ==
  ASSUME NEW A, NEW U, NEW V, Inv(A, U, V), InitTime
  PROVE  Inv(A, U, V)'
<1>1. WriterInv(A, U) /\ w \in WType /\ mem \in [0..(DataSize - 1) -> Nat]
  BY DEF Inv, WriterInv, WriterTypes, WType
<1>2. w.pc = "init" /\ WriterOnly /\ UNCHANGED <<hdr, mem, log>>
  BY DEF InitTime
<1>3. Open
  BY <1>2 DEF Open
<1>4. PICK t \in {w.clock + d : d \in Ticks} :
          /\ ring' = [ring EXCEPT ![Slot(hdr.head)].ts = t]
          /\ w' = [w EXCEPT !.pc = "open", !.clock = t]
  BY DEF InitTime
<1>5. t \in Int
  <2>1. w.clock \in Int
    BY <1>1 DEF WType
  <2> QED BY <1>4, <2>1, RingSizes
<1>6. CurBecomes(cur.start, cur.len, t)
  BY <1>1, <1>4, <1>5, CurChanges
<1>7. w' \in WType /\ w'.pc = "open"
  BY <1>1, <1>4, <1>5 DEF WType, WPoints
<1>8. AtOK(w', cur.len) /\ WantedAt(w', cur.len) = cur.len + 0 /\ Wanted = cur.len + 0
  BY <1>2, <1>7 DEF AtOK, WantedAt, Wanted
<1>9. cur.len \in Nat /\ U \in Nat
  BY <1>1, CurOK
<1>10. BytesOK(A, U)'
  BY <1>1, <1>2, <1>9, BytesStay
<1>11. w'.pc \in Busy
  BY <1>7 DEF Busy
<1>12. /\ hdr' = [hdr EXCEPT !.data_used = U % DataMod]
       /\ U <= U /\ U <= A[Len(log) + 1] + Reach /\ cur.len + 1 <= Reach
       /\ WantedAt(w', cur.len) > 0 => A[Len(log) + 1] + WantedAt(w', cur.len) + 1 <= U
  BY <1>1, <1>2, <1>3, <1>8, HdrSame
<1> QED BY <1>1, <1>2, <1>3, <1>5, <1>6, <1>7, <1>8, <1>9, <1>10, <1>11, <1>12, EntryStep

LEMMA SetLengthOK ==
  ASSUME NEW A, NEW U, NEW V, Inv(A, U, V), NEW len \in Lens, SetLength(len)
  PROVE  Inv(A, U, V)'
<1>1. WriterInv(A, U) /\ w \in WType /\ mem \in [0..(DataSize - 1) -> Nat]
  BY DEF Inv, WriterInv, WriterTypes, WType
<1>2. /\ w.pc = "open" /\ len < cur.len /\ WriterOnly /\ UNCHANGED <<hdr, mem, w, log>>
      /\ ring' = [ring EXCEPT ![Slot(hdr.head)].len = len]
  BY DEF SetLength
<1>3. Open /\ w'.pc \in Busy
  BY <1>2 DEF Open, Busy
<1>4. cur.len \in Nat /\ cur.ts \in Int /\ U \in Nat /\ A[Len(log) + 1] \in Nat
  BY <1>1, CurOK
<1>5. len \in Nat
  BY RingSizes
<1>6. CurBecomes(cur.start, len, cur.ts)
  BY <1>1, <1>2, <1>5, CurChanges
<1>7. AtOK(w', len) /\ WantedAt(w', len) = len + 0 /\ Wanted = cur.len + 0
  BY <1>2 DEF AtOK, WantedAt, Wanted
<1>8. BytesOK(A, U)'
  BY <1>1, <1>2, <1>4, BytesStay
<1>9. /\ hdr' = [hdr EXCEPT !.data_used = U % DataMod]
      /\ U <= U /\ U <= A[Len(log) + 1] + Reach /\ cur.len + 1 <= Reach
      /\ Wanted > 0 => A[Len(log) + 1] + Wanted + 1 <= U
  BY <1>1, <1>2, <1>3, HdrSame
<1>10. /\ len + 1 <= Reach
       /\ WantedAt(w', len) > 0 => A[Len(log) + 1] + WantedAt(w', len) + 1 <= U
  <2>1. Reach \in Nat
    BY RingSizes
  <2> QED BY <1>2, <1>4, <1>5, <1>7, <1>9, <2>1
<1> QED BY <1>1, <1>2, <1>3, <1>4, <1>5, <1>6, <1>7, <1>8, <1>9, <1>10, EntryStep

\* The writer announces what it is about to write.
LEMMA AnnounceStep ==
  ASSUME NEW A, NEW U, NEW V, Inv(A, U, V), Roomy, Open, NEW len \in Nat, cur.len + len + 1 <= Reach,
         Announce(len), WriterOnly, UNCHANGED <<ring, mem, log>>, w' \in WType, w'.pc \in Busy,
         AtOK(w', cur.len), WantedAt(w', cur.len) <= cur.len + len, WantedAt(w', cur.len) \in Nat
  PROVE  GInv'
<1>1. WriterInv(A, U) /\ mem' \in [0..(DataSize - 1) -> Nat]
  BY DEF Inv, WriterInv, WriterTypes
<1>2. PICK X : Room(A, U, X, len)
  BY <1>1, Announces
<1>3. cur.len \in Nat /\ cur.ts \in Int /\ U \in Nat /\ A[Len(log) + 1] \in Nat
  BY <1>1, CurOK
<1>4. CurBecomes(cur.start, cur.len, cur.ts)
  BY <1>1, CurChanges
<1>5. /\ X \in Nat /\ U <= X /\ A[Len(log) + 1] + cur.len + len + 1 <= X /\ X <= A[Len(log) + 1] + Reach
      /\ hdr' = [hdr EXCEPT !.data_used = X % DataMod]
  BY <1>2 DEF Room
<1>6. BytesOK(A, X)'
  BY <1>1, <1>5, BytesStay
<1>7. cur.len + 1 <= Reach
  BY <1>3, RingSizes
<1>8. WantedAt(w', cur.len) > 0 => A[Len(log) + 1] + WantedAt(w', cur.len) + 1 <= X
  BY <1>3, <1>5
<1>9. Inv(A, X, V)'
  BY <1>1, <1>3, <1>4, <1>5, <1>6, <1>7, <1>8, EntryStep
<1> QED BY <1>9 DEF GInv

LEMMA AppendOK ==
  ASSUME NEW A, NEW U, NEW V, Inv(A, U, V), Roomy, NEW len \in Lens, Append_(len)
  PROVE  GInv'
<1>1. WriterInv(A, U) /\ w \in WType
  BY DEF Inv, WriterInv, WriterTypes, WType
<1>2. /\ w.pc = "open" /\ cur.len + len <= DataSize \div 2 /\ Announce(len)
      /\ w' = [w EXCEPT !.pc = "copy", !.len = len, !.writes = @ + 1]
      /\ WriterOnly /\ UNCHANGED <<ring, mem, log>>
  BY DEF Append_
<1>3. cur.len \in Nat /\ len \in Nat /\ len >= 1
  BY <1>1, CurOK, RingSizes
<1>4. w' \in WType /\ w'.pc = "copy" /\ w'.len = len /\ w'.nul = w.nul /\ w.nul \in 0..1
  <2>1. "copy" \in WPoints
    BY DEF WPoints
  <2>2. w.writes \in Nat /\ w.writes + 1 \in Nat /\ 1 \in 0..1
    BY <1>1 DEF WType
  <2> QED BY <1>1, <1>2, <1>3, <2>1, <2>2 DEF WType
<1>5. AtOK(w', cur.len)
  BY <1>2, <1>3, <1>4 DEF AtOK
<1>6. WantedAt(w', cur.len) = cur.len + len
  BY <1>4 DEF WantedAt
<1>7. cur.len + len + 1 <= Reach
  BY <1>2, <1>3, RingSizes
<1>8. Open /\ w'.pc \in Busy
  BY <1>2, <1>4 DEF Open, Busy
<1>9. WantedAt(w', cur.len) <= cur.len + len /\ WantedAt(w', cur.len) \in Nat
  BY <1>3, <1>6
<1> QED BY <1>2, <1>3, <1>4, <1>5, <1>7, <1>8, <1>9, AnnounceStep

LEMMA PrintfOK ==
  ASSUME NEW A, NEW U, NEW V, Inv(A, U, V), Roomy, NEW len \in Lens, Printf(len)
  PROVE  GInv'
<1>1. WriterInv(A, U) /\ w \in WType
  BY DEF Inv, WriterInv, WriterTypes, WType
<1>2. /\ w.pc = "open" /\ cur.len <= DataSize \div 2 /\ Announce(MinAlloc)
      /\ w' = [w EXCEPT !.pc = "try", !.len = len, !.writes = @ + 1]
      /\ WriterOnly /\ UNCHANGED <<ring, mem, log>>
  BY DEF Printf
<1>3. cur.len \in Nat /\ len \in Nat /\ MinAlloc \in Nat
  BY <1>1, CurOK, RingSizes
<1>4. w' \in WType /\ w'.pc = "try"
  <2>1. "try" \in WPoints
    BY DEF WPoints
  <2>2. w.writes \in Nat /\ w.writes + 1 \in Nat /\ 1 \in 0..1
    BY <1>1 DEF WType
  <2> QED BY <1>1, <1>2, <1>3, <2>1, <2>2 DEF WType
<1>5. AtOK(w', cur.len)
  BY <1>2, <1>4 DEF AtOK
<1>6. WantedAt(w', cur.len) = cur.len + MinAlloc
  BY <1>4 DEF WantedAt
<1>7. cur.len + MinAlloc + 1 <= Reach
  BY <1>2, <1>3, RingSizes
<1>8. Open /\ w'.pc \in Busy
  BY <1>2, <1>4 DEF Open, Busy
<1>9. WantedAt(w', cur.len) <= cur.len + MinAlloc /\ WantedAt(w', cur.len) \in Nat
  BY <1>3, <1>6
<1> QED BY <1>2, <1>3, <1>4, <1>5, <1>7, <1>8, <1>9, AnnounceStep

LEMMA AgainOK ==
  ASSUME NEW A, NEW U, NEW V, Inv(A, U, V), Roomy, Again
  PROVE  GInv'
<1>1. WriterInv(A, U) /\ w \in WType
  BY DEF Inv, WriterInv, WriterTypes, WType
<1>2. /\ w.pc = "again" /\ Announce(w.len + 1)
      /\ w' = [w EXCEPT !.pc = "copy", !.nul = 1]
      /\ WriterOnly /\ UNCHANGED <<ring, mem, log>>
  BY DEF Again
<1>3. cur.len \in Nat /\ w.len \in Nat /\ w.len + 1 \in Nat
  BY <1>1, CurOK DEF WType
<1>4. w' \in WType /\ w'.pc = "copy" /\ w'.len = w.len /\ w'.nul = 1
  <2>1. "copy" \in WPoints
    BY DEF WPoints
  <2>2. w.writes \in Nat /\ w.writes + 1 \in Nat /\ 1 \in 0..1
    BY <1>1 DEF WType
  <2> QED BY <1>1, <1>2, <2>1, <2>2 DEF WType
<1>5. w.len >= 1 /\ cur.len + w.len <= DataSize \div 2
  BY <1>1, <1>2 DEF WriterInv, Announced
<1>6. AtOK(w', cur.len)
  BY <1>3, <1>4, <1>5 DEF AtOK
<1>7. WantedAt(w', cur.len) = cur.len + w.len
  BY <1>4 DEF WantedAt
<1>8. cur.len + (w.len + 1) + 1 <= Reach
  BY <1>3, <1>5, RingSizes
<1>9. Open /\ w'.pc \in Busy
  BY <1>2, <1>4 DEF Open, Busy
<1>10. WantedAt(w', cur.len) <= cur.len + (w.len + 1) /\ WantedAt(w', cur.len) \in Nat
  BY <1>3, <1>7
<1> QED BY <1>2, <1>3, <1>4, <1>6, <1>8, <1>9, <1>10, AnnounceStep

LEMMA PrintedOK ==
  ASSUME NEW A, NEW U, WriterInv(A, U), Open, NEW text \in Nat, NEW nuls \in Nat,
         A[Len(log) + 1] + cur.len + (text + nuls) <= U, mem' = Printed(text, nuls), UNCHANGED log
  PROVE  mem' \in [0..(DataSize - 1) -> Nat] /\ BytesOK(A, U)'
<1>1. mem \in [0..(DataSize - 1) -> Nat] /\ Len(log) \in Nat
  BY DEF WriterInv, WriterTypes
<1> DEFINE at == cur.start + cur.len
<1>2. mem' = [c \in 0..(DataSize - 1) |->
               IF \E k \in 0..(text - 1) : c = Cell(at + k) THEN Number
               ELSE IF \E k \in text..(text + nuls - 1) : c = Cell(at + k) THEN 0
               ELSE mem[c]]
  BY <1>1 DEF Printed
<1>3. mem' \in [0..(DataSize - 1) -> Nat]
  BY <1>1, <1>2 DEF Number
<1>4. ASSUME NEW c \in 0..(DataSize - 1), \A k \in 0..(text + nuls - 1) : c # Cell(at + k)
      PROVE  mem'[c] = mem[c]
  <2>1. \A k \in 0..(text - 1) : c # Cell(at + k)
    BY <1>4
  <2>2. \A k \in text..(text + nuls - 1) : c # Cell(at + k)
    BY <1>4
  <2> QED BY <1>2, <2>1, <2>2
<1>5. Survive(A, U)
  <2>1. text + nuls \in Nat
    OBVIOUS
  <2> QED BY <1>4, <2>1, Overwrites
<1> QED BY <1>3, <1>5 DEF Survive, BytesOK

LEMMA TryOK ==
  ASSUME NEW A, NEW U, NEW V, Inv(A, U, V), Try
  PROVE  Inv(A, U, V)'
<1>1. WriterInv(A, U) /\ w \in WType
  BY DEF Inv, WriterInv, WriterTypes, WType
<1>2. w.pc = "try" /\ WriterOnly /\ UNCHANGED <<hdr, log>> /\ mem' = Printed(Min({w.len, MinAlloc - 1}), 1)
  BY DEF Try
<1>3. Open
  BY <1>2 DEF Open
<1> DEFINE a == A[Len(log) + 1]
           l == cur.len
           text == Min({w.len, MinAlloc - 1})
           half == DataSize \div 2
<1>4. /\ l \in Nat /\ cur.ts \in Int /\ U \in Nat /\ a \in Nat /\ w.len \in Nat
      /\ MinAlloc \in Nat \ {0} /\ half \in Nat /\ Reach = half + MinAlloc + 1
  BY <1>1, CurOK, RingSizes DEF WType
<1>5. Wanted = l + MinAlloc /\ l <= half
  BY <1>1, <1>2, <1>4 DEF Wanted, WriterInv, Announced
<1>6. /\ hdr' = [hdr EXCEPT !.data_used = U % DataMod]
      /\ U <= U /\ U <= a + Reach /\ l + 1 <= Reach
      /\ Wanted > 0 => a + Wanted + 1 <= U
  BY <1>1, <1>2, <1>3, HdrSame
<1> HIDE DEF a, l, half
<1>7. a + (l + MinAlloc) + 1 <= U
  BY <1>4, <1>5, <1>6
<1>8. text \in Nat /\ text <= MinAlloc - 1
  <2> DEFINE T == {w.len, MinAlloc - 1}
  <2>1. T \in SUBSET Nat /\ T # {} /\ MinAlloc - 1 \in T
    BY <1>4
  <2> HIDE DEF T
  <2>2. Min(T) \in T /\ Min(T) <= MinAlloc - 1
    BY <2>1, MinOf
  <2> QED BY <2>1, <2>2 DEF T
<1> HIDE DEF text
<1>9. mem' \in [0..(DataSize - 1) -> Nat] /\ BytesOK(A, U)'
  <2>1. a + l + (text + 1) <= U
    BY <1>4, <1>7, <1>8
  <2> QED BY <1>1, <1>2, <1>3, <1>8, <2>1, PrintedOK DEF a, l, text
<1>10. CASE w.len <= MinAlloc
  <2>1. ring' = [ring EXCEPT ![Slot(hdr.head)].len = @ + w.len] /\ w' = [w EXCEPT !.pc = "open"]
    BY <1>10 DEF Try
  <2>2. ring' = [ring EXCEPT ![Slot(hdr.head)].len = l + w.len]
    <3>1. cur = ring[Slot(hdr.head)]
      BY DEF cur
    <3> QED BY <2>1, <3>1 DEF l
  <2>3. l + w.len \in Nat
    BY <1>4
  <2>4. CurBecomes(cur.start, l + w.len, cur.ts)
    BY <1>1, <2>2, <2>3, CurChanges
  <2>5. w' \in WType /\ w'.pc = "open"
    BY <1>1, <2>1 DEF WType, WPoints
  <2>6. AtOK(w', l + w.len) /\ WantedAt(w', l + w.len) = (l + w.len) + 0 /\ w'.pc \in Busy
    BY <2>5 DEF AtOK, WantedAt, Busy
  <2>7. l + w.len + 1 <= Reach
    BY <1>4, <1>5, <1>10
  <2>8. WantedAt(w', l + w.len) > 0 => a + WantedAt(w', l + w.len) + 1 <= U
    BY <1>4, <1>7, <1>10, <2>3, <2>6
  <2> QED BY <1>2, <1>3, <1>4, <1>6, <1>9, <2>3, <2>4, <2>5, <2>6, <2>7, <2>8, EntryStep DEF a
<1>11. CASE w.len > MinAlloc
  <2>1. /\ w' = [w EXCEPT !.pc = IF cur.len + w.len > DataSize \div 2 THEN "open" ELSE "again"]
        /\ UNCHANGED ring
    BY <1>4, <1>11 DEF Try
  <2>2. CurBecomes(cur.start, l, cur.ts)
    BY <1>1, <2>1, CurChanges DEF l
  <2>3. /\ w' \in WType /\ w'.len = w.len
        /\ w'.pc = "open" \/ (w'.pc = "again" /\ ~(l + w.len > half))
    <3>1. w'.pc = IF l + w.len > half THEN "open" ELSE "again"
      BY <1>1, <1>4, <2>1 DEF WType, l, half
    <3>2. w' \in WType /\ w'.len = w.len
      BY <1>1, <2>1 DEF WType, WPoints
    <3>3. CASE l + w.len > half
      <4>1. w'.pc = "open"
        BY <3>1, <3>3
      <4> QED BY <3>2, <4>1
    <3>4. CASE ~(l + w.len > half)
      BY <3>1, <3>2, <3>4
    <3> QED BY <3>3, <3>4
  <2>4. WantedAt(w', l) = l + 0 /\ w'.pc \in Busy
    BY <2>3 DEF WantedAt, Busy
  <2>5. AtOK(w', l)
    BY <1>4, <1>11, <2>3 DEF AtOK, half
  <2>6. WantedAt(w', l) > 0 => a + WantedAt(w', l) + 1 <= U
    BY <1>4, <1>7, <2>4
  <2> QED BY <1>2, <1>3, <1>4, <1>6, <1>9, <2>2, <2>3, <2>4, <2>5, <2>6, EntryStep DEF a
<1> QED BY <1>4, <1>10, <1>11

LEMMA CopyOfEntryOK ==
  ASSUME NEW A, NEW U, NEW V, Inv(A, U, V), Copy
  PROVE  Inv(A, U, V)'
<1>1. WriterInv(A, U) /\ w \in WType
  BY DEF Inv, WriterInv, WriterTypes, WType
<1>2. /\ w.pc = "copy" /\ WriterOnly /\ UNCHANGED <<hdr, log>> /\ mem' = Printed(w.len - w.nul, w.nul)
      /\ ring' = [ring EXCEPT ![Slot(hdr.head)].len = @ + w.len]
      /\ w' = [w EXCEPT !.pc = "open", !.nul = 0]
  BY DEF Copy
<1>3. Open
  BY <1>2 DEF Open
<1> DEFINE a == A[Len(log) + 1]
           l == cur.len
           text == w.len - w.nul
           half == DataSize \div 2
<1>4. /\ l \in Nat /\ cur.ts \in Int /\ U \in Nat /\ a \in Nat /\ w.len \in Nat /\ w.nul \in Nat
      /\ MinAlloc \in Nat \ {0} /\ half \in Nat /\ Reach = half + MinAlloc + 1
  BY <1>1, CurOK, RingSizes DEF WType
<1>5. Wanted = l + w.len /\ l + w.len <= half /\ w.len >= 1 /\ w.nul <= w.len
  BY <1>1, <1>2, <1>4 DEF Wanted, WriterInv, Announced
<1>6. /\ hdr' = [hdr EXCEPT !.data_used = U % DataMod]
      /\ U <= U /\ U <= a + Reach /\ l + 1 <= Reach
      /\ Wanted > 0 => a + Wanted + 1 <= U
  BY <1>1, <1>2, <1>3, HdrSame
<1> HIDE DEF a, l, half
<1>7. a + (l + w.len) + 1 <= U
  BY <1>4, <1>5, <1>6
<1>8. text \in Nat /\ text + w.nul = w.len
  BY <1>4, <1>5
<1> HIDE DEF text
<1>9. mem' \in [0..(DataSize - 1) -> Nat] /\ BytesOK(A, U)'
  <2>1. a + l + (text + w.nul) <= U
    BY <1>4, <1>7, <1>8
  <2> QED BY <1>1, <1>2, <1>3, <1>4, <1>8, <2>1, PrintedOK DEF a, l, text
<1>10. ring' = [ring EXCEPT ![Slot(hdr.head)].len = l + w.len]
  <2>1. cur = ring[Slot(hdr.head)]
    BY DEF cur
  <2> QED BY <1>2, <2>1 DEF l
<1>11. l + w.len \in Nat
  BY <1>4
<1>12. CurBecomes(cur.start, l + w.len, cur.ts)
  BY <1>1, <1>10, <1>11, CurChanges
<1>13. w' \in WType /\ w'.pc = "open"
  <2>1. "open" \in WPoints /\ 0 \in 0..1
    BY DEF WPoints
  <2> QED BY <1>1, <1>2, <2>1 DEF WType
<1>14. AtOK(w', l + w.len) /\ WantedAt(w', l + w.len) = (l + w.len) + 0 /\ w'.pc \in Busy
  BY <1>13 DEF AtOK, WantedAt, Busy
<1>15. l + w.len + 1 <= Reach
  BY <1>4, <1>5
<1>16. WantedAt(w', l + w.len) > 0 => a + WantedAt(w', l + w.len) + 1 <= U
  BY <1>4, <1>7, <1>11, <1>14
<1> QED BY <1>2, <1>3, <1>4, <1>6, <1>9, <1>11, <1>12, <1>13, <1>14, <1>15, <1>16, EntryStep DEF a

\* The counts of a snapshot.
LEMMA Counts ==
  ASSUME WriterTypes, ReaderTypes, rd.pc \notin {"idle", "search"}
  PROVE  /\ hdr.head \in Int /\ rd.head \in Int /\ rd.first \in Int /\ rd.rhead \in HeadOfs
         /\ Clamped(rd.head) \in HeadOfs
         /\ Since \in Nat /\ Taken \in Nat /\ Behind \in Nat /\ Prog \in 0..1
<1>1. hdr.head \in Int /\ rd.head \in Int /\ rd.first \in Int /\ rd.rhead \in HeadOfs
  BY SnapFields DEF WriterTypes, HeadOfs
<1>2. 0 \in HeadOfs
  BY RingSizes DEF HeadOfs
<1>3. min_head(rd.head) \in HeadOfs
  <2> DEFINE x == rd.head + 1 - RingSize
  <2>1. x \in Int
    BY <1>1, RingSizes
  <2> HIDE DEF x
  <2>2. x % HeadMod \in HeadOfs
    BY <2>1, OfsOf
  <2> QED BY <1>2, <2>2 DEF min_head, x
<1>4. Clamped(rd.head) \in HeadOfs
  BY <1>1, <1>3 DEF Clamped
<1> DEFINE a == hdr.head - rd.head
           b == rd.head - rd.first
           c == hdr.head - Clamped(rd.head)
<1>5. a \in Int /\ b \in Int /\ c \in Int
  BY <1>1, <1>4 DEF HeadOfs
<1> HIDE DEF a, b, c
<1>6. a % HeadMod \in Nat /\ b % HeadMod \in Nat /\ c % HeadMod \in Nat
  <2>1. HeadMod \in Nat \ {0}
    BY RingSizes
  <2> QED BY <1>5, <2>1, DivMod
<1>7. Since \in Nat /\ Taken \in Nat /\ Behind \in Nat
  BY <1>6 DEF Since, Taken, Behind, a, b, c
<1> QED BY <1>1, <1>4, <1>7 DEF Prog

\* The writer begins an entry.
LEMMA InitEntryOK ==
  ASSUME NEW A, NEW U, NEW V, Inv(A, U, V), InitEntry, Roomy
  PROVE  Inv(A, U, V)'
<1>1. WriterInv(A, U) /\ w \in WType /\ WriterTypes /\ Starts(A) /\ (ReaderInv(A, U, V) \/ Lapped)
  BY DEF Inv, WriterInv, WriterTypes, WType
<1>2. /\ w.pc = "idle" /\ UNCHANGED <<hdr, mem, log, seen>>
      /\ rd' = IF Laps THEN [rd EXCEPT !.lapped = TRUE] ELSE rd
      /\ ring' = [ring EXCEPT ![Slot(hdr.head)].start = hdr.data_head, ![Slot(hdr.head)].len = 0]
      /\ w' = [w EXCEPT !.pc = "init", !.writes = 0]
  BY DEF InitEntry
<1>3. w' \in WType /\ w'.pc = "init"
  BY <1>1, <1>2 DEF WType, WPoints
<1>4. Open' /\ ~Open
  BY <1>2, <1>3 DEF Open
<1>5. CurBecomes(hdr.data_head, 0, cur.ts)
  BY <1>1, <1>2, CurChanges
<1>6. WriterTypes'
  BY <1>1, <1>2, <1>3, <1>5 DEF WriterTypes, WType, CurBecomes
<1>7. Starts(A)' /\ BytesOK(A, U)' /\ SeenOK'
  BY <1>1, <1>2 DEF Inv, WriterInv, Starts, BytesOK, SeenOK, Genuine
<1>8. RingOK'
  <2>1. RingOK
    BY DEF Inv, WriterInv
  <2> QED BY <1>1, <1>2, <1>4, <1>5, <2>1, RingKeeps DEF CurBecomes
<1>9. Announced(A, U)'
  <2>1. cur' = [start |-> hdr.data_head, len |-> 0, ts |-> cur.ts]
    BY <1>2, <1>5 DEF CurBecomes, cur
  <2>2. Wanted' = 0 + 0
    BY <1>3, <2>1 DEF Wanted
  <2>3. /\ U \in Nat /\ hdr.data_used = U % DataMod /\ hdr.data_head = A[Len(log) + 1] % DataMod
        /\ A[Len(log) + 1] <= U /\ DataSize <= U /\ U <= A[Len(log)] + Reach
    BY <1>1, <1>4 DEF WriterInv, Announced
  <2>4. A[Len(log)] <= A[Len(log) + 1] /\ A[Len(log)] \in Nat /\ A[Len(log) + 1] \in Nat
    <3>1. Len(log) \in 1..(Len(log) + 1) /\ Len(log) + 1 \in Len(log)..(Len(log) + 1)
      BY <1>1, RingSizes DEF WriterTypes
    <3>2. A \in [1..(Len(log) + 1) -> Nat]
      BY <1>1 DEF Starts
    <3> DEFINE x == Len(log)
               y == Len(log) + 1
    <3>3. x \in 1..(Len(log) + 1) /\ y \in x..(Len(log) + 1)
      BY <3>1
    <3> HIDE DEF x, y
    <3>4. A[x] <= A[y]
      BY <1>1, <3>3, Ordered
    <3>5. y \in 1..(Len(log) + 1)
      BY <3>1 DEF y, x
    <3> QED BY <3>2, <3>3, <3>4, <3>5 DEF x, y
  <2>5. U <= A[Len(log) + 1] + Reach /\ 0 + 1 <= Reach
    BY <2>3, <2>4, RingSizes
  <2> QED BY <1>2, <1>3, <1>4, <2>1, <2>2, <2>3, <2>5 DEF Announced
<1>10. ASSUME ReaderInv(A, U, V), ~Laps PROVE ReaderInv(A, U, V)'
  <2>1. UNCHANGED <<rd, log, hdr>> /\ Prog = 0 /\ Prog' = 1
    BY <1>2, <1>4, <1>10 DEF Prog
  <2>2. Since' = Since /\ Taken' = Taken /\ Copying' = Copying /\ Behind' = Behind
    BY <2>1 DEF Since, Taken, Copying, Behind, Clamped, min_head
  <2>3. ReaderTypes' /\ EntriesOK' /\ CopiedOK(A, U)' /\ UsedOK(A, U, V)'
    BY <1>1, <1>10, <2>1, <2>2 DEF ReaderInv, ReaderTypes, EntriesOK, CopiedOK, UsedOK, DataOK, At
  <2>4. RingSize \in Nat
    BY RingSizes
  <2>5. AdvanceOK'
    <3> SUFFICES ASSUME rd.pc = "advance" PROVE Behind + 1 <= RingSize /\ Since <= Behind + 1
      BY <2>1, <2>2 DEF AdvanceOK
    <3>1. Behind \in Nat /\ Since \in Nat
      BY <1>1, <1>10, Counts DEF ReaderInv
    <3>2. Behind < RingSize
      BY <1>10, <2>4, <3>1 DEF Laps, Snapping, Oldest, Behind
    <3>3. (Behind + Prog <= RingSize /\ Since <= Behind + 1) \/ Since + Prog <= 1
      BY <1>1, <1>10 DEF ReaderInv, AdvanceOK
    <3> QED BY <2>1, <2>4, <3>1, <3>2, <3>3
  <2>6. CopyOK'
    <3> SUFFICES ASSUME Copying PROVE Taken + Since + 1 <= RingSize
      BY <1>1, <1>10, <2>1, <2>2 DEF CopyOK, ReaderInv
    <3>1. /\ hdr.head \in Int /\ rd.head \in Int /\ rd.first \in Int /\ Taken \in Nat /\ Since \in Nat
      BY <1>1, <1>10, Counts DEF ReaderInv, Copying
    <3>2. Taken + Since + Prog <= RingSize
      BY <1>1, <1>10 DEF ReaderInv, CopyOK
    <3>3. HeadMod \in Nat \ {0} /\ RingSize < HeadMod
      BY RingSizes
    <3>4. Since + Taken < HeadMod
      BY <2>1, <2>4, <3>1, <3>2, <3>3
    <3>5. ((hdr.head - rd.head) % HeadMod) + ((rd.head - rd.first) % HeadMod) < HeadMod
      BY <3>4 DEF Since, Taken
    <3> DEFINE x == hdr.head
               y == rd.head
               z == rd.first
    <3> HIDE DEF x, y, z
    <3>6. (x - z) % HeadMod = ((x - y) % HeadMod) + ((y - z) % HeadMod)
      BY <3>1, <3>3, <3>5, Chain DEF x, y, z
    <3>7. (hdr.head - rd.first) % HeadMod = Since + Taken
      BY <3>6 DEF x, y, z, Since, Taken
    <3>8. (hdr.head - rd.first) % HeadMod < RingSize
      BY <1>10, <2>4, <3>1, <3>7 DEF Laps, Snapping, Oldest, Copying
    <3> QED BY <2>4, <3>1, <3>7, <3>8
  <2> QED BY <2>3, <2>5, <2>6 DEF ReaderInv
<1>11. ASSUME ReaderInv(A, U, V), Laps PROVE Lapped'
  <2>1. rd \in Snap({"advance", "data", "entries", "rest", "used", "finish"})
    BY <1>11 DEF ReaderInv, ReaderTypes, Laps, Snapping, Snap
  <2>2. rd' = [rd EXCEPT !.lapped = TRUE]
    BY <1>2, <1>11
  <2> QED BY <2>1, <2>2 DEF Snap, Lapped
<1>12. ASSUME Lapped PROVE Lapped'
  <2>1. rd' = rd \/ rd' = [rd EXCEPT !.lapped = TRUE]
    BY <1>2
  <2> QED BY <1>12, <2>1 DEF Lapped
<1>13. ReaderInv(A, U, V)' \/ Lapped'
  BY <1>1, <1>10, <1>11, <1>12
<1>14. Wraps'
  BY <1>3 DEF Wraps
<1> QED BY <1>6, <1>7, <1>8, <1>9, <1>13, <1>14 DEF Inv, WriterInv

\* The entry that udebug_entry_add completes.
Added == Entry(cur.start, cur.len, cur.ts, Bytes([mem EXCEPT ![Cell(cur.start + cur.len)] = 0], cur.start, cur.len))

\* B is A with the start of the next entry.
Longer(A, B) ==
  /\ B \in [1..(Len(log) + 2) -> Nat]
  /\ \A j \in 1..(Len(log) + 1) : B[j] = A[j]
  /\ B[Len(log) + 2] = A[Len(log) + 1] + cur.len + 1

LEMMA Lengthen ==
  ASSUME NEW A, NEW U, WriterInv(A, U)
  PROVE  \E B : Longer(A, B)
<1> DEFINE n == Len(log) + 1
           z == A[Len(log) + 1] + cur.len + 1
           B == [j \in 1..(Len(log) + 2) |-> IF j <= Len(log) + 1 THEN A[j] ELSE z]
<1>1. z \in Nat /\ Len(log) \in Nat
  BY CurOK
<1>2. A \in [1..(Len(log) + 1) -> Nat]
  BY DEF WriterInv, Starts
<1> HIDE DEF z
<1>3. ASSUME NEW j \in 1..(Len(log) + 2) PROVE B[j] \in Nat
  BY <1>1, <1>2, <1>3
<1>4. B \in [1..(Len(log) + 2) -> Nat] /\ \A j \in 1..(Len(log) + 1) : B[j] = A[j]
  BY <1>1, <1>3
<1>5. B[Len(log) + 2] = z
  BY <1>1
<1> HIDE DEF B
<1> QED BY <1>4, <1>5 DEF Longer, z

LEMMA AddedOK ==
  ASSUME NEW A, NEW U, WriterInv(A, U), Open, Cell(cur.start + cur.len) \in 0..(DataSize - 1)
  PROVE  /\ Added \in Shot /\ DescOf(Added) = cur /\ Len(Added.bytes) = cur.len
         /\ Added.len = cur.len /\ Added.start = cur.start
         /\ \A i \in 1..cur.len :
              Added.bytes[i] = [mem EXCEPT ![Cell(cur.start + cur.len)] = 0][Cell(cur.start + i - 1)]
<1> DEFINE m == [mem EXCEPT ![Cell(cur.start + cur.len)] = 0]
           bytes == Bytes(m, cur.start, cur.len)
<1>1. cur \in Desc /\ cur.start \in DataOfs /\ cur.len \in Nat /\ cur.ts \in Int
  BY CurOK
<1>2. m \in [0..(DataSize - 1) -> Nat]
  BY DEF WriterInv, WriterTypes
<1> HIDE DEF m
<1>3. ASSUME NEW i \in 1..cur.len PROVE m[Cell(cur.start + i - 1)] \in Nat
  <2> DEFINE x == cur.start + i - 1
  <2>1. x \in Int
    BY <1>1 DEF DataOfs
  <2> HIDE DEF x
  <2>2. x % DataSize \in 0..(DataSize - 1)
    BY <2>1, CellOf
  <2> QED BY <1>2, <2>2 DEF Cell, x
<1>4. bytes \in [1..cur.len -> Nat]
  BY <1>1, <1>3 DEF Bytes
<1>5. bytes \in Seq(Nat) /\ Len(bytes) = cur.len
  BY <1>1, <1>4
<1>6. \A i \in 1..cur.len : bytes[i] = m[Cell(cur.start + i - 1)]
  BY DEF Bytes
<1> HIDE DEF bytes
<1>7. cur.start % DataMod = cur.start
  <2> DEFINE x == cur.start
  <2>1. x \in Int /\ 0 <= x /\ x < DataMod /\ DataMod \in Nat \ {0}
    BY <1>1, RingSizes DEF DataOfs
  <2> HIDE DEF x
  <2>2. x % DataMod = x
    BY <2>1, ModSmall
  <2> QED BY <2>2 DEF x
<1>8. Added = [start |-> cur.start, len |-> cur.len, ts |-> cur.ts, bytes |-> bytes]
  BY <1>7 DEF Added, Entry, bytes, m
<1>9. DescOf(Added) = cur
  BY <1>1, <1>8 DEF DescOf, Desc
<1>10. Added \in Shot
  BY <1>1, <1>5, <1>8 DEF Shot
<1> QED BY <1>5, <1>6, <1>8, <1>9, <1>10 DEF m

\* What the snapshot in progress looks at is the same; there is one entry more
\* since it looked at head.
LEMMA ReaderSeesAdd ==
  ASSUME NEW A, NEW B, NEW U, NEW V, WriterInv(A, U), ReaderInv(A, U, V), Longer(A, B), Open, ~Open',
         UNCHANGED rd, log' = Append(log, Added), Added \in Shot,
         hdr'.head = (hdr.head + 1) % HeadMod,
         hdr'.head_hi = hdr.head_hi, Roomy
  PROVE  ReaderInv(B, U, V)'
<1>1. /\ ReaderTypes' /\ WriterTypes /\ ReaderTypes /\ Taken' = Taken /\ Copying' = Copying
      /\ Prog = 1 /\ Prog' = 0
  BY DEF ReaderInv, WriterInv, ReaderTypes, Taken, Copying, Prog
<1>2. RingSize \in Nat /\ HeadMod \in Nat \ {0} /\ 4 * RingSize <= HeadMod /\ RingSize >= 3
  BY RingSizes DEF Roomy
<1>3. log \in Seq(Shot) /\ Len(log) \in Nat
  BY <1>1 DEF WriterTypes
<1>4. /\ Len(log') = Len(log) + 1
      /\ \A j \in 1..Len(log) : log'[j] = log[j]
  BY <1>3
<1>5. ASSUME rd.pc \notin {"idle", "search"}
      PROVE  /\ Since \in Nat /\ Taken \in Nat /\ Behind \in Nat /\ hdr.head \in Int /\ rd.head \in Int
             /\ Since <= RingSize /\ Since' = Since + 1
  <2>1. /\ Since \in Nat /\ Taken \in Nat /\ Behind \in Nat /\ hdr.head \in Int /\ rd.head \in Int
    BY <1>1, <1>5, Counts
  <2>2. Since <= RingSize
    <3>1. CASE rd.pc = "advance"
      <4>1. (Behind + Prog <= RingSize /\ Since <= Behind + 1) \/ Since + Prog <= 1
        BY <3>1 DEF ReaderInv, AdvanceOK
      <4> QED BY <1>1, <1>2, <2>1, <4>1
    <3>2. CASE Copying
      <4>1. Taken + Since + Prog <= RingSize
        BY <3>2 DEF ReaderInv, CopyOK
      <4> QED BY <1>1, <1>2, <2>1, <4>1
    <3> QED BY <1>1, <1>5, <3>1, <3>2 DEF ReaderTypes, Copying
  <2> DEFINE x == hdr.head
             y == rd.head
  <2>3. ((x - y) % HeadMod) + 1 < HeadMod
    BY <1>2, <2>1, <2>2 DEF Since
  <2>4. x \in Int /\ y \in Int
    BY <2>1
  <2> HIDE DEF x, y
  <2>5. (((x + 1) % HeadMod) - y) % HeadMod = ((x - y) % HeadMod) + 1
    BY <1>2, <2>3, <2>4, NextHead
  <2>6. Since' = Since + 1
    BY <2>5 DEF Since, x, y
  <2> QED BY <2>1, <2>2, <2>6
<1>6. CopyOK'
  <2> SUFFICES ASSUME Copying
      PROVE  Taken \in 1..RingSize /\ Taken + Since' + Prog' <= RingSize /\ rd.size <= DataSize
    BY <1>1 DEF CopyOK
  <2>1. Since \in Nat /\ Taken \in Nat /\ Since' = Since + 1
    BY <1>5 DEF Copying
  <2>2. Taken \in 1..RingSize /\ Taken + Since + Prog <= RingSize /\ rd.size <= DataSize
    BY DEF ReaderInv, CopyOK
  <2> QED BY <1>1, <2>1, <2>2
<1>7. ASSUME NEW X, DataOK(A, X), rd.pc \notin {"idle", "search"}
      PROVE  DataOK(B, X)'
  <2>1. Since \in Nat /\ Since' = Since + 1
    BY <1>5, <1>7
  <2>2. Len(log') - Since' = Len(log) - Since
    BY <1>3, <1>4, <2>1
  <2>3. ASSUME NEW j \in 1..(Len(log) - Since) PROVE j \in 1..Len(log) /\ B[j] = A[j] /\ log'[j] = log[j]
    BY <1>3, <1>4, <2>1 DEF Longer
  <2> SUFFICES ASSUME NEW j \in 1..(Len(log) - Since), B[j] >= X - DataSize, NEW i \in 1..log'[j].len,
                      At(log[j])' + i <= rd.size
      PROVE  rd.data[At(log[j])' + i] = log'[j].bytes[i]
    BY <1>7, <2>2 DEF DataOK
  <2>4. At(log[j])' = At(log[j])
    BY <2>3 DEF At
  <2> QED BY <1>7, <2>3, <2>4 DEF DataOK
<1>8. CopiedOK(B, U)' /\ UsedOK(B, U, V)'
  BY <1>7 DEF CopiedOK, UsedOK, ReaderInv
<1>9. EntriesOK'
  <2> SUFFICES ASSUME rd.pc \in {"rest", "used", "finish"}
      PROVE  Len(rd.ents) = Taken /\ \A k \in 1..Taken :
                 rd.ents[k] = DescOf(log'[Len(log') - Since' - Taken + k])
    BY <1>1 DEF EntriesOK
  <2>1. Since \in Nat /\ Taken \in Nat /\ Since' = Since + 1
    BY <1>5
  <2>2. Taken + Since + Prog <= RingSize
    BY DEF ReaderInv, CopyOK, Copying
  <2>3. Len(rd.ents) = Taken /\ \A k \in 1..Taken : rd.ents[k] = DescOf(log[Len(log) - Since - Taken + k])
    BY DEF ReaderInv, EntriesOK
  <2>4. Len(log) >= RingSize
    BY <1>1 DEF WriterTypes
  <2>5. ASSUME NEW k \in 1..Taken PROVE log'[Len(log') - Since' - Taken + k] = log[Len(log) - Since - Taken + k]
    <3>1. Len(log) - Since - Taken + k \in 1..Len(log)
      BY <1>1, <1>2, <1>3, <2>1, <2>2, <2>4
    <3>2. Len(log') - Since' - Taken + k = Len(log) - Since - Taken + k
      BY <1>3, <1>4, <2>1
    <3> QED BY <1>4, <3>1, <3>2
  <2> QED BY <2>3, <2>5
<1>10. AdvanceOK'
  <2> SUFFICES ASSUME rd.pc = "advance"
      PROVE  (Behind' + Prog' <= RingSize /\ Since' <= Behind' + 1) \/ Since' + Prog' <= 1
    BY <1>1 DEF AdvanceOK
  <2>1. /\ Since \in Nat /\ Behind \in Nat /\ hdr.head \in Int /\ Since' = Since + 1
    BY <1>5
  <2>2. CASE Since + Prog <= 1
    BY <1>1, <2>1, <2>2
  <2>3. CASE Behind + Prog <= RingSize /\ Since <= Behind + 1
    <3> DEFINE c == Clamped(rd.head)
               h == hdr.head
    <3>1. c \in HeadOfs /\ c \in Int /\ rd.rhead \in HeadOfs /\ h \in Int /\ hdr.head_hi \in Nat /\ h \in HeadOfs
      BY <1>1, Counts DEF HeadOfs, WriterTypes
    <3>2. (h - c) % HeadMod = Behind /\ Behind + 1 <= RingSize
      BY <1>1, <2>3 DEF Behind
    <3>3. c' = c
      BY DEF Clamped, min_head
    <3>4. Behind' = Behind + 1
      <4>1. ((h - c) % HeadMod) + 1 < HeadMod
        BY <1>2, <2>1, <3>2
      <4> HIDE DEF h, c
      <4>2. (((h + 1) % HeadMod) - c) % HeadMod = ((h - c) % HeadMod) + 1
        BY <1>2, <3>1, <4>1, NextHead
      <4>3. Behind' = (((h + 1) % HeadMod) - c) % HeadMod
        BY <3>3 DEF Behind, h, c
      <4> QED BY <3>2, <4>2, <4>3
    <3> QED BY <1>1, <1>2, <2>1, <2>3, <3>4
  <2>4. (Behind + Prog <= RingSize /\ Since <= Behind + 1) \/ Since + Prog <= 1
    BY DEF ReaderInv, AdvanceOK
  <2> QED BY <2>2, <2>3, <2>4
<1> QED BY <1>1, <1>6, <1>8, <1>9, <1>10 DEF ReaderInv

LEMMA AddOK ==
  ASSUME NEW A, NEW U, NEW V, Inv(A, U, V), Add, Roomy
  PROVE  GInv'
<1> DEFINE a == A[Len(log) + 1]
           l == cur.len
           end == cur.start + cur.len
           m == [mem EXCEPT ![Cell(end)] = 0]
           n == Len(log) + 1
<1>1. WriterInv(A, U) /\ w \in WType /\ WriterTypes /\ Starts(A) /\ (ReaderInv(A, U, V) \/ Lapped) /\ RingOK
  BY DEF Inv, WriterInv, WriterTypes, WType
<1>2. /\ w.pc = "open" /\ cur.len > 0 /\ mem' = m /\ WriterOnly /\ UNCHANGED ring
      /\ hdr' = [hdr EXCEPT !.data_head = (end + 1) % DataMod, !.head = (hdr.head + 1) % HeadMod]
      /\ log' = Append(log, Added) 
      /\ w' = [w EXCEPT !.pc = IF (hdr.head + 1) % HeadMod = 0 THEN "carry" ELSE "added", !.len = 0]
  BY DEF Add, Added
<1>3. Open
  BY <1>2 DEF Open
<1>4. /\ a \in Nat /\ l \in Nat /\ l > 0 /\ U \in Nat /\ cur.start = a % DataMod /\ cur.start \in DataOfs
      /\ Len(log) \in Nat /\ cur.ts \in Int /\ cur.start \in Int
  BY <1>1, <1>2, <1>3, CurOK DEF WriterInv, Announced, DataOfs
<1>5. Wanted = l + 0
  BY <1>2 DEF Wanted
<1>6. a + l + 1 <= U /\ l + 1 <= Reach /\ U <= a + Reach /\ DataSize <= U
  <2>1. (Wanted > 0 => a + Wanted + 1 <= U) /\ l + 1 <= Reach /\ U <= a + Reach /\ DataSize <= U
    BY <1>1, <1>3 DEF WriterInv, Announced
  <2> HIDE DEF a, l
  <2> QED BY <1>4, <1>5, <2>1
<1>7. Cell(end) = (a + l) % DataSize /\ Cell(end) \in 0..(DataSize - 1) /\ (end + 1) % DataMod = (a + l + 1) % DataMod
  <2>1. end = (a % DataMod) + l /\ end + 1 = (a % DataMod) + (l + 1)
    BY <1>4
  <2>2. a + l \in Int /\ a \in Int /\ l \in Int /\ l + 1 \in Int /\ a + (l + 1) = a + l + 1 /\ DataMod \in Nat \ {0}
    BY <1>4, RingSizes
  <2> HIDE DEF a, l, end
  <2>3. Cell((a % DataMod) + l) = (a + l) % DataSize /\ (a + l) % DataSize \in 0..(DataSize - 1)
    BY <2>2, CellOf
  <2>4. ((a % DataMod) + (l + 1)) % DataMod = (a + (l + 1)) % DataMod
    BY <2>2, ModAdd
  <2> QED BY <2>1, <2>2, <2>3, <2>4
<1>8. /\ Added \in Shot /\ DescOf(Added) = cur /\ Len(Added.bytes) = l /\ Added.len = l /\ Added.start = cur.start
      /\ \A i \in 1..l : Added.bytes[i] = m[Cell(cur.start + i - 1)]
  BY <1>1, <1>3, <1>7, AddedOK
<1>9. PICK B : Longer(A, B)
  BY <1>1, Lengthen
<1>10. log \in Seq(Shot) /\ Len(log) >= RingSize
  BY <1>1 DEF WriterTypes
<1>11. /\ log' \in Seq(Shot) /\ Len(log') = n /\ log'[n] = Added
       /\ \A j \in 1..Len(log) : log'[j] = log[j]
  BY <1>2, <1>8, <1>10
<1> HIDE DEF a, l, end, m
<1>12. /\ hdr' \in [head : HeadOfs, head_hi : Nat, data_head : DataOfs, data_used : DataOfs, notify : SUBSET Nat]
       /\ hdr'.head = (hdr.head + 1) % HeadMod /\ hdr'.data_used = hdr.data_used
       /\ hdr'.data_head = (a + l + 1) % DataMod
       /\ hdr'.head_hi = hdr.head_hi
  <2>1. hdr \in [head : HeadOfs, head_hi : Nat, data_head : DataOfs, data_used : DataOfs, notify : SUBSET Nat]
    BY <1>1 DEF WriterTypes
  <2>2. hdr.head \in Int /\ hdr.head + 1 \in Int /\ a + l + 1 \in Int
    BY <1>4, <2>1 DEF HeadOfs
  <2> DEFINE x == hdr.head + 1
             y == a + l + 1
  <2>3. x % HeadMod \in HeadOfs /\ y % DataMod \in DataOfs
    <3>1. x \in Int /\ y \in Int
      BY <2>2
    <3> HIDE DEF x, y
    <3> QED BY <3>1, OfsOf
  <2> HIDE DEF y
  <2>4. hdr' = [hdr EXCEPT !.data_head = y % DataMod, !.head = x % HeadMod]
    BY <1>2, <1>7 DEF y
  <2> HIDE DEF x
  <2>5. /\ hdr' \in [head : HeadOfs, head_hi : Nat, data_head : DataOfs, data_used : DataOfs, notify : SUBSET Nat]
        /\ hdr'.head = x % HeadMod /\ hdr'.data_used = hdr.data_used
        /\ hdr'.data_head = y % DataMod
        /\ hdr'.head_hi = hdr.head_hi
    <3> DEFINE hx == x % HeadMod
               dy == y % DataMod
    <3>1. hx \in HeadOfs /\ dy \in DataOfs
      BY <2>1, <2>3
    <3>2. hdr' = [hdr EXCEPT !.data_head = dy, !.head = hx]
      BY <2>4
    <3> HIDE DEF hx, dy
    <3>3. /\ hdr' \in [head : HeadOfs, head_hi : Nat, data_head : DataOfs, data_used : DataOfs, notify : SUBSET Nat]
          /\ hdr'.head = hx /\ hdr'.data_used = hdr.data_used /\ hdr'.data_head = dy /\ hdr'.head_hi = hdr.head_hi
      BY <2>1, <3>1, <3>2
    <3> QED BY <3>3 DEF hx, dy
  <2> QED BY <2>5 DEF x, y
<1>13. w' \in WType /\ w'.pc \in {"carry", "added"} /\ (w'.pc = "carry" => hdr'.head = 0)
  <2> DEFINE p == IF hdr'.head = 0 THEN "carry" ELSE "added"
  <2>1. p \in {"carry", "added"} /\ p \in WPoints /\ (p = "carry" => hdr'.head = 0)
    BY DEF WPoints
  <2>2. w' = [w EXCEPT !.pc = p, !.len = 0]
    BY <1>2, <1>12
  <2> HIDE DEF p
  <2> QED BY <1>1, <2>1, <2>2 DEF WType
<1>14. ~Open'
  BY <1>13 DEF Open
<1>15. WriterTypes'
  <2>1. mem' \in [0..(DataSize - 1) -> Nat]
    BY <1>1, <1>2, <1>7 DEF WriterTypes, m
  <2>2. Len(log') >= RingSize
    BY <1>4, <1>10, <1>11, RingSizes
  <2> QED BY <1>1, <1>2, <1>11, <1>12, <1>13, <2>1, <2>2 DEF WriterTypes, WType
<1>16. Starts(B)'
  <2>1. Len(log') + 1 = Len(log) + 2
    BY <1>4, <1>11
  <2>2. B \in [1..(Len(log') + 1) -> Nat]
    BY <1>9, <2>1 DEF Longer
  <2>3. ASSUME NEW j \in 1..Len(log')
        PROVE  /\ log'[j].start = B[j] % DataMod
               /\ B[j + 1] = B[j] + log'[j].len + 1
               /\ log'[j].len + 1 <= Reach
               /\ Len(log'[j].bytes) = log'[j].len
    <3>1. CASE j = n
      <4>1. n \in 1..(Len(log) + 1) /\ n + 1 = Len(log) + 2
        BY <1>4
      <4>2. B[n] = a /\ B[n + 1] = a + l + 1
        BY <1>9, <4>1 DEF Longer, a, l
      <4>3. log'[j] = Added
        BY <1>11, <3>1
      <4> QED BY <1>4, <1>6, <1>8, <3>1, <4>2, <4>3
    <3>2. CASE j # n
      <4>1. j \in 1..Len(log) /\ j \in 1..(Len(log) + 1) /\ j + 1 \in 1..(Len(log) + 1)
        BY <1>4, <1>11, <3>2
      <4>2. B[j] = A[j] /\ B[j + 1] = A[j + 1] /\ log'[j] = log[j]
        BY <1>9, <1>11, <4>1 DEF Longer
      <4> QED BY <1>1, <4>1, <4>2 DEF Starts
    <3> QED BY <3>1, <3>2
  <2> QED BY <2>2, <2>3 DEF Starts
<1>17. RingOK'
  <2> SUFFICES ASSUME NEW i \in 1..RingSize
      PROVE  ring'[Slot(hdr'.head - i)] = DescOf(log'[Len(log') + 1 - i])
    BY <1>14, RingSizes DEF RingOK, Prog
  <2> DEFINE h == hdr.head
  <2>1. h \in Int /\ RingSize \in Nat /\ h + 1 \in Int /\ -i \in Int
    BY <1>1, RingSizes DEF WriterTypes, HeadOfs
  <2>2. Slot(((h + 1) % HeadMod) + (-i)) = Slot((h + 1) + (-i))
    <3> DEFINE x == h + 1
               y == -i
    <3>1. x \in Int /\ y \in Int
      BY <2>1
    <3> HIDE DEF x, y
    <3>2. Slot((x % HeadMod) + y) = Slot(x + y)
      BY <3>1, SlotOf
    <3> QED BY <3>2 DEF x, y
  <2>3. hdr'.head - i = ((h + 1) % HeadMod) + (-i) /\ (h + 1) + (-i) = h - (i - 1)
    <3>1. hdr'.head \in Int
      BY <1>12 DEF HeadOfs
    <3> QED BY <1>12, <2>1, <3>1
  <2>4. Slot(hdr'.head - i) = Slot(h - (i - 1))
    BY <2>2, <2>3
  <2>5. CASE i = 1
    <3>1. h - (i - 1) = h /\ Len(log') + 1 - i = n
      BY <1>4, <1>11, <2>1, <2>5
    <3> QED BY <1>2, <1>8, <1>11, <2>4, <3>1 DEF cur
  <2>6. CASE i # 1
    <3> DEFINE k == i - 1
    <3>1. k \in 1..(RingSize - 1) /\ Len(log') + 1 - i = Len(log) + 1 - k /\ Len(log) + 1 - k \in 1..Len(log)
      BY <1>4, <1>10, <1>11, <2>1, <2>6
    <3>2. Prog = 1
      BY <1>3 DEF Prog
    <3> HIDE DEF k
    <3>3. ring[Slot(h - k)] = DescOf(log[Len(log) + 1 - k])
      BY <1>1, <3>1, <3>2 DEF RingOK
    <3>4. log'[Len(log) + 1 - k] = log[Len(log) + 1 - k]
      BY <1>11, <3>1
    <3> QED BY <1>2, <2>4, <3>1, <3>3, <3>4 DEF k
  <2> QED BY <2>5, <2>6
<1>18. Announced(B, U)'
  <2>1. Len(log') = Len(log) + 1 /\ Len(log') + 1 = Len(log) + 2 /\ Len(log) + 1 \in 1..(Len(log) + 1)
    BY <1>4, <1>11
  <2>2. B[Len(log')] = a /\ B[Len(log') + 1] = a + l + 1
    BY <1>9, <2>1 DEF Longer, a, l
  <2>3. hdr.data_used = U % DataMod
    BY <1>1 DEF WriterInv, Announced
  <2> QED BY <1>4, <1>6, <1>12, <1>13, <1>14, <2>2, <2>3 DEF Announced
<1>19. BytesOK(B, U)'
  <2> SUFFICES ASSUME NEW j \in 1..Len(log'), B[j] >= U - DataSize, NEW i \in 1..log'[j].len
      PROVE  mem'[(B[j] + i - 1) % DataSize] = log'[j].bytes[i]
    BY DEF BytesOK
  <2>1. CASE j = n
    <3>1. B[j] = a
      BY <1>4, <1>9, <2>1 DEF Longer, a
    <3>2. i \in 1..l /\ log'[j].bytes[i] = m[Cell(cur.start + i - 1)]
      BY <1>8, <1>11, <2>1
    <3>3. Cell(cur.start + i - 1) = (a + i - 1) % DataSize
      <4> DEFINE k == i - 1
      <4>1. a \in Int /\ k \in Int /\ (a % DataMod) + k = cur.start + i - 1 /\ a + k = a + i - 1
        BY <1>4, <3>2
      <4> HIDE DEF k
      <4>2. Cell((a % DataMod) + k) = (a + k) % DataSize
        BY <4>1, CellOf
      <4> QED BY <4>1, <4>2
    <3> QED BY <1>2, <3>1, <3>2, <3>3
  <2>2. CASE j # n
    <3>1. j \in 1..Len(log) /\ j \in 1..(Len(log) + 1)
      BY <1>4, <1>11, <2>2
    <3>2. B[j] = A[j] /\ log'[j] = log[j]
      BY <1>9, <1>11, <3>1 DEF Longer
    <3>3. Survive(A, U)
      <4>1. A[Len(log) + 1] + cur.len + 1 <= U
        BY <1>6 DEF a, l
      <4>2. ASSUME NEW c \in 0..(DataSize - 1), \A k \in 0..(1 - 1) : c # Cell(cur.start + cur.len + k)
            PROVE  mem'[c] = mem[c]
        <5>1. cur.start + cur.len + 0 = end /\ 0 \in 0..(1 - 1)
          BY <1>4 DEF end, l
        <5>2. c # Cell(end)
          BY <4>2, <5>1
        <5>3. mem \in [0..(DataSize - 1) -> Nat]
          BY <1>1 DEF WriterTypes
        <5> QED BY <1>2, <5>2, <5>3 DEF m
      <4>3. 1 \in Nat
        OBVIOUS
      <4> QED BY <1>1, <1>3, <4>1, <4>2, <4>3, Overwrites
    <3> QED BY <3>1, <3>2, <3>3 DEF Survive
  <2> QED BY <2>1, <2>2
<1>20. ReaderInv(B, U, V)' \/ Lapped'
  <2>1. UNCHANGED rd
    BY <1>2 DEF WriterOnly
  <2>2. CASE ReaderInv(A, U, V)
    BY <1>1, <1>2, <1>3, <1>8, <1>9, <1>12, <1>14, <2>1, <2>2, ReaderSeesAdd
  <2>3. CASE Lapped
    BY <2>1, <2>3 DEF Lapped
  <2> QED BY <1>1, <2>2, <2>3
<1>21. SeenOK'
  <2>1. seen' = seen /\ SeenOK
    BY <1>2 DEF WriterOnly, Inv
  <2>2. Range(log) \subseteq Range(log')
    <3>1. DOMAIN log = 1..Len(log) /\ DOMAIN log' = 1..Len(log')
      BY <1>10, <1>11
    <3>2. 1..Len(log) \subseteq 1..Len(log')
      BY <1>4, <1>11
    <3> QED BY <1>11, <3>1, <3>2 DEF Range
  <2> QED BY <2>1, <2>2 DEF SeenOK, Genuine
<1>22. Wraps'
  BY <1>13 DEF Wraps
<1>23. Inv(B, U, V)'
  BY <1>15, <1>16, <1>17, <1>18, <1>19, <1>20, <1>21, <1>22 DEF Inv, WriterInv
<1> QED BY <1>23 DEF GInv

\* The upper half of head is counted.  A reader that looked at head before it
\* wrapped may find that its oldest entry is further back.
LEMMA CarryOK ==
  ASSUME NEW A, NEW U, NEW V, Inv(A, U, V), Carry
  PROVE  Inv(A, U, V)'
<1>1. /\ WriterInv(A, U) /\ w \in WType /\ WriterTypes /\ Starts(A) /\ (ReaderInv(A, U, V) \/ Lapped)
      /\ SeenOK
  BY DEF Inv, WriterInv, WriterTypes, WType
<1>2. /\ w.pc = "carry" /\ hdr' = [hdr EXCEPT !.head_hi = @ + 1] /\ w' = [w EXCEPT !.pc = "added"]
      /\ UNCHANGED <<ring, mem, log, rd, seen>>
  BY DEF Carry, WriterOnly
<1>3. w' \in WType /\ w'.pc = "added"
  BY <1>1, <1>2 DEF WType, WPoints
<1>4. ~Open /\ ~Open' /\ Prog = 0 /\ Prog' = 0
  BY <1>2, <1>3 DEF Open, Prog
<1>5. /\ hdr' \in [head : HeadOfs, head_hi : Nat, data_head : DataOfs, data_used : DataOfs, notify : SUBSET Nat]
      /\ hdr'.head = hdr.head /\ hdr'.data_head = hdr.data_head /\ hdr'.data_used = hdr.data_used
      /\ hdr'.head_hi # 0
  <2> DEFINE hi == hdr.head_hi + 1
  <2>1. hdr \in [head : HeadOfs, head_hi : Nat, data_head : DataOfs, data_used : DataOfs, notify : SUBSET Nat]
    BY <1>1 DEF WriterTypes
  <2>2. hi \in Nat /\ hi # 0
    BY <2>1
  <2>3. hdr' = [hdr EXCEPT !.head_hi = hi]
    BY <1>2
  <2> HIDE DEF hi
  <2> QED BY <2>1, <2>2, <2>3
<1>6. WriterTypes' /\ Starts(A)' /\ BytesOK(A, U)' /\ SeenOK' /\ Wraps'
  <2>1. WriterTypes'
    BY <1>1, <1>2, <1>3, <1>5 DEF WriterTypes, WType
  <2>2. Starts(A)' /\ BytesOK(A, U)' /\ SeenOK'
    BY <1>1, <1>2 DEF WriterInv, Starts, BytesOK, SeenOK, Genuine
  <2>3. Wraps'
    BY <1>3 DEF Wraps
  <2> QED BY <2>1, <2>2, <2>3
<1>7. RingOK'
  BY <1>1, <1>2, <1>4, <1>5 DEF RingOK, WriterInv
<1>8. Announced(A, U)'
  BY <1>1, <1>2, <1>3, <1>4, <1>5 DEF Announced, WriterInv
<1>9. ASSUME Lapped PROVE Lapped'
  BY <1>2, <1>9 DEF Lapped
<1>10. ASSUME ReaderInv(A, U, V) PROVE ReaderInv(A, U, V)'
  <2>1. Since' = Since /\ Taken' = Taken /\ Copying' = Copying
    BY <1>2, <1>5 DEF Since, Taken, Copying
  <2>2. ReaderTypes' /\ CopyOK' /\ EntriesOK'
    BY <1>2, <1>4, <1>10, <2>1 DEF ReaderInv, ReaderTypes, CopyOK, EntriesOK
  <2>3. CopiedOK(A, U)' /\ UsedOK(A, U, V)'
    BY <1>2, <1>10, <2>1 DEF ReaderInv, CopiedOK, UsedOK, DataOK, At
  <2>4. AdvanceOK'
    <3> SUFFICES ASSUME rd.pc = "advance"
        PROVE  (Behind' + Prog' <= RingSize /\ Since' <= Behind' + 1) \/ Since' + Prog' <= 1
      BY <1>2 DEF AdvanceOK
    <3>1. Since \in Nat /\ Behind \in Nat /\ rd.rhead \in HeadOfs
      BY <1>1, <1>10, Counts DEF ReaderInv
    <3>2. (Behind + Prog <= RingSize /\ Since <= Behind + 1) \/ Since + Prog <= 1
      BY <1>10 DEF ReaderInv, AdvanceOK
    <3>3. CASE Since + Prog <= 1
      BY <1>4, <2>1, <3>3
    <3>4. CASE Clamped(rd.head)' = Clamped(rd.head)
      <4>1. Behind' = Behind
        BY <1>2, <1>5, <3>4 DEF Behind
      <4> QED BY <1>4, <2>1, <3>2, <4>1
    <3>5. CASE Clamped(rd.head)' # Clamped(rd.head) /\ Behind + Prog <= RingSize /\ Since <= Behind + 1
      <4> DEFINE r == rd.rhead
                 m == (rd.head + 1 - RingSize) % HeadMod
      <4>1. min_head(rd.head) = IF hdr.head_hi = 0 /\ SubHead(0, m) > 0 THEN 0 ELSE m
        BY DEF min_head
      <4>2. min_head(rd.head)' = IF hdr'.head_hi = 0 /\ SubHead(0, m) > 0 THEN 0 ELSE m
        BY <1>2 DEF min_head
      <4>3. hdr'.head_hi # 0
        BY <1>5
      <4> HIDE DEF m
      <4>4. min_head(rd.head) = 0
        <5>1. min_head(rd.head)' # min_head(rd.head)
          BY <1>2, <3>5 DEF Clamped
        <5> QED BY <4>1, <4>2, <4>3, <5>1
      <4>5. hdr.head = 0
        BY <1>1, <1>2 DEF WriterInv, Wraps
      <4>6. /\ r \in Int /\ 0 <= r /\ r < HeadMod /\ HeadMod \in Nat \ {0} /\ r - 0 = r
            /\ RingSize \in Nat \ {0} /\ 4 * RingSize <= HeadMod
        BY <3>1, RingSizes DEF HeadOfs
      <4>7. Clamped(rd.head) = IF SubHead(r, 0) < 0 THEN 0 ELSE r
        BY <4>4 DEF Clamped
      <4> HIDE DEF r
      <4>8. SubHead(r, 0) = IF r < HeadMod \div 2 THEN r ELSE r - HeadMod
        <5>1. r % HeadMod = r
          BY <4>6, ModSmall
        <5> QED BY <4>6, <5>1 DEF SubHead, Signed
      <4>9. Clamped(rd.head) = 0
        <5> SUFFICES ASSUME Clamped(rd.head) # 0 PROVE FALSE
          OBVIOUS
        <5>1. Clamped(rd.head) = r /\ r # 0 /\ ~(SubHead(r, 0) < 0)
          BY <4>7
        <5>2. r < HeadMod \div 2
          BY <4>6, <4>8, <5>1
        <5> DEFINE x == 0 - r
        <5>3. x \in Int /\ -HeadMod <= x /\ x < 0 /\ x + HeadMod > RingSize
          BY <4>6, <5>1, <5>2
        <5> HIDE DEF x
        <5>4. x % HeadMod = x + HeadMod
          BY <4>6, <5>3, ModSmall
        <5>5. Behind = x % HeadMod
          BY <4>5, <5>1 DEF Behind, x
        <5> QED BY <1>4, <3>1, <3>5, <4>6, <5>3, <5>4, <5>5
      <4> DEFINE z == 0
      <4>10. z \in Int /\ 0 <= z /\ z < HeadMod /\ 0 - 0 = z
        BY <4>6
      <4> HIDE DEF z
      <4>11. z % HeadMod = z
        BY <4>6, <4>10, ModSmall
      <4>12. Behind = 0
        BY <4>5, <4>9, <4>10, <4>11 DEF Behind, z
      <4> QED BY <1>4, <2>1, <3>1, <3>5, <4>12
    <3> QED BY <3>2, <3>3, <3>4, <3>5
  <2> QED BY <2>2, <2>3, <2>4 DEF ReaderInv
<1> QED BY <1>1, <1>6, <1>7, <1>8, <1>9, <1>10 DEF Inv, WriterInv

\* The writer takes the mask; the message goes to the reader.
LEMMA ExchangeOK ==
  ASSUME NEW A, NEW U, NEW V, Inv(A, U, V), Exchange
  PROVE  Inv(A, U, V)'
<1>1. WriterInv(A, U) /\ w \in WType /\ WriterTypes /\ (ReaderInv(A, U, V) \/ Lapped)
  BY DEF Inv, WriterInv, WriterTypes, WType
<1>2. /\ w.pc = "added" /\ hdr' = [hdr EXCEPT !.notify = {}] /\ w' = [w EXCEPT !.pc = "idle"]
      /\ rd' = [rd EXCEPT !.msg = @ \/ Handle \in hdr.notify]
      /\ UNCHANGED <<ring, mem, log, seen>>
  BY DEF Exchange
<1>3. w' \in WType /\ w'.pc = "idle"
  BY <1>1, <1>2 DEF WType, WPoints
<1>4. ~Open /\ ~Open' /\ Prog = 0 /\ Prog' = 0
  BY <1>2, <1>3 DEF Open, Prog
<1>5. /\ hdr' \in [head : HeadOfs, head_hi : Nat, data_head : DataOfs, data_used : DataOfs, notify : SUBSET Nat]
      /\ hdr'.head = hdr.head /\ hdr'.head_hi = hdr.head_hi /\ hdr'.data_head = hdr.data_head
      /\ hdr'.data_used = hdr.data_used
  BY <1>1, <1>2 DEF WriterTypes
<1>6. WriterTypes' /\ Starts(A)' /\ BytesOK(A, U)' /\ SeenOK'
  BY <1>1, <1>2, <1>3, <1>5 DEF WriterTypes, WType, Inv, WriterInv, Starts, BytesOK, SeenOK, Genuine
<1>7. RingOK'
  BY <1>2, <1>4, <1>5, <1>1 DEF RingOK, WriterInv
<1>8. Announced(A, U)'
  BY <1>1, <1>2, <1>3, <1>4, <1>5 DEF Announced, WriterInv
<1>9. ASSUME ReaderInv(A, U, V) PROVE ReaderInv(A, U, V)'
  <2>1. ReaderTypes
    BY <1>9 DEF ReaderInv
  <2>2. ReaderTypes' /\ rd'.pc = rd.pc
    BY <1>2, <2>1 DEF ReaderTypes
  <2>3. CASE rd.pc \in {"idle", "search"}
    BY <2>2, <2>3 DEF ReaderInv, AdvanceOK, CopyOK, Copying, CopiedOK, EntriesOK, UsedOK
  <2>4. CASE rd.pc \notin {"idle", "search"}
    <3>1. /\ rd'.rhead = rd.rhead /\ rd'.head = rd.head /\ rd'.dstart = rd.dstart /\ rd'.first = rd.first
          /\ rd'.size = rd.size /\ rd'.data = rd.data /\ rd'.ents = rd.ents /\ rd'.used = rd.used
      BY <1>2, <2>1, <2>4 DEF ReaderTypes
    <3>2. Since' = Since /\ Taken' = Taken /\ Copying' = Copying /\ Behind' = Behind
      BY <1>5, <2>2, <3>1 DEF Since, Taken, Copying, Behind, Clamped, min_head
    <3>3. AdvanceOK' /\ CopyOK' /\ EntriesOK'
      BY <1>2, <1>4, <1>9, <2>2, <3>1, <3>2 DEF ReaderInv, AdvanceOK, CopyOK, EntriesOK
    <3>4. CopiedOK(A, U)' /\ UsedOK(A, U, V)'
      BY <1>2, <1>9, <2>2, <3>1, <3>2 DEF ReaderInv, CopiedOK, UsedOK, DataOK, At
    <3> QED BY <2>2, <3>3, <3>4 DEF ReaderInv
  <2> QED BY <2>3, <2>4
<1>10. ASSUME Lapped PROVE Lapped'
  BY <1>2, <1>10 DEF Lapped
<1>11. Wraps'
  BY <1>3 DEF Wraps
<1> QED BY <1>1, <1>6, <1>7, <1>8, <1>9, <1>10, <1>11 DEF Inv, WriterInv

LEMMA WriterOK ==
  ASSUME GInv, Roomy, Writer
  PROVE  GInv'
<1>1. PICK A, U, V : Inv(A, U, V)
  BY DEF GInv
<1>2. CASE InitEntry
  BY <1>1, <1>2, InitEntryOK DEF GInv
<1>3. CASE InitTime
  BY <1>1, <1>3, InitTimeOK DEF GInv
<1>4. CASE Try
  BY <1>1, <1>4, TryOK DEF GInv
<1>5. CASE Again
  BY <1>1, <1>5, AgainOK
<1>6. CASE Copy
  BY <1>1, <1>6, CopyOfEntryOK DEF GInv
<1>7. CASE Add
  BY <1>1, <1>7, AddOK
<1>8. CASE Carry
  BY <1>1, <1>8, CarryOK DEF GInv
<1>9. CASE Exchange
  BY <1>1, <1>9, ExchangeOK DEF GInv
<1>10. ASSUME NEW len \in Lens, Append_(len) PROVE GInv'
  BY <1>1, <1>10, AppendOK
<1>11. ASSUME NEW len \in Lens, Printf(len) PROVE GInv'
  BY <1>1, <1>11, PrintfOK
<1>12. ASSUME NEW len \in Lens, SetLength(len) PROVE GInv'
  BY <1>1, <1>12, SetLengthOK DEF GInv
<1> QED BY <1>2, <1>3, <1>4, <1>5, <1>6, <1>7, <1>8, <1>9, <1>10, <1>11, <1>12 DEF Writer

-----------------------------------------------------------------------------
(* The reader. *)

\* The reader writes nothing but the mask.
LEMMA WriterKeeps ==
  ASSUME NEW A, NEW U, WriterInv(A, U), ReaderOnly, NEW N \in SUBSET Nat,
         UNCHANGED hdr \/ hdr' = [hdr EXCEPT !.notify = N]
  PROVE  WriterInv(A, U)' /\ hdr'.head = hdr.head /\ hdr'.head_hi = hdr.head_hi
<1>1. WriterTypes /\ UNCHANGED <<ring, mem, w, log>>
  BY DEF WriterInv, ReaderOnly
<1>2. /\ hdr' \in [head : HeadOfs, head_hi : Nat, data_head : DataOfs, data_used : DataOfs, notify : SUBSET Nat]
      /\ hdr'.head = hdr.head /\ hdr'.head_hi = hdr.head_hi /\ hdr'.data_head = hdr.data_head
      /\ hdr'.data_used = hdr.data_used
  BY <1>1 DEF WriterTypes
<1>3. Open' = Open /\ Prog' = Prog /\ cur' = cur /\ Wanted' = Wanted
  BY <1>1, <1>2 DEF Open, Prog, cur, Wanted
<1>4. WriterTypes' /\ Starts(A)' /\ BytesOK(A, U)'
  BY <1>1, <1>2 DEF WriterTypes, WriterInv, Starts, BytesOK
<1>5. RingOK'
  BY <1>1, <1>2, <1>3 DEF WriterInv, RingOK
<1>6. Announced(A, U)'
  BY <1>1, <1>2, <1>3 DEF WriterInv, Announced
<1>7. Wraps'
  BY <1>1, <1>2 DEF WriterInv, Wraps
<1> QED BY <1>2, <1>4, <1>5, <1>6, <1>7 DEF WriterInv

LEMMA AssumedNumbers ==
  Handle \in Nat /\ Offsets \subseteq Nat /\ Times \subseteq Nat
BY RingAssumption

\* No snapshot is being taken.
LEMMA AtRest ==
  ASSUME NEW A, NEW U, NEW V, SeenOK, WriterInv(A, U)', ReaderTypes', rd'.pc \in {"idle", "search"},
         UNCHANGED log, seen' = seen \/ seen' = <<>>
  PROVE  Sound(A, U, V)'
<1>1. ReaderInv(A, U, V)'
  BY DEF ReaderInv, AdvanceOK, CopyOK, Copying, CopiedOK, EntriesOK, UsedOK
<1>2. SeenOK'
  <2>1. CASE seen' = seen
    BY <2>1 DEF SeenOK, Genuine
  <2>2. CASE seen' = <<>>
    <3>1. seen' \in Seq(Shot) /\ Range(seen') = {}
      BY <2>2 DEF Range
    <3> QED BY <3>1 DEF SeenOK, Genuine
  <2> QED BY <2>1, <2>2
<1> QED BY <1>1, <1>2 DEF Sound

LEMMA PollOK ==
  ASSUME NEW A, NEW U, NEW V, Sound(A, U, V), RingNotified \/ \E val \in BOOLEAN : SetPoll(val)
  PROVE  Sound(A, U, V)'
<1>1. WriterInv(A, U) /\ SeenOK /\ ReaderTypes /\ hdr.notify \in SUBSET Nat
  BY DEF Sound, ReaderInv, WriterInv, WriterTypes
<1>2. CASE RingNotified
  <2>1. /\ rd.pc = "idle" /\ rd' = [rd EXCEPT !.msg = FALSE, !.due = @ \/ rd.poll]
        /\ ReaderOnly /\ UNCHANGED seen /\ UNCHANGED log
        /\ hdr' = hdr \/ hdr' = [hdr EXCEPT !.notify = hdr.notify \cup {Handle}]
    BY <1>2 DEF RingNotified, ReaderOnly, Sets
  <2>2. ReaderTypes' /\ rd'.pc = "idle"
    BY <1>1, <2>1 DEF ReaderTypes
  <2>3. hdr.notify \cup {Handle} \in SUBSET Nat
    BY <1>1, AssumedNumbers
  <2>4. WriterInv(A, U)'
    BY <1>1, <2>1, <2>3, WriterKeeps
  <2> QED BY <1>1, <2>1, <2>2, <2>4, AtRest
<1>3. ASSUME NEW val \in BOOLEAN, SetPoll(val) PROVE Sound(A, U, V)'
  <2>1. /\ rd.pc = "idle" /\ rd' = [rd EXCEPT !.poll = val, !.due = TRUE]
        /\ ReaderOnly /\ UNCHANGED seen /\ UNCHANGED log
        /\ hdr' = hdr \/ hdr' = [hdr EXCEPT !.notify = hdr.notify \cup {0}]
    BY <1>3 DEF SetPoll, ReaderOnly, Sets
  <2>2. ReaderTypes' /\ rd'.pc = "idle"
    BY <1>1, <2>1 DEF ReaderTypes
  <2>3. hdr.notify \cup {0} \in SUBSET Nat
    BY <1>1
  <2>4. WriterInv(A, U)'
    BY <1>1, <2>1, <2>3, WriterKeeps
  <2> QED BY <1>1, <2>1, <2>2, <2>4, AtRest
<1> QED BY <1>2, <1>3

LEMMA StartOK ==
  ASSUME NEW A, NEW U, NEW V, Sound(A, U, V),
         \/ \E n \in Offsets : SetStartOffset(n)
         \/ \E ts \in Times : SetStartTime(ts)
         \/ Search
  PROVE  Sound(A, U, V)'
<1>1. WriterInv(A, U) /\ SeenOK /\ ReaderTypes /\ WriterTypes /\ hdr.head \in HeadOfs /\ hdr.head \in Int
  BY DEF Sound, ReaderInv, WriterInv, WriterTypes, HeadOfs
<1>2. UNCHANGED hdr /\ ReaderOnly /\ UNCHANGED log /\ (seen' = seen \/ seen' = <<>>)
  BY DEF SetStartOffset, SetStartTime, Search, ReaderOnly, Quiet
<1>3. WriterInv(A, U)'
  <2>1. {} \in SUBSET Nat
    OBVIOUS
  <2> QED BY <1>1, <1>2, <2>1, WriterKeeps
<1>4. ASSUME NEW n \in Offsets, SetStartOffset(n) PROVE ReaderTypes' /\ rd'.pc \in {"idle", "search"}
  <2> DEFINE x == hdr.head - n
  <2>1. x \in Int
    BY <1>1, AssumedNumbers
  <2> HIDE DEF x
  <2>2. x % HeadMod \in HeadOfs
    BY <2>1, OfsOf
  <2>3. rd.pc = "idle" /\ rd' = [rd EXCEPT !.rhead = x % HeadMod, !.due = TRUE]
    BY <1>4 DEF SetStartOffset, x
  <2> QED BY <1>1, <2>2, <2>3 DEF ReaderTypes
<1>5. ASSUME NEW ts \in Times, SetStartTime(ts) PROVE ReaderTypes' /\ rd'.pc \in {"idle", "search"}
  <2>1. ts \in Nat
    BY AssumedNumbers
  <2> QED BY <1>1, <1>5, <2>1 DEF ReaderTypes, SetStartTime
<1>6. ASSUME Search PROVE ReaderTypes' /\ rd'.pc \in {"idle", "search"}
  <2> DEFINE diff == (rd.hi - rd.lo) % HeadMod
             mid == rd.lo + diff \div 2
             p == mid - 1
             q == mid + 1
  <2>1. /\ rd \in [pc : {"search"}, rhead : HeadOfs, poll : BOOLEAN, due : BOOLEAN, msg : BOOLEAN,
                   lo : HeadOfs, hi : HeadOfs, since : Nat]
    BY <1>1, <1>6 DEF ReaderTypes, Search
  <2>2. \/ rd' = [Idle EXCEPT !.rhead = rd.lo]
        \/ rd' = [rd EXCEPT !.hi = p % HeadMod]
        \/ rd' = [rd EXCEPT !.lo = q % HeadMod]
    BY <1>6 DEF Search
  <2>3. p \in Int /\ q \in Int
    <3>1. rd.lo \in Int /\ rd.hi - rd.lo \in Int
      BY <2>1 DEF HeadOfs
    <3>2. HeadMod \in Nat \ {0}
      BY RingSizes
    <3>3. diff \in Nat
      BY <3>1, <3>2, DivMod
    <3> HIDE DEF diff
    <3>4. diff \div 2 \in Int
      BY <3>3
    <3> QED BY <3>1, <3>4
  <2> HIDE DEF p, q
  <2>4. p % HeadMod \in HeadOfs /\ q % HeadMod \in HeadOfs
    BY <2>3, OfsOf
  <2>5. CASE rd' = [Idle EXCEPT !.rhead = rd.lo]
    BY <2>1, <2>5 DEF Idle, ReaderTypes
  <2>6. CASE rd' = [rd EXCEPT !.hi = p % HeadMod]
    BY <2>1, <2>4, <2>6 DEF ReaderTypes
  <2>7. CASE rd' = [rd EXCEPT !.lo = q % HeadMod]
    BY <2>1, <2>4, <2>7 DEF ReaderTypes
  <2> QED BY <2>2, <2>5, <2>6, <2>7
<1>7. ReaderTypes' /\ rd'.pc \in {"idle", "search"}
  BY <1>4, <1>5, <1>6
<1> QED BY <1>1, <1>2, <1>3, <1>7, AtRest

\* data_used - DataSize is not reduced before it is compared.
LEMMA SubDataUsed ==
  ASSUME NEW x \in Int, NEW U \in Int
  PROVE  SubData(x, (U % DataMod) - DataSize) = SubData(x, (U - DataSize) % DataMod)
<1> DEFINE y == x + DataSize
           z == U - DataSize
           u == U % DataMod
           v == z % DataMod
<1>1. DataMod \in Nat \ {0} /\ DataSize \in Int
  BY RingSizes
<1>2. y \in Int /\ z \in Int /\ y - U = x - z
  BY <1>1
<1> HIDE DEF y, z
<1>3. (y - u) % DataMod = (y - U) % DataMod /\ (x - v) % DataMod = (x - z) % DataMod
  BY <1>1, <1>2, ModAdd
<1>4. u \in Int
  BY <1>1, DivMod
<1> HIDE DEF u, v
<1>5. y - u = x - (u - DataSize)
  BY <1>1, <1>4 DEF y
<1>6. (x - (u - DataSize)) % DataMod = (x - v) % DataMod
  BY <1>2, <1>3, <1>5
<1> QED BY <1>6 DEF SubData, Signed, u, v, z

\* Where rbuf_advance_read_head ends after t turns.
Turned(a, t) ==
  LET c == Clamped(rd.head)
  IN /\ t \in 0..RingSize
     /\ a.rhead = (c + t) % HeadMod /\ a.dstart \in DataOfs
     /\ t < RingSize => a.dstart = ring[Slot(c + t)].start
     /\ t = RingSize => \A k \in 0..(RingSize - 1) :
                          ~(SubData(ring[Slot(c + k)].start, hdr.data_used - DataSize) > 0)

LEMMA Turns ==
  ASSUME WriterTypes, ReaderTypes, rd.pc \notin {"idle", "search"}
  PROVE  \E t : Turned(rbuf_advance_read_head(rd.head), t)
<1> DEFINE a == rbuf_advance_read_head(rd.head)
           c == Clamped(rd.head)
           p(k) == ring[Slot(c + k)]
           stays == {k \in 0..(RingSize - 1) : \/ p(k).ts > ring[Slot(rd.head - 1)].ts
                                               \/ SubData(p(k).start, hdr.data_used - DataSize) > 0}
           turns == IF stays = {} THEN RingSize ELSE Min(stays)
           z == Min({turns, RingSize - 1})
<1>1. a.rhead = (c + turns) % HeadMod /\ a.dstart = p(z).start
  BY DEF rbuf_advance_read_head
<1>2. RingSize \in Nat \ {0} /\ c \in Int
  BY RingSizes, Counts DEF HeadOfs
<1> HIDE DEF c
<1>3. turns \in 0..RingSize /\ (stays # {} => turns \in 0..(RingSize - 1))
  <2>1. stays \in SUBSET Nat
    BY <1>2
  <2>2. stays # {} => Min(stays) \in stays
    <3> HIDE DEF stays
    <3> QED BY <2>1, MinOf
  <2> QED BY <1>2, <2>2
<1> HIDE DEF stays, turns
<1>4. z \in {turns, RingSize - 1} /\ z <= turns /\ z <= RingSize - 1 /\ z \in Nat
  <2> DEFINE T == {turns, RingSize - 1}
  <2>1. T \in SUBSET Nat /\ T # {} /\ turns \in T /\ RingSize - 1 \in T
    BY <1>2, <1>3
  <2> HIDE DEF T
  <2>2. Min(T) \in T /\ Min(T) <= turns /\ Min(T) <= RingSize - 1
    BY <2>1, MinOf
  <2> QED BY <2>1, <2>2 DEF T
<1>5. turns < RingSize => z = turns
  <2> HIDE DEF z
  <2> QED BY <1>2, <1>3, <1>4
<1> HIDE DEF z
<1>6. a.dstart \in DataOfs
  <2> DEFINE x == c + z
  <2>1. x \in Int
    BY <1>2, <1>4
  <2> HIDE DEF x
  <2>2. Slot(x) \in 0..(RingSize - 1)
    BY <2>1, SlotOf
  <2>3. ring \in [0..(RingSize - 1) -> Desc]
    BY DEF WriterTypes
  <2>4. ring[Slot(x)] \in Desc
    BY <2>2, <2>3
  <2> QED BY <1>1, <2>4 DEF Desc, x
<1>7. turns < RingSize => a.dstart = p(turns).start
  BY <1>1, <1>5
<1>8. turns = RingSize => stays = {}
  BY <1>2, <1>3
<1>9. turns = RingSize => \A k \in 0..(RingSize - 1) :
                          ~(SubData(p(k).start, hdr.data_used - DataSize) > 0)
  BY <1>8 DEF stays
<1> HIDE DEF a
<1>10. Turned(a, turns)
  BY <1>1, <1>3, <1>6, <1>7, <1>9 DEF Turned, c
<1> QED BY <1>10 DEF a

\* The writer has not come round to the oldest entry: a snapshot that skips some
\* takes the fewer.
LEMMA TakesFewer ==
  ASSUME WriterTypes, ReaderTypes, rd.pc = "advance", Behind + Prog <= RingSize, Since <= Behind + 1,
         NEW t \in 0..RingSize, NEW n \in Nat, n <= RingSize,
         (rd.head - ((Clamped(rd.head) + t) % HeadMod)) % HeadMod = n
  PROVE  n + Since + Prog <= RingSize
<1> DEFINE h == hdr.head
           r == rd.head
           c == Clamped(rd.head)
           x == h - c
           y == h - r
           p == x \div HeadMod
           q == y \div HeadMod
           e == Behind - Since - t
           d == r - (c + t)
           g == p - q
<1>1. HeadMod \in Nat \ {0} /\ RingSize \in Nat \ {0} /\ 4 * RingSize <= HeadMod
  BY RingSizes
<1>2. h \in Int /\ r \in Int /\ c \in Int /\ Behind \in Nat /\ Since \in Nat /\ Prog \in 0..1
  BY Counts DEF HeadOfs
<1>3. Behind = x % HeadMod /\ Since = y % HeadMod
  BY DEF Behind, Since
<1> HIDE DEF h, r, c
<1>4. x \in Int /\ y \in Int /\ d \in Int /\ d = x - y - t
  BY <1>2
<1> HIDE DEF x, y
<1>5. p \in Int /\ q \in Int /\ x = HeadMod * p + Behind /\ y = HeadMod * q + Since
  BY <1>1, <1>3, <1>4, DivMod
<1> HIDE DEF p, q
<1>6. HeadMod * g = HeadMod * p - HeadMod * q /\ HeadMod * p \in Int /\ HeadMod * q \in Int /\ g \in Int
  BY <1>1, <1>5
<1>7. e \in Int /\ d = e + HeadMod * g
  BY <1>2, <1>4, <1>5, <1>6
<1>8. d % HeadMod = n
  <2> DEFINE k == c + t
  <2>1. k \in Int
    BY <1>2
  <2> HIDE DEF k
  <2>2. (r - (k % HeadMod)) % HeadMod = (r - k) % HeadMod
    BY <1>1, <1>2, <2>1, ModAdd
  <2> QED BY <2>2 DEF k, r, c
<1> HIDE DEF d, g
<1>9. e % HeadMod = n
  <2> HIDE DEF e
  <2> QED BY <1>1, <1>4, <1>6, <1>7, <1>8, ModShift
<1>10. -HeadMod <= e /\ e < HeadMod /\ -(RingSize + 1) <= e
  BY <1>1, <1>2
<1>11. (0 <= e => e % HeadMod = e) /\ (e < 0 => e % HeadMod = e + HeadMod)
  <2> HIDE DEF e
  <2> QED BY <1>1, <1>7, <1>10, ModSmall
<1>12. e = n
  <2> HIDE DEF e
  <2>1. e >= 0
    BY <1>1, <1>7, <1>9, <1>10, <1>11
  <2> QED BY <1>7, <1>9, <1>11, <2>1
<1> QED BY <1>1, <1>2, <1>12

\* The descriptors from the one the snapshot's head is at, backwards.
LEMMA InRing ==
  ASSUME NEW A, NEW U, WriterInv(A, U), ReaderTypes, rd.pc \notin {"idle", "search"},
         NEW k \in Nat, k >= 1, k + Since + Prog <= RingSize
  PROVE  /\ ring[Slot(rd.head - k)] = DescOf(log[Len(log) - Since + 1 - k])
         /\ Len(log) - Since + 1 - k \in 1..Len(log)
<1> DEFINE h == hdr.head
           r == rd.head
           i == k + Since
           g == -k
<1>1. WriterTypes /\ RingOK
  BY DEF WriterInv
<1>2. h \in Int /\ r \in Int /\ Since \in Nat /\ Prog \in 0..1 /\ g \in Int /\ RingSize \in Nat
  BY <1>1, Counts, RingSizes
<1>3. (h - r) % HeadMod = Since
  BY DEF Since
<1>4. Len(log) \in Nat /\ Len(log) >= RingSize
  BY <1>1 DEF WriterTypes
<1>5. i \in 1..(RingSize - Prog) /\ Len(log) + 1 - i = Len(log) - Since + 1 - k /\ Len(log) + 1 - i \in 1..Len(log)
  BY <1>2, <1>4
<1>6. r + g = r - k /\ h - Since + g = h - i
  BY <1>2
<1> HIDE DEF h, r, g, i
<1>7. Slot(r + g) = Slot(h - Since + g)
  BY <1>2, <1>3, SlotBack
<1>8. ring[Slot(h - i)] = DescOf(log[Len(log) + 1 - i])
  BY <1>1, <1>5 DEF RingOK, h
<1> QED BY <1>5, <1>6, <1>7, <1>8 DEF r

\* The one entry begun since the snapshot looked at head is in its place in the ring.
LEMMA Newest ==
  ASSUME NEW A, NEW U, WriterInv(A, U), ReaderTypes, rd.pc \notin {"idle", "search"}, Since + Prog = 1, Roomy,
         NEW j, j = Len(log) + 1 - Since
  PROVE  /\ ring[Slot(rd.head)].start = A[j] % DataMod /\ j - 1 \in 1..Len(log) /\ j \in 1..(Len(log) + 1)
         /\ A[j] \in Nat /\ U \in Nat /\ A[j] <= U /\ U <= A[j] + Reach
<1>1. WriterTypes /\ RingOK /\ Starts(A)
  BY DEF WriterInv
<1>2. hdr.head \in Int /\ rd.head \in Int /\ Since \in Nat /\ Prog \in 0..1 /\ RingSize \in Nat \ {0}
  BY <1>1, Counts, RingSizes
<1>3. Len(log) \in Nat /\ Len(log) >= RingSize
  BY <1>1 DEF WriterTypes
<1>4. A \in [1..(Len(log) + 1) -> Nat] /\ U \in Nat
  BY <1>1 DEF Starts, WriterInv, Announced
<1>5. Slot(rd.head) = Slot(hdr.head - Since)
  <2> DEFINE h == hdr.head
             r == rd.head
             s == Since
             o == 0
  <2>1. h \in Int /\ r \in Int /\ s \in Int /\ o \in Int /\ (h - r) % HeadMod = s
    BY <1>2 DEF Since
  <2>2. r + o = r /\ h - s + o = h - s
    BY <1>2
  <2> HIDE DEF h, r, s, o
  <2>3. Slot(r + o) = Slot(h - s + o)
    BY <2>1, SlotBack
  <2> QED BY <2>2, <2>3 DEF h, r, s
<1>6. CASE Prog = 1
  <2>1. Since = 0 /\ Open /\ j = Len(log) + 1
    BY <1>2, <1>3, <1>6 DEF Prog
  <2>2. cur.start = A[Len(log) + 1] % DataMod /\ A[Len(log) + 1] <= U /\ U <= A[Len(log) + 1] + Reach
    BY <2>1 DEF WriterInv, Announced
  <2>3. hdr.head - Since = hdr.head
    BY <1>2, <2>1
  <2>4. ring[Slot(rd.head)].start = A[j] % DataMod
    BY <1>5, <2>1, <2>2, <2>3 DEF cur
  <2>5. j - 1 \in 1..Len(log) /\ j \in 1..(Len(log) + 1)
    BY <1>2, <1>3, <2>1
  <2>6. A[j] \in Nat
    BY <1>4, <2>5
  <2> QED BY <1>4, <2>1, <2>2, <2>4, <2>5, <2>6
<1>7. CASE Prog = 0
  <2>1. Since = 1 /\ ~Open /\ j = Len(log)
    BY <1>2, <1>3, <1>7 DEF Prog
  <2>2. j - 1 \in 1..Len(log) /\ j \in 1..(Len(log) + 1) /\ j \in 1..Len(log) /\ Len(log) + 1 - 1 = j
        /\ Len(log) + 1 \in j..(Len(log) + 1) /\ 1 \in 1..(RingSize - Prog)
    <3>1. RingSize >= 3
      BY RingSizes DEF Roomy
    <3> QED BY <1>2, <1>3, <1>7, <2>1, <3>1
  <2>3. A[Len(log) + 1] <= U /\ U <= A[Len(log)] + Reach
    BY <2>1 DEF WriterInv, Announced
  <2>4. A[j] \in Nat /\ A[Len(log) + 1] \in Nat /\ A[j] <= A[Len(log) + 1]
    <3> DEFINE y == Len(log) + 1
    <3>1. y \in j..(Len(log) + 1) /\ y \in 1..(Len(log) + 1)
      BY <1>3, <2>2
    <3> HIDE DEF y
    <3>2. A[j] <= A[y]
      BY <1>1, <2>2, <3>1, Ordered
    <3> QED BY <1>4, <2>2, <3>1, <3>2 DEF y
  <2>5. ring[Slot(hdr.head - 1)] = DescOf(log[Len(log) + 1 - 1])
    BY <1>1, <2>2 DEF RingOK
  <2>6. log[j].start = A[j] % DataMod
    BY <1>1, <2>2 DEF Starts
  <2>7. ring[Slot(rd.head)].start = A[j] % DataMod
    BY <1>5, <2>1, <2>2, <2>5, <2>6 DEF DescOf
  <2>8. A[j] <= U
    BY <1>4, <2>3, <2>4
  <2> QED BY <1>4, <2>1, <2>2, <2>3, <2>4, <2>7, <2>8
<1> QED BY <1>2, <1>6, <1>7

\* A snapshot that would take the whole ring while one entry was begun since it
\* looked at head: the copy would begin where the last entry ends.
LEMMA WholeRing ==
  ASSUME NEW A, NEW U, WriterInv(A, U), ReaderTypes, rd.pc \notin {"idle", "search"}, Since + Prog = 1, Roomy,
         NEW a, NEW t, Turned(a, t), (rd.head - a.rhead) % HeadMod = RingSize
  PROVE  LET last == ring[Slot(rd.head - 1)]
         IN (last.start + last.len - a.dstart) % DataMod > DataSize
<1> DEFINE j == Len(log) + 1 - Since
           c == Clamped(rd.head)
           r == rd.head
           N == RingSize
<1>1. /\ WriterTypes /\ Starts(A) /\ N \in Nat \ {0} /\ N >= 3 /\ DataMod \in Nat \ {0} /\ DataMod >= 8 * DataSize
      /\ DataSize \in Nat \ {0} /\ Reach \in Nat /\ Reach < DataSize /\ DataSize < DataMod \div 2
      /\ HeadMod \in Nat \ {0}
  <2> DEFINE half == DataMod \div 2
  <2>1. WriterTypes /\ Starts(A) /\ Reach < DataSize
    BY DEF WriterInv, Roomy
  <2>2. /\ RingSize \in Nat \ {0} /\ RingSize >= 4 /\ DataMod \in Nat \ {0} /\ DataMod >= 8 * DataSize
        /\ DataSize \in Nat \ {0} /\ Reach \in Nat /\ HeadMod \in Nat \ {0}
        /\ half \in Nat /\ DataMod <= 2 * half + 1
    BY RingSizes
  <2> HIDE DEF half
  <2>3. RingSize >= 3 /\ DataSize < half
    BY <2>2
  <2> QED BY <2>1, <2>2, <2>3 DEF half
<1>2. /\ ring[Slot(r)].start = A[j] % DataMod /\ j - 1 \in 1..Len(log) /\ j \in 1..(Len(log) + 1)
      /\ A[j] \in Nat /\ U \in Nat /\ A[j] <= U /\ U <= A[j] + Reach
  BY Newest
<1>3. r \in Int /\ c \in Int /\ Since \in Nat /\ Prog \in 0..1 /\ r \in HeadOfs
  BY <1>1, Counts, SnapFields DEF HeadOfs
<1>4. t \in 0..N /\ a.rhead = (c + t) % HeadMod
  BY DEF Turned
<1> HIDE DEF j, c, r, N
<1>5. hdr.data_used = U % DataMod
  BY DEF WriterInv, Announced
<1>6. SubData(ring[Slot(r)].start, hdr.data_used - DataSize) > 0
  <2> DEFINE b == U - DataSize
             x == A[j]
             y == x % DataMod
  <2>1. x \in Int /\ b \in Int /\ 0 <= x - b /\ x - b < DataMod \div 2 /\ x - b > 0 /\ U \in Int
    <3> DEFINE half == DataMod \div 2
    <3>1. half \in Int /\ DataSize < half
      BY <1>1
    <3>2. x \in Nat /\ U \in Nat /\ x <= U /\ U <= x + Reach
      BY <1>2
    <3>3. DataSize \in Nat /\ Reach \in Nat /\ Reach < DataSize
      BY <1>1
    <3> HIDE DEF half, x
    <3>4. x \in Int /\ b \in Int /\ 0 <= x - b /\ x - b < half /\ x - b > 0 /\ U \in Int
      BY <3>1, <3>2, <3>3
    <3> QED BY <3>4 DEF half
  <2> HIDE DEF b, x
  <2>2. SubData(x % DataMod, b % DataMod) = x - b
    BY <2>1, SubDataOf
  <2>3. y \in Int
    BY <1>1, <2>1, DivMod
  <2> HIDE DEF y
  <2>4. SubData(y, (U % DataMod) - DataSize) = SubData(y, (U - DataSize) % DataMod)
    BY <2>1, <2>3, SubDataUsed
  <2> QED BY <1>2, <1>5, <2>1, <2>2, <2>4 DEF x, y, b
<1>7. t < N
  <2> DEFINE x == r - c
             k == x % N
  <2>1. x \in Int /\ c + x = r
    BY <1>3
  <2> HIDE DEF x
  <2>2. k \in Nat /\ k < N
    BY <1>1, <2>1, DivMod
  <2>3. ((x % N) + c) % N = (x + c) % N
    BY <1>1, <1>3, <2>1, ModAdd
  <2>4. x + c = r /\ (x % N) + c = c + k
    BY <1>3, <2>1, <2>2
  <2>5. Slot(c + k) = Slot(r)
    BY <2>3, <2>4 DEF Slot, N
  <2>6. k \in 0..(N - 1)
    BY <1>1, <2>2
  <2> HIDE DEF k
  <2>7. t # N
    BY <1>6, <2>5, <2>6 DEF Turned, c, N
  <2> QED BY <1>1, <1>4, <2>7
<1>8. Slot(c + t) = Slot(r)
  <2> DEFINE y == c + t
             g == a.rhead
             o == 0
             x == r - N
  <2>1. y \in Int /\ o \in Int /\ x \in Int /\ N \in Int
    BY <1>1, <1>3, <1>4
  <2>2. g \in Int /\ g = y % HeadMod
    <3>1. y % HeadMod \in HeadOfs
      <4> HIDE DEF y
      <4> QED BY <2>1, OfsOf
    <3> QED BY <1>4, <3>1 DEF HeadOfs
  <2>3. (r - g) % HeadMod = N
    BY DEF r, N
  <2>4. g + o = (y % HeadMod) + o /\ y + o = y /\ r - N + o = x
    BY <1>1, <1>3, <2>1, <2>2
  <2> HIDE DEF y, g, o
  <2>5. Slot((y % HeadMod) + o) = Slot(y + o)
    BY <2>1, SlotOf
  <2>6. Slot(g + o) = Slot(r - N + o)
    <3>1. r \in Int /\ g \in Int /\ N \in Int /\ o \in Int
      BY <1>3, <2>1, <2>2
    <3> QED BY <2>3, <3>1, SlotBack
  <2>7. r = x + N * 1
    BY <1>1, <1>3
  <2> HIDE DEF x
  <2>8. r % N = x % N
    <3>1. 1 \in Int
      OBVIOUS
    <3> QED BY <1>1, <1>3, <2>1, <2>7, <3>1, ModShift
  <2> QED BY <2>4, <2>5, <2>6, <2>8 DEF y, Slot, N
<1>9. a.dstart = A[j] % DataMod
  BY <1>2, <1>7, <1>8 DEF Turned, c, N
<1>10. ring[Slot(rd.head - 1)] = DescOf(log[j - 1])
  <2>1. 1 \in Nat /\ 1 >= 1 /\ 1 + Since + Prog <= RingSize
    BY <1>1, <1>3 DEF N
  <2>2. ring[Slot(rd.head - 1)] = DescOf(log[Len(log) - Since + 1 - 1])
    BY <2>1, InRing
  <2>3. Len(log) - Since + 1 - 1 = j - 1
    BY <1>1, <1>3 DEF j, WriterTypes
  <2> QED BY <2>2, <2>3
<1> DEFINE i == j - 1
<1>11. /\ log[i].start = A[i] % DataMod /\ A[i + 1] = A[i] + log[i].len + 1 /\ i + 1 = j
       /\ A[i] \in Nat /\ log[i].len \in Nat
  <2>1. i \in 1..Len(log) /\ i + 1 = j /\ i \in 1..(Len(log) + 1)
    BY <1>2
  <2> HIDE DEF i
  <2>2. log[i] \in Shot
    BY <1>1, <2>1 DEF WriterTypes
  <2>3. A \in [1..(Len(log) + 1) -> Nat]
    BY <1>1 DEF Starts
  <2>4. A[i] \in Nat
    BY <2>1, <2>3
  <2> QED BY <1>1, <2>1, <2>2, <2>4 DEF Starts, Shot
<1> HIDE DEF i
<1> DEFINE x == A[i]
           y == A[j]
           l == log[i].len
           d == x + l
           v == y % DataMod
<1>12. ((x % DataMod) + (l - v)) % DataMod = DataMod - 1
  <2>1. x \in Int /\ y \in Int /\ l \in Int /\ d \in Int /\ y = d + 1
    BY <1>2, <1>11
  <2> HIDE DEF x, y, l
  <2>2. v \in Int /\ d - y = -1 /\ l - v \in Int /\ x % DataMod \in Int
    BY <1>1, <2>1, DivMod
  <2>3. (d - v) % DataMod = (d - y) % DataMod
    <3> HIDE DEF d
    <3> QED BY <1>1, <2>1, ModAdd
  <2> HIDE DEF v
  <2> DEFINE g == l - v
  <2>4. ((x % DataMod) + g) % DataMod = (x + g) % DataMod
    <3>1. g \in Int
      BY <2>2
    <3> HIDE DEF g
    <3> QED BY <1>1, <2>1, <3>1, ModAdd
  <2>5. x + g = d - v
    BY <2>1, <2>2
  <2>6. (-1) % DataMod = -1 + DataMod
    <3>1. -1 \in Int /\ -DataMod <= -1 /\ -1 < 0
      BY <1>1
    <3> QED BY <1>1, <3>1, ModSmall
  <2>7. -1 + DataMod = DataMod - 1
    BY <1>1
  <2> QED BY <2>2, <2>3, <2>4, <2>5, <2>6, <2>7
<1>13. DataMod - 1 > DataSize
  BY <1>1
<1> DEFINE last == ring[Slot(rd.head - 1)]
<1>14. last.start = x % DataMod /\ last.len = l /\ a.dstart = v
  BY <1>9, <1>10, <1>11 DEF DescOf, i
<1> DEFINE ls == last.start
           ll == last.len
           ad == a.dstart
<1>15. ls = x % DataMod /\ ll = l /\ ad = v
  BY <1>14
<1>16. (ls + ll - ad) % DataMod > DataSize
  <2> HIDE DEF ls, ll, ad, x, l, v, last
  <2>1. ls + ll - ad = (x % DataMod) + (l - v)
    BY <1>15
  <2>2. (ls + ll - ad) % DataMod = DataMod - 1
    BY <1>12, <2>1
  <2> QED BY <1>13, <2>2
<1> QED BY <1>16

\* A step of a snapshot: what the writer has stays as it is.
LEMMA SnapKeeps ==
  ASSUME NEW A, NEW U, WriterInv(A, U), SeenOK, ReaderOnly, UNCHANGED <<hdr, seen>>
  PROVE  WriterInv(A, U)' /\ SeenOK' /\ UNCHANGED log /\ Prog' = Prog
<1>1. WriterInv(A, U) /\ {} \in SUBSET Nat
  OBVIOUS
<1>2. WriterInv(A, U)'
  BY <1>1, WriterKeeps
<1>3. UNCHANGED <<log, w>>
  BY DEF ReaderOnly
<1> QED BY <1>2, <1>3 DEF SeenOK, Genuine, Prog, Open

LEMMA SnapshotOK ==
  ASSUME NEW A, NEW U, NEW V, Sound(A, U, V), Snapshot
  PROVE  Sound(A, U, V)'
<1>1. ReaderTypes /\ WriterTypes
  BY DEF Sound, ReaderInv, WriterInv
<1>2. /\ rd.pc = "idle" /\ ReaderOnly /\ UNCHANGED <<hdr, seen>>
      /\ rd' = [pc |-> "advance", rhead |-> rd.rhead, poll |-> rd.poll, due |-> FALSE, msg |-> rd.msg,
                head |-> hdr.head, dstart |-> 0, first |-> rd.rhead, size |-> 0,
                data |-> <<>>, ents |-> <<>>, used |-> 0, lapped |-> FALSE]
  BY DEF Snapshot, Quiet
<1>3. WriterInv(A, U)' /\ SeenOK' /\ UNCHANGED log /\ Prog' = Prog
  BY <1>2, SnapKeeps DEF Sound
<1>4. rd.rhead \in HeadOfs /\ rd.poll \in BOOLEAN /\ rd.msg \in BOOLEAN
  BY <1>1, <1>2 DEF ReaderTypes
<1>5. hdr.head \in HeadOfs /\ 0 \in DataOfs
  BY <1>1, RingSizes DEF WriterTypes, DataOfs
<1>6. rd' \in Snap({"advance"})
  BY <1>2, <1>4, <1>5 DEF Snap
<1>7. ReaderTypes' /\ rd'.pc = "advance" /\ rd'.head = hdr.head
  BY <1>2, <1>6 DEF ReaderTypes, Snap
<1>8. Since' = 0
  <2> DEFINE h == hdr.head
             z == 0
  <2>1. h \in Int /\ h - h = z /\ z \in Int /\ 0 <= z /\ z < HeadMod /\ HeadMod \in Nat \ {0}
    BY <1>5, RingSizes DEF HeadOfs
  <2> HIDE DEF z
  <2>2. z % HeadMod = z
    BY <2>1, ModSmall
  <2> QED BY <1>2, <1>7, <2>1, <2>2 DEF Since, z
<1>9. Since' + Prog' <= 1
  BY <1>3, <1>8 DEF Prog
<1>10. ReaderInv(A, U, V)'
  BY <1>7, <1>9 DEF ReaderInv, AdvanceOK, CopyOK, Copying, CopiedOK, EntriesOK, UsedOK
<1> QED BY <1>3, <1>10 DEF Sound

LEMMA AdvanceStepOK ==
  ASSUME NEW A, NEW U, NEW V, Sound(A, U, V), Advance, Roomy
  PROVE  Sound(A, U, V)'
<1> DEFINE a == rbuf_advance_read_head(rd.head)
           last == ring[Slot(rd.head - 1)]
           size == (last.start + last.len - a.dstart) % DataMod
           n == (rd.head - a.rhead) % HeadMod
           valid == n # 0 /\ size <= DataSize /\ n <= RingSize
<1>1. ReaderTypes /\ WriterTypes /\ WriterInv(A, U) /\ ReaderInv(A, U, V)
  BY DEF Sound, ReaderInv, WriterInv
<1>2. /\ rd.pc = "advance" /\ ReaderOnly /\ UNCHANGED <<hdr, seen>>
      /\ rd' = IF valid THEN [rd EXCEPT !.pc = "data", !.size = size, !.dstart = a.dstart,
                                        !.rhead = a.rhead, !.first = a.rhead]
                        ELSE [Idle EXCEPT !.rhead = rd.head]
  BY DEF Advance, Quiet
<1>3. WriterInv(A, U)' /\ SeenOK' /\ UNCHANGED log /\ Prog' = Prog
  BY <1>2, SnapKeeps DEF Sound
<1>4. rd \in Snap({"advance"})
  BY <1>1, <1>2 DEF ReaderTypes, Snap
<1>5. PICK t : Turned(a, t)
  BY <1>1, <1>2, Turns
<1>6. a.dstart \in DataOfs /\ t \in 0..RingSize /\ a.rhead = (Clamped(rd.head) + t) % HeadMod
  BY <1>5 DEF Turned
<1>7. /\ rd.head \in Int /\ Since \in Nat /\ Behind \in Nat /\ Prog \in 0..1 /\ Clamped(rd.head) \in Int
      /\ RingSize \in Nat /\ HeadMod \in Nat \ {0} /\ DataMod \in Nat \ {0}
  BY <1>1, <1>2, Counts, RingSizes DEF HeadOfs
<1>8. a.rhead \in HeadOfs
  <2> DEFINE x == Clamped(rd.head) + t
  <2>1. x \in Int
    BY <1>6, <1>7
  <2> HIDE DEF x
  <2>2. x % HeadMod \in HeadOfs
    BY <2>1, OfsOf
  <2> QED BY <1>6, <2>2 DEF x
<1> HIDE DEF a
<1>9. n \in Nat
  <2> DEFINE x == rd.head - a.rhead
  <2>1. x \in Int
    BY <1>7, <1>8 DEF HeadOfs
  <2> HIDE DEF x
  <2>2. x % HeadMod \in Nat
    BY <1>7, <2>1, DivMod
  <2> QED BY <2>2 DEF x
<1>10. size \in Nat
  <2> DEFINE x == last.start + last.len - a.dstart
  <2>1. last \in Desc
    <3> DEFINE y == rd.head - 1
    <3>1. y \in Int
      BY <1>7
    <3> HIDE DEF y
    <3>2. Slot(y) \in 0..(RingSize - 1)
      BY <3>1, SlotOf
    <3> QED BY <1>1, <3>2 DEF WriterTypes, y
  <2> HIDE DEF last
  <2>2. x \in Int
    BY <1>6, <2>1 DEF Desc, DataOfs
  <2> HIDE DEF x
  <2>3. x % DataMod \in Nat
    BY <1>7, <2>2, DivMod
  <2> QED BY <2>3 DEF x
<1>11. valid => n + Since + Prog <= RingSize
  <2> SUFFICES ASSUME valid PROVE n + Since + Prog <= RingSize
    OBVIOUS
  <2>1. CASE Behind + Prog <= RingSize /\ Since <= Behind + 1
    <3>1. (rd.head - ((Clamped(rd.head) + t) % HeadMod)) % HeadMod = n
      BY <1>6
    <3> HIDE DEF n
    <3> QED BY <1>1, <1>2, <1>6, <1>9, <2>1, <3>1, TakesFewer
  <2>2. CASE Since + Prog <= 1
    <3>1. CASE Since + Prog = 1 /\ n = RingSize
      <4>1. size > DataSize
        BY <1>1, <1>2, <1>5, <3>1, WholeRing
      <4> HIDE DEF size
      <4>2. DataSize \in Nat
        BY RingSizes
      <4> QED BY <1>10, <4>1, <4>2
    <3>2. CASE ~(Since + Prog = 1 /\ n = RingSize)
      <4> HIDE DEF n, size
      <4> QED BY <1>7, <1>9, <2>2, <3>2
    <3> QED BY <3>1, <3>2
  <2>3. (Behind + Prog <= RingSize /\ Since <= Behind + 1) \/ Since + Prog <= 1
    BY <1>1, <1>2 DEF ReaderInv, AdvanceOK
  <2> QED BY <2>1, <2>2, <2>3
<1>12. CASE valid
  <2>1. rd' = [rd EXCEPT !.pc = "data", !.size = size, !.dstart = a.dstart, !.rhead = a.rhead, !.first = a.rhead]
    BY <1>2, <1>12
  <2>2. n \in 1..RingSize /\ size <= DataSize
    <3> HIDE DEF n, size
    <3> QED BY <1>7, <1>9, <1>12
  <2> HIDE DEF size
  <2>3. /\ rd' \in Snap({"data"}) /\ rd'.pc = "data" /\ rd'.first = a.rhead /\ rd'.head = rd.head
        /\ rd'.size = size
    BY <1>4, <1>6, <1>8, <1>10, <2>1 DEF Snap
  <2>4. Since' = Since /\ Taken' = n /\ ReaderTypes'
    BY <1>2, <2>3 DEF Since, Taken, ReaderTypes, Snap
  <2> HIDE DEF n
  <2>5. CopyOK'
    <3>1. n + Since + Prog <= RingSize
      BY <1>11, <1>12
    <3> QED BY <1>3, <2>2, <2>3, <2>4, <3>1 DEF CopyOK
  <2>6. ReaderInv(A, U, V)'
    BY <2>3, <2>4, <2>5 DEF ReaderInv, AdvanceOK, CopiedOK, EntriesOK, UsedOK
  <2> QED BY <1>3, <2>6 DEF Sound
<1>13. CASE ~valid
  <2>1. rd' = [Idle EXCEPT !.rhead = rd.head]
    BY <1>2, <1>13
  <2>2. ReaderTypes' /\ rd'.pc = "idle"
    BY <1>4, <2>1 DEF Idle, ReaderTypes, Snap
  <2>3. SeenOK
    BY DEF Sound
  <2> QED BY <1>2, <1>3, <2>2, <2>3, AtRest
<1> QED BY <1>12, <1>13

\* The copy of the data.
LEMMA CopyDataOK ==
  ASSUME NEW A, NEW U, NEW V, Sound(A, U, V), CopyData
  PROVE  Sound(A, U, V)'
<1> DEFINE data == Bytes(mem, rd.dstart, rd.size)
<1>1. ReaderTypes /\ WriterTypes /\ WriterInv(A, U) /\ ReaderInv(A, U, V) /\ Starts(A) /\ BytesOK(A, U)
  BY DEF Sound, ReaderInv, WriterInv
<1>2. /\ rd.pc = "data" /\ ReaderOnly /\ UNCHANGED <<hdr, seen>>
      /\ rd' = [rd EXCEPT !.pc = "entries", !.data = data]
  BY DEF CopyData, Quiet
<1>3. WriterInv(A, U)' /\ SeenOK' /\ UNCHANGED log /\ Prog' = Prog
  BY <1>2, SnapKeeps DEF Sound
<1>4. rd \in Snap({"data"})
  BY <1>1, <1>2 DEF ReaderTypes, Snap
<1>5. rd.dstart \in Int /\ rd.size \in Nat /\ DataMod \in Nat \ {0} /\ mem \in [0..(DataSize - 1) -> Nat]
  <2>1. rd.dstart \in DataOfs /\ rd.size \in Nat
    BY <1>4 DEF Snap
  <2>2. rd.dstart \in Int
    BY <2>1 DEF DataOfs
  <2> QED BY <1>1, <2>1, <2>2, RingSizes DEF WriterTypes
<1>6. ASSUME NEW k \in 1..rd.size PROVE mem[Cell(rd.dstart + k - 1)] \in Nat
  <2> DEFINE x == rd.dstart + k - 1
  <2>1. x \in Int
    BY <1>5
  <2> HIDE DEF x
  <2>2. x % DataSize \in 0..(DataSize - 1)
    BY <2>1, CellOf
  <2> QED BY <1>5, <2>2 DEF Cell, x
<1>7. data \in [1..rd.size -> Nat]
  BY <1>6 DEF Bytes
<1>8. data \in Seq(Nat) /\ Len(data) = rd.size
  BY <1>5, <1>7
<1>9. \A k \in 1..rd.size : data[k] = mem[Cell(rd.dstart + k - 1)]
  BY DEF Bytes
<1> HIDE DEF data
<1>10. /\ rd' \in Snap({"entries"}) /\ rd'.pc = "entries" /\ rd'.data = data /\ rd'.size = rd.size
       /\ rd'.dstart = rd.dstart /\ rd'.head = rd.head /\ rd'.first = rd.first
  BY <1>2, <1>4, <1>8 DEF Snap
<1>11. Since' = Since /\ Taken' = Taken /\ ReaderTypes' /\ Copying' /\ Copying
  BY <1>2, <1>10 DEF Since, Taken, ReaderTypes, Snap, Copying
<1>12. CopyOK'
  BY <1>1, <1>3, <1>10, <1>11 DEF ReaderInv, CopyOK
<1>13. DataOK(A, U)'
  <2>1. Since \in Nat /\ Len(log) \in Nat
    BY <1>1, <1>2, Counts DEF WriterTypes
  <2> SUFFICES ASSUME NEW j \in 1..(Len(log) - Since), A[j] >= U - DataSize, NEW i \in 1..log[j].len,
                      At(log[j]) + i <= rd.size
      PROVE  data[At(log[j]) + i] = log[j].bytes[i]
    <3>1. \A j \in 1..(Len(log) - Since) : At(log[j])' = At(log[j])
      BY <1>3, <1>10 DEF At
    <3> QED BY <1>3, <1>8, <1>10, <1>11, <3>1 DEF DataOK
  <2>2. j \in 1..Len(log) /\ j \in 1..(Len(log) + 1)
    BY <2>1
  <2>3. log[j] \in Shot
    BY <1>1, <2>2 DEF WriterTypes
  <2>4. log[j].len \in Nat /\ log[j].start = A[j] % DataMod /\ A[j] \in Nat /\ i \in Nat /\ i >= 1
    BY <1>1, <2>2, <2>3 DEF Starts, Shot
  <2>5. mem[(A[j] + i - 1) % DataSize] = log[j].bytes[i]
    BY <1>1, <2>2 DEF BytesOK
  <2> DEFINE s == rd.dstart
             y == A[j]
             u == y % DataMod
             x == u - s
             p == x % DataMod
             k == i - 1
             z == x + s
             g == s + k
  <2>6. At(log[j]) = p
    BY <2>4 DEF At
  <2>7. y \in Int /\ s \in Int /\ k \in Int /\ u \in Int /\ x \in Int /\ z = u /\ g \in Int
    <3>1. y \in Int /\ s \in Int
      BY <1>5, <2>4
    <3> HIDE DEF y, s
    <3>2. u \in Int
      BY <1>5, <3>1, DivMod
    <3> HIDE DEF u
    <3> QED BY <2>4, <3>1, <3>2
  <2>8. p \in Nat
    <3> HIDE DEF x
    <3> QED BY <1>5, <2>7, DivMod
  <2>9. p + i \in 1..rd.size
    BY <1>5, <2>4, <2>6, <2>8
  <2>10. Cell(s + (p + i) - 1) = (y + i - 1) % DataSize
    <3> HIDE DEF s, y
    <3>1. Cell((y % DataMod) + k) = (y + k) % DataSize
      <4> HIDE DEF k
      <4> QED BY <2>7, CellOf
    <3>2. Cell((x % DataMod) + g) = (x + g) % DataSize
      <4> HIDE DEF x, g
      <4> QED BY <2>7, CellOf
    <3> HIDE DEF u
    <3>3. x + g = u + k
      BY <2>7
    <3>4. (u + k) % DataSize = Cell(u + k)
      BY DEF Cell
    <3> HIDE DEF x
    <3>5. s + (p + i) - 1 = p + g /\ y + i - 1 = y + k
      BY <2>4, <2>7, <2>8
    <3> QED BY <3>1, <3>2, <3>3, <3>4, <3>5 DEF u
  <2>11. data[p + i] = mem[Cell(s + (p + i) - 1)]
    BY <1>9, <2>9
  <2> QED BY <2>5, <2>6, <2>10, <2>11
<1>14. ReaderInv(A, U, V)'
  BY <1>10, <1>11, <1>12, <1>13 DEF ReaderInv, AdvanceOK, CopiedOK, EntriesOK, UsedOK
<1> QED BY <1>3, <1>14 DEF Sound

\* The descriptors the snapshot copies.
LEMMA DescriptorsOK ==
  ASSUME NEW A, NEW U, WriterInv(A, U), NEW V, ReaderInv(A, U, V), Copying
  PROVE  /\ Descriptors \in Seq(Desc) /\ Len(Descriptors) = Taken /\ Taken \in Nat
         /\ \A k \in 1..Taken : Descriptors[k] = DescOf(log[Len(log) - Since - Taken + k])
<1>1. WriterTypes /\ ReaderTypes /\ CopyOK /\ rd.pc \notin {"idle", "search"}
  BY DEF WriterInv, ReaderInv, Copying
<1>2. /\ Taken \in 1..RingSize /\ Taken + Since + Prog <= RingSize /\ Taken \in Nat /\ Since \in Nat /\ Prog \in 0..1
      /\ rd.head \in Int /\ rd.first \in Int /\ RingSize \in Nat
  BY <1>1, Counts, RingSizes DEF CopyOK
<1>3. Len(log) \in Nat /\ log \in Seq(Shot)
  BY <1>1 DEF WriterTypes
<1>4. ASSUME NEW k \in 1..Taken
      PROVE  /\ ring[Slot(rd.first + k - 1)] = DescOf(log[Len(log) - Since - Taken + k])
             /\ ring[Slot(rd.first + k - 1)] \in Desc
  <2> DEFINE h == rd.head
             f == rd.first
             n == Taken
             g == k - 1
             i == n + 1 - k
  <2>1. h \in Int /\ f \in Int /\ n \in Int /\ g \in Int /\ (h - f) % HeadMod = n
    BY <1>2 DEF Taken
  <2>2. f + g = f + k - 1 /\ h - n + g = h - i
    BY <1>2, <2>1
  <2>3. i \in Nat /\ i >= 1 /\ i + Since + Prog <= RingSize /\ Len(log) - Since + 1 - i = Len(log) - Since - Taken + k
    BY <1>2, <1>3
  <2> HIDE DEF h, f, n, g, i
  <2>4. Slot(f + g) = Slot(h - n + g)
    BY <2>1, SlotBack
  <2>5. ring[Slot(rd.head - i)] = DescOf(log[Len(log) - Since + 1 - i]) /\ Len(log) - Since + 1 - i \in 1..Len(log)
    BY <1>1, <2>3, InRing
  <2>6. Slot(rd.first + k - 1) = Slot(rd.head - i)
    BY <2>2, <2>4 DEF f, h
  <2>7. log[Len(log) - Since + 1 - i] \in Shot
    BY <1>3, <2>5
  <2>8. DescOf(log[Len(log) - Since + 1 - i]) \in Desc
    BY <2>7 DEF DescOf, Desc, Shot
  <2> QED BY <2>3, <2>5, <2>6, <2>8
<1>5. Descriptors = [k \in 1..Taken |-> ring[Slot(rd.first + k - 1)]]
  BY DEF Descriptors, Taken
<1>6. Descriptors \in [1..Taken -> Desc]
  BY <1>4, <1>5
<1>7. Descriptors \in Seq(Desc) /\ Len(Descriptors) = Taken
  BY <1>2, <1>6
<1> QED BY <1>2, <1>4, <1>5, <1>7

\* A step of the snapshot that looks at the descriptors or at data_used.
LEMMA CopyEntriesOK ==
  ASSUME NEW A, NEW U, NEW V, Sound(A, U, V), CopyEntries
  PROVE  Sound(A, U, V)'
<1>1. ReaderTypes /\ WriterTypes /\ WriterInv(A, U) /\ ReaderInv(A, U, V)
  BY DEF Sound, ReaderInv, WriterInv
<1>2. /\ rd.pc = "entries" /\ ReaderOnly /\ UNCHANGED <<hdr, seen>> /\ Copying
      /\ rd' = [rd EXCEPT !.pc = "rest", !.ents = Descriptors]
  BY DEF CopyEntries, Copying, Quiet
<1>3. WriterInv(A, U)' /\ SeenOK' /\ UNCHANGED log /\ Prog' = Prog
  BY <1>2, SnapKeeps DEF Sound
<1>4. rd \in Snap({"entries"})
  BY <1>1, <1>2 DEF ReaderTypes, Snap
<1>5. /\ Descriptors \in Seq(Desc) /\ Len(Descriptors) = Taken /\ Taken \in Nat
      /\ \A k \in 1..Taken : Descriptors[k] = DescOf(log[Len(log) - Since - Taken + k])
  BY <1>1, <1>2, DescriptorsOK
<1>6. /\ rd' \in Snap({"rest"}) /\ rd'.pc = "rest" /\ rd'.data = rd.data /\ rd'.size = rd.size
      /\ rd'.dstart = rd.dstart /\ rd'.head = rd.head /\ rd'.first = rd.first /\ rd'.ents = Descriptors
  BY <1>2, <1>4, <1>5 DEF Snap
<1>7. Since' = Since /\ Taken' = Taken /\ ReaderTypes' /\ Copying'
  BY <1>2, <1>6 DEF Since, Taken, ReaderTypes, Snap, Copying
<1>8. CopyOK' /\ EntriesOK'
  BY <1>1, <1>2, <1>3, <1>5, <1>6, <1>7 DEF ReaderInv, CopyOK, EntriesOK
<1>9. CopiedOK(A, U)'
  BY <1>1, <1>2, <1>3, <1>6, <1>7 DEF ReaderInv, CopiedOK, DataOK, At
<1>10. ReaderInv(A, U, V)'
  BY <1>6, <1>7, <1>8, <1>9 DEF ReaderInv, AdvanceOK, UsedOK
<1> QED BY <1>3, <1>10 DEF Sound

LEMMA CopyRestOK ==
  ASSUME NEW A, NEW U, NEW V, Sound(A, U, V), CopyRest
  PROVE  Sound(A, U, V)'
<1>1. ReaderTypes /\ WriterTypes /\ WriterInv(A, U) /\ ReaderInv(A, U, V)
  BY DEF Sound, ReaderInv, WriterInv
<1>2. rd.pc = "rest" /\ ReaderOnly /\ UNCHANGED <<hdr, seen>> /\ Copying
  BY DEF CopyRest, Copying, Quiet
<1>3. WriterInv(A, U)' /\ SeenOK' /\ UNCHANGED log /\ Prog' = Prog
  BY <1>2, SnapKeeps DEF Sound
<1>4. rd \in Snap({"rest"})
  BY <1>1, <1>2 DEF ReaderTypes, Snap
<1>5. PICK k \in DOMAIN rd.ents, cut \in {{}, {"start"}, {"start", "len"}} :
        rd' = [rd EXCEPT !.pc = "used", !.ents = Torn(rd.ents, Descriptors, k, cut)]
  BY DEF CopyRest, Quiet
<1>6. /\ Descriptors \in Seq(Desc) /\ Len(Descriptors) = Taken /\ Taken \in Nat
      /\ \A i \in 1..Taken : Descriptors[i] = DescOf(log[Len(log) - Since - Taken + i])
  BY <1>1, <1>2, DescriptorsOK
<1>7. /\ rd.ents \in Seq(Desc) /\ Len(rd.ents) = Taken
      /\ \A i \in 1..Taken : rd.ents[i] = DescOf(log[Len(log) - Since - Taken + i])
  BY <1>1, <1>2, <1>4 DEF ReaderInv, EntriesOK, Snap
<1>8. Torn(rd.ents, Descriptors, k, cut) = rd.ents
  <2> DEFINE old == rd.ents
             new == Descriptors
             torn == Torn(old, new, k, cut)
  <2>1. old \in [1..Taken -> Desc]
    BY <1>6, <1>7
  <2>2. ASSUME NEW j \in 1..Taken PROVE torn[j] = old[j]
    <3>1. new[j] = old[j] /\ old[j] \in Desc
      BY <1>6, <1>7, <2>1
    <3>2. torn[j] = [start |-> old[j].start, len |-> old[j].len, ts |-> old[j].ts]
      BY <2>1, <3>1 DEF Torn
    <3> QED BY <3>1, <3>2 DEF Desc
  <2>3. torn = [j \in 1..Taken |-> torn[j]]
    BY <2>1 DEF Torn
  <2> HIDE DEF torn, old
  <2> QED BY <2>1, <2>2, <2>3 DEF torn, old
<1>9. /\ rd' \in Snap({"used"}) /\ rd'.pc = "used" /\ rd'.data = rd.data /\ rd'.size = rd.size
      /\ rd'.dstart = rd.dstart /\ rd'.head = rd.head /\ rd'.first = rd.first /\ rd'.ents = rd.ents
  BY <1>4, <1>5, <1>8 DEF Snap
<1>10. Since' = Since /\ Taken' = Taken /\ ReaderTypes' /\ Copying'
  BY <1>2, <1>9 DEF Since, Taken, ReaderTypes, Snap, Copying
<1>11. CopyOK' /\ EntriesOK'
  BY <1>1, <1>2, <1>3, <1>7, <1>9, <1>10 DEF ReaderInv, CopyOK, EntriesOK
<1>12. CopiedOK(A, U)'
  BY <1>1, <1>2, <1>3, <1>9, <1>10 DEF ReaderInv, CopiedOK, DataOK, At
<1>13. ReaderInv(A, U, V)'
  BY <1>9, <1>10, <1>11, <1>12 DEF ReaderInv, AdvanceOK, UsedOK
<1> QED BY <1>3, <1>13 DEF Sound

LEMMA ReadUsedOK ==
  ASSUME NEW A, NEW U, NEW V, Sound(A, U, V), ReadUsed
  PROVE  Sound(A, U, U)'
<1>1. ReaderTypes /\ WriterTypes /\ WriterInv(A, U) /\ ReaderInv(A, U, V)
  BY DEF Sound, ReaderInv, WriterInv
<1>2. /\ rd.pc = "used" /\ ReaderOnly /\ UNCHANGED <<hdr, seen>> /\ Copying
      /\ rd' = [rd EXCEPT !.pc = "finish", !.used = (hdr.data_used - DataSize) % DataMod]
  BY DEF ReadUsed, Copying, Quiet
<1>3. WriterInv(A, U)' /\ SeenOK' /\ UNCHANGED log /\ Prog' = Prog
  BY <1>2, SnapKeeps DEF Sound
<1>4. rd \in Snap({"used"})
  BY <1>1, <1>2 DEF ReaderTypes, Snap
<1>5. hdr.data_used = U % DataMod /\ U \in Nat /\ DataSize <= U /\ DataSize \in Nat /\ DataMod \in Nat \ {0}
  BY <1>1, RingSizes DEF WriterInv, Announced
<1>6. (hdr.data_used - DataSize) % DataMod = (U - DataSize) % DataMod
  <2> DEFINE g == -DataSize
  <2>1. U \in Int /\ g \in Int /\ U + g = U - DataSize
    BY <1>5
  <2>2. (U % DataMod) + g = (U % DataMod) - DataSize
    <3>1. U % DataMod \in Int
      BY <1>5, <2>1, DivMod
    <3> QED BY <1>5, <3>1
  <2> HIDE DEF g
  <2>3. ((U % DataMod) + g) % DataMod = (U + g) % DataMod
    BY <1>5, <2>1, ModAdd
  <2> QED BY <1>5, <2>1, <2>2, <2>3
<1> DEFINE v == (U - DataSize) % DataMod
<1>7. v \in DataOfs
  <2> DEFINE x == U - DataSize
  <2>1. x \in Int
    BY <1>5
  <2> HIDE DEF x
  <2>2. x % DataMod \in DataOfs
    BY <2>1, OfsOf
  <2> QED BY <2>2 DEF x
<1>8. rd' = [rd EXCEPT !.pc = "finish", !.used = v]
  BY <1>2, <1>6
<1> HIDE DEF v
<1>9. /\ rd' \in Snap({"finish"}) /\ rd'.pc = "finish" /\ rd'.data = rd.data /\ rd'.size = rd.size
      /\ rd'.dstart = rd.dstart /\ rd'.head = rd.head /\ rd'.first = rd.first /\ rd'.ents = rd.ents
      /\ rd'.used = v
  BY <1>4, <1>7, <1>8 DEF Snap
<1>10. Since' = Since /\ Taken' = Taken /\ ReaderTypes' /\ Copying'
  BY <1>2, <1>9 DEF Since, Taken, ReaderTypes, Snap, Copying
<1>11. CopyOK' /\ EntriesOK'
  BY <1>1, <1>2, <1>3, <1>9, <1>10 DEF ReaderInv, CopyOK, EntriesOK
<1>12. DataOK(A, U)'
  BY <1>1, <1>2, <1>3, <1>9, <1>10 DEF ReaderInv, CopiedOK, DataOK, At
<1>13. UsedOK(A, U, U)'
  BY <1>5, <1>9, <1>12 DEF UsedOK, v
<1>14. ReaderInv(A, U, U)'
  BY <1>9, <1>10, <1>11, <1>13 DEF ReaderInv, AdvanceOK, CopiedOK
<1> QED BY <1>3, <1>14 DEF Sound

\* A descriptor of an entry that data_used has not reached.
Intact(A, V, p) ==
  \E j \in 1..(Len(log) - Since) : p = DescOf(log[j]) /\ A[j] >= V - DataSize

\* What data_used leaves of the snapshot is intact.
LEMMA KeptOK ==
  ASSUME NEW A, NEW U, NEW V, WriterInv(A, U), ReaderInv(A, U, V), rd.pc = "finish", Roomy
  PROVE  Kept \in Seq(Desc) /\ \A i \in 1..Len(Kept) : Intact(A, V, Kept[i])
<1>1. WriterTypes /\ ReaderTypes /\ Starts(A) /\ CopyOK /\ EntriesOK /\ UsedOK(A, U, V) /\ Copying
  BY DEF WriterInv, ReaderInv, Copying
<1>2. /\ Taken \in 1..RingSize /\ Taken + Since + Prog <= RingSize /\ Taken \in Nat /\ Since \in Nat
      /\ Prog \in 0..1 /\ RingSize \in Nat
  BY <1>1, Counts, RingSizes DEF CopyOK
<1>3. /\ rd.ents \in Seq(Desc) /\ Len(rd.ents) = Taken
      /\ \A k \in 1..Taken : rd.ents[k] = DescOf(log[Len(log) - Since - Taken + k])
  BY <1>1 DEF ReaderTypes, EntriesOK
<1>4. Len(log) \in Nat /\ Len(log) >= RingSize /\ log \in Seq(Shot) /\ A \in [1..(Len(log) + 1) -> Nat]
  BY <1>1 DEF WriterTypes, Starts
<1>5. V \in DataSize..U /\ rd.used = (V - DataSize) % DataMod /\ U \in Nat /\ V \in Nat /\ DataSize \in Nat
  BY <1>1, RingSizes DEF UsedOK, WriterInv, Announced
<1> DEFINE e == Len(log) - Since - Taken
           skipped == (rbuf_advance_read_head(rd.head).rhead - rd.first) % HeadMod
           fit == {k \in DOMAIN rd.ents : k > skipped /\ SubData(rd.ents[k].start, rd.used) >= 0}
           m == Min(fit)
<1>6. Kept = IF fit = {} THEN <<>> ELSE SubSeq(rd.ents, m, Len(rd.ents))
  BY DEF Kept
<1>7. e \in Nat /\ \A k \in 1..Taken : e + k \in 1..(Len(log) - Since) /\ e + k \in 1..Len(log) /\ e + k \in 1..(Len(log) + 1)
  BY <1>2, <1>4
<1> HIDE DEF e
<1>8. CASE fit = {}
  <2> HIDE DEF fit
  <2>1. Kept = <<>>
    BY <1>6, <1>8
  <2> QED BY <2>1
<1>9. CASE fit # {}
  <2>1. fit \in SUBSET Nat
    BY <1>3
  <2>2. m \in fit
    <3> HIDE DEF fit
    <3> QED BY <1>9, <2>1, MinOf
  <2>3. m \in 1..Taken /\ SubData(rd.ents[m].start, rd.used) >= 0
    BY <1>3, <2>2
  <2>4. Kept = SubSeq(rd.ents, m, Taken)
    BY <1>3, <1>6, <1>9
  <2> HIDE DEF fit, m, skipped
  <2> DEFINE j0 == e + m
             x == A[j0]
             b == V - DataSize
  <2>5. rd.ents[m] = DescOf(log[j0]) /\ j0 \in 1..Len(log) /\ j0 \in 1..(Len(log) + 1)
    BY <1>3, <1>7, <2>3 DEF e
  <2>6. rd.ents[m].start = x % DataMod /\ x \in Nat
    BY <1>1, <1>4, <2>5 DEF Starts, DescOf
  <2>7. U - x <= DataMod \div 2
    <3> DEFINE z == Len(log) + 1
               d == z - j0
               y == A[z]
    <3>1. z \in j0..(Len(log) + 1) /\ d \in Nat /\ d <= RingSize /\ z \in 1..(Len(log) + 1)
      <4> DEFINE n == Taken
                 g == Since
                 ll == Len(log)
      <4>1. /\ n \in Nat /\ g \in Nat /\ n + g + Prog <= RingSize /\ m \in 1..n /\ Prog \in 0..1 /\ ll \in Nat
            /\ e = ll - g - n /\ RingSize \in Nat
        BY <1>2, <1>4, <2>3 DEF e
      <4> HIDE DEF n, g, ll
      <4>2. d = ll + 1 - (e + m) /\ e \in Int
        BY <4>1 DEF ll
      <4>3. d = 1 + g + n - m
        BY <4>1, <4>2
      <4>4. d \in Nat /\ d <= RingSize
        BY <4>1, <4>3
      <4>5. z \in j0..(Len(log) + 1) /\ z \in 1..(Len(log) + 1)
        BY <1>4, <2>5
      <4> QED BY <4>4, <4>5
    <3>2. U <= y + Reach
      <4>1. CASE Open
        BY <4>1 DEF WriterInv, Announced
      <4>2. CASE ~Open
        <5> DEFINE g == Len(log)
        <5>1. g \in 1..(Len(log) + 1) /\ z \in g..(Len(log) + 1) /\ g \in Nat
          BY <1>4, RingSizes
        <5>2. U <= A[g] + Reach
          BY <4>2 DEF WriterInv, Announced
        <5> HIDE DEF g, z
        <5>3. A[g] <= A[z]
          BY <1>1, <5>1, Ordered
        <5>4. A[g] \in Nat /\ A[z] \in Nat
          BY <1>4, <3>1, <5>1
        <5> QED BY <1>5, <5>2, <5>3, <5>4, RingSizes
      <4> QED BY <4>1, <4>2
    <3> HIDE DEF z, j0
    <3>3. y - x <= d * Reach
      BY <1>1, <2>5, <3>1, Span
    <3>4. y \in Nat
      BY <1>4, <3>1
    <3> HIDE DEF d, x, y
    <3>5. d * Reach <= RingSize * Reach /\ (RingSize + 1) * Reach = RingSize * Reach + Reach
          /\ d * Reach \in Nat /\ RingSize * Reach \in Nat /\ Reach \in Nat
      <4>1. Reach \in Nat
        BY RingSizes
      <4>2. d * Reach \in Nat /\ RingSize * Reach \in Nat /\ (RingSize + 1) * Reach = RingSize * Reach + Reach
        BY <1>2, <3>1, <4>1
      <4>3. RingSize * Reach = d * Reach + (RingSize - d) * Reach /\ RingSize - d \in Nat
        BY <1>2, <3>1, <4>1
      <4>4. (RingSize - d) * Reach \in Nat
        BY <4>1, <4>3
      <4> QED BY <4>1, <4>2, <4>3, <4>4
    <3>6. (RingSize + 1) * Reach <= DataMod \div 2 /\ DataMod \div 2 \in Nat
      BY RingSizes DEF Roomy
    <3> DEFINE p == d * Reach
               q == RingSize * Reach
               s == (RingSize + 1) * Reach
               half == DataMod \div 2
    <3> HIDE DEF p, q, s, half
    <3>7. U <= y + Reach /\ y - x <= p /\ p <= q /\ s = q + Reach /\ s <= half /\ p \in Nat /\ q \in Nat /\ half \in Nat /\ Reach \in Nat
      BY <3>2, <3>3, <3>5, <3>6 DEF p, q, s, half
    <3>8. U - x <= half
      BY <1>5, <2>6, <3>4, <3>7
    <3> QED BY <3>8 DEF half
  <2>8. x >= b
    <3>1. x \in Int /\ b \in Int /\ b <= U
      BY <1>5, <2>6
    <3> SUFFICES ASSUME x < b PROVE FALSE
      BY <3>1
    <3>2. b - x <= DataMod \div 2
      <4> DEFINE half == DataMod \div 2
      <4>1. half \in Int
        BY RingSizes
      <4> HIDE DEF half, x, b
      <4>2. b - x <= half
        BY <1>5, <2>7, <3>1, <4>1 DEF half
      <4> QED BY <4>2 DEF half
    <3> HIDE DEF x, b
    <3>3. SubData(x % DataMod, b % DataMod) < 0
      BY <3>1, <3>2, SubDataOf
    <3>4. SubData(x % DataMod, b % DataMod) >= 0
      BY <1>5, <2>3, <2>6 DEF b
    <3>5. SubData(x % DataMod, b % DataMod) \in Int
      <4> DEFINE u == x % DataMod
                 t == b % DataMod
                 d == u - t
      <4>1. DataMod \in Nat \ {0}
        BY RingSizes
      <4>2. u \in Int /\ t \in Int
        BY <3>1, <4>1, DivMod
      <4> HIDE DEF u, t
      <4>3. d \in Int
        BY <4>2
      <4> HIDE DEF d
      <4>4. d % DataMod \in Nat
        BY <4>1, <4>3, DivMod
      <4>5. SubData(u, t) = IF d % DataMod < DataMod \div 2 THEN d % DataMod ELSE (d % DataMod) - DataMod
        BY DEF SubData, Signed, d
      <4>6. SubData(u, t) \in Int
        BY <4>1, <4>4, <4>5
      <4> QED BY <4>6 DEF u, t
    <3> QED BY <3>3, <3>4, <3>5
  <2>9. SubSeq(rd.ents, m, Taken) \in Seq(Desc) /\ Len(SubSeq(rd.ents, m, Taken)) = Taken + 1 - m
        /\ \A i \in 1..(Taken + 1 - m) : SubSeq(rd.ents, m, Taken)[i] = rd.ents[m + i - 1]
    BY <1>2, <1>3, <2>3
  <2>10. ASSUME NEW i \in 1..Len(Kept) PROVE Intact(A, V, Kept[i])
    <3> DEFINE k == m + i - 1
               j == e + k
    <3>1. i \in 1..(Taken + 1 - m) /\ k \in 1..Taken /\ k >= m
      BY <1>2, <2>3, <2>4, <2>9
    <3>2. Kept[i] = DescOf(log[j]) /\ j \in 1..(Len(log) - Since) /\ j \in 1..(Len(log) + 1) /\ j \in j0..(Len(log) + 1)
      BY <1>3, <1>7, <2>3, <2>4, <2>9, <3>1 DEF e
    <3> HIDE DEF j, j0
    <3>3. A[j0] <= A[j]
      BY <1>1, <2>5, <3>2, Ordered
    <3>4. A[j] \in Nat
      BY <1>4, <3>2
    <3>5. A[j] >= V - DataSize
      BY <1>5, <2>6, <2>8, <3>3, <3>4
    <3> QED BY <3>2, <3>5 DEF Intact
  <2> QED BY <2>4, <2>9, <2>10
<1> QED BY <1>8, <1>9

\* What the copy shows of an intact entry is the entry.
LEMMA ShowOK ==
  ASSUME NEW A, NEW U, NEW V, WriterInv(A, U), ReaderTypes, rd.pc = "finish", DataOK(A, V),
         NEW p, Intact(A, V, p), Shown(p)
  PROVE  Show(p) \in Range(log)
<1>1. WriterTypes /\ Starts(A)
  BY DEF WriterInv
<1>2. log \in Seq(Shot) /\ Len(log) \in Nat /\ Since \in Nat
  BY <1>1, Counts DEF WriterTypes
<1>3. PICK j \in 1..(Len(log) - Since) : p = DescOf(log[j]) /\ A[j] >= V - DataSize
  BY DEF Intact
<1>4. j \in 1..Len(log) /\ j \in DOMAIN log
  BY <1>2, <1>3
<1>5. log[j] \in Shot
  BY <1>2, <1>4
<1> DEFINE g == log[j]
           q == At(p)
           l == p.len
<1>6. /\ g.start \in DataOfs /\ g.len \in Nat /\ g.ts \in Int /\ g.bytes \in Seq(Nat) /\ Len(g.bytes) = g.len
      /\ g = [start |-> g.start, len |-> g.len, ts |-> g.ts, bytes |-> g.bytes]
  BY <1>1, <1>4, <1>5 DEF Shot, Starts
<1>7. p.start = g.start /\ l = g.len /\ p.ts = g.ts /\ l \in Nat
  BY <1>3, <1>6 DEF DescOf
<1>8. q = At(g)
  BY <1>7 DEF At
<1>9. q \in Nat
  <2> DEFINE x == p.start - rd.dstart
  <2>1. rd.dstart \in Int /\ p.start \in Int /\ DataMod \in Nat \ {0}
    <3>1. rd.dstart \in DataOfs
      BY SnapFields
    <3> QED BY <1>6, <1>7, <3>1, RingSizes DEF DataOfs
  <2>2. x \in Int
    BY <2>1
  <2> HIDE DEF x
  <2>3. x % DataMod \in Nat
    BY <2>1, <2>2, DivMod
  <2> QED BY <2>3 DEF At, x
<1>10. rd.data \in Seq(Nat) /\ Len(rd.data) = rd.size /\ rd.size \in Nat /\ q + l <= rd.size
  BY DEF ReaderTypes, DataOK, Shown
<1>11. \A i \in 1..g.len : q + i <= rd.size => rd.data[q + i] = g.bytes[i]
  BY <1>3, <1>8 DEF DataOK
<1> HIDE DEF g, q, l
<1> DEFINE s == SubSeq(rd.data, q + 1, q + l)
<1>12. s \in Seq(Nat) /\ Len(s) = l /\ \A i \in 1..l : s[i] = rd.data[q + i]
  <2> DEFINE dd == rd.data
  <2>1. dd \in Seq(Nat) /\ q + l <= Len(dd) /\ q \in Nat /\ l \in Nat
    BY <1>7, <1>9, <1>10
  <2> HIDE DEF dd
  <2>2. SubSeq(dd, q + 1, q + l) \in Seq(Nat) /\ Len(SubSeq(dd, q + 1, q + l)) = l
    BY <2>1
  <2>3. \A i \in 1..l : SubSeq(dd, q + 1, q + l)[i] = dd[q + i]
    BY <2>1
  <2> QED BY <2>2, <2>3 DEF dd
<1>13. \A i \in 1..l : s[i] = g.bytes[i]
  <2> SUFFICES ASSUME NEW i \in 1..l PROVE s[i] = g.bytes[i]
    OBVIOUS
  <2>1. q + i <= rd.size /\ i \in 1..g.len
    BY <1>7, <1>9, <1>10
  <2> HIDE DEF s
  <2> QED BY <1>11, <1>12, <2>1
<1> HIDE DEF s
<1>14. s = g.bytes
  <2>1. Len(g.bytes) = l /\ g.bytes \in Seq(Nat)
    BY <1>6, <1>7
  <2> QED BY <1>12, <1>13, <2>1
<1>15. g.start % DataMod = g.start
  <2> DEFINE x == g.start
  <2>0. DataMod \in Nat \ {0} /\ x \in 0..(DataMod - 1)
    BY <1>6, RingSizes DEF DataOfs
  <2> HIDE DEF x
  <2>1. x \in Int /\ 0 <= x /\ x < DataMod /\ DataMod \in Nat \ {0}
    BY <2>0
  <2>2. x % DataMod = x
    BY <2>1, ModSmall
  <2> QED BY <2>2 DEF x
<1>16. Show(p) = [start |-> g.start % DataMod, len |-> g.len, ts |-> g.ts, bytes |-> s]
  BY <1>7 DEF Show, Entry, s, q, l
<1>17. Show(p) = g
  BY <1>6, <1>14, <1>15, <1>16
<1> QED BY <1>4, <1>17 DEF Range, g

\* udebug_iter_next: the sequence of what is shown, one entry after the other.
LEMMA IteratedOK ==
  ASSUME NEW kept, NEW n \in Nat, Len(kept) = n, NEW S,
         \A i \in 1..n : Shown(kept[i]) => Show(kept[i]) \in S
  PROVE  Iterated(kept) \in Seq(S)
<1> DEFINE Body(f, k) == IF k = 0 THEN <<>>
                         ELSE IF Shown(kept[k]) THEN Append(f[k - 1], Show(kept[k]))
                         ELSE f[k - 1]
           Is(f, m) == f = [k \in 0..m |-> Body(f, k)]
           T == {m \in Nat : \E f : Is(f, m)}
<1>1. 0 \in T
  <2> DEFINE f == [k \in 0..0 |-> <<>>]
  <2>1. f = [k \in 0..0 |-> Body(f, k)]
    OBVIOUS
  <2> QED BY <2>1
<1>2. ASSUME NEW m \in Nat, m \in T PROVE m + 1 \in T
  <2>1. PICK f : Is(f, m)
    BY <1>2
  <2> DEFINE g == [k \in 0..(m + 1) |-> IF k <= m THEN f[k] ELSE Body(f, k)]
  <2>2. ASSUME NEW k \in 0..(m + 1) PROVE g[k] = Body(g, k)
    <3>1. CASE k = 0
      BY <2>1, <3>1
    <3>2. CASE k # 0
      <4>1. k - 1 \in 0..m /\ k - 1 \in 0..(m + 1) /\ k - 1 <= m
        BY <3>2
      <4>2. g[k - 1] = f[k - 1]
        BY <4>1
      <4>3. g[k] = Body(f, k)
        <5>1. CASE k <= m
          <6>1. k \in 0..m /\ g[k] = f[k]
            BY <5>1
          <6> QED BY <2>1, <6>1
        <5>2. CASE ~(k <= m)
          BY <5>2
        <5> QED BY <5>1, <5>2
      <4> HIDE DEF g
      <4> QED BY <3>2, <4>2, <4>3
    <3> QED BY <3>1, <3>2
  <2>3. g = [k \in 0..(m + 1) |-> g[k]]
    OBVIOUS
  <2> HIDE DEF g
  <2>4. Is(g, m + 1)
    BY <2>2, <2>3
  <2> QED BY <2>4
<1>3. n \in T
  <2> HIDE DEF T
  <2>1. Nat \subseteq T
    BY <1>1, <1>2, Induction
  <2> QED BY <2>1
<1> DEFINE shown == CHOOSE f : f = [k \in 0..Len(kept) |-> Body(f, k)]
<1>4. Is(shown, n)
  BY <1>3
<1>5. Iterated(kept) = shown[n]
  BY DEF Iterated
<1> HIDE DEF shown
<1> DEFINE R == {m \in Nat : m <= n => shown[m] \in Seq(S)}
<1>6. ASSUME NEW m \in 0..n PROVE shown[m] = Body(shown, m)
  BY <1>4
<1>7. 0 \in R
  <2>1. shown[0] = <<>>
    BY <1>6
  <2>2. <<>> \in Seq(S)
    OBVIOUS
  <2>3. shown[0] \in Seq(S)
    BY <2>1, <2>2
  <2> QED BY <2>3
<1>8. ASSUME NEW m \in Nat, m \in R PROVE m + 1 \in R
  <2> SUFFICES ASSUME m + 1 <= n PROVE shown[m + 1] \in Seq(S)
    OBVIOUS
  <2> DEFINE k == m + 1
  <2>1. k \in 0..n /\ k \in 1..n /\ k # 0 /\ k - 1 = m /\ m <= n
    OBVIOUS
  <2>2. shown[m] \in Seq(S)
    BY <1>8, <2>1
  <2> HIDE DEF k
  <2>3. shown[k] = IF Shown(kept[k]) THEN Append(shown[m], Show(kept[k])) ELSE shown[m]
    BY <1>6, <2>1
  <2>4. CASE Shown(kept[k])
    <3>1. Show(kept[k]) \in S
      BY <2>1, <2>4
    <3>2. shown[k] = Append(shown[m], Show(kept[k]))
      BY <2>3, <2>4
    <3>3. shown[k] \in Seq(S)
      BY <2>2, <3>1, <3>2
    <3> QED BY <3>3 DEF k
  <2>5. CASE ~Shown(kept[k])
    BY <2>2, <2>3, <2>5 DEF k
  <2> QED BY <2>4, <2>5
<1>9. n \in R
  <2> HIDE DEF R
  <2>1. Nat \subseteq R
    BY <1>7, <1>8, Induction
  <2> QED BY <2>1
<1> QED BY <1>5, <1>9

\* The end of a snapshot.
LEMMA FinishOK ==
  ASSUME NEW A, NEW U, NEW V, Sound(A, U, V), Finish, Roomy
  PROVE  Sound(A, U, V)'
<1>1. ReaderTypes /\ WriterTypes /\ WriterInv(A, U) /\ ReaderInv(A, U, V) /\ SeenOK /\ {} \in SUBSET Nat
  BY DEF Sound, ReaderInv, WriterInv
<1>2. /\ rd.pc = "finish" /\ ReaderOnly /\ UNCHANGED <<hdr, log>>
      /\ seen' = seen \o Iterated(Kept) /\ rd' = [Idle EXCEPT !.rhead = rd.head]
  <2>1. rd.pc = "finish"
    BY DEF Finish
  <2>2. rd.lapped = FALSE
    BY <1>1, <2>1 DEF ReaderTypes
  <2> QED BY <2>2 DEF Finish, ReaderOnly
<1>3. WriterInv(A, U)'
  BY <1>1, <1>2, WriterKeeps
<1>4. rd \in Snap({"finish"})
  BY <1>1, <1>2 DEF ReaderTypes, Snap
<1>5. ReaderTypes' /\ rd'.pc = "idle"
  BY <1>2, <1>4 DEF Idle, ReaderTypes, Snap
<1>6. ReaderInv(A, U, V)'
  BY <1>5 DEF ReaderInv, AdvanceOK, CopyOK, Copying, CopiedOK, EntriesOK, UsedOK
<1>7. Kept \in Seq(Desc) /\ \A i \in 1..Len(Kept) : Intact(A, V, Kept[i])
  BY <1>1, <1>2, KeptOK
<1>8. DataOK(A, V)
  BY <1>1, <1>2 DEF ReaderInv, UsedOK
<1>9. ASSUME NEW i \in 1..Len(Kept), Shown(Kept[i]) PROVE Show(Kept[i]) \in Range(log)
  <2>1. Intact(A, V, Kept[i])
    BY <1>7
  <2> QED BY <1>1, <1>2, <1>8, <1>9, <2>1, ShowOK
<1> DEFINE t == Iterated(Kept)
<1>10. t \in Seq(Range(log))
  <2> DEFINE kept == Kept
             S == Range(log)
             n == Len(Kept)
  <2>1. n \in Nat /\ Len(kept) = n /\ \A i \in 1..n : Shown(kept[i]) => Show(kept[i]) \in S
    BY <1>7, <1>9
  <2> HIDE DEF kept, S, n
  <2>2. Iterated(kept) \in Seq(S)
    BY <2>1, IteratedOK
  <2> QED BY <2>2 DEF kept, S
<1> HIDE DEF t
<1>11. Range(log) \subseteq Shot
  <2>1. log \in Seq(Shot)
    BY <1>1 DEF WriterTypes
  <2> QED BY <2>1 DEF Range
<1>12. seen \in Seq(Shot) /\ \A e \in Range(seen) : e \in Range(log)
  BY <1>1 DEF SeenOK, Genuine
<1>13. seen \in Seq(Range(log))
  <2>1. \A i \in 1..Len(seen) : seen[i] \in Range(log)
    <3>1. DOMAIN seen = 1..Len(seen)
      BY <1>12
    <3> QED BY <1>12, <3>1 DEF Range
  <2> QED BY <1>12, <2>1
<1>14. seen \o t \in Seq(Range(log))
  BY <1>10, <1>13
<1>15. seen' \in Seq(Range(log))
  BY <1>2, <1>14 DEF t
<1>16. seen' \in Seq(Shot)
  BY <1>11, <1>15
<1>17. \A e \in Range(seen') : e \in Range(log)
  BY <1>15 DEF Range
<1>18. SeenOK'
  BY <1>2, <1>16, <1>17 DEF SeenOK, Genuine, Range
<1> QED BY <1>3, <1>6, <1>18 DEF Sound

\* A step of a snapshot that was lapped: it goes on, or ends, and what it shows
\* is not counted.
LEMMA LappedStep ==
  ASSUME NEW A, NEW U, NEW V, Inv(A, U, V), Lapped, Reader
  PROVE  Inv(A, U, V)'
<1>1. WriterInv(A, U) /\ SeenOK
  BY DEF Inv
<1> DEFINE Ends == rd' = [pc |-> "idle", rhead |-> rd.head, poll |-> rd.poll, due |-> rd.due, msg |-> rd.msg]
<1>2. rd.pc \notin {"idle", "search"}
  BY DEF Lapped
<1>3. ASSUME ReaderOnly, UNCHANGED <<hdr, seen>>, Ends PROVE Inv(A, U, V)'
  <2>1. ReaderTypes' /\ rd'.pc = "idle"
    BY <1>3 DEF Lapped, ReaderTypes
  <2>2. WriterInv(A, U)' /\ UNCHANGED log
    BY <1>1, <1>3, SnapKeeps
  <2>3. Sound(A, U, V)'
    BY <1>1, <1>3, <2>1, <2>2, AtRest
  <2> QED BY <2>3 DEF Sound, Inv
<1>4. ASSUME ReaderOnly, UNCHANGED <<hdr, seen>>, Lapped' PROVE Inv(A, U, V)'
  <2>1. WriterInv(A, U)' /\ SeenOK'
    BY <1>1, <1>4, SnapKeeps
  <2> QED BY <1>4, <2>1 DEF Inv
<1>5. CASE Advance
  <2>1. ReaderOnly /\ UNCHANGED <<hdr, seen>>
    BY <1>5 DEF Advance, Quiet
  <2>2. \/ \E size, dstart, rhead :
             rd' = [rd EXCEPT !.pc = "data", !.size = size, !.dstart = dstart,
                              !.rhead = rhead, !.first = rhead]
        \/ rd' = [Idle EXCEPT !.rhead = rd.head]
    BY <1>5, Zenon DEF Advance
  <2>3. Lapped' \/ Ends
    BY <2>2 DEF Lapped, Idle
  <2> QED BY <1>3, <1>4, <2>1, <2>3
<1>6. CASE CopyData \/ CopyEntries \/ CopyRest \/ ReadUsed
  <2>1. ReaderOnly /\ UNCHANGED <<hdr, seen>>
    BY <1>6 DEF CopyData, CopyEntries, CopyRest, ReadUsed, Quiet
  <2>2. \E x : \/ rd' = [rd EXCEPT !.pc = "entries", !.data = x]
               \/ rd' = [rd EXCEPT !.pc = "rest", !.ents = x]
               \/ rd' = [rd EXCEPT !.pc = "used", !.ents = x]
               \/ rd' = [rd EXCEPT !.pc = "finish", !.used = x]
    BY <1>6, Zenon DEF CopyData, CopyEntries, CopyRest, ReadUsed
  <2>3. Lapped'
    BY <2>2 DEF Lapped
  <2> QED BY <1>4, <2>1, <2>3
<1>7. CASE Finish
  <2>1. rd.lapped
    BY DEF Lapped
  <2>2. ReaderOnly /\ UNCHANGED <<hdr, seen>> /\ rd' = [Idle EXCEPT !.rhead = rd.head]
    BY <1>7, <2>1 DEF Finish
  <2> QED BY <1>3, <2>2 DEF Idle
<1> QED BY <1>2, <1>5, <1>6, <1>7
        DEF Reader, SetStartOffset, SetStartTime, Search, SetPoll, RingNotified, Snapshot

LEMMA ReaderOK ==
  ASSUME GInv, Roomy, Reader
  PROVE  GInv'
<1>1. PICK A, U, V : Inv(A, U, V)
  BY DEF GInv
<1>2. CASE Lapped
  <2>1. Inv(A, U, V)'
    BY <1>1, <1>2, LappedStep
  <2> QED BY <2>1 DEF GInv
<1>3. CASE ~Lapped
  <2>1. Sound(A, U, V)
    BY <1>1, <1>3 DEF Inv, Sound
  <2>2. CASE (\E n \in Offsets : SetStartOffset(n)) \/ (\E ts \in Times : SetStartTime(ts)) \/ Search
    BY <2>1, <2>2, StartOK DEF GInv, Inv, Sound
  <2>3. CASE RingNotified \/ \E val \in BOOLEAN : SetPoll(val)
    BY <2>1, <2>3, PollOK DEF GInv, Inv, Sound
  <2>4. CASE Snapshot
    BY <2>1, <2>4, SnapshotOK DEF GInv, Inv, Sound
  <2>5. CASE Advance
    BY <2>1, <2>5, AdvanceStepOK DEF GInv, Inv, Sound
  <2>6. CASE CopyData
    BY <2>1, <2>6, CopyDataOK DEF GInv, Inv, Sound
  <2>7. CASE CopyEntries
    BY <2>1, <2>7, CopyEntriesOK DEF GInv, Inv, Sound
  <2>8. CASE CopyRest
    BY <2>1, <2>8, CopyRestOK DEF GInv, Inv, Sound
  <2>9. CASE ReadUsed
    BY <2>1, <2>9, ReadUsedOK DEF GInv, Inv, Sound
  <2>10. CASE Finish
    BY <2>1, <2>10, FinishOK DEF GInv, Inv, Sound
  <2> QED BY <2>2, <2>3, <2>4, <2>5, <2>6, <2>7, <2>8, <2>9, <2>10 DEF Reader
<1> QED BY <1>2, <1>3

-----------------------------------------------------------------------------
(* The ring at the beginning. *)

\* Latest finds the number in the range that has the place.
LEMMA LatestOK ==
  ASSUME NEW n \in Nat \ {0}, NEW top \in Nat, n <= top
  PROVE  /\ \A s \in 0..(n - 1) : Latest(top, n, s) \in (top - n)..(top - 1) /\ Latest(top, n, s) % n = s
         /\ \A x \in (top - n)..(top - 1) : Latest(top, n, x % n) = x /\ x % n \in 0..(n - 1)
<1> DEFINE lo == top - n
           P == lo..(top - 1)
<1>1. lo \in Nat /\ top - 1 = (lo + n) - 1
  OBVIOUS
<1> HIDE DEF lo
<1>2. ASSUME NEW s \in 0..(n - 1) PROVE \E x \in P : x % n = s
  <2> DEFINE d == s - lo
             k == d % n
             x == lo + k
  <2>1. d \in Int /\ d + lo = s /\ s \in Int /\ 0 <= s /\ s < n
    BY <1>1
  <2> HIDE DEF d
  <2>2. k \in Nat /\ k < n
    BY <2>1, DivMod
  <2>3. ((d % n) + lo) % n = (d + lo) % n
    <3>1. lo \in Int
      BY <1>1
    <3> QED BY <2>1, <3>1, ModAdd
  <2>4. (d % n) + lo = x
    BY <1>1, <2>2
  <2>5. s % n = s
    BY <2>1, ModSmall
  <2>6. x % n = s
    BY <2>1, <2>3, <2>4, <2>5
  <2> HIDE DEF k
  <2>7. x \in P
    BY <1>1, <2>2
  <2> QED BY <2>6, <2>7
<1>3. ASSUME NEW x \in P, NEW y \in P, x % n = y % n PROVE x = y
  <2>1. x \in Int /\ y \in Int /\ x - y < n /\ y - x < n
    BY <1>1
  <2>2. CASE x < y
    BY <1>3, <2>1, <2>2, ModApart
  <2>3. CASE y < x
    BY <1>3, <2>1, <2>3, ModApart
  <2> QED BY <2>1, <2>2, <2>3
<1>4. ASSUME NEW x \in P PROVE x % n \in 0..(n - 1)
  <2>1. x \in Int
    BY <1>1
  <2>2. x % n \in Nat /\ x % n < n
    BY <2>1, DivMod
  <2> DEFINE m == x % n
  <2> HIDE DEF m
  <2>3. m \in Nat /\ m < n
    BY <2>2 DEF m
  <2>4. m \in 0..(n - 1)
    BY <2>3
  <2> QED BY <2>4 DEF m
<1> HIDE DEF P
<1>5. ASSUME NEW s \in 0..(n - 1) PROVE Latest(top, n, s) \in P /\ Latest(top, n, s) % n = s
  <2>1. Latest(top, n, s) = CHOOSE x \in P : x % n = s
    BY DEF Latest, P, lo
  <2> QED BY <1>2, <2>1
<1>6. ASSUME NEW x \in P PROVE Latest(top, n, x % n) = x
  <2>1. Latest(top, n, x % n) \in P /\ Latest(top, n, x % n) % n = x % n
    BY <1>4, <1>5
  <2> QED BY <1>3, <2>1
<1> QED BY <1>4, <1>5, <1>6 DEF P, lo

\* The last entry before the model begins whose place in the ring is s.
Held(s) == Latest(StartHead, RingSize, s)

LEMMA HeldOK ==
  /\ \A s \in 0..(RingSize - 1) :
       Held(s) \in (StartHead - RingSize)..(StartHead - 1) /\ Slot(Held(s)) = s
  /\ \A x \in (StartHead - RingSize)..(StartHead - 1) : Held(Slot(x)) = x
<1>1. RingSize \in Nat \ {0} /\ StartHead \in Nat /\ RingSize <= StartHead
  BY RingSizes
<1> QED BY <1>1, LatestOK DEF Held, Slot

LEMMA InitOK ==
  ASSUME RingInit, Roomy
  PROVE  GInv
<1> DEFINE N == RingSize
           lo == StartHead - N
           A == [k \in 1..(N + 1) |-> 2 * (lo + k - 1)]
           U == 2 * StartHead
           number(x) == x - lo + 1
           last(c) == Latest(U, DataSize, c)
           P == lo..(StartHead - 1)
<1>1. /\ N \in Nat \ {0} /\ StartHead \in Nat /\ lo \in Nat /\ StartHead = lo + N
      /\ DataSize \in Nat \ {0} /\ DataSize <= 2 * StartHead
      /\ DataMod \in Nat \ {0} /\ HeadMod \in Nat \ {0} /\ StartHead < HeadMod /\ Reach \in Nat /\ Reach >= 2
  BY RingSizes
<1>2. /\ hdr = [head |-> StartHead, head_hi |-> 0, data_head |-> U % DataMod,
                data_used |-> U % DataMod, notify |-> {}]
      /\ ring = [s \in 0..(N - 1) |-> [start |-> (2 * Held(s)) % DataMod, len |-> 1, ts |-> number(Held(s))]]
      /\ mem = [c \in 0..(DataSize - 1) |->
                   IF last(c) % 2 = 0 /\ last(c) \div 2 >= lo THEN number(last(c) \div 2) ELSE 0]
      /\ w = [pc |-> "idle", clock |-> N, len |-> 0, nul |-> 0, writes |-> 0]
      /\ rd = [pc |-> "idle", rhead |-> lo, poll |-> FALSE, due |-> FALSE, msg |-> FALSE]
      /\ log = [x \in 1..N |-> Entry(2 * (lo + x - 1), 1, x, <<x>>)]
      /\ seen = <<>>
  BY DEF RingInit, Held
<1>3. ASSUME NEW s \in 0..(N - 1)
      PROVE  Held(s) \in P /\ Slot(Held(s)) = s /\ Held(s) \in Nat /\ number(Held(s)) \in 1..N
  BY <1>1, HeldOK
<1>4. ASSUME NEW x \in P PROVE Held(Slot(x)) = x /\ Slot(x) \in 0..(N - 1) /\ x \in Nat /\ number(x) \in 1..N
  <2>1. x \in Int
    BY <1>1
  <2> QED BY <1>1, <2>1, HeldOK, SlotOf
<1> HIDE DEF lo, N, P
<1>5. U \in Nat /\ U % DataMod \in DataOfs /\ DataSize <= U
  <2>1. U \in Nat /\ U \in Int /\ DataSize <= U
    BY <1>1
  <2> HIDE DEF U
  <2> QED BY <2>1, OfsOf
<1>6. log \in Seq(Shot) /\ Len(log) = N
      /\ \A x \in 1..N : log[x] = [start |-> (2 * (lo + x - 1)) % DataMod, len |-> 1, ts |-> x, bytes |-> <<x>>]
  <2>1. ASSUME NEW x \in 1..N
        PROVE  [start |-> (2 * (lo + x - 1)) % DataMod, len |-> 1, ts |-> x, bytes |-> <<x>>] \in Shot
    <3> DEFINE y == 2 * (lo + x - 1)
    <3>1. y \in Int
      BY <1>1
    <3> HIDE DEF y
    <3>2. y % DataMod \in DataOfs
      BY <3>1, OfsOf
    <3>3. x \in Nat /\ x \in Int /\ <<x>> \in Seq(Nat) /\ 1 \in Nat
      BY <1>1
    <3>4. [start |-> y % DataMod, len |-> 1, ts |-> x, bytes |-> <<x>>] \in Shot
      BY <3>2, <3>3 DEF Shot
    <3> QED BY <3>4 DEF y
  <2>2. log = [x \in 1..N |-> [start |-> (2 * (lo + x - 1)) % DataMod, len |-> 1, ts |-> x, bytes |-> <<x>>]]
    BY <1>2 DEF Entry
  <2>3. log \in [1..N -> Shot]
    BY <2>1, <2>2
  <2>4. log \in Seq(Shot) /\ Len(log) = N
    BY <1>1, <2>3
  <2> QED BY <2>2, <2>4
<1>7. WriterTypes
  <2>1. hdr \in [head : HeadOfs, head_hi : Nat, data_head : DataOfs, data_used : DataOfs, notify : SUBSET Nat]
    <3>1. StartHead \in HeadOfs
      BY <1>1 DEF HeadOfs
    <3> HIDE DEF U
    <3> QED BY <1>2, <1>5, <3>1
  <2>2. ring \in [0..(RingSize - 1) -> Desc]
    <3>1. ASSUME NEW s \in 0..(N - 1)
          PROVE  [start |-> (2 * Held(s)) % DataMod, len |-> 1, ts |-> number(Held(s))] \in Desc
      <4> DEFINE y == 2 * Held(s)
                 z == number(Held(s))
      <4>1. y \in Int /\ z \in Int
        BY <1>1, <1>3
      <4> HIDE DEF y, z
      <4>2. y % DataMod \in DataOfs
        BY <4>1, OfsOf
      <4>3. [start |-> y % DataMod, len |-> 1, ts |-> z] \in Desc
        BY <4>1, <4>2 DEF Desc
      <4> QED BY <4>3 DEF y, z
    <3> QED BY <1>2, <3>1 DEF N
  <2>3. mem \in [0..(DataSize - 1) -> Nat]
    <3> DEFINE byte(c) == IF last(c) % 2 = 0 /\ last(c) \div 2 >= lo THEN number(last(c) \div 2) ELSE 0
    <3>1. ASSUME NEW c \in 0..(DataSize - 1) PROVE byte(c) \in Nat
      <4> DEFINE y == last(c)
                 k == y \div 2
      <4>1. y \in (U - DataSize)..(U - 1)
        <5> HIDE DEF U
        <5> QED BY <1>1, <1>5, LatestOK
      <4>2. y \in Int
        BY <1>1, <4>1
      <4> HIDE DEF y
      <4>3. k \in Int
        BY <4>2
      <4> HIDE DEF k
      <4>4. k >= lo => number(k) \in Nat
        BY <1>1, <4>3
      <4> QED BY <4>4 DEF y, k
    <3>2. mem = [c \in 0..(DataSize - 1) |-> byte(c)]
      BY <1>2
    <3> HIDE DEF byte
    <3> QED BY <3>1, <3>2
  <2>4. w \in [pc : WPoints, clock : Int, len : Nat, nul : 0..1, writes : Nat]
    <3>1. N \in Int /\ 0 \in 0..1 /\ 0 \in Nat /\ "idle" \in WPoints
      BY <1>1 DEF WPoints
    <3> QED BY <1>2, <3>1
  <2>5. Len(log) >= RingSize
    BY <1>1, <1>6 DEF N
  <2> QED BY <1>6, <2>1, <2>2, <2>3, <2>4, <2>5 DEF WriterTypes
<1>8. A \in [1..(N + 1) -> Nat] /\ \A k \in 1..(N + 1) : A[k] = 2 * (lo + k - 1)
  BY <1>1
<1> HIDE DEF A
<1>9. Starts(A)
  <2>1. ASSUME NEW j \in 1..N
        PROVE  /\ log[j].start = A[j] % DataMod
               /\ A[j + 1] = A[j] + log[j].len + 1
               /\ log[j].len + 1 <= Reach
               /\ Len(log[j].bytes) = log[j].len
    <3>1. j \in 1..(N + 1) /\ j + 1 \in 1..(N + 1)
      BY <1>1
    <3>2. A[j] = 2 * (lo + j - 1) /\ A[j + 1] = 2 * (lo + (j + 1) - 1)
      BY <1>8, <3>1
    <3>3. log[j].start = (2 * (lo + j - 1)) % DataMod /\ log[j].len = 1 /\ log[j].bytes = <<j>>
      BY <1>6
    <3>4. 2 * (lo + (j + 1) - 1) = 2 * (lo + j - 1) + 1 + 1
      BY <1>1
    <3> QED BY <1>1, <3>2, <3>3, <3>4
  <2> QED BY <1>6, <1>8, <2>1 DEF Starts
<1>10. ~Open /\ Prog = 0
  BY <1>2 DEF Open, Prog
<1>11. RingOK
  <2> SUFFICES ASSUME NEW i \in 1..N PROVE ring[Slot(hdr.head - i)] = DescOf(log[Len(log) + 1 - i])
    BY <1>1, <1>10 DEF RingOK, N
  <2> DEFINE x == StartHead - i
             j == N + 1 - i
  <2>1. x \in P /\ j \in 1..N /\ x = lo + j - 1 /\ number(x) = j
    BY <1>1 DEF P
  <2> HIDE DEF x, j
  <2>2. Held(Slot(x)) = x /\ Slot(x) \in 0..(N - 1)
    BY <1>4, <2>1
  <2>3. ring[Slot(x)] = [start |-> (2 * x) % DataMod, len |-> 1, ts |-> j]
    BY <1>2, <2>1, <2>2
  <2>4. log[j] = [start |-> (2 * x) % DataMod, len |-> 1, ts |-> j, bytes |-> <<j>>]
    BY <1>6, <2>1
  <2>5. hdr.head - i = x /\ Len(log) + 1 - i = j
    BY <1>2, <1>6 DEF x, j
  <2> QED BY <2>3, <2>4, <2>5 DEF DescOf
<1>12. Announced(A, U)
  <2>1. N + 1 \in 1..(N + 1) /\ N \in 1..(N + 1)
    BY <1>1
  <2>2. A[N + 1] = 2 * (lo + (N + 1) - 1) /\ A[N] = 2 * (lo + N - 1)
    BY <1>8, <2>1
  <2>3. A[N + 1] = U /\ U = A[N] + 2 /\ A[N] \in Nat
    BY <1>1, <2>2
  <2>4. U <= A[N] + Reach
    BY <1>1, <2>3
  <2> HIDE DEF U
  <2>5. hdr.data_used = U % DataMod /\ hdr.data_head = U % DataMod /\ w.pc = "idle"
    BY <1>2
  <2> QED BY <1>5, <1>6, <1>10, <2>3, <2>4, <2>5 DEF Announced
<1>13. BytesOK(A, U)
  <2> SUFFICES ASSUME NEW j \in 1..N, A[j] >= U - DataSize, NEW i \in 1..log[j].len
      PROVE  mem[(A[j] + i - 1) % DataSize] = log[j].bytes[i]
    BY <1>6 DEF BytesOK
  <2> DEFINE x == lo + j - 1
             y == 2 * x
             c == y % DataSize
  <2>1. i = 1 /\ log[j].bytes[1] = j
    BY <1>6
  <2>2. number(x) = j /\ x \in Int /\ j \in 1..(N + 1) /\ x >= lo
    BY <1>1
  <2>3. A[j] = y
    BY <1>8, <2>2
  <2>4. y \in (U - DataSize)..(U - 1)
    BY <1>1, <2>3
  <2> HIDE DEF x
  <2>5. y % 2 = 0 /\ y \div 2 = x /\ y \in Int
    BY <2>2
  <2> HIDE DEF y
  <2>6. last(c) = y /\ c \in 0..(DataSize - 1)
    <3> HIDE DEF U
    <3> QED BY <1>1, <1>5, <2>4, LatestOK
  <2>7. y + i - 1 = y
    BY <2>1, <2>5
  <2> HIDE DEF c, last
  <2>8. mem[c] = IF last(c) % 2 = 0 /\ last(c) \div 2 >= lo THEN number(last(c) \div 2) ELSE 0
    BY <1>2, <2>6
  <2>9. mem[c] = j
    BY <2>2, <2>5, <2>6, <2>8
  <2> QED BY <2>1, <2>3, <2>7, <2>9 DEF c
<1>14. ReaderInv(A, U, 0)
  <2>1. lo \in HeadOfs
    BY <1>1 DEF HeadOfs
  <2>2. ReaderTypes /\ rd.pc = "idle"
    BY <1>2, <2>1 DEF ReaderTypes
  <2> QED BY <2>2 DEF ReaderInv, AdvanceOK, CopyOK, Copying, CopiedOK, EntriesOK, UsedOK
<1>15. SeenOK
  <2>1. seen \in Seq(Shot) /\ Range(seen) = {}
    BY <1>2 DEF Range
  <2> QED BY <2>1 DEF SeenOK, Genuine
<1>16. Inv(A, U, 0)
  BY <1>2, <1>7, <1>9, <1>11, <1>12, <1>13, <1>14, <1>15 DEF Inv, WriterInv, Wraps
<1> QED BY <1>16 DEF GInv

\* What a snapshot shows was written: the offset, the length, the time and every
\* byte of what udebug_remote_buf_snapshot and udebug_iter_next return are those of
\* one completed entry, however the steps of the two processes interleave.  The
\* writer never waits; if it begins an entry in a descriptor that a snapshot is
\* taking, nothing is claimed of that snapshot, and of the later ones all.
THEOREM SnapshotsAreGenuine == ASSUME Roomy PROVE RingSpec => []Genuine
<1>1. RingInit => GInv
  BY InitOK
<1>2. GInv /\ [RingNext]_ringVars => GInv'
  <2> SUFFICES ASSUME GInv, [RingNext]_ringVars PROVE GInv'
    OBVIOUS
  <2>1. CASE Writer
    BY <2>1, WriterOK
  <2>2. CASE Reader
    BY <2>2, ReaderOK
  <2>3. CASE UNCHANGED ringVars
    <3>1. PICK A, U, V : Inv(A, U, V)
      BY DEF GInv
    <3>2. UNCHANGED <<hdr, ring, mem, w, rd, log, seen>> /\ ReaderOnly
      BY <2>3 DEF ringVars, ReaderOnly
    <3>3. WriterInv(A, U)' /\ SeenOK' /\ Prog' = Prog
      BY <3>1, <3>2, SnapKeeps DEF Inv
    <3>4. ReaderInv(A, U, V)' \/ Lapped'
      <4>1. WriterTypes /\ Starts(A) /\ U \in Nat /\ (ReaderInv(A, U, V) \/ Lapped)
        BY <3>1 DEF Inv, WriterInv, Announced
      <4>2. U <= U
        BY <4>1
      <4>3. CASE ReaderInv(A, U, V)
        BY <3>2, <3>3, <4>1, <4>2, <4>3, ReaderKeeps
      <4>4. CASE Lapped
        BY <3>2, <4>4 DEF Lapped
      <4> QED BY <4>1, <4>3, <4>4
    <3>5. Inv(A, U, V)'
      BY <3>3, <3>4 DEF Inv
    <3> QED BY <3>5 DEF GInv
  <2> QED BY <2>1, <2>2, <2>3 DEF RingNext
<1>3. GInv => Genuine
  BY DEF GInv, Inv, SeenOK
<1> QED BY <1>1, <1>2, <1>3, PTL DEF RingSpec

-----------------------------------------------------------------------------
(***************************************************************************)
(* The connection.  For any rings, and through any number of lost          *)
(* connections, timeouts and late answers: the server ends up with the rings *)
(* the client has, and the poll handle is never one of an earlier connection *)
(* that __udebug_disconnect ended.                                         *)
(***************************************************************************)

-----------------------------------------------------------------------------
(* The inductive invariant. *)

RingReq == [type : {"ADD", "REMOVE"}, ring : Local]
Request == RingReq \cup [type : {"HANDLE", "GET"}, ring : Remote]
Message == [type : {"ADD", "REMOVE", "HANDLE", "GET", "ERROR", "NOTIFY"},
            ring : Local \cup Remote, handle : Int]

TypeOK ==
  /\ ctx \in [fd : BOOLEAN, registered : BOOLEAN, handle : Int, auto : BOOLEAN,
              timer : BOOLEAN, freed : BOOLEAN, kept : BOOLEAN]
  /\ local \in Seq(Local) /\ Distinct(local)
  /\ call \in [op : {"none", "connect", "api", "poll"}, todo : Seq(Request), wait : Request \cup {NoReq}]
  /\ srv \in [up : BOOLEAN, open : BOOLEAN, rings : SUBSET Local, handle : Int,
              in : Seq(Request), out : Seq(Message)]

\* A client that has no connection has no handle, unless it is the one that
\* udebug_connect kept.
Offline == ~ctx.fd /\ ~ctx.kept => ctx.handle = -1

\* Every answer that carries a handle was sent on this connection.
AnswersFresh ==
  srv.open => \A k \in 1..Len(srv.out) : srv.out[k].type = "HANDLE" => srv.out[k].handle = srv.handle

CallOK == call.op \in {"none", "poll"} => call.todo = <<>> /\ call.wait = NoReq

\* q is what the server has still to be told or to deal with: the last request
\* in it that is about ring b agrees with the client's list, and if there is
\* none, what the server knows does.
About(req, b) == req.type \in {"ADD", "REMOVE"} /\ req.ring = b

Settled(q, rings, b, islocal) ==
  /\ \A k \in 1..Len(q) :
       About(q[k], b) /\ (\A j \in 1..Len(q) : j > k => ~About(q[j], b))
         => (q[k].type = "ADD" <=> islocal)
  /\ (\A k \in 1..Len(q) : ~About(q[k], b)) => (b \in rings <=> islocal)

Informed ==
  ctx.fd /\ srv.open =>
    \A b \in Local : Settled(srv.in \o call.todo, srv.rings, b, IsIn(b, local))

IInv == TypeOK /\ Offline /\ HandleFresh /\ AnswersFresh /\ CallOK /\ Informed

-----------------------------------------------------------------------------
(* Queues of requests. *)

\* A request is sent: it goes from the one queue to the other.
LEMMA SentOn ==
  ASSUME NEW S, NEW a \in Seq(S), NEW b \in Seq(S), b # <<>>
  PROVE  Append(a, Head(b)) \o Tail(b) = a \o b
OBVIOUS

\* new is old without its element at place p.
Gap(old, new, p) ==
  /\ Len(old) \in Nat /\ p \in 1..Len(old) /\ Len(new) = Len(old) - 1
  /\ \A k \in 1..(Len(old) - 1) : new[k] = IF k < p THEN old[k] ELSE old[k + 1]

LEMMA HeadGap ==
  ASSUME NEW S, NEW a \in Seq(S), NEW q \in Seq(S), a # <<>>
  PROVE  Gap(a \o q, Tail(a) \o q, 1) /\ (a \o q)[1] = Head(a)
<1> DEFINE t == Tail(a)
           old == a \o q
           new == t \o q
<1>1. t \in Seq(S) /\ Len(t) = Len(a) - 1 /\ (\A k \in 1..Len(t) : t[k] = a[k + 1]) /\ Head(a) = a[1]
  OBVIOUS
<1>2. /\ Len(old) = Len(a) + Len(q)
      /\ \A k \in 1..(Len(a) + Len(q)) : old[k] = IF k <= Len(a) THEN a[k] ELSE q[k - Len(a)]
  BY ConcatElements
<1> HIDE DEF t
<1>3. /\ Len(new) = Len(t) + Len(q)
      /\ \A k \in 1..(Len(t) + Len(q)) : new[k] = IF k <= Len(t) THEN t[k] ELSE q[k - Len(t)]
  BY <1>1, ConcatElements
<1>4. Len(a) \in Nat \ {0} /\ Len(q) \in Nat
  OBVIOUS
<1> SUFFICES Gap(old, new, 1) /\ old[1] = Head(a)
  BY DEF t
<1> HIDE DEF old, new
<1>5. ASSUME NEW k \in 1..(Len(old) - 1) PROVE new[k] = old[k + 1]
  <2>1. CASE k <= Len(t)
    BY <1>1, <1>2, <1>3, <1>4, <2>1
  <2>2. CASE k > Len(t)
    <3>1. k - Len(t) = (k + 1) - Len(a) /\ k \in 1..(Len(t) + Len(q)) /\ k + 1 \in 1..(Len(a) + Len(q)) /\ k + 1 > Len(a)
      BY <1>1, <1>2, <1>4, <2>2
    <3>2. new[k] = q[k - Len(t)]
      BY <1>1, <1>3, <1>4, <2>2, <3>1
    <3>3. old[k + 1] = q[(k + 1) - Len(a)]
      BY <1>2, <1>4, <3>1
    <3> QED BY <3>1, <3>2, <3>3
  <2> QED BY <1>1, <1>4, <2>1, <2>2
<1>6. old[1] = Head(a)
  BY <1>1, <1>2, <1>4
<1>7. Len(old) \in Nat \ {0} /\ Len(new) = Len(old) - 1
  BY <1>1, <1>2, <1>3, <1>4
<1> QED BY <1>5, <1>6, <1>7 DEF Gap

LEMMA TailGap ==
  ASSUME NEW S, NEW a \in Seq(S), NEW q \in Seq(S), q # <<>>
  PROVE  Gap(a \o q, a \o Tail(q), Len(a) + 1) /\ (a \o q)[Len(a) + 1] = Head(q)
<1> DEFINE t == Tail(q)
           old == a \o q
           new == a \o t
<1>1. t \in Seq(S) /\ Len(t) = Len(q) - 1 /\ (\A k \in 1..Len(t) : t[k] = q[k + 1]) /\ Head(q) = q[1]
  OBVIOUS
<1>2. /\ Len(old) = Len(a) + Len(q)
      /\ \A k \in 1..(Len(a) + Len(q)) : old[k] = IF k <= Len(a) THEN a[k] ELSE q[k - Len(a)]
  BY ConcatElements
<1> HIDE DEF t
<1>3. /\ Len(new) = Len(a) + Len(t)
      /\ \A k \in 1..(Len(a) + Len(t)) : new[k] = IF k <= Len(a) THEN a[k] ELSE t[k - Len(a)]
  BY <1>1, ConcatElements
<1>4. Len(a) \in Nat /\ Len(q) \in Nat \ {0}
  OBVIOUS
<1> SUFFICES Gap(old, new, Len(a) + 1) /\ old[Len(a) + 1] = Head(q)
  BY DEF t
<1> HIDE DEF old, new
<1>5. ASSUME NEW k \in 1..(Len(old) - 1)
      PROVE  new[k] = IF k < Len(a) + 1 THEN old[k] ELSE old[k + 1]
  <2>1. CASE k <= Len(a)
    BY <1>1, <1>2, <1>3, <1>4, <2>1
  <2>2. CASE k > Len(a)
    <3>1. k - Len(a) \in 1..Len(t) /\ (k + 1) - Len(a) = (k - Len(a)) + 1 /\ k \in 1..(Len(a) + Len(t))
      BY <1>1, <1>2, <1>4, <2>2
    <3>2. new[k] = t[k - Len(a)]
      BY <1>3, <1>4, <2>2, <3>1
    <3>3. new[k] = q[(k - Len(a)) + 1]
      BY <1>1, <3>1, <3>2
    <3>4. k + 1 \in 1..(Len(a) + Len(q)) /\ k + 1 > Len(a)
      BY <1>1, <1>2, <1>4, <2>2
    <3>5. old[k + 1] = q[(k + 1) - Len(a)]
      BY <1>2, <1>4, <3>4
    <3> QED BY <1>4, <2>2, <3>1, <3>3, <3>5
  <2> QED BY <1>4, <2>1, <2>2
<1>6. old[Len(a) + 1] = Head(q)
  <2>1. old[Len(a) + 1] = q[(Len(a) + 1) - Len(a)] /\ (Len(a) + 1) - Len(a) = 1
    BY <1>2, <1>4
  <2> QED BY <1>1, <2>1
<1>7. Len(old) \in Nat /\ Len(a) + 1 \in 1..Len(old) /\ Len(new) = Len(old) - 1
  BY <1>1, <1>2, <1>3, <1>4
<1> QED BY <1>5, <1>6, <1>7 DEF Gap

\* A request is gone from the queue, because it was about no ring or because
\* the server dealt with it, as the first one.
LEMMA Removed ==
  ASSUME NEW old, NEW new, NEW p, Gap(old, new, p),
         NEW rings, NEW after, NEW b, NEW islocal \in BOOLEAN,
         Settled(old, rings, b, islocal),
         About(old[p], b) => p = 1 /\ (b \in after <=> old[p].type = "ADD"),
         ~About(old[p], b) => (b \in after <=> b \in rings)
  PROVE  Settled(new, after, b, islocal)
<1> DEFINE at(k) == IF k < p THEN k ELSE k + 1
<1>1. \A k \in 1..Len(new) : at(k) \in 1..Len(old) /\ at(k) # p /\ new[k] = old[at(k)]
  BY DEF Gap
<1>2. \A j \in 1..Len(old) : j # p => \E k \in 1..Len(new) : at(k) = j
  <2> SUFFICES ASSUME NEW j \in 1..Len(old), j # p PROVE \E k \in 1..Len(new) : at(k) = j
    OBVIOUS
  <2>1. CASE j < p
    <3>1. j \in 1..Len(new) /\ at(j) = j
      BY <2>1 DEF Gap
    <3> QED BY <3>1
  <2>2. CASE j > p
    <3>1. j - 1 \in 1..Len(new) /\ at(j - 1) = j
      BY <2>2 DEF Gap
    <3> QED BY <3>1
  <2> QED BY <2>1, <2>2 DEF Gap
<1>3. \A k, m \in 1..Len(new) : at(m) > at(k) => m > k
  BY DEF Gap
<1>4. p \in 1..Len(old) /\ \A k \in 1..Len(new) : p = 1 => at(k) > p
  BY DEF Gap
<1> HIDE DEF at
<1>5. ASSUME NEW k \in 1..Len(new), About(new[k], b), \A j \in 1..Len(new) : j > k => ~About(new[j], b)
      PROVE  new[k].type = "ADD" <=> islocal
  <2>1. at(k) \in 1..Len(old) /\ About(old[at(k)], b) /\ new[k] = old[at(k)]
    BY <1>1, <1>5
  <2>2. ASSUME NEW j \in 1..Len(old), j > at(k), j # p PROVE ~About(old[j], b)
    BY <1>1, <1>2, <1>3, <1>5, <2>2
  <2>3. p > at(k) => ~About(old[p], b)
    BY <1>4, <2>1
  <2>4. \A j \in 1..Len(old) : j > at(k) => ~About(old[j], b)
    BY <2>2, <2>3
  <2> QED BY <2>1, <2>4 DEF Settled
<1>6. ASSUME \A k \in 1..Len(new) : ~About(new[k], b)
      PROVE  b \in after <=> islocal
  <2>1. \A j \in 1..Len(old) : j # p => ~About(old[j], b)
    BY <1>1, <1>2, <1>6
  <2>2. CASE About(old[p], b)
    <3>1. \A j \in 1..Len(old) : j > p => ~About(old[j], b)
      BY <1>4, <2>1
    <3>2. old[p].type = "ADD" <=> islocal
      BY <1>4, <2>2, <3>1 DEF Settled
    <3> QED BY <2>2, <3>2
  <2>3. CASE ~About(old[p], b)
    <3>1. \A j \in 1..Len(old) : ~About(old[j], b)
      BY <2>1, <2>3
    <3>2. b \in rings <=> islocal
      BY <3>1 DEF Settled
    <3> QED BY <2>3, <3>2
  <2> QED BY <2>2, <2>3
<1> QED BY <1>5, <1>6 DEF Settled

\* A request is added behind the others.
LEMMA Asked ==
  ASSUME NEW S, NEW q \in Seq(S), NEW req \in S,
         NEW rings, NEW b, NEW before \in BOOLEAN, NEW islocal \in BOOLEAN,
         Settled(q, rings, b, before),
         About(req, b) => (islocal <=> req.type = "ADD"),
         ~About(req, b) => islocal = before
  PROVE  Settled(q \o <<req>>, rings, b, islocal)
<1> DEFINE new == q \o <<req>>
           n == Len(q)
<1>1. n \in Nat /\ Len(new) = n + 1 /\ new[n + 1] = req /\ \A k \in 1..n : new[k] = q[k]
  OBVIOUS
<1>2. Settled(q, rings, b, before)
  OBVIOUS
<1> HIDE DEF new
<1>3. CASE About(req, b)
  <2>1. \A k \in 1..Len(new) : (\A j \in 1..Len(new) : j > k => ~About(new[j], b)) => k = n + 1
    BY <1>1, <1>3
  <2> QED BY <1>1, <1>3, <2>1 DEF new, Settled
<1>4. CASE ~About(req, b)
  <2>1. ASSUME NEW k \in 1..Len(new), About(new[k], b), \A j \in 1..Len(new) : j > k => ~About(new[j], b)
        PROVE  new[k].type = "ADD" <=> islocal
    <3>1. k \in 1..n
      BY <1>1, <1>4, <2>1
    <3>2. \A j \in 1..n : j > k => ~About(q[j], b)
      BY <1>1, <2>1
    <3> QED BY <1>1, <1>2, <1>4, <2>1, <3>1, <3>2 DEF Settled
  <2>2. ASSUME \A k \in 1..Len(new) : ~About(new[k], b) PROVE b \in rings <=> islocal
    BY <1>1, <1>2, <1>4, <2>2 DEF Settled
  <2> QED BY <2>1, <2>2 DEF new, Settled
<1> QED BY <1>3, <1>4

\* Nothing was sent yet on a new connection: what udebug_connect is about to
\* send tells the server all.
LEMMA HandleRequests ==
  ASSUME ConnectionAssumption, NEW P \in SUBSET Remote
  PROVE  SetToSeq({Req("HANDLE", r) : r \in P}) \in Seq([type : {"HANDLE"}, ring : Remote])
<1> DEFINE T == {Req("HANDLE", r) : r \in P}
           f == [r \in P |-> Req("HANDLE", r)]
<1>1. IsFiniteSet(P)
  BY FS_Subset DEF ConnectionAssumption
<1>2. f \in Surjection(P, T)
  BY DEF Surjection
<1>3. IsFiniteSet(T)
  BY <1>1, <1>2, FS_Surjection
<1>4. Cardinality(T) \in Nat /\ ExistsBijection(1..Cardinality(T), T)
  BY <1>3, FS_CardinalityType
<1>5. T \subseteq [type : {"HANDLE"}, ring : Remote]
  BY DEF Req
<1> HIDE DEF T, f
<1>6. \E g \in [1..Cardinality(T) -> T] : IsInjective(g)
  BY <1>4, Zenon DEF ExistsBijection, Bijection, Injection
<1>7. SetToSeq(T) \in [1..Cardinality(T) -> T]
  BY <1>6, Zenon DEF SetToSeq
<1> DEFINE U == [type : {"HANDLE"}, ring : Remote]
           n == Cardinality(T)
           s == SetToSeq(T)
<1>8. ASSUME NEW m \in Nat, NEW A, NEW B, A \subseteq B, NEW g \in [1..m -> A] PROVE g \in Seq(B)
  BY <1>8
<1>9. n \in Nat /\ s \in [1..n -> T] /\ T \subseteq U
  BY <1>4, <1>5, <1>7
<1> HIDE DEF U, n, s
<1>10. s \in Seq(U)
  BY <1>8, <1>9
<1> QED BY <1>10, Zenon DEF T, U, s

LEMMA RequestsOK ==
  ASSUME ConnectionAssumption, local \in Seq(Local)
  PROVE  /\ Requests \in Seq(Request)
         /\ \A b \in Local : Settled(Requests, {}, b, IsIn(b, local))
<1> DEFINE a == [k \in DOMAIN local |-> AddMsg(local[k])]
           h == SetToSeq({Req("HANDLE", r) : r \in {r \in Remote : remote[r].mapped /\ remote[r].poll}})
           q == a \o h
           n == Len(local)
<1>1. h \in Seq([type : {"HANDLE"}, ring : Remote])
  <2> DEFINE P == {r \in Remote : remote[r].mapped /\ remote[r].poll}
  <2>1. P \in SUBSET Remote
    OBVIOUS
  <2> HIDE DEF P
  <2>2. SetToSeq({Req("HANDLE", r) : r \in P}) \in Seq([type : {"HANDLE"}, ring : Remote])
    BY <2>1, HandleRequests
  <2> QED BY <2>2, Zenon DEF P
<1>2. Requests = q
  BY Zenon DEF Requests
<1> HIDE DEF h
<1>3. h \in Seq(Request) /\ \A k \in 1..Len(h) : h[k].type = "HANDLE"
  <2> DEFINE U == [type : {"HANDLE"}, ring : Remote]
  <2>1. U \subseteq Request /\ \A u \in U : u.type = "HANDLE"
    BY DEF Request
  <2>2. h \in Seq(U)
    BY <1>1
  <2> HIDE DEF U
  <2>3. \A k \in 1..Len(h) : h[k] \in U
    BY <2>2
  <2>4. h \in Seq(Request)
    BY <2>1, <2>2
  <2> QED BY <2>1, <2>3, <2>4
<1>4. n \in Nat /\ DOMAIN local = 1..n /\ \A k \in 1..n : local[k] \in Local
  OBVIOUS
<1>5. \A k \in 1..n : AddMsg(local[k]) \in Request
  BY <1>4 DEF AddMsg, Req, Request, RingReq
<1>6. a \in Seq(Request) /\ Len(a) = n /\ \A k \in 1..n : a[k] = AddMsg(local[k])
  BY <1>4, <1>5
<1> HIDE DEF a, n
<1>7. /\ q \in Seq(Request) /\ Len(q) = n + Len(h)
      /\ \A k \in 1..(n + Len(h)) : q[k] = IF k <= n THEN a[k] ELSE h[k - n]
  BY <1>3, <1>6, ConcatElements
<1>8. Len(h) \in Nat
  BY <1>3
<1> HIDE DEF q
<1>9. ASSUME NEW k \in 1..Len(q), NEW b \in Local
      PROVE  About(q[k], b) <=> k <= n /\ local[k] = b
  <2>1. CASE k <= n
    BY <1>4, <1>6, <1>7, <1>8, <2>1 DEF AddMsg, Req, About
  <2>2. CASE k > n
    <3>1. k - n \in 1..Len(h)
      BY <1>4, <1>7, <1>8, <2>2
    <3>2. q[k] = h[k - n]
      BY <1>4, <1>7, <1>8, <2>2
    <3> QED BY <1>3, <1>4, <2>2, <3>1, <3>2 DEF About
  <2> QED BY <1>4, <2>1, <2>2
<1>10. ASSUME NEW k \in 1..n PROVE k \in 1..Len(q) /\ q[k].type = "ADD"
  BY <1>4, <1>6, <1>7, <1>8 DEF AddMsg, Req
<1>11. ASSUME NEW b \in Local PROVE Settled(q, {}, b, IsIn(b, local))
  <2>1. ASSUME NEW k \in 1..Len(q), About(q[k], b) PROVE q[k].type = "ADD" /\ IsIn(b, local)
    BY <1>4, <1>7, <1>9, <1>10, <2>1 DEF IsIn, n
  <2>2. ASSUME \A k \in 1..Len(q) : ~About(q[k], b) PROVE ~IsIn(b, local)
    BY <1>4, <1>9, <1>10, <2>2 DEF IsIn, n
  <2> QED BY <2>1, <2>2 DEF Settled
<1> QED BY <1>2, <1>7, <1>11

-----------------------------------------------------------------------------
(* One lemma per kind of step. *)

Ctx == [fd : BOOLEAN, registered : BOOLEAN, handle : Int, auto : BOOLEAN,
        timer : BOOLEAN, freed : BOOLEAN, kept : BOOLEAN]
CallType == [op : {"none", "connect", "api", "poll"}, todo : Seq(Request), wait : Request \cup {NoReq}]
SrvType == [up : BOOLEAN, open : BOOLEAN, rings : SUBSET Local, handle : Int,
            in : Seq(Request), out : Seq(Message)]

\* What an assignment to a field leaves alone.
LEMMA SetIn ==
  ASSUME NEW s \in SrvType, NEW q \in Seq(Request)
  PROVE  LET t == [s EXCEPT !.in = q]
         IN t \in SrvType /\ t.open = s.open /\ t.rings = s.rings /\ t.handle = s.handle /\ t.in = q /\ t.out = s.out
<1> DEFINE U == Seq(Request)
           V == Seq(Message)
           T == [up : BOOLEAN, open : BOOLEAN, rings : SUBSET Local, handle : Int, in : U, out : V]
<1>1. s \in T /\ q \in U /\ SrvType = T
  BY DEF SrvType
<1> HIDE DEF U, V
<1> QED BY <1>1

LEMMA SetOut ==
  ASSUME NEW s \in SrvType, NEW o \in Seq(Message)
  PROVE  LET t == [s EXCEPT !.out = o]
         IN t \in SrvType /\ t.open = s.open /\ t.rings = s.rings /\ t.handle = s.handle /\ t.in = s.in /\ t.out = o
<1> DEFINE U == Seq(Request)
           V == Seq(Message)
           T == [up : BOOLEAN, open : BOOLEAN, rings : SUBSET Local, handle : Int, in : U, out : V]
<1>1. s \in T /\ o \in V /\ SrvType = T
  BY DEF SrvType
<1> HIDE DEF U, V
<1> QED BY <1>1

\* A connection that is open is closed on the way.
LEMMA ClosedOK ==
  ASSUME NEW c \in Ctx, ~c.fd /\ ~c.kept => c.handle = -1
  PROVE  LET d == Closed(c)
         IN d \in Ctx /\ ~d.fd /\ d.handle = c.handle /\ (~d.kept => d.handle = -1)
<1> DEFINE d == Closed(c)
           k == c.kept \/ c.fd
<1>1. k \in BOOLEAN /\ (~k => c.handle = -1)
  BY DEF Ctx
<1>2. d = [c EXCEPT !.fd = FALSE, !.kept = k]
  BY DEF Closed
<1> HIDE DEF k, d
<1>3. d \in Ctx /\ ~d.fd /\ d.handle = c.handle /\ d.kept = k
  BY <1>1, <1>2 DEF Ctx
<1> QED BY <1>1, <1>3 DEF d

\* All rings are to be announced on a new connection; a client without one
\* owes nothing.
LEMMA ConnectInv ==
  ASSUME ConnectionAssumption, IInv, NEW c \in Ctx, ~c.fd /\ ~c.kept => c.handle = -1, udebug_connect(c)
  PROVE  IInv'
<1>1. PICK h \in Handles : srv' = Accepted(h)
  BY DEF udebug_connect
<1>2. /\ srv' = [up |-> TRUE, open |-> TRUE, rings |-> {}, handle |-> h, in |-> <<>>, out |-> <<>>]
      /\ h \in Int
  BY <1>1 DEF Accepted, ConnectionAssumption
<1>3. local \in Seq(Local) /\ Distinct(local) /\ local' = local
  BY DEF IInv, TypeOK, udebug_connect
<1>4. Requests \in Seq(Request) /\ \A b \in Local : Settled(Requests, {}, b, IsIn(b, local))
  BY <1>3, RequestsOK
<1>5. call' = [op |-> "connect", todo |-> Requests, wait |-> NoReq]
  BY DEF udebug_connect, Call
<1> HIDE DEF Requests
<1>6. ctx' \in Ctx /\ ctx'.fd /\ (~ctx'.kept => ctx'.handle = -1)
  <2> DEFINE d == Closed(c)
  <2>1. d \in Ctx /\ (~d.kept => d.handle = -1)
    BY ClosedOK
  <2>2. ctx' = [d EXCEPT !.fd = TRUE]
    BY DEF udebug_connect
  <2> HIDE DEF d
  <2> QED BY <2>1, <2>2 DEF Ctx
<1>7. call' \in CallType
  BY <1>4, <1>5 DEF CallType
<1>8. srv' \in SrvType
  BY <1>2 DEF SrvType
<1>9. TypeOK'
  BY <1>3, <1>6, <1>7, <1>8 DEF TypeOK, Ctx, CallType, SrvType
<1>10. Offline' /\ HandleFresh'
  BY <1>6 DEF Offline, HandleFresh
<1>11. AnswersFresh' /\ CallOK'
  BY <1>2, <1>5 DEF AnswersFresh, CallOK
<1>12. srv'.in \o call'.todo = Requests /\ srv'.rings = {}
  BY <1>2, <1>4, <1>5
<1>13. Informed'
  BY <1>3, <1>4, <1>12 DEF Informed
<1> QED BY <1>9, <1>10, <1>11, <1>13 DEF IInv

LEMMA ConnectFailsInv ==
  ASSUME IInv, NEW c \in Ctx, ~c.fd /\ ~c.kept => c.handle = -1, ConnectFails(c)
  PROVE  IInv'
<1>1. ctx' \in Ctx /\ ~ctx'.fd /\ (~ctx'.kept => ctx'.handle = -1)
  BY ClosedOK DEF ConnectFails
<1>2. UNCHANGED <<local, call>> /\ srv' = Gone(FALSE)
  BY DEF ConnectFails
<1>3. srv' \in SrvType /\ ~srv'.open
  BY <1>2 DEF SrvType, Gone
<1> QED BY <1>1, <1>2, <1>3 DEF IInv, TypeOK, Ctx, SrvType, Offline, HandleFresh, AnswersFresh, CallOK, Informed

LEMMA ReconnectInv ==
  ASSUME ConnectionAssumption, IInv, NEW c \in Ctx, ~c.fd /\ ~c.kept => c.handle = -1, udebug_reconnect_cb(c)
  PROVE  IInv'
<1> DEFINE d == [c EXCEPT !.timer = TRUE]
<1>1. d \in Ctx /\ d.fd = c.fd /\ d.kept = c.kept /\ d.handle = c.handle
  BY DEF Ctx
<1>2. udebug_connect(c) \/ ConnectFails(d)
  BY DEF udebug_reconnect_cb
<1> HIDE DEF d
<1> QED BY <1>1, <1>2, ConnectInv, ConnectFailsInv

LEMMA ConnectsInv ==
  ASSUME ConnectionAssumption, IInv, udebug_auto_connect \/ ConnectByHand \/ TimerFires
  PROVE  IInv'
<1>1. ctx \in Ctx /\ (~ctx.fd /\ ~ctx.kept => ctx.handle = -1)
  BY DEF IInv, TypeOK, Ctx, Offline
<1>2. CASE udebug_auto_connect
  <2> DEFINE c == [ctx EXCEPT !.auto = TRUE]
  <2>1. c \in Ctx /\ c.fd = ctx.fd /\ c.kept = ctx.kept /\ c.handle = ctx.handle
    BY <1>1 DEF Ctx
  <2>2. CASE ctx.fd
    <3>1. ctx' = c /\ UNCHANGED <<local, call, srv>>
      BY <1>2, <2>2 DEF udebug_auto_connect
    <3> HIDE DEF c
    <3> QED BY <2>1, <3>1 DEF IInv, TypeOK, Ctx, Offline, HandleFresh, AnswersFresh, CallOK, Informed
  <2>3. CASE ~ctx.fd
    <3>1. udebug_reconnect_cb(c)
      BY <1>2, <2>3 DEF udebug_auto_connect
    <3> HIDE DEF c
    <3> QED BY <1>1, <2>1, <3>1, ReconnectInv
  <2> QED BY <2>2, <2>3
<1>3. CASE ConnectByHand
  <2>1. udebug_connect(ctx) \/ ConnectFails(ctx)
    BY <1>3 DEF ConnectByHand
  <2> QED BY <1>1, <2>1, ConnectInv, ConnectFailsInv
<1>4. CASE TimerFires
  <2> DEFINE c == [ctx EXCEPT !.timer = FALSE]
  <2>1. c \in Ctx /\ c.fd = ctx.fd /\ c.kept = ctx.kept /\ c.handle = ctx.handle
    BY <1>1 DEF Ctx
  <2>2. udebug_reconnect_cb(c)
    BY <1>4 DEF TimerFires
  <2> HIDE DEF c
  <2> QED BY <1>1, <2>1, <2>2, ReconnectInv
<1> QED BY <1>2, <1>3, <1>4

\* The connection is gone: __udebug_disconnect.
LEMMA DisconnectedOK ==
  ASSUME NEW c \in Ctx, NEW reconnect \in BOOLEAN
  PROVE  LET d == Disconnected(c, reconnect) IN d \in Ctx /\ ~d.fd /\ d.handle = -1
<1> DEFINE d == Disconnected(c, reconnect)
           t == c.timer \/ (c.auto /\ reconnect)
<1>1. t \in BOOLEAN
  BY DEF Ctx
<1>2. d = [c EXCEPT !.fd = FALSE, !.registered = FALSE, !.handle = -1, !.kept = FALSE, !.timer = t]
  BY DEF Disconnected
<1> HIDE DEF t, d
<1>3. c = [fd |-> c.fd, registered |-> c.registered, handle |-> c.handle, auto |-> c.auto,
           timer |-> c.timer, freed |-> c.freed, kept |-> c.kept] /\ c.auto \in BOOLEAN /\ c.freed \in BOOLEAN
  BY DEF Ctx
<1>4. d = [fd |-> FALSE, registered |-> FALSE, handle |-> -1, auto |-> c.auto,
           timer |-> t, freed |-> c.freed, kept |-> FALSE]
  BY <1>2, <1>3
<1> QED BY <1>1, <1>3, <1>4 DEF Ctx, d

LEMMA OfflineInv ==
  ASSUME IInv, udebug_free \/ Hangup \/ Eof \/ (PollEnds /\ ~srv.open)
  PROVE  IInv'
<1>1. ctx \in Ctx
  BY DEF IInv, TypeOK, Ctx
<1>2. ctx' \in Ctx /\ ~ctx'.fd /\ ctx'.handle = -1
  <2> DEFINE d == Disconnected(ctx, TRUE)
             e == Disconnected(ctx, FALSE)
  <2>1. d \in Ctx /\ ~d.fd /\ d.handle = -1
    BY <1>1, DisconnectedOK
  <2>2. e \in Ctx /\ ~e.fd /\ e.handle = -1
    BY <1>1, DisconnectedOK
  <2>3. ctx' = d \/ ctx' = [e EXCEPT !.timer = FALSE, !.freed = TRUE]
    BY DEF udebug_free, Hangup, Eof, PollEnds
  <2> HIDE DEF d, e
  <2> QED BY <2>1, <2>2, <2>3 DEF Ctx
<1>3. local' \in Seq(Local) /\ Distinct(local')
  <2>1. local' = local \/ local' = <<>>
    BY DEF udebug_free, Hangup, Eof, PollEnds
  <2>2. local \in Seq(Local) /\ Distinct(local)
    BY DEF IInv, TypeOK
  <2>3. <<>> \in Seq(Local) /\ Distinct(<<>>)
    BY DEF Distinct
  <2> QED BY <2>1, <2>2, <2>3
<1>4. call \in CallType /\ (call.op \in {"none", "poll"} => call.todo = <<>> /\ call.wait = NoReq)
  BY DEF IInv, TypeOK, CallType, CallOK
<1>5. call' \in CallType /\ (call'.op \in {"none", "poll"} => call'.todo = <<>> /\ call'.wait = NoReq)
  <2>1. call' = call \/ call' = [call EXCEPT !.todo = call.todo, !.wait = NoReq] \/ call' = NoCall
    BY DEF udebug_free, Hangup, Eof, PollEnds, Next_
  <2>2. NoCall \in CallType /\ NoCall.todo = <<>> /\ NoCall.wait = NoReq
    BY DEF CallType, NoCall
  <2>3. CASE call' = [call EXCEPT !.todo = call.todo, !.wait = NoReq]
    BY <1>4, <2>3 DEF CallType
  <2> QED BY <1>4, <2>1, <2>2, <2>3
<1>6. srv' \in SrvType /\ (srv'.open => srv' = srv)
  <2>1. srv \in SrvType
    BY DEF IInv, TypeOK, SrvType
  <2>2. srv' = srv \/ srv' = Gone(srv.up) \/ (~srv.open /\ srv' = [srv EXCEPT !.out = <<>>])
    BY DEF udebug_free, Hangup, Eof, PollEnds
  <2>3. Gone(srv.up) \in SrvType /\ ~Gone(srv.up).open
    BY <2>1 DEF SrvType, Gone
  <2>4. ~srv.open => [srv EXCEPT !.out = <<>>] \in SrvType /\ ~[srv EXCEPT !.out = <<>>].open
    <3>1. <<>> \in Seq(Message)
      OBVIOUS
    <3> DEFINE o == <<>>
    <3> HIDE DEF o
    <3>2. ~srv.open => [srv EXCEPT !.out = o] \in SrvType /\ ~[srv EXCEPT !.out = o].open
      BY <2>1, <3>1, SetOut DEF o
    <3> QED BY <3>2 DEF o
  <2> QED BY <2>1, <2>2, <2>3, <2>4
<1>7. TypeOK'
  BY <1>2, <1>3, <1>5, <1>6 DEF TypeOK, Ctx, CallType, SrvType
<1>8. AnswersFresh'
  BY <1>6 DEF IInv, AnswersFresh
<1> QED BY <1>2, <1>5, <1>7, <1>8 DEF IInv, Offline, HandleFresh, CallOK, Informed

\* A call of the API that may leave the server something to be told.
LEMMA AskInv ==
  ASSUME IInv, Free, UNCHANGED <<ctx, srv>>, local' \in Seq(Local), Distinct(local'),
         NEW req \in Request,
         \/ call' = NoCall /\ (ctx.fd => local' = local)
         \/ /\ call' = Call("api", <<req>>)
            /\ \A b \in Local : About(req, b) => (IsIn(b, local') <=> req.type = "ADD")
            /\ \A b \in Local : ~About(req, b) => (IsIn(b, local') <=> IsIn(b, local))
  PROVE  IInv'
<1>1. /\ call = NoCall /\ call.todo = <<>> /\ call.wait = NoReq
  BY DEF Free, NoCall
<1>2. call' \in CallType
  <2>1. NoCall \in CallType
    BY DEF CallType, NoCall
  <2>2. Call("api", <<req>>) \in CallType
    BY DEF CallType, Call
  <2> QED BY <2>1, <2>2
<1>3. TypeOK'
  BY <1>2 DEF IInv, TypeOK, CallType
<1>4. Offline' /\ HandleFresh' /\ AnswersFresh'
  BY DEF IInv, Offline, HandleFresh, AnswersFresh
<1>5. CallOK'
  BY DEF CallOK, NoCall, Call
<1>6. ASSUME ctx.fd, srv.open, NEW b \in Local
      PROVE  Settled(srv.in \o call'.todo, srv.rings, b, IsIn(b, local'))
  <2>1. srv.in \in Seq(Request) /\ srv.in \o <<>> = srv.in
    BY DEF IInv, TypeOK
  <2>2. Settled(srv.in, srv.rings, b, IsIn(b, local))
    BY <1>1, <1>6, <2>1 DEF IInv, Informed
  <2>3. CASE call' = NoCall /\ (ctx.fd => local' = local)
    BY <1>1, <1>6, <2>1, <2>2, <2>3
  <2>4. CASE /\ call' = Call("api", <<req>>)
             /\ \A d \in Local : About(req, d) => (IsIn(d, local') <=> req.type = "ADD")
             /\ \A d \in Local : ~About(req, d) => (IsIn(d, local') <=> IsIn(d, local))
    <3>1. call'.todo = <<req>>
      BY <2>4 DEF Call
    <3>2. IsIn(b, local) \in BOOLEAN /\ IsIn(b, local') \in BOOLEAN
      BY DEF IsIn
    <3>3. Settled(srv.in \o <<req>>, srv.rings, b, IsIn(b, local'))
      BY <2>1, <2>2, <2>4, <3>2, Asked
    <3> QED BY <3>1, <3>3
  <2> QED BY <2>3, <2>4
<1>7. Informed'
  BY <1>6 DEF Informed
<1> QED BY <1>3, <1>4, <1>5, <1>7 DEF IInv

LEMMA LocalRingsInv ==
  ASSUME IInv, NEW b \in Local, udebug_buf_add(b) \/ udebug_buf_free(b)
  PROVE  IInv'
<1>1. /\ local \in Seq(Local) /\ Distinct(local) /\ Free /\ UNCHANGED <<ctx, srv>>
  BY DEF IInv, TypeOK, udebug_buf_add, udebug_buf_free
<1>2. b \in Range(local) <=> IsIn(b, local)
  BY <1>1 DEF Range, IsIn
<1>3. AddMsg(b) \in Request /\ RemoveMsg(b) \in Request
  BY DEF AddMsg, RemoveMsg, Req, Request, RingReq
<1>4. \A d : (About(AddMsg(b), d) <=> d = b) /\ (About(RemoveMsg(b), d) <=> d = b)
  BY DEF AddMsg, RemoveMsg, Req, About
<1>5. AddMsg(b).type = "ADD" /\ RemoveMsg(b).type = "REMOVE"
  BY DEF AddMsg, RemoveMsg, Req
<1>6. CASE udebug_buf_add(b)
  <2>1. ~IsIn(b, local) /\ local' = Append(local, b) /\ Ask(AddMsg(b))
    BY <1>2, <1>6 DEF udebug_buf_add
  <2>2. Distinct(local') /\ \A d : IsIn(d, local') <=> d = b \/ IsIn(d, local)
    BY <1>1, <2>1, AppendDistinct
  <2>3. local' \in Seq(Local)
    BY <1>1, <2>1
  <2>4. call' = Call("api", <<AddMsg(b)>>) \/ (call' = NoCall /\ ~ctx.fd)
    BY <2>1 DEF Ask
  <2> QED BY <1>1, <1>3, <1>4, <1>5, <2>2, <2>3, <2>4, AskInv
<1>7. CASE udebug_buf_free(b)
  <2>1. PICK p \in 1..Len(local) : local[p] = b /\ local' = RemoveAt(local, p)
    BY <1>1, <1>7 DEF udebug_buf_free
  <2>2. Distinct(local') /\ \A d : IsIn(d, local') <=> d # b /\ IsIn(d, local)
    BY <1>1, <2>1, RemoveDistinct
  <2>3. local' \in Seq(Local)
    BY <1>1, <2>1, RemoveAtElements
  <2>4. call' = Call("api", <<RemoveMsg(b)>>) \/ (call' = NoCall /\ ~ctx.fd)
    BY <1>7 DEF udebug_buf_free, Ask
  <2> QED BY <1>1, <1>3, <1>4, <1>5, <2>2, <2>3, <2>4, AskInv
<1> QED BY <1>6, <1>7

LEMMA RemoteRingsInv ==
  ASSUME IInv, NEW r \in Remote, NEW val \in BOOLEAN,
         udebug_remote_buf_map(r) \/ udebug_remote_buf_unmap(r) \/ udebug_remote_buf_set_poll(r, val)
  PROVE  IInv'
<1>1. /\ local' = local /\ local \in Seq(Local) /\ Distinct(local) /\ Free /\ UNCHANGED <<ctx, srv>>
  BY DEF IInv, TypeOK, udebug_remote_buf_map, udebug_remote_buf_unmap, udebug_remote_buf_set_poll
<1>2. \/ call' = NoCall
      \/ call' = Call("api", <<Req("GET", r)>>)
      \/ call' = Call("api", <<Req("HANDLE", r)>>)
  BY <1>1 DEF udebug_remote_buf_map, udebug_remote_buf_unmap, udebug_remote_buf_set_poll, Ask, Free
<1>3. /\ Req("GET", r) \in Request /\ Req("HANDLE", r) \in Request
      /\ \A d : ~About(Req("GET", r), d) /\ ~About(Req("HANDLE", r), d)
  BY DEF Req, Request, About
<1>4. CASE call' = Call("api", <<Req("GET", r)>>)
  BY <1>1, <1>3, <1>4, AskInv
<1>5. CASE call' = NoCall \/ call' = Call("api", <<Req("HANDLE", r)>>)
  BY <1>1, <1>3, <1>5, AskInv
<1> QED BY <1>2, <1>4, <1>5

\* The next request is not needed, or it is sent.
LEMMA TodoInv ==
  ASSUME IInv, HaveHandle \/ Send
  PROVE  IInv'
<1> DEFINE a == srv.in
           q == call.todo
<1>1. a \in Seq(Request) /\ q \in Seq(Request) /\ q # <<>> /\ call.wait = NoReq
  BY DEF IInv, TypeOK, HaveHandle, Send, Waiting
<1>2. call \in CallType /\ srv \in SrvType /\ UNCHANGED <<ctx, local>> /\ Tail(q) \in Seq(Request) /\ Head(q) \in Request
  BY <1>1 DEF IInv, TypeOK, CallType, SrvType, HaveHandle, Send
<1>3. call.op \notin {"none", "poll"}
  BY <1>1 DEF IInv, CallOK
<1>4. call' \in CallType /\ call'.op = call.op /\ call'.todo = Tail(q)
  <2>1. \/ call' = [call EXCEPT !.todo = Tail(q), !.wait = NoReq]
        \/ call' = [call EXCEPT !.todo = Tail(q), !.wait = Head(q)]
    BY DEF HaveHandle, Send, Next_
  <2>2. \E t, req : t = Tail(q) /\ req \in Request \cup {NoReq} /\ call' = [call EXCEPT !.todo = t, !.wait = req]
    BY <1>2, <2>1
  <2> DEFINE U == Seq(Request)
             W == Request \cup {NoReq}
             C == [op : {"none", "connect", "api", "poll"}, todo : U, wait : W]
  <2>3. PICK t, req : t = Tail(q) /\ t \in U /\ req \in W /\ call' = [call EXCEPT !.todo = t, !.wait = req]
    BY <1>2, <2>2
  <2>4. call \in C /\ C = CallType
    BY <1>2 DEF CallType
  <2> HIDE DEF U, W
  <2>5. call' \in C /\ call'.op = call.op /\ call'.todo = t
    BY <2>3, <2>4
  <2> QED BY <2>3, <2>4, <2>5
<1>5. CallOK'
  BY <1>3, <1>4 DEF CallOK
<1>6. CASE HaveHandle
  <2>1. srv' = srv /\ Head(q).type = "HANDLE"
    BY <1>6 DEF HaveHandle
  <2>2. \A b : ~About(Head(q), b)
    BY <2>1 DEF About
  <2>3. TypeOK' /\ Offline' /\ HandleFresh' /\ AnswersFresh'
    BY <1>2, <1>4, <2>1 DEF IInv, TypeOK, CallType, Offline, HandleFresh, AnswersFresh
  <2>4. ASSUME ctx.fd, srv.open, NEW b \in Local
        PROVE  Settled(a \o Tail(q), srv.rings, b, IsIn(b, local))
    <3> DEFINE old == a \o q
               new == a \o Tail(q)
               islocal == IsIn(b, local)
    <3>1. Gap(old, new, Len(a) + 1) /\ old[Len(a) + 1] = Head(q)
      BY <1>1, TailGap
    <3>2. Settled(old, srv.rings, b, islocal) /\ islocal \in BOOLEAN
      BY <2>4 DEF IInv, Informed, IsIn
    <3>3. ~About(old[Len(a) + 1], b)
      BY <2>2, <3>1
    <3> HIDE DEF old, new, islocal, a, q
    <3>4. Settled(new, srv.rings, b, islocal)
      BY <3>1, <3>2, <3>3, Removed
    <3> QED BY <3>4 DEF new, islocal, a, q
  <2>5. Informed'
    BY <1>2, <1>4, <2>1, <2>4 DEF Informed
  <2> QED BY <1>5, <2>3, <2>5 DEF IInv
<1>7. CASE Send
  <2>1. CASE ctx.fd /\ srv.open
    <3> DEFINE new == Append(a, Head(q))
    <3>1. srv' = [srv EXCEPT !.in = new]
      BY <1>7, <2>1 DEF Send, writev_retry
    <3>2. new \in Seq(Request)
      BY <1>1, <1>2
    <3>3. new \o Tail(q) = a \o q
      BY <1>1, SentOn
    <3> HIDE DEF new, a, q
    <3>4. /\ srv' \in SrvType /\ srv'.open = srv.open /\ srv'.rings = srv.rings /\ srv'.handle = srv.handle
          /\ srv'.in = new /\ srv'.out = srv.out
      BY <1>2, <3>1, <3>2, SetIn
    <3>5. TypeOK' /\ Offline' /\ HandleFresh' /\ AnswersFresh'
      BY <1>2, <1>4, <3>4 DEF IInv, TypeOK, CallType, SrvType, Offline, HandleFresh, AnswersFresh
    <3>6. Informed'
      BY <1>2, <1>4, <2>1, <3>3, <3>4 DEF IInv, Informed, a, q
    <3> QED BY <1>5, <3>5, <3>6 DEF IInv
  <2>2. CASE ~(ctx.fd /\ srv.open)
    <3>1. srv' = srv
      BY <1>7, <2>2 DEF Send, writev_retry
    <3>2. TypeOK' /\ Offline' /\ HandleFresh' /\ AnswersFresh' /\ Informed'
      BY <1>2, <1>4, <2>2, <3>1 DEF IInv, TypeOK, CallType, Offline, HandleFresh, AnswersFresh, Informed
    <3> QED BY <1>5, <3>2 DEF IInv
  <2> QED BY <2>1, <2>2
<1> QED BY <1>6, <1>7

\* Steps that send nothing, and change no ring.
LEMMA CallStepsInv ==
  ASSUME IInv, Timeout \/ TimeoutEarly \/ Return \/ udebug_fd_cb \/ (PollEnds /\ srv.open)
  PROVE  IInv'
<1>1. UNCHANGED <<local, srv>> /\ call \in CallType /\ ctx \in Ctx
  BY DEF IInv, TypeOK, CallType, Ctx, Timeout, TimeoutEarly, Return, udebug_fd_cb, PollEnds
<1>2. ctx' \in Ctx /\ ctx'.fd = ctx.fd /\ ctx'.handle = ctx.handle /\ ctx'.kept = ctx.kept
  <2> DEFINE g == ctx.registered \/ ctx.fd
  <2>1. ctx' = ctx \/ ctx' = [ctx EXCEPT !.registered = g]
    BY DEF Timeout, TimeoutEarly, Return, udebug_fd_cb, PollEnds
  <2>2. g \in BOOLEAN
    BY <1>1 DEF Ctx
  <2> HIDE DEF g
  <2>3. CASE ctx' = [ctx EXCEPT !.registered = g]
    BY <1>1, <2>2, <2>3 DEF Ctx
  <2> QED BY <1>1, <2>1, <2>3
<1>3. call' \in CallType /\ call'.todo = call.todo /\ (call'.op \in {"none", "poll"} => call'.todo = <<>> /\ call'.wait = NoReq)
  <2>1. CASE Timeout \/ TimeoutEarly
    <3>1. call' = [call EXCEPT !.todo = call.todo, !.wait = NoReq]
      BY <2>1 DEF Timeout, TimeoutEarly, Next_
    <3>2. call' \in CallType /\ call'.todo = call.todo /\ call'.op = call.op
      BY <1>1, <3>1 DEF CallType
    <3>3. call'.wait = NoReq
      BY <1>1, <3>1 DEF CallType
    <3> QED BY <3>2, <3>3 DEF IInv, CallOK
  <2>2. CASE Return \/ (PollEnds /\ srv.open)
    <3>1. call' = NoCall /\ call.todo = <<>>
      BY <2>2 DEF IInv, CallOK, Return, PollEnds
    <3> QED BY <3>1 DEF NoCall, CallType
  <2>3. CASE udebug_fd_cb
    <3>1. call' = Call("poll", <<>>) /\ call.todo = <<>>
      BY <2>3 DEF udebug_fd_cb, Readable, Free, NoCall
    <3> QED BY <3>1 DEF Call, CallType
  <2> QED BY <2>1, <2>2, <2>3
<1>4. TypeOK'
  BY <1>1, <1>2, <1>3 DEF IInv, TypeOK, Ctx, CallType
<1>5. Offline' /\ HandleFresh' /\ AnswersFresh'
  BY <1>1, <1>2 DEF IInv, Offline, HandleFresh, AnswersFresh
<1>6. CallOK' /\ Informed'
  BY <1>1, <1>2, <1>3 DEF IInv, CallOK, Informed
<1> QED BY <1>4, <1>5, <1>6 DEF IInv

\* A message is read.
LEMMA ReadInv ==
  ASSUME IInv, Skip \/ PollMessage \/ Answered
  PROVE  IInv'
<1> DEFINE o == srv.out
           t == Tail(o)
<1>1. /\ srv \in SrvType /\ call \in CallType /\ ctx \in Ctx /\ o \in Seq(Message) /\ o # <<>>
  BY DEF IInv, TypeOK, SrvType, CallType, Ctx, Skip, PollMessage, Answered
<1>2. srv' = [srv EXCEPT !.out = t] /\ local' = local
  BY DEF Skip, PollMessage, Answered, Received
<1>3. /\ t \in Seq(Message) /\ Head(o) \in Message /\ Head(o) = o[1] /\ Len(o) \in Nat \ {0}
      /\ Len(t) = Len(o) - 1 /\ \A k \in 1..Len(t) : t[k] = o[k + 1]
  BY <1>1
<1> HIDE DEF t, o
<1>4. /\ srv' \in SrvType /\ srv'.open = srv.open /\ srv'.rings = srv.rings /\ srv'.handle = srv.handle
      /\ srv'.in = srv.in /\ srv'.out = t
  BY <1>1, <1>2, <1>3, SetOut
<1>5. AnswersFresh'
  <2>1. ASSUME srv.open, NEW k \in 1..Len(t), t[k].type = "HANDLE" PROVE t[k].handle = srv.handle
    <3>1. k + 1 \in 1..Len(o) /\ t[k] = o[k + 1]
      BY <1>3
    <3> QED BY <2>1, <3>1 DEF IInv, AnswersFresh, o
  <2> QED BY <1>4, <2>1 DEF AnswersFresh
<1>6. /\ call' \in CallType /\ call'.op = call.op /\ call'.todo = call.todo
      /\ (call'.wait = call.wait \/ call'.wait = NoReq)
  <2>1. call' = call \/ call' = [call EXCEPT !.todo = call.todo, !.wait = NoReq]
    BY DEF Skip, PollMessage, Answered, Next_
  <2>2. CASE call' = [call EXCEPT !.todo = call.todo, !.wait = NoReq]
    BY <1>1, <2>2 DEF CallType
  <2> QED BY <1>1, <2>1, <2>2
<1>7. /\ ctx' \in Ctx /\ ctx'.fd = ctx.fd /\ ctx'.kept = ctx.kept
      /\ \/ ctx'.handle = ctx.handle
         \/ ctx.fd /\ (srv.open => ctx'.handle = srv.handle)
  <2>1. CASE ctx' = ctx
    BY <1>1, <2>1
  <2>2. CASE ctx' # ctx
    <3>1. /\ Answered /\ ctx' = [ctx EXCEPT !.handle = Head(o).handle] /\ ctx.fd
          /\ Head(o).type = "HANDLE"
      BY <2>2 DEF Skip, PollMessage, Answered, o
    <3>2. srv.open => Head(o).handle = srv.handle
      BY <1>3, <3>1 DEF IInv, AnswersFresh, o
    <3>3. Head(o).handle \in Int
      BY <1>3 DEF Message
    <3> QED BY <1>1, <3>1, <3>2, <3>3 DEF Ctx
  <2> QED BY <2>1, <2>2
<1>8. TypeOK'
  BY <1>2, <1>4, <1>6, <1>7 DEF IInv, TypeOK, Ctx, CallType, SrvType
<1>9. Offline' /\ HandleFresh'
  BY <1>4, <1>7 DEF IInv, Offline, HandleFresh
<1>10. CallOK' /\ Informed'
  BY <1>2, <1>4, <1>6, <1>7 DEF IInv, CallOK, Informed
<1> QED BY <1>5, <1>8, <1>9, <1>10 DEF IInv

\* The server deals with a request.
LEMMA AnswersInv ==
  ASSUME IInv, ServerAnswers
  PROVE  IInv'
<1> DEFINE a == srv.in
           q == call.todo
           req == Head(a)
<1>1. /\ srv \in SrvType /\ a \in Seq(Request) /\ a # <<>> /\ q \in Seq(Request) /\ req \in Request
      /\ srv.out \in Seq(Message) /\ srv.handle \in Int /\ UNCHANGED <<ctx, local, call>>
  BY DEF IInv, TypeOK, SrvType, ServerAnswers
<1>2. \E msg \in Message :
        /\ msg.type = "HANDLE" => msg.handle = srv.handle
        /\ \/ req.type = "ADD" /\ srv' = [Reply(msg) EXCEPT !.rings = @ \cup {req.ring}]
           \/ req.type = "REMOVE" /\ srv' = [Reply(msg) EXCEPT !.rings = @ \ {req.ring}]
           \/ req.type \in {"HANDLE", "GET"} /\ srv' = Reply(msg)
  <2> DEFINE reply == [type |-> req.type, ring |-> req.ring, handle |-> srv.handle]
  <2>1. req.type \in {"ADD", "REMOVE", "HANDLE", "GET"} /\ req.ring \in Local \cup Remote
    BY <1>1 DEF Request, RingReq
  <2>2. reply \in Message /\ reply.handle = srv.handle
    BY <1>1, <2>1 DEF Message
  <2>3. \A type \in {"GET", "ERROR"} :
           [reply EXCEPT !.type = type] \in Message /\ [reply EXCEPT !.type = type].handle = srv.handle
    BY <1>1, <2>1 DEF Message
  <2>4. CASE req.type = "ADD"
    <3>1. srv' = [Reply(reply) EXCEPT !.rings = @ \cup {req.ring}]
      BY <2>4 DEF ServerAnswers
    <3> QED BY <2>2, <2>4, <3>1
  <2>5. CASE req.type = "REMOVE"
    <3>1. srv' = [Reply(reply) EXCEPT !.rings = @ \ {req.ring}]
      BY <2>5 DEF ServerAnswers
    <3> QED BY <2>2, <2>5, <3>1
  <2>6. CASE req.type = "HANDLE"
    <3>1. srv' = Reply(reply)
      BY <2>6 DEF ServerAnswers
    <3> QED BY <2>2, <2>6, <3>1
  <2>7. CASE req.type = "GET"
    <3>1. \E type \in {"GET", "ERROR"} : srv' = Reply([reply EXCEPT !.type = type])
      BY <2>7 DEF ServerAnswers
    <3> QED BY <2>3, <2>7, <3>1
  <2> QED BY <2>1, <2>4, <2>5, <2>6, <2>7
<1>3. PICK msg \in Message :
        /\ msg.type = "HANDLE" => msg.handle = srv.handle
        /\ \/ req.type = "ADD" /\ srv' = [Reply(msg) EXCEPT !.rings = @ \cup {req.ring}]
           \/ req.type = "REMOVE" /\ srv' = [Reply(msg) EXCEPT !.rings = @ \ {req.ring}]
           \/ req.type \in {"HANDLE", "GET"} /\ srv' = Reply(msg)
  BY <1>2
<1> DEFINE t == Tail(a)
           o == Append(srv.out, msg)
           s == [srv EXCEPT !.in = t]
           u == [s EXCEPT !.out = o]
           rings == IF req.type = "ADD" THEN srv.rings \cup {req.ring}
                    ELSE IF req.type = "REMOVE" THEN srv.rings \ {req.ring} ELSE srv.rings
<1>4. t \in Seq(Request) /\ o \in Seq(Message) /\ Len(srv.out) \in Nat /\ Len(o) = Len(srv.out) + 1
      /\ (\A k \in 1..Len(srv.out) : o[k] = srv.out[k]) /\ o[Len(srv.out) + 1] = msg
  BY <1>1
<1>5. Reply(msg) = [srv EXCEPT !.in = t, !.out = o]
  BY DEF Reply
<1> HIDE DEF t, o
<1>6. /\ s \in SrvType /\ s.open = srv.open /\ s.rings = srv.rings /\ s.handle = srv.handle
      /\ s.in = t /\ s.out = srv.out
  BY <1>1, <1>4, SetIn
<1> HIDE DEF s
<1>7. /\ u \in SrvType /\ u.open = srv.open /\ u.rings = srv.rings /\ u.handle = srv.handle
      /\ u.in = t /\ u.out = o
  BY <1>4, <1>6, SetOut
<1>8. Reply(msg) = u
  <2> DEFINE U == Seq(Request)
             V == Seq(Message)
             T == [up : BOOLEAN, open : BOOLEAN, rings : SUBSET Local, handle : Int, in : U, out : V]
  <2>1. srv \in T /\ t \in U /\ o \in V
    BY <1>1, <1>4 DEF SrvType
  <2> HIDE DEF U, V
  <2>2. [srv EXCEPT !.in = t, !.out = o] = [[srv EXCEPT !.in = t] EXCEPT !.out = o]
    BY <2>1
  <2> QED BY <1>5, <2>2 DEF s
<1> HIDE DEF u
<1>9. /\ srv' \in SrvType /\ srv'.open = srv.open /\ srv'.handle = srv.handle
      /\ srv'.in = t /\ srv'.out = o /\ srv'.rings = rings
  <2>1. req.type \in {"ADD", "REMOVE"} => req.ring \in Local
    BY <1>1 DEF Request, RingReq
  <2>2. rings \in SUBSET Local /\ (srv' = u \/ srv' = [u EXCEPT !.rings = rings]) /\ (srv' = u => rings = srv.rings \/ srv' = [u EXCEPT !.rings = rings])
    BY <1>3, <1>7, <1>8, <2>1 DEF SrvType
  <2> DEFINE U == Seq(Request)
             V == Seq(Message)
             T == [up : BOOLEAN, open : BOOLEAN, rings : SUBSET Local, handle : Int, in : U, out : V]
  <2>3. SrvType = T
    BY DEF SrvType
  <2> HIDE DEF U, V, rings
  <2> QED BY <1>7, <2>2, <2>3
<1> HIDE DEF rings, a, q
<1>10. TypeOK'
  BY <1>1, <1>9 DEF IInv, TypeOK, SrvType
<1>11. Offline' /\ HandleFresh' /\ CallOK'
  BY <1>1, <1>9 DEF IInv, Offline, HandleFresh, CallOK
<1>12. AnswersFresh'
  <2>1. ASSUME srv.open, NEW k \in 1..Len(o), o[k].type = "HANDLE" PROVE o[k].handle = srv.handle
    BY <1>3, <1>4, <2>1 DEF IInv, AnswersFresh
  <2> QED BY <1>9, <2>1 DEF AnswersFresh
<1>13. ASSUME ctx.fd, srv.open, NEW b \in Local
       PROVE  Settled(t \o q, rings, b, IsIn(b, local))
  <2> DEFINE old == a \o q
             new == t \o q
             islocal == IsIn(b, local)
  <2>1. Gap(old, new, 1) /\ old[1] = req
    BY <1>1, HeadGap DEF t
  <2>2. Settled(old, srv.rings, b, islocal) /\ islocal \in BOOLEAN
    BY <1>13 DEF IInv, Informed, IsIn, a, q
  <2>3. About(old[1], b) => (b \in rings <=> old[1].type = "ADD")
    BY <2>1 DEF About, rings
  <2>4. ~About(old[1], b) => (b \in rings <=> b \in srv.rings)
    BY <2>1 DEF About, rings
  <2> HIDE DEF old, new, islocal
  <2>5. Settled(new, rings, b, islocal)
    BY <2>1, <2>2, <2>3, <2>4, Removed
  <2> QED BY <2>5 DEF new, islocal
<1>14. Informed'
  BY <1>1, <1>9, <1>13 DEF Informed, q
<1> QED BY <1>10, <1>11, <1>12, <1>14 DEF IInv

\* An entry in a ring of another client; the server goes away or comes back.
LEMMA EnvironmentInv ==
  ASSUME IInv, ServerGone \/ ServerBack \/ \E r \in Remote : RemoteEntry(r)
  PROVE  IInv'
<1>1. UNCHANGED <<ctx, local, call>> /\ srv \in SrvType
  BY DEF IInv, TypeOK, SrvType, ServerGone, ServerBack, RemoteEntry
<1>2. CASE ServerGone
  <2>1. srv' = [up |-> FALSE, open |-> FALSE, rings |-> {}, handle |-> -1, in |-> <<>>, out |-> srv.out]
    BY <1>2 DEF ServerGone, Gone
  <2>2. srv' \in SrvType /\ ~srv'.open
    BY <1>1, <2>1 DEF SrvType
  <2> QED BY <1>1, <2>2 DEF IInv, TypeOK, SrvType, Offline, HandleFresh, AnswersFresh, CallOK, Informed
<1>3. CASE ServerBack
  <2>1. srv' = [srv EXCEPT !.up = TRUE]
    BY <1>3 DEF ServerBack
  <2>2. /\ srv' \in SrvType /\ srv'.open = srv.open /\ srv'.rings = srv.rings /\ srv'.handle = srv.handle
        /\ srv'.in = srv.in /\ srv'.out = srv.out
    BY <1>1, <2>1 DEF SrvType
  <2> QED BY <1>1, <2>2 DEF IInv, TypeOK, SrvType, Offline, HandleFresh, AnswersFresh, CallOK, Informed
<1>4. CASE \E r \in Remote : RemoteEntry(r)
  <2>1. PICK r \in Remote : RemoteEntry(r)
    BY <1>4
  <2>2. CASE srv' = srv
    BY <1>1, <2>2 DEF IInv, TypeOK, Offline, HandleFresh, AnswersFresh, CallOK, Informed
  <2>3. CASE srv' # srv
    <3> DEFINE msg == [type |-> "NOTIFY", ring |-> r, handle |-> -1]
               o == Append(srv.out, msg)
    <3>1. srv' = [srv EXCEPT !.out = o]
      BY <2>1, <2>3 DEF RemoteEntry
    <3>2. msg \in Message /\ msg.type = "NOTIFY"
      BY DEF Message
    <3> HIDE DEF msg
    <3>3. srv.out \in Seq(Message)
      BY <1>1 DEF SrvType
    <3>4. o \in Seq(Message) /\ Len(srv.out) \in Nat /\ Len(o) = Len(srv.out) + 1
          /\ (\A k \in 1..Len(srv.out) : o[k] = srv.out[k]) /\ o[Len(srv.out) + 1] = msg
      BY <3>2, <3>3
    <3> HIDE DEF o
    <3>5. /\ srv' \in SrvType /\ srv'.open = srv.open /\ srv'.rings = srv.rings /\ srv'.handle = srv.handle
          /\ srv'.in = srv.in /\ srv'.out = o
      BY <1>1, <3>1, <3>4, SetOut
    <3>6. AnswersFresh'
      <4>1. ASSUME srv.open, NEW k \in 1..Len(o), o[k].type = "HANDLE" PROVE o[k].handle = srv.handle
        BY <3>2, <3>4, <4>1 DEF IInv, AnswersFresh
      <4> QED BY <3>5, <4>1 DEF AnswersFresh
    <3>7. TypeOK' /\ Offline' /\ HandleFresh' /\ CallOK' /\ Informed'
      BY <1>1, <3>5 DEF IInv, TypeOK, SrvType, Offline, HandleFresh, CallOK, Informed
    <3> QED BY <3>6, <3>7 DEF IInv
  <2> QED BY <2>2, <2>3
<1> QED BY <1>2, <1>3, <1>4

-----------------------------------------------------------------------------
(* The theorems. *)

LEMMA InitInv ==
  ASSUME Init
  PROVE  IInv
<1>1. ctx = [fd |-> FALSE, registered |-> FALSE, handle |-> -1, auto |-> FALSE,
             timer |-> FALSE, freed |-> FALSE, kept |-> FALSE] /\ local = <<>> /\ call = NoCall
  BY DEF Init
<1>2. PICK up \in BOOLEAN : srv = Gone(up)
  BY DEF Init
<1>3. srv \in SrvType /\ ~srv.open
  BY <1>2 DEF SrvType, Gone
<1>4. call \in CallType /\ CallOK
  BY <1>1 DEF CallType, NoCall, CallOK
<1>5. local \in Seq(Local) /\ Distinct(local)
  BY <1>1 DEF Distinct
<1>6. ctx \in Ctx /\ Offline
  BY <1>1 DEF Ctx, Offline
<1> QED BY <1>3, <1>4, <1>5, <1>6 DEF IInv, TypeOK, Ctx, CallType, SrvType, HandleFresh, AnswersFresh, Informed

LEMMA NextInv ==
  ASSUME IInv, [Next]_vars
  PROVE  IInv'
<1>1. CASE udebug_auto_connect \/ ConnectByHand \/ TimerFires
  BY <1>1, ConnectsInv, ConnectionAssumption
<1>2. CASE udebug_free \/ Hangup \/ Eof
  BY <1>2, OfflineInv
<1>3. CASE \E b \in Local : udebug_buf_add(b) \/ udebug_buf_free(b)
  BY <1>3, LocalRingsInv
<1>4. CASE \/ \E r \in Remote : udebug_remote_buf_map(r) \/ udebug_remote_buf_unmap(r)
           \/ \E r \in Remote, val \in BOOLEAN : udebug_remote_buf_set_poll(r, val)
  BY <1>4, RemoteRingsInv
<1>5. CASE HaveHandle \/ Send
  BY <1>5, TodoInv
<1>6. CASE Skip \/ PollMessage \/ Answered
  BY <1>6, ReadInv
<1>7. CASE Timeout \/ TimeoutEarly \/ Return \/ udebug_fd_cb
  BY <1>7, CallStepsInv
<1>8. CASE PollEnds
  BY <1>8, CallStepsInv, OfflineInv
<1>9. CASE ServerAnswers
  BY <1>9, AnswersInv
<1>10. CASE ServerGone \/ ServerBack \/ \E r \in Remote : RemoteEntry(r)
  BY <1>10, EnvironmentInv
<1>11. CASE UNCHANGED vars
  BY <1>11 DEF vars, IInv, TypeOK, Offline, HandleFresh, AnswersFresh, CallOK, Informed
<1> QED
  BY <1>1, <1>2, <1>3, <1>4, <1>5, <1>6, <1>7, <1>8, <1>9, <1>10, <1>11
  DEF Next, Api, Running, Uloop, Environment

LEMMA Inductive == Spec => []IInv
<1>1. Init => IInv
  BY InitInv
<1>2. IInv /\ [Next]_vars => IInv'
  BY NextInv
<1> QED BY <1>1, <1>2, PTL DEF Spec

\* However often the server goes away and comes back, however many requests
\* time out and however late their answers are: once all that the client sent
\* has been dealt with, the server knows exactly the client's rings
\* (udebug_connect, __udebug_buf_add, udebug_buf_free).
THEOREM ServerKnowsRings == Spec => []ServerKnows
<1>1. IInv => ServerKnows
  <2> SUFFICES ASSUME IInv, ctx.fd, srv.open, call = NoCall, srv.in = <<>> PROVE srv.rings = Range(local)
    BY DEF ServerKnows
  <2>1. srv.in \o call.todo = <<>>
    BY DEF NoCall
  <2>2. \A b \in Local : Settled(<<>>, srv.rings, b, IsIn(b, local))
    BY <2>1 DEF IInv, Informed
  <2>3. \A b \in Local : b \in srv.rings <=> IsIn(b, local)
    BY <2>2 DEF Settled
  <2>4. srv.rings \subseteq Local /\ local \in Seq(Local)
    BY DEF IInv, TypeOK
  <2>5. \A b : b \in Range(local) <=> IsIn(b, local)
    BY <2>4 DEF Range, IsIn
  <2>6. Range(local) \subseteq Local
    BY <2>4 DEF Range
  <2> QED BY <2>3, <2>4, <2>5, <2>6
<1> QED BY <1>1, Inductive, PTL

\* A client that is connected does not use a poll handle of an earlier
\* connection, late answers included, if that connection ended in
\* __udebug_disconnect (udebug_recv_msg, udebug_fd_cb); the handle of one that
\* udebug_connect closed stays, and the theorem says so with ctx.kept.
THEOREM HandleIsFresh == Spec => []HandleFresh
<1>1. IInv => HandleFresh
  BY DEF IInv
<1> QED BY <1>1, Inductive, PTL
=============================================================================
