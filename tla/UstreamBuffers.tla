--------------------------- MODULE UstreamBuffers ---------------------------
(***************************************************************************)
(* ustream.c: lists of buffers.                                            *)
(*                                                                         *)
(* A buffer has buffer_len bytes from head to end.  data is the offset of  *)
(* its first byte, bytes are the contents; tail is behind the last.  bufs  *)
(* is the list from head to tail, dt the index of data_tail or 0, the      *)
(* other fields are those of struct ustream_buf_list.                      *)
(***************************************************************************)
EXTENDS Integers, Sequences, SequencesExt

CONSTANT SmallData    \* 32 in ustream_should_move

ASSUME BuffersAssumption == SmallData \in Nat

EmptyBuf == [data |-> 0, bytes |-> <<>>]
EmptyList(len) ==
  [bufs |-> <<>>, dt |-> 0, data_bytes |-> 0, buffers |-> 0, buffer_len |-> len]

TailOf(b) == b.data + Len(b.bytes)
Space(l, b) == l.buffer_len - TailOf(b)

\* Space behind the data in data_tail.
Fillable(l) == Space(l, l.bufs[l.dt])

\* Bytes in the first n buffers.
BytesIn(bufs, n) ==
  LET sum[i \in 0..Len(bufs)] == IF i = 0 THEN 0 ELSE sum[i - 1] + Len(bufs[i].bytes)
  IN  sum[n]

Content(l) == FlattenSeq([i \in 1..Len(l.bufs) |-> l.bufs[i].bytes])

ustream_can_alloc(l, max) == max <= 0 \/ l.buffers < max

\* Mutant: the new buffer is the one to fill next.
ustream_add_buf_Next(l) ==
  [l EXCEPT !.bufs = Append(@, EmptyBuf), !.buffers = @ + 1, !.dt = Len(l.bufs) + 1]

\* The new buffer becomes data_tail only if there is none.
ustream_add_buf(l) ==
  [l EXCEPT !.bufs = Append(@, EmptyBuf),
            !.buffers = @ + 1,
            !.dt = IF @ = 0 THEN 1 ELSE @]

\* Mutant: a recycled buffer is not initialized.
ustream_free_buf_Dirty(l, min) ==
  LET rest == [l EXCEPT !.bufs = Tail(@), !.buffers = @ - 1,
                        !.dt = IF @ = 1 THEN (IF Len(l.bufs) > 1 THEN 1 ELSE 0) ELSE @ - 1]
      back == ustream_add_buf(rest)
  IN  IF rest.buffers >= min THEN rest
      ELSE [back EXCEPT !.bufs[Len(back.bufs)] = Head(l.bufs)]

\* The head of the list is freed, or goes to the end if there are too few.
ustream_free_buf(l, min) ==
  LET rest == [l EXCEPT !.bufs = Tail(@), !.buffers = @ - 1,
                        !.dt = IF @ = 1 THEN (IF Len(l.bufs) > 1 THEN 1 ELSE 0) ELSE @ - 1]
  IN  IF rest.buffers >= min THEN rest ELSE ustream_add_buf(rest)

ustream_free_buffers(l) == [l EXCEPT !.bufs = <<>>, !.dt = 0]

\* n buffers are freed.
FreeBufs(l, min, n) ==
  LET list[i \in 0..n] == IF i = 0 THEN l ELSE ustream_free_buf(list[i - 1], min)
  IN  list[n]

\* The loop of ustream_consume, and of ustream_write_pending for what was
\* written: whole buffers are freed, and data moves on in the next one.
Removed(l, min, len) ==
  LET Stop(n) == len = BytesIn(l.bufs, n)
                 \/ (n < Len(l.bufs) /\ len < BytesIn(l.bufs, n + 1))
      full == CHOOSE n \in 0..Len(l.bufs) : Stop(n) /\ \A m \in 0..(n - 1) : ~Stop(m)
      part == len - BytesIn(l.bufs, full)
      freed == FreeBufs([l EXCEPT !.data_bytes = @ - len], min, full)
  IN  IF len = 0 THEN l
      ELSE IF part = 0 THEN freed
      ELSE [freed EXCEPT !.bufs[1] = [data |-> @.data + part,
                                      bytes |-> SubSeq(@.bytes, part + 1, Len(@.bytes))]]

ustream_should_move(l, max, len) ==
  LET b == l.bufs[l.dt]
  IN  /\ b.data > 0
      /\ \/ b.data > l.buffer_len \div 2
         \/ Len(b.bytes) < SmallData /\ b.data > l.buffer_len \div 4
         \/ /\ l.dt = Len(l.bufs) /\ ~ustream_can_alloc(l, max)
            /\ Space(l, b) < len

\* memmove to the front of the buffer.
Moved(l, max, len) ==
  IF l.dt # 0 /\ ustream_should_move(l, max, len)
  THEN [l EXCEPT !.bufs[l.dt].data = 0] ELSE l

\* Space in data_tail, in the next buffer, or in a new one; alloc succeeds.
ustream_prepare_buf(l, max, len) ==
  LET m == Moved(l, max, len)
  IN  IF m.dt # 0 /\ Fillable(m) > 0 THEN [ok |-> TRUE, l |-> m]
      ELSE IF m.dt # 0 /\ m.dt < Len(m.bufs) THEN [ok |-> TRUE, l |-> [m EXCEPT !.dt = @ + 1]]
      ELSE IF ~ustream_can_alloc(m, max) THEN [ok |-> FALSE, l |-> m]
      ELSE LET a == ustream_add_buf(m)
           IN  [ok |-> TRUE, l |-> [a EXCEPT !.dt = Len(a.bufs)]]

\* Data behind the tail of data_tail.
Filled(l, data) ==
  [l EXCEPT !.bufs[l.dt].bytes = @ \o data, !.data_bytes = @ + Len(data)]

\* As much of data as there are buffers for; rest is what is left.
ustream_write_buffered(l, max, data) ==
  LET step[i \in 0..Len(data)] ==
        IF i = 0 THEN [l |-> l, rest |-> data]
        ELSE LET s == step[i - 1]
                 p == ustream_prepare_buf(s.l, max, Len(s.rest))
                 space == Fillable(p.l)
                 n == IF space < Len(s.rest) THEN space ELSE Len(s.rest)
             IN  IF s.rest = <<>> THEN s
                 ELSE IF ~p.ok THEN [s EXCEPT !.l = p.l]
                 ELSE [l |-> Filled(p.l, SubSeq(s.rest, 1, n)),
                       rest |-> SubSeq(s.rest, n + 1, Len(s.rest))]
  IN  step[Len(data)]
=============================================================================
