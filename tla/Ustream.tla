------------------------------ MODULE Ustream -------------------------------
(***************************************************************************)
(* ustream.c over ustream-fd.c: one stream on an edge-triggered descriptor *)
(* of uloop, the socket below it, and the client above it.                 *)
(*                                                                         *)
(* uloop does not enter the callback of the descriptor twice, and keeps    *)
(* what it fetches meanwhile (module UloopEvents): here an event stays     *)
(* with the kernel until the callback has returned.                        *)
(***************************************************************************)
EXTENDS UstreamBuffers, FiniteSets

CONSTANTS
  RLen, WLen,   \* buffer_len of the read side and of the write side
  RMin, RMax,   \* min_buffers and max_buffers
  WMin, WMax,
  MaxIn,        \* bytes the receive queue of the socket holds
  MaxOut,       \* bytes its send queue holds
  WriteLens,    \* lengths the client writes
  RMod, WMod,   \* bytes of each side are numbered modulo this
  MaxFrames     \* bound: frames below a call of ustream_poll

ASSUME StreamAssumption ==
  /\ {RLen, WLen} \subseteq Nat \ {0}
  /\ {RMin, WMin, MaxIn, MaxOut, MaxFrames} \subseteq Nat
  /\ {RMax, WMax} \subseteq Int
  /\ WriteLens \subseteq Nat \ {0}
  /\ {RMod, WMod} \subseteq Nat \ {0} /\ RMax * RLen < RMod /\ WMax * WLen < WMod

VARIABLES
  inq, peer, room,          \* socket: bytes to read, the other end, space to write
  interest, armed, error,   \* epoll: events asked for, an event is due; uloop_fd.error
  r, w,                     \* the two buffer lists
  blocked,                  \* read_blocked
  eof, write_error,
  pending_cb,               \* CB_PENDING_READ
  timer,                    \* state_change is pending
  alive,                    \* between ustream_fd_init and ustream_free
  stack,                    \* the call stack, outermost first
  got, taken,               \* history: bytes read, bytes the client consumed
  put, sent,                \* history: bytes accepted, bytes written
  news                      \* history: a change of state was not notified

socket == <<inq, peer, room>>
epoll == <<interest, armed, error>>
flags == <<eof, write_error, pending_cb, timer, alive>>
history == <<got, taken, put, sent, news>>
vars == <<socket, epoll, r, w, blocked, flags, stack, history>>

-----------------------------------------------------------------------------
(***************************************************************************)
(* A frame is a call of __ustream_fd_poll, by the point it has reached,    *)
(* with the events it was given and, behind ustream_write_pending, what    *)
(* was written; or a callback of the client.                               *)
(***************************************************************************)
PollAt(at, events, wr) == [at |-> at, events |-> events, wr |-> wr]
Callback(name) == [at |-> name, events |-> {}, wr |-> 0]
Callbacks == {"notify_read", "notify_write", "notify_state"}

At(point) == stack # <<>> /\ Last(stack).at = point
Goto(point) == stack' = Append(Front(stack), [Last(stack) EXCEPT !.at = point])
InClient == stack # <<>> => Last(stack).at \in Callbacks

Bytes(from, n, mod) == [i \in 1..n |-> (from + i - 1) % mod]
Least(a, b) == IF a < b THEN a ELSE b

\* What epoll would report of the socket, errors apart.
Ready == {e \in {"read", "write"} :
            IF e = "read" THEN inq > 0 \/ peer # "open" ELSE room > 0 \/ peer = "reset"}

\* uloop_fd_add and, without events, uloop_fd_delete: EPOLL_CTL_ADD and
\* EPOLL_CTL_MOD report again what is there.
Register(events) ==
  /\ interest' = events
  /\ armed' = (events # {} /\ (events \cap Ready' # {} \/ peer' = "reset"))
  /\ error' = (error /\ events = {})

\* Mutant: buffered data is forgotten unless the caller asks for write events.
ustream_fd_set_uloop_Forget(write) ==
  Register((IF blocked' = {} /\ ~eof' THEN {"read"} ELSE {})
             \cup (IF write THEN {"write"} ELSE {}))

\* ustream_fd_set_uloop, with the values its caller has assigned.
ustream_fd_set_uloop(write) ==
  Register((IF blocked' = {} /\ ~eof' THEN {"read"} ELSE {})
             \cup (IF write \/ (w'.bufs # <<>> /\ w'.data_bytes > 0 /\ ~write_error')
                   THEN {"write"} ELSE {}))

\* __ustream_set_read_blocked: the descriptor is told of changes only.
set_read_blocked(val) ==
  /\ blocked' = val
  /\ IF (blocked = {}) # (val = {})
     THEN ustream_fd_set_uloop(FALSE) ELSE UNCHANGED epoll

-----------------------------------------------------------------------------
(* The kernel. *)

Arrive ==
  /\ alive /\ peer = "open" /\ inq < MaxIn
  /\ inq' = inq + 1
  /\ armed' = (armed \/ "read" \in interest)
  /\ UNCHANGED <<peer, room, interest, error, r, w, blocked, flags, stack, history>>

\* The other end has sent all it will.
Close ==
  /\ alive /\ peer = "open"
  /\ peer' = "closed"
  /\ armed' = (armed \/ "read" \in interest)
  /\ UNCHANGED <<inq, room, interest, error, r, w, blocked, flags, stack, history>>

\* The connection breaks.
Reset ==
  /\ alive /\ peer # "reset"
  /\ peer' = "reset" /\ inq' = 0
  /\ armed' = (interest # {})
  /\ UNCHANGED <<room, interest, error, r, w, blocked, flags, stack, history>>

\* The other end takes a byte.
Drain ==
  /\ alive /\ room < MaxOut /\ peer # "reset"
  /\ room' = room + 1
  /\ armed' = (armed \/ "write" \in interest)
  /\ UNCHANGED <<inq, peer, interest, error, r, w, blocked, flags, stack, history>>

-----------------------------------------------------------------------------
(* __ustream_fd_poll. *)

\* uloop calls ustream_uloop_cb for an event.
ustream_uloop_cb ==
  /\ stack = <<>> /\ armed
  /\ armed' = FALSE
  /\ error' = (error \/ peer = "reset")
  /\ LET events == interest \cap Ready
     IN  stack' = <<PollAt(IF "read" \in events THEN "read" ELSE "write", events, 0)>>
  /\ UNCHANGED <<socket, interest, r, w, blocked, flags, history>>

\* ustream_fd_read_pending, one turn: reading is blocked.
ReadBlocked ==
  /\ At("read") /\ blocked # {}
  /\ Goto("write")
  /\ UNCHANGED <<socket, epoll, r, w, blocked, flags, history>>

Reserved == ustream_prepare_buf(r, RMax, 1)

\* ustream_reserve finds no space.
ReadFull ==
  /\ At("read") /\ blocked = {} /\ ~Reserved.ok
  /\ r' = Reserved.l
  /\ Goto("write")
  /\ UNCHANGED <<socket, w, flags, history>>
  /\ set_read_blocked({"full"})

\* read returns data; ustream_fill_read calls notify_read unless it is running.
ReadData ==
  /\ At("read") /\ blocked = {} /\ Reserved.ok /\ inq > 0
  /\ LET n == Least(inq, Fillable(Reserved.l))
     IN  /\ inq' = inq - n
         /\ r' = Filled(Reserved.l, Bytes(got, n, RMod))
         /\ got' = (got + n) % RMod
  /\ pending_cb' = TRUE
  /\ stack' = IF pending_cb THEN stack ELSE Append(stack, Callback("notify_read"))
  /\ UNCHANGED <<peer, room, epoll, w, blocked, eof, write_error, timer, alive,
                 taken, put, sent, news>>

\* read returns EAGAIN.
ReadNothing ==
  /\ At("read") /\ blocked = {} /\ Reserved.ok /\ inq = 0 /\ peer = "open"
  /\ r' = Reserved.l
  /\ Goto("write")
  /\ UNCHANGED <<socket, epoll, w, blocked, flags, history>>

\* read returns 0 or an error.
ReadEof ==
  /\ At("read") /\ blocked = {} /\ Reserved.ok /\ inq = 0 /\ peer # "open"
  /\ r' = Reserved.l
  /\ timer' = (timer \/ ~eof)
  /\ news' = (news \/ ~eof)
  /\ eof' = TRUE
  /\ Goto("write")
  /\ UNCHANGED <<socket, w, blocked, write_error, pending_cb, alive, got, taken, put, sent>>
  /\ ustream_fd_set_uloop(FALSE)

\* The frame goes on with no write event, or after an earlier write error.
SkipWrite ==
  /\ At("write") /\ ("write" \notin Last(stack).events \/ write_error)
  /\ Goto("error")
  /\ UNCHANGED <<socket, epoll, r, w, blocked, flags, history>>

\* ustream_write_pending stops at an empty buffer.
Writable ==
  LET n == CHOOSE n \in 0..Len(w.bufs) :
             /\ \A i \in 1..n : w.bufs[i].bytes # <<>>
             /\ n < Len(w.bufs) => w.bufs[n + 1].bytes = <<>>
  IN  BytesIn(w.bufs, n)

ToNotifyWrite(wr) ==
  stack' = Front(stack) \o <<[Last(stack) EXCEPT !.at = "written", !.wr = wr],
                            Callback("notify_write")>>

\* ustream_write_pending: what the socket takes is written; if it does not take
\* all, ustream_fd_write asks for another write event.
WritePending ==
  /\ At("write") /\ "write" \in Last(stack).events /\ ~write_error
  /\ peer # "reset" \/ w.data_bytes = 0
  /\ LET n == Least(room, Writable)
     IN  /\ room' = room - n
         /\ w' = Removed(w, WMin, n)
         /\ sent' = (sent + n) % WMod
         /\ news' = (news \/ (eof /\ n > 0 /\ n = w.data_bytes))
         /\ ToNotifyWrite(n)
         /\ UNCHANGED <<inq, peer, r, blocked, flags, got, taken, put>>
         /\ IF n < Writable THEN ustream_fd_set_uloop(TRUE) ELSE UNCHANGED epoll

\* write fails.
WriteError ==
  /\ At("write") /\ "write" \in Last(stack).events /\ ~write_error
  /\ peer = "reset" /\ w.data_bytes > 0
  /\ write_error' = TRUE /\ timer' = TRUE /\ news' = TRUE
  /\ ToNotifyWrite(0)
  /\ UNCHANGED <<socket, epoll, r, w, blocked, eof, pending_cb, alive, got, taken, put, sent>>

\* Mutant: no second call of notify_state.
StateChange_Once == FALSE

\* The buffers were emptied after the end of input.
StateChange == eof /\ Last(stack).wr > 0 /\ w.data_bytes = 0

\* The end of ustream_write_pending, after notify_write: a change of state if the
\* buffers were emptied after the end of input, and no more write events.
WriteDone ==
  /\ At("written")
  /\ timer' = (timer \/ StateChange)
  /\ Goto("error")
  /\ UNCHANGED <<socket, r, w, blocked, eof, write_error, pending_cb, alive, history>>
  /\ IF w.data_bytes = 0 THEN ustream_fd_set_uloop(FALSE) ELSE UNCHANGED epoll

\* uloop has seen an error, and nothing was written since.
PollDone ==
  /\ At("error")
  /\ stack' = Front(stack)
  /\ UNCHANGED <<socket, r, w, blocked, eof, pending_cb, alive, got, taken, put, sent>>
  /\ IF error /\ ~write_error
     THEN timer' = TRUE /\ write_error' = TRUE /\ news' = TRUE /\ ustream_fd_set_uloop(FALSE)
     ELSE UNCHANGED <<timer, write_error, news, epoll>>

-----------------------------------------------------------------------------
(* Callbacks of the client. *)

NotifyReadReturn ==
  /\ At("notify_read")
  /\ pending_cb' = FALSE
  /\ stack' = Front(stack)
  /\ UNCHANGED <<socket, epoll, r, w, blocked, eof, write_error, timer, alive, history>>

NotifyReturn ==
  /\ At("notify_write") \/ At("notify_state")
  /\ stack' = Front(stack)
  /\ UNCHANGED <<socket, epoll, r, w, blocked, flags, history>>

\* The timer: after an error the write buffers go, and the client is told.
ustream_state_change_cb ==
  /\ stack = <<>> /\ timer
  /\ timer' = FALSE
  /\ w' = IF write_error THEN ustream_free_buffers(w) ELSE w
  /\ news' = FALSE
  /\ stack' = <<Callback("notify_state")>>
  /\ UNCHANGED <<socket, epoll, r, blocked, eof, write_error, pending_cb, alive,
                 got, taken, put, sent>>

-----------------------------------------------------------------------------
(* Calls of the client. *)

\* Consuming anything makes room.
Unfull(len) == blocked \ {"full"}

\* ustream_consume; ustream_read is a sequence of these.
ustream_consume(len) ==
  /\ alive /\ InClient
  /\ r' = Removed(r, RMin, len)
  /\ taken' = (taken + len) % RMod
  /\ UNCHANGED <<socket, w, flags, stack, got, put, sent, news>>
  /\ set_read_blocked(Unfull(len))

ustream_set_read_blocked(set) ==
  /\ alive /\ InClient
  /\ UNCHANGED <<socket, r, w, flags, stack, history>>
  /\ set_read_blocked((blocked \ {"user"}) \cup (IF set THEN {"user"} ELSE {}))

\* data is put behind what is buffered; the buffers are not empty any more.
Buffer(l, n, from) ==
  LET b == ustream_write_buffered(l, WMax, Bytes(from, n, WMod))
  IN  /\ w' = b.l
      /\ put' = (from + n - Len(b.rest)) % WMod
      /\ news' = (news /\ (timer \/ b.l.data_bytes = 0))

\* The write at once, with nothing buffered; the socket may not take all.
WriteDirect(n) ==
  /\ w.data_bytes = 0 /\ peer # "reset"
  /\ LET m == Least(room, n)
     IN  /\ room' = room - m
         /\ sent' = (sent + m) % WMod
         /\ UNCHANGED <<inq, peer, r, blocked, flags, stack, got, taken>>
         /\ IF m = n THEN put' = (put + n) % WMod /\ UNCHANGED <<w, epoll, news>>
            ELSE /\ Buffer(w, n - m, (put + m) % WMod)
                 /\ ustream_fd_set_uloop(TRUE)

WriteFails ==
  /\ w.data_bytes = 0 /\ peer = "reset"
  /\ write_error' = TRUE /\ timer' = TRUE /\ news' = TRUE
  /\ UNCHANGED <<socket, epoll, r, w, blocked, eof, pending_cb, alive, stack, got, taken, put, sent>>

\* A write behind buffered data.
WriteBehind(n) ==
  /\ w.data_bytes > 0
  /\ Buffer(w, n, put)
  /\ UNCHANGED <<socket, epoll, r, blocked, flags, stack, got, taken, sent>>

ustream_write(n) ==
  /\ alive /\ InClient /\ ~write_error
  /\ WriteDirect(n) \/ WriteFails \/ WriteBehind(n)

\* Text is formatted into the buffer, with one byte for its end, and what does
\* not fit is written behind it.
ustream_vprintf(n) ==
  /\ alive /\ InClient /\ ~write_error /\ w.data_bytes > 0
  /\ LET p == ustream_prepare_buf(w, WMax, 1)
         m == Least(n, Fillable(p.l) - 1)
     IN  IF p.ok THEN Buffer(Filled(p.l, Bytes(put, m, WMod)), n - m, (put + m) % WMod)
                 ELSE w' = p.l /\ UNCHANGED <<put, news>>
  /\ UNCHANGED <<socket, epoll, r, blocked, flags, stack, got, taken, sent>>

\* The client asks for data itself, also from a callback.
ustream_poll ==
  /\ alive /\ InClient /\ Len(stack) < MaxFrames
  /\ stack' = Append(stack, PollAt("read", {"read", "write"}, 0))
  /\ UNCHANGED <<socket, epoll, r, w, blocked, flags, history>>

\* Not from notify_read and notify_write, says ustream.h.
ustream_free ==
  /\ alive /\ (stack = <<>> \/ stack = <<Callback("notify_state")>>)
  /\ alive' = FALSE /\ timer' = FALSE
  /\ interest' = {} /\ armed' = FALSE
  /\ r' = ustream_free_buffers(r) /\ w' = ustream_free_buffers(w)
  /\ UNCHANGED <<socket, error, blocked, eof, write_error, pending_cb, stack, history>>

\* ustream_init_defaults, on a new socket.
ustream_fd_init ==
  /\ ~alive /\ stack = <<>>
  /\ alive' = TRUE
  /\ inq' = 0 /\ peer' = "open" /\ room' = MaxOut
  /\ r' = EmptyList(RLen) /\ w' = EmptyList(WLen)
  /\ blocked' = {} /\ eof' = FALSE /\ write_error' = FALSE
  /\ got' = 0 /\ taken' = 0 /\ put' = 0 /\ sent' = 0 /\ news' = FALSE
  /\ UNCHANGED <<pending_cb, timer, stack>>
  /\ ustream_fd_set_uloop(FALSE)

-----------------------------------------------------------------------------
Init ==
  /\ inq = 0 /\ peer = "open" /\ room = MaxOut
  /\ interest = {} /\ armed = FALSE /\ error = FALSE
  /\ r = EmptyList(RLen) /\ w = EmptyList(WLen)
  /\ blocked = {} /\ eof = FALSE /\ write_error = FALSE /\ pending_cb = FALSE
  /\ timer = FALSE /\ alive = FALSE /\ stack = <<>>
  /\ got = 0 /\ taken = 0 /\ put = 0 /\ sent = 0 /\ news = FALSE

Kernel == Arrive \/ Close \/ Reset \/ Drain

Poll ==
  \/ ustream_uloop_cb
  \/ ReadBlocked \/ ReadFull \/ ReadData \/ ReadNothing \/ ReadEof
  \/ SkipWrite \/ WritePending \/ WriteError \/ WriteDone \/ PollDone
  \/ NotifyReadReturn \/ NotifyReturn \/ ustream_state_change_cb

Client ==
  \/ \E len \in 1..r.data_bytes : ustream_consume(len)
  \/ \E set \in BOOLEAN : ustream_set_read_blocked(set)
  \/ \E n \in WriteLens : ustream_write(n) \/ ustream_vprintf(n)
  \/ ustream_poll \/ ustream_free \/ ustream_fd_init

Next == Kernel \/ Poll \/ Client

Spec == Init /\ [][Next]_vars

-----------------------------------------------------------------------------
(* Properties. *)

\* The write buffers hold what was accepted, until a write error drops them.
Writing == alive /\ ~write_error

\* The bytes between those read and those consumed are in the read buffers, and
\* those between accepted and written in the write buffers: each once, in
\* order, over moves inside a buffer, recycled buffers and nested calls.
InOrder ==
  /\ alive => /\ Content(r) = Bytes(taken, r.data_bytes, RMod)
              /\ got = (taken + r.data_bytes) % RMod
  /\ Writing => /\ Content(w) = Bytes(sent, w.data_bytes, WMod)
                /\ put = (sent + w.data_bytes) % WMod

\* Buffers with data come first, up to data_tail, which alone may be empty.
HeadFirst(l) ==
  LET used == {i \in 1..Len(l.bufs) : l.bufs[i].bytes # <<>>}
  IN  /\ \A i \in used : i <= l.dt
      /\ l.bufs # <<>> => used \cup {l.dt} = 1..l.dt

\* No tail is behind the end of its buffer, and data_tail is in the list
\* whenever there is one.
ListOK(l) ==
  /\ l.dt \in 0..Len(l.bufs) /\ (l.dt = 0 <=> l.bufs = <<>>)
  /\ \A i \in 1..Len(l.bufs) : l.bufs[i].data >= 0 /\ Space(l, l.bufs[i]) >= 0

Counted(l, max) == l.buffers = Len(l.bufs) /\ (max > 0 => l.buffers <= max)

\* If there is data its first byte is in the head buffer, where
\* ustream_get_read_buf and ustream_write_pending look, and no empty buffer is
\* before one with data: ustream_write_pending would stop there.  The count of
\* buffers is that of the list, and within the limit of the side.
BuffersOK ==
  /\ alive => ListOK(r) /\ HeadFirst(r) /\ Counted(r, RMax)
  /\ Writing => ListOK(w) /\ HeadFirst(w) /\ Counted(w, WMax)

\* With no call of the stream running, an edge-triggered descriptor has an event
\* due whenever there is something to read and reading is not blocked, or data
\* to write and the socket takes it: no sequence of blocking, filling, consuming
\* and writing loses the last edge.  Reading is blocked for want of space only
\* while there is none, and data is there to be consumed: otherwise nothing
\* would unblock it.
NoStall ==
  /\ stack = <<>> =>
       /\ alive /\ ~eof /\ blocked = {} /\ "read" \in Ready => armed
       /\ Writing /\ w.data_bytes > 0 /\ "write" \in Ready => armed
  /\ alive /\ "full" \in blocked => r.data_bytes > 0 /\ ~Reserved.ok

\* ustream.h: notify_state is called at the end of input and on a write error,
\* and "again after the write buffer has been emptied when the read side has hit
\* EOF": until then the timer is pending, or ustream_write_pending is running.
NewsIsDue ==
  alive /\ news => timer \/ \E i \in 1..Len(stack) : stack[i].at = "written"
=============================================================================
