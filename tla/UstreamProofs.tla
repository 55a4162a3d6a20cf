---------------------------- MODULE UstreamProofs ----------------------------
(***************************************************************************)
(* Proofs about Ustream: the bytes stay in order, the buffer lists are     *)
(* sound, an edge-triggered descriptor loses no event, and a change of     *)
(* state stays due, for every size and number of buffers.                  *)
(***************************************************************************)
EXTENDS Ustream, ListLemmas, FiniteSetTheorems

-----------------------------------------------------------------------------
(* The inductive invariant. *)

Buf == [data : Nat, bytes : Seq(Nat)]
List == [bufs : Seq(Buf), dt : Nat, data_bytes : Int, buffers : Int, buffer_len : Nat \ {0}]

\* c[i] is the number of bytes in the first i buffers.
Adds(bufs, c) ==
  /\ c \in [0..Len(bufs) -> Nat] /\ c[0] = 0
  /\ \A i \in 1..Len(bufs) : c[i] = c[i - 1] + Len(bufs[i].bytes)

Nth(from, n, mod) == (from + n) % mod

\* The bytes are numbered on from one buffer to the next.
Numbered(bufs, c, from, mod) ==
  \A i \in 1..Len(bufs) : \A j \in 1..Len(bufs[i].bytes) :
    bufs[i].bytes[j] = Nth(from, c[i - 1] + j - 1, mod)

\* Buffers before data_tail have data, and those behind it are as new.
Shape(bufs, dt, len) ==
  /\ dt \in 0..Len(bufs) /\ (dt = 0 <=> bufs = <<>>)
  /\ \A i \in 1..Len(bufs) :
       /\ bufs[i].data + Len(bufs[i].bytes) <= len
       /\ i < dt => bufs[i].bytes # <<>>
       /\ i > dt => bufs[i] = EmptyBuf

Sound(l, c, max, len, from, mod) ==
  /\ l \in List /\ l.buffer_len = len
  /\ Shape(l.bufs, l.dt, len)
  /\ Counted(l, max)
  /\ Adds(l.bufs, c)
  /\ Numbered(l.bufs, c, from, mod)

Sums(bufs) == [n \in 0..Len(bufs) |-> BytesIn(bufs, n)]

\* A list in use: data_bytes is the number of bytes in its buffers.
Good(l, max, len, from, mod) ==
  /\ Sound(l, Sums(l.bufs), max, len, from, mod)
  /\ l.data_bytes = BytesIn(l.bufs, Len(l.bufs))

Events == {"read", "write"}
Frame == [at : {"read", "write", "written", "error"} \cup Callbacks,
          events : SUBSET Events, wr : Nat]

SocketOK == inq \in Nat /\ peer \in {"open", "closed", "reset"} /\ room \in Nat
Polled == interest \in SUBSET Events /\ armed \in BOOLEAN /\ error \in BOOLEAN
FlagsOK ==
  /\ blocked \in SUBSET {"full", "user"}
  /\ eof \in BOOLEAN /\ write_error \in BOOLEAN /\ pending_cb \in BOOLEAN
  /\ timer \in BOOLEAN /\ alive \in BOOLEAN /\ news \in BOOLEAN
Numbers == got \in Nat /\ taken \in Nat /\ put \in Nat /\ sent \in Nat

TypeOK == SocketOK /\ Polled /\ FlagsOK /\ stack \in Seq(Frame) /\ Numbers

\* No call of a stream that is gone is running, except for notify_state.
Idle == ~alive => /\ ~timer /\ ~armed
                  /\ stack \in {<<>>, <<Callback("notify_state")>>}

ReadList == alive => /\ Good(r, RMax, RLen, taken, RMod)
                     /\ got = (taken + r.data_bytes) % RMod

WriteList == Writing => /\ Good(w, WMax, WLen, sent, WMod)
                        /\ put = (sent + w.data_bytes) % WMod

\* The descriptor waits for what the stream can use.
ReadInterest == alive => ("read" \in interest <=> blocked = {} /\ ~eof)
WriteInterest == Writing /\ w.data_bytes > 0 => "write" \in interest

\* What a running call is still going to do.
Reads(frame) == frame.at = "read"
Writes(frame) == frame.at \in {"read", "write"} /\ "write" \in frame.events
Tells(frame) == frame.at = "written" /\ frame.wr > 0

ReadRuns == \E i \in 1..Len(stack) : Reads(stack[i])
WriteRuns == \E i \in 1..Len(stack) : Writes(stack[i])
TellRuns == \E i \in 1..Len(stack) : Tells(stack[i])

\* An event is due, or a running call is going to see to it.
ReadDue == alive /\ ~eof /\ blocked = {} /\ "read" \in Ready => armed \/ ReadRuns
WriteDue == Writing /\ w.data_bytes > 0 /\ "write" \in Ready => armed \/ WriteRuns

FullIsFull == alive /\ "full" \in blocked => r.data_bytes > 0 /\ ~Reserved.ok

\* The call that emptied the buffers after the end of input is still running.
Emptied == eof /\ w.data_bytes = 0 /\ TellRuns

NewsDue == alive /\ news => timer \/ Emptied

IInv ==
  /\ TypeOK /\ Idle /\ ReadList /\ WriteList
  /\ ReadInterest /\ WriteInterest /\ ReadDue /\ WriteDue
  /\ FullIsFull /\ NewsDue

-----------------------------------------------------------------------------
(* Sums over the buffers. *)

Summing(bufs, m, f) ==
  f = [i \in 0..m |-> IF i = 0 THEN 0 ELSE f[i - 1] + Len(bufs[i].bytes)]

\* The recursive function of BytesIn exists.
LEMMA SumExists ==
  ASSUME NEW bufs, NEW n \in Nat
  PROVE  \E f : Summing(bufs, n, f)
<1> DEFINE T == {m \in Nat : \E f : Summing(bufs, m, f)}
<1>1. 0 \in T
  <2> DEFINE g == [i \in 0..0 |-> 0]
  <2>1. g = [i \in 0..0 |-> IF i = 0 THEN 0 ELSE g[i - 1] + Len(bufs[i].bytes)]
    OBVIOUS
  <2> QED BY <2>1 DEF Summing
<1>2. ASSUME NEW m \in Nat, m \in T PROVE m + 1 \in T
  <2>1. PICK f : Summing(bufs, m, f)
    BY <1>2
  <2> DEFINE g == [i \in 0..(m + 1) |-> IF i <= m THEN f[i] ELSE f[m] + Len(bufs[m + 1].bytes)]
  <2>2. g = [i \in 0..(m + 1) |-> IF i = 0 THEN 0 ELSE g[i - 1] + Len(bufs[i].bytes)]
    <3>1. ASSUME NEW i \in 0..(m + 1)
          PROVE  g[i] = IF i = 0 THEN 0 ELSE g[i - 1] + Len(bufs[i].bytes)
      BY <2>1 DEF Summing
    <3> QED BY <3>1
  <2> HIDE DEF g
  <2> QED BY <2>2, SMTT(30) DEF Summing
<1>3. Nat \subseteq T
  <2> HIDE DEF T
  <2> QED BY <1>1, <1>2, Induction
<1> QED BY <1>3

\* What BytesIn computes.
LEMMA SumsAdd ==
  ASSUME NEW bufs \in Seq(Buf)
  PROVE  Adds(bufs, Sums(bufs))
<1> DEFINE g == CHOOSE f : f = [i \in 0..Len(bufs) |->
                                  IF i = 0 THEN 0 ELSE f[i - 1] + Len(bufs[i].bytes)]
<1>0. Len(bufs) \in Nat /\ \A i \in 1..Len(bufs) : Len(bufs[i].bytes) \in Nat
  BY DEF Buf
<1>1. g = [i \in 0..Len(bufs) |-> IF i = 0 THEN 0 ELSE g[i - 1] + Len(bufs[i].bytes)]
  BY <1>0, SumExists DEF Summing
<1>2. \A n : BytesIn(bufs, n) = g[n]
  BY Zenon DEF BytesIn
<1> HIDE DEF g
<1>3. \A n \in 0..Len(bufs) : g[n] = IF n = 0 THEN 0 ELSE g[n - 1] + Len(bufs[n].bytes)
  BY <1>1
<1> DEFINE T == {n \in Nat : n <= Len(bufs) => g[n] \in Nat}
<1>4. Nat \subseteq T
  <2>1. 0 \in T
    BY <1>0, <1>3
  <2>2. \A n \in Nat : n \in T => n + 1 \in T
    BY <1>0, <1>3
  <2> HIDE DEF T
  <2> QED BY <2>1, <2>2, Induction
<1>5. \A n \in 0..Len(bufs) : g[n] \in Nat
  BY <1>0, <1>4
<1>6. Sums(bufs) \in [0..Len(bufs) -> Nat] /\ \A n \in 0..Len(bufs) : Sums(bufs)[n] = g[n]
  BY <1>2, <1>5 DEF Sums
<1> QED BY <1>0, <1>3, <1>6, SMTT(30) DEF Adds

\* There is one way to add up.
LEMMA OneSum ==
  ASSUME NEW bufs \in Seq(Buf), NEW c, Adds(bufs, c)
  PROVE  c = Sums(bufs)
<1> DEFINE d == Sums(bufs)
<1>1. Adds(bufs, d) /\ Len(bufs) \in Nat
  BY SumsAdd
<1> HIDE DEF d
<1> DEFINE T == {n \in Nat : n <= Len(bufs) => c[n] = d[n]}
<1>2. Nat \subseteq T
  <2>1. 0 \in T
    BY <1>1 DEF Adds
  <2>2. \A n \in Nat : n \in T => n + 1 \in T
    BY <1>1 DEF Adds
  <2> HIDE DEF T
  <2> QED BY <2>1, <2>2, Induction
<1>3. \A n \in 0..Len(bufs) : c[n] = d[n]
  BY <1>1, <1>2
<1>4. c = d
  BY <1>1, <1>3 DEF Adds
<1> QED BY <1>4 DEF d

\* The sums grow.
LEMMA SumsGrow ==
  ASSUME NEW bufs \in Seq(Buf), NEW c, Adds(bufs, c), NEW i \in 0..Len(bufs)
  PROVE  \A j \in i..Len(bufs) : c[i] <= c[j]
<1>0. Len(bufs) \in Nat /\ \A k \in 1..Len(bufs) : Len(bufs[k].bytes) \in Nat
  BY DEF Buf
<1> DEFINE T == {n \in Nat : i <= n /\ n <= Len(bufs) => c[i] <= c[n]}
<1>1. \A n \in Nat : n + 1 <= Len(bufs) =>
        c[n + 1] = c[n] + Len(bufs[n + 1].bytes) /\ c[n] \in Nat /\ Len(bufs[n + 1].bytes) \in Nat
  BY <1>0, SMTT(30) DEF Adds
<1>2. c[i] \in Nat
  BY DEF Adds
<1>3. Nat \subseteq T
  <2>1. 0 \in T
    BY <1>0, <1>2
  <2>2. ASSUME NEW n \in Nat, n \in T PROVE n + 1 \in T
    <3>1. CASE i <= n /\ n + 1 <= Len(bufs)
      BY <1>0, <1>1, <1>2, <2>2, <3>1
    <3>2. CASE i = n + 1
      BY <1>2, <3>2
    <3> QED BY <1>0, <3>1, <3>2
  <2> HIDE DEF T
  <2> QED BY <2>1, <2>2, Induction
<1> QED BY <1>0, <1>3

\* Nothing is behind data_tail.
LEMMA Flat ==
  ASSUME NEW bufs \in Seq(Buf), NEW c, Adds(bufs, c), NEW k \in 0..Len(bufs),
         \A i \in (k + 1)..Len(bufs) : bufs[i].bytes = <<>>
  PROVE  \A j \in k..Len(bufs) : c[j] = c[k]
<1>0. Len(bufs) \in Nat
  OBVIOUS
<1> DEFINE T == {n \in Nat : k <= n /\ n <= Len(bufs) => c[n] = c[k]}
<1>1. \A n \in Nat : k <= n /\ n + 1 <= Len(bufs) => c[n + 1] = c[n] /\ c[n] \in Nat
  BY <1>0, SMTT(30) DEF Adds
<1>3. Nat \subseteq T
  <2>1. 0 \in T
    BY <1>0
  <2>2. ASSUME NEW n \in Nat, n \in T PROVE n + 1 \in T
    <3>1. CASE k <= n /\ n + 1 <= Len(bufs)
      BY <1>0, <1>1, <2>2, <3>1
    <3>2. CASE k = n + 1
      BY <3>2
    <3> QED BY <1>0, <3>1, <3>2
  <2> HIDE DEF T
  <2> QED BY <2>1, <2>2, Induction
<1> QED BY <1>0, <1>3

\* data_bytes is the last of the sums.
LEMMA GoodSums ==
  ASSUME NEW l, NEW max, NEW len, NEW from, NEW mod
  PROVE  Good(l, max, len, from, mod)
           <=> \E c : Sound(l, c, max, len, from, mod) /\ l.data_bytes = c[Len(l.bufs)]
<1>1. ASSUME Good(l, max, len, from, mod)
      PROVE  /\ Sound(l, Sums(l.bufs), max, len, from, mod)
             /\ l.data_bytes = Sums(l.bufs)[Len(l.bufs)]
  <2>1. Len(l.bufs) \in Nat
    BY <1>1 DEF Good, Sound, List
  <2> QED BY <1>1, <2>1 DEF Good, Sums
<1>2. ASSUME NEW c, Sound(l, c, max, len, from, mod), l.data_bytes = c[Len(l.bufs)]
      PROVE  Good(l, max, len, from, mod)
  <2>1. l.bufs \in Seq(Buf) /\ Adds(l.bufs, c) /\ Len(l.bufs) \in Nat
    BY <1>2 DEF Sound, List
  <2>2. c = Sums(l.bufs)
    BY <2>1, OneSum
  <2>3. l.data_bytes = BytesIn(l.bufs, Len(l.bufs))
    BY <1>2, <2>1, <2>2 DEF Sums
  <2> QED BY <1>2, <2>2, <2>3 DEF Good
<1> QED BY <1>1, <1>2

\* A list as ustream_init_defaults leaves it.
LEMMA EmptyGood ==
  ASSUME NEW len \in Nat \ {0}, NEW max \in Int, NEW mod
  PROVE  Good(EmptyList(len), max, len, 0, mod)
<1> DEFINE l == EmptyList(len)
           c == [i \in 0..0 |-> 0]
<1>1. l \in List /\ l.bufs = <<>> /\ l.dt = 0 /\ l.buffers = 0 /\ l.buffer_len = len /\ l.data_bytes = 0
  BY DEF EmptyList, List
<1> HIDE DEF l
<1>2. Len(l.bufs) = 0
  BY <1>1
<1>3. Adds(l.bufs, c) /\ c[0] = 0
  BY <1>2 DEF Adds
<1>4. Shape(l.bufs, l.dt, len) /\ Counted(l, max) /\ Numbered(l.bufs, c, 0, mod)
  BY <1>1, <1>2 DEF Shape, Counted, Numbered
<1>5. Sound(l, c, max, len, 0, mod) /\ l.data_bytes = c[Len(l.bufs)]
  BY <1>1, <1>2, <1>3, <1>4 DEF Sound
<1>6. \E d : Sound(l, d, max, len, 0, mod) /\ l.data_bytes = d[Len(l.bufs)]
  BY <1>5
<1> QED BY <1>6, GoodSums DEF l

-----------------------------------------------------------------------------
(* Space for data. *)

\* What a buffer has.
LEMMA BufFields ==
  ASSUME NEW b \in Buf
  PROVE  b.data \in Nat /\ b.bytes \in Seq(Nat) /\ Len(b.bytes) \in Nat
BY DEF Buf

\* One element of a sequence is replaced.
LEMMA ElementReplaced ==
  ASSUME NEW S, NEW q \in Seq(S), NEW k \in 1..Len(q), NEW x \in S
  PROVE  /\ [q EXCEPT ![k] = x] \in Seq(S)
         /\ Len([q EXCEPT ![k] = x]) = Len(q)
         /\ [q EXCEPT ![k] = x][k] = x
         /\ \A i \in 1..Len(q) : i # k => [q EXCEPT ![k] = x][i] = q[i]
OBVIOUS

\* memmove changes no contents.
LEMMA MovedSound ==
  ASSUME NEW l, NEW c, NEW max, NEW len \in Nat \ {0}, NEW from, NEW mod, NEW n,
         Sound(l, c, max, len, from, mod)
  PROVE  /\ Sound(Moved(l, max, n), c, max, len, from, mod)
         /\ Moved(l, max, n).dt = l.dt
         /\ Moved(l, max, n).data_bytes = l.data_bytes
         /\ Moved(l, max, n).buffers = l.buffers
         /\ Len(Moved(l, max, n).bufs) = Len(l.bufs)
<1> DEFINE m == Moved(l, max, n)
<1>0. /\ l \in List /\ l.bufs \in Seq(Buf) /\ Len(l.bufs) \in Nat /\ l.buffer_len = len
      /\ Shape(l.bufs, l.dt, len) /\ Counted(l, max) /\ Adds(l.bufs, c)
      /\ Numbered(l.bufs, c, from, mod)
  BY DEF Sound, List
<1>1. CASE m = l
  BY <1>0, <1>1
<1>2. CASE m # l
  <2>1. m = [l EXCEPT !.bufs[l.dt].data = 0] /\ l.dt # 0
    BY <1>2 DEF Moved
  <2>2. l.dt \in 1..Len(l.bufs)
    BY <1>0, <2>1 DEF Shape
  <2> DEFINE x == [l.bufs[l.dt] EXCEPT !.data = 0]
             b == [l.bufs EXCEPT ![l.dt] = x]
  <2>3. m = [l EXCEPT !.bufs = b]
    BY <2>1
  <2> HIDE DEF m
  <2>a. l.bufs[l.dt] \in Buf
    BY <1>0, <2>2
  <2>b. x \in Buf /\ x.bytes = l.bufs[l.dt].bytes /\ x.data = 0
    BY <2>a DEF Buf
  <2> HIDE DEF x
  <2>4. /\ b \in Seq(Buf) /\ Len(b) = Len(l.bufs)
        /\ \A i \in 1..Len(l.bufs) : i # l.dt => b[i] = l.bufs[i]
        /\ b[l.dt].bytes = l.bufs[l.dt].bytes /\ b[l.dt].data = 0
    BY <1>0, <2>2, <2>b, ElementReplaced
  <2> HIDE DEF b
  <2>5. /\ m \in List /\ m.bufs = b /\ m.dt = l.dt /\ m.data_bytes = l.data_bytes
        /\ m.buffers = l.buffers /\ m.buffer_len = len
    BY <1>0, <2>3, <2>4 DEF List
  <2>6. \A i \in 1..Len(b) : b[i].bytes = l.bufs[i].bytes
    BY <2>2, <2>4
  <2>7. Adds(b, c)
    BY <1>0, <2>4, <2>6 DEF Adds
  <2>8. Numbered(b, c, from, mod)
    BY <1>0, <2>4, <2>6 DEF Numbered
  <2>9. Shape(b, l.dt, len)
    <3>1. l.dt \in 0..Len(b) /\ (l.dt = 0 <=> b = <<>>)
      BY <2>2, <2>4
    <3>2. ASSUME NEW i \in 1..Len(b)
          PROVE  /\ b[i].data + Len(b[i].bytes) <= len
                 /\ i < l.dt => b[i].bytes # <<>>
                 /\ i > l.dt => b[i] = EmptyBuf
      <4>1. CASE i = l.dt
        <5>1. /\ l.bufs[i].data \in Nat /\ Len(l.bufs[i].bytes) \in Nat
              /\ l.bufs[i].data + Len(l.bufs[i].bytes) <= len
          BY <1>0, <2>2, <2>a, <4>1, BufFields DEF Shape
        <5> QED BY <2>2, <2>4, <4>1, <5>1, SMTT(30)
      <4>2. CASE i # l.dt
        BY <1>0, <2>4, <4>2 DEF Shape
      <4> QED BY <4>1, <4>2
    <3> QED BY <3>1, <3>2 DEF Shape
  <2>10. Counted(m, max)
    BY <1>0, <2>4, <2>5 DEF Counted
  <2>11. Sound(m, c, max, len, from, mod)
    BY <2>5, <2>7, <2>8, <2>9, <2>10 DEF Sound
  <2> QED BY <2>4, <2>5, <2>11 DEF m
<1> QED BY <1>1, <1>2

\* data_tail has space if it is empty, and no space is left before its data if
\* there is none elsewhere.
LEMMA MovedRoom ==
  ASSUME NEW l, NEW c, NEW max, NEW len \in Nat \ {0}, NEW from, NEW mod, NEW n,
         Sound(l, c, max, len, from, mod), l.dt # 0
  PROVE  LET m == Moved(l, max, n)
         IN  /\ m.dt \in 1..Len(m.bufs) /\ m.bufs[m.dt] \in Buf
             /\ m.bufs[m.dt].bytes = <<>> => Fillable(m) > 0
             /\ n = 1 /\ Fillable(m) <= 0 /\ m.dt = Len(m.bufs) /\ ~ustream_can_alloc(m, max)
                  => m.bufs[m.dt].data = 0
<1> DEFINE m == Moved(l, max, n)
           b == l.bufs[l.dt]
           x == m.bufs[m.dt]
<1>0. /\ l \in List /\ l.bufs \in Seq(Buf) /\ Len(l.bufs) \in Nat /\ l.buffer_len = len
      /\ Shape(l.bufs, l.dt, len)
  BY DEF Sound, List
<1>1. l.dt \in 1..Len(l.bufs)
  BY <1>0 DEF Shape
<1>2. b \in Buf /\ b.data \in Nat /\ Len(b.bytes) \in Nat
  BY <1>0, <1>1, BufFields
<1>3. /\ m.dt = l.dt /\ m.buffers = l.buffers /\ Len(m.bufs) = Len(l.bufs) /\ m \in List
      /\ m.buffer_len = len /\ m.bufs \in Seq(Buf)
  <2>1. /\ m.dt = l.dt /\ m.buffers = l.buffers /\ Len(m.bufs) = Len(l.bufs)
        /\ Sound(m, c, max, len, from, mod)
    BY MovedSound
  <2> HIDE DEF m
  <2> QED BY <2>1 DEF Sound, List
<1>4. x \in Buf /\ x.data \in Nat /\ Len(x.bytes) \in Nat
  BY <1>1, <1>3, BufFields
<1>5. x.data = 0 \/ (x = b /\ ~ustream_should_move(l, max, n))
  <2>1. CASE ustream_should_move(l, max, n)
    <3>1. m = [l EXCEPT !.bufs[l.dt].data = 0]
      BY <2>1 DEF Moved
    <3>2. x.data = 0
      BY <1>0, <1>1, <1>2, <3>1 DEF List, Buf
    <3> QED BY <3>2
  <2>2. CASE ~ustream_should_move(l, max, n)
    BY <2>2 DEF Moved
  <2> QED BY <2>1, <2>2
<1>6. Fillable(m) = len - (x.data + Len(x.bytes))
  BY <1>3 DEF Fillable, Space, TailOf
<1>7. len \div 2 \in Nat /\ len \div 2 < len
  OBVIOUS
<1>8. ASSUME x.bytes = <<>> PROVE Fillable(m) > 0
  <2>1. Len(x.bytes) = 0
    BY <1>8
  <2>2. x.data < len
    <3>1. CASE x.data = 0
      BY <3>1
    <3>2. CASE x = b /\ ~ustream_should_move(l, max, n)
      <4>1. b.data = 0 \/ ~(b.data > len \div 2)
        BY <1>0, <1>2, <3>2 DEF ustream_should_move
      <4> HIDE DEF b, x
      <4> QED BY <1>2, <1>7, <3>2, <4>1
    <3> QED BY <1>5, <3>1, <3>2
  <2> HIDE DEF x, m
  <2> QED BY <1>4, <1>6, <2>1, <2>2
<1>9. ASSUME n = 1, Fillable(m) <= 0, m.dt = Len(m.bufs), ~ustream_can_alloc(m, max), x.data # 0
      PROVE  FALSE
  <2>1. x = b /\ ~ustream_should_move(l, max, n)
    BY <1>5, <1>9
  <2>2. ~ustream_can_alloc(l, max)
    BY <1>3, <1>9 DEF ustream_can_alloc
  <2>3. Space(l, b) < n
    <3>1. Space(l, b) = len - (b.data + Len(b.bytes))
      BY <1>0 DEF Space, TailOf
    <3> HIDE DEF x, b
    <3> QED BY <1>2, <1>6, <1>9, <2>1, <3>1
  <2>4. b.data > 0
    <3> HIDE DEF x, b
    <3> QED BY <1>2, <1>9, <2>1
  <2> QED BY <1>3, <1>9, <2>1, <2>2, <2>3, <2>4 DEF ustream_should_move
<1> QED BY <1>1, <1>3, <1>4, <1>8, <1>9

\* The sums of a list with one more, empty buffer.
LEMMA LongerSum ==
  ASSUME NEW bufs \in Seq(Buf), NEW c, Adds(bufs, c), NEW from, NEW mod,
         Numbered(bufs, c, from, mod)
  PROVE  \E d : /\ Adds(Append(bufs, EmptyBuf), d)
                /\ Numbered(Append(bufs, EmptyBuf), d, from, mod)
                /\ d[Len(bufs) + 1] = c[Len(bufs)]
<1> DEFINE a == Append(bufs, EmptyBuf)
           n == Len(bufs)
           d == [i \in 0..(n + 1) |-> IF i <= n THEN c[i] ELSE c[n]]
<1>0. EmptyBuf \in Buf /\ EmptyBuf.bytes = <<>> /\ n \in Nat /\ Len(EmptyBuf.bytes) = 0
  BY DEF EmptyBuf, Buf
<1>1. a \in Seq(Buf) /\ Len(a) = n + 1 /\ a[n + 1] = EmptyBuf /\ \A i \in 1..n : a[i] = bufs[i]
  BY <1>0
<1> HIDE DEF a
<1>2. d \in [0..(n + 1) -> Nat] /\ d[n + 1] = c[n] /\ \A i \in 0..n : d[i] = c[i]
  BY <1>0 DEF Adds
<1> HIDE DEF d
<1>3. Adds(a, d)
  <2>1. ASSUME NEW i \in 1..Len(a) PROVE d[i] = d[i - 1] + Len(a[i].bytes)
    <3>1. CASE i = n + 1
      BY <1>0, <1>1, <1>2, <3>1 DEF Adds
    <3>2. CASE i \in 1..n
      <4>1. d[i] = c[i] /\ d[i - 1] = c[i - 1] /\ a[i] = bufs[i]
        BY <1>0, <1>1, <1>2, <3>2
      <4> QED BY <3>2, <4>1 DEF Adds
    <3> QED BY <1>0, <1>1, <3>1, <3>2
  <2>2. c[0] = 0
    BY DEF Adds
  <2> QED BY <1>0, <1>1, <1>2, <2>1, <2>2 DEF Adds
<1>4. Numbered(a, d, from, mod)
  <2>1. ASSUME NEW i \in 1..Len(a), NEW j \in 1..Len(a[i].bytes)
        PROVE  a[i].bytes[j] = Nth(from, d[i - 1] + j - 1, mod)
    <3>1. i # n + 1
      BY <1>0, <1>1
    <3>2. i \in 1..n /\ i - 1 \in 0..n
      BY <1>0, <1>1, <3>1
    <3>3. d[i - 1] = c[i - 1] /\ a[i] = bufs[i]
      BY <1>1, <1>2, <3>2
    <3> QED BY <3>2, <3>3 DEF Numbered
  <2> QED BY <2>1 DEF Numbered
<1> QED BY <1>2, <1>3, <1>4 DEF a

\* data_tail moves on to the next buffer: the one before it is not empty.
LEMMA NextShape ==
  ASSUME NEW bufs \in Seq(Buf), NEW k \in 0..(Len(bufs) - 1), NEW len \in Nat \ {0},
         Shape(bufs, k, len), k # 0 => bufs[k].bytes # <<>>
  PROVE  Shape(bufs, k + 1, len) /\ bufs[k + 1] = EmptyBuf
<1>0. Len(bufs) \in Nat /\ k \in Nat /\ k + 1 \in 1..Len(bufs)
  OBVIOUS
<1>1. bufs # <<>>
  BY <1>0
<1>2. bufs[k + 1] = EmptyBuf
  BY <1>0 DEF Shape
<1>3. ASSUME NEW i \in 1..Len(bufs), i < k + 1 PROVE bufs[i].bytes # <<>>
  BY <1>0, <1>3 DEF Shape
<1>4. \A i \in 1..Len(bufs) : i > k + 1 => bufs[i] = EmptyBuf
  BY <1>0 DEF Shape
<1>5. \A i \in 1..Len(bufs) : bufs[i].data + Len(bufs[i].bytes) <= len
  BY DEF Shape
<1> QED BY <1>0, <1>1, <1>2, <1>3, <1>4, <1>5 DEF Shape

\* A buffer is added behind data_tail.
LEMMA AddedShape ==
  ASSUME NEW bufs \in Seq(Buf), NEW k \in Nat, NEW len \in Nat \ {0}, Shape(bufs, k, len)
  PROVE  /\ Append(bufs, EmptyBuf) \in Seq(Buf)
         /\ Len(Append(bufs, EmptyBuf)) = Len(bufs) + 1
         /\ Append(bufs, EmptyBuf)[Len(bufs) + 1] = EmptyBuf
         /\ \A i \in 1..Len(bufs) : Append(bufs, EmptyBuf)[i] = bufs[i]
         /\ Shape(Append(bufs, EmptyBuf), IF k = 0 THEN 1 ELSE k, len)
<1> DEFINE a == Append(bufs, EmptyBuf)
           e == IF k = 0 THEN 1 ELSE k
           n == Len(bufs)
<1>0. EmptyBuf \in Buf /\ EmptyBuf.bytes = <<>> /\ n \in Nat /\ EmptyBuf.data + Len(EmptyBuf.bytes) <= len
  BY DEF EmptyBuf, Buf
<1>1. a \in Seq(Buf) /\ Len(a) = n + 1 /\ a[n + 1] = EmptyBuf /\ \A i \in 1..n : a[i] = bufs[i]
  BY <1>0
<1> HIDE DEF a
<1>2. e \in 1..(n + 1) /\ (k = 0 => n = 0) /\ k \in 0..n /\ (k # 0 => e = k)
  BY <1>0 DEF Shape
<1>3. a # <<>>
  BY <1>0, <1>1
<1>4. ASSUME NEW i \in 1..(n + 1)
      PROVE  /\ a[i].data + Len(a[i].bytes) <= len
             /\ i < e => a[i].bytes # <<>>
             /\ i > e => a[i] = EmptyBuf
  <2>1. CASE i = n + 1
    BY <1>0, <1>1, <1>2, <2>1
  <2>2. CASE i \in 1..n
    <3>1. a[i] = bufs[i] /\ k # 0
      BY <1>0, <1>1, <1>2, <2>2
    <3>2. e = k
      BY <1>2, <3>1
    <3> QED BY <2>2, <3>1, <3>2 DEF Shape
  <2> QED BY <1>0, <2>1, <2>2
<1>5. Shape(a, e, len)
  <2> HIDE DEF e
  <2> QED BY <1>0, <1>1, <1>2, <1>3, <1>4 DEF Shape
<1> QED BY <1>1, <1>5 DEF a, n, e

\* ustream_prepare_buf changes no contents, and if it succeeds there is space.
LEMMA PrepareSound ==
  ASSUME NEW l, NEW c, NEW max \in Int, NEW len \in Nat \ {0}, NEW from, NEW mod, NEW n,
         Sound(l, c, max, len, from, mod)
  PROVE  LET p == ustream_prepare_buf(l, max, n)
         IN  /\ p.l.data_bytes = l.data_bytes /\ p.ok \in BOOLEAN
             /\ \E d : Sound(p.l, d, max, len, from, mod) /\ d[Len(p.l.bufs)] = c[Len(l.bufs)]
             /\ p.ok => p.l.dt # 0 /\ Fillable(p.l) > 0
<1> DEFINE m == Moved(l, max, n)
           p == ustream_prepare_buf(l, max, n)
<1>1. /\ m.dt = l.dt /\ m.buffers = l.buffers /\ Len(m.bufs) = Len(l.bufs)
      /\ m.data_bytes = l.data_bytes /\ Sound(m, c, max, len, from, mod)
  BY MovedSound
<1>2. l.dt # 0 => /\ m.dt \in 1..Len(m.bufs) /\ m.bufs[m.dt] \in Buf
                  /\ m.bufs[m.dt].bytes = <<>> => Fillable(m) > 0
  BY MovedRoom
<1>3. p = IF m.dt # 0 /\ Fillable(m) > 0 THEN [ok |-> TRUE, l |-> m]
          ELSE IF m.dt # 0 /\ m.dt < Len(m.bufs) THEN [ok |-> TRUE, l |-> [m EXCEPT !.dt = @ + 1]]
          ELSE IF ~ustream_can_alloc(m, max) THEN [ok |-> FALSE, l |-> m]
          ELSE [ok |-> TRUE, l |-> [ustream_add_buf(m) EXCEPT !.dt = Len(ustream_add_buf(m).bufs)]]
  BY DEF ustream_prepare_buf
<1> HIDE DEF m, p
<1>4. /\ m \in List /\ m.bufs \in Seq(Buf) /\ Len(m.bufs) \in Nat /\ m.buffer_len = len
      /\ m.dt \in Nat /\ Shape(m.bufs, m.dt, len) /\ Counted(m, max) /\ Adds(m.bufs, c)
      /\ Numbered(m.bufs, c, from, mod)
  BY <1>1 DEF Sound, List
<1>6. CASE m.dt # 0 /\ Fillable(m) > 0
  <2>1. p.ok = TRUE /\ p.l = m
    BY <1>3, <1>6
  <2> QED BY <1>1, <1>6, <2>1 DEF p
<1>7. CASE ~(m.dt # 0 /\ Fillable(m) > 0) /\ m.dt # 0 /\ m.dt < Len(m.bufs)
  <2> DEFINE t == [m EXCEPT !.dt = @ + 1]
  <2>1. p.ok = TRUE /\ p.l = t
    BY <1>3, <1>7
  <2>2. t \in List /\ t.bufs = m.bufs /\ t.dt = m.dt + 1 /\ t.data_bytes = m.data_bytes
        /\ t.buffers = m.buffers /\ t.buffer_len = len
    BY <1>4 DEF List
  <2> HIDE DEF t
  <2>3. m.dt \in 0..(Len(m.bufs) - 1) /\ m.bufs[m.dt].bytes # <<>>
    BY <1>1, <1>2, <1>4, <1>7
  <2>4. Shape(m.bufs, m.dt + 1, len) /\ m.bufs[m.dt + 1] = EmptyBuf
    BY <1>4, <2>3, NextShape
  <2>5. Counted(t, max)
    BY <1>4, <2>2 DEF Counted
  <2>6. Sound(t, c, max, len, from, mod)
    BY <1>4, <2>2, <2>4, <2>5 DEF Sound
  <2>7. Fillable(t) = len
    BY <2>2, <2>4 DEF Fillable, Space, TailOf, EmptyBuf
  <2>8. t.dt # 0 /\ Fillable(t) > 0
    BY <1>4, <2>2, <2>7
  <2> QED BY <1>1, <2>1, <2>2, <2>6, <2>8 DEF p
<1>8. CASE ~(m.dt # 0 /\ Fillable(m) > 0) /\ ~(m.dt # 0 /\ m.dt < Len(m.bufs))
           /\ ~ustream_can_alloc(m, max)
  <2>1. p.ok = FALSE /\ p.l = m
    BY <1>3, <1>8
  <2> QED BY <1>1, <2>1 DEF p
<1>9. CASE ~(m.dt # 0 /\ Fillable(m) > 0) /\ ~(m.dt # 0 /\ m.dt < Len(m.bufs))
           /\ ustream_can_alloc(m, max)
  <2> DEFINE b == Append(m.bufs, EmptyBuf)
             a == ustream_add_buf(m)
             t == [a EXCEPT !.dt = Len(a.bufs)]
  <2>1. p.ok = TRUE /\ p.l = t
    BY <1>3, <1>9
  <2>2. /\ b \in Seq(Buf) /\ Len(b) = Len(m.bufs) + 1 /\ b[Len(m.bufs) + 1] = EmptyBuf
        /\ \A i \in 1..Len(m.bufs) : b[i] = m.bufs[i]
        /\ Shape(b, IF m.dt = 0 THEN 1 ELSE m.dt, len)
    BY <1>4, AddedShape
  <2>3. PICK d : Adds(b, d) /\ Numbered(b, d, from, mod) /\ d[Len(m.bufs) + 1] = c[Len(m.bufs)]
    BY <1>4, LongerSum
  <2> DEFINE e == IF m.dt = 0 THEN 1 ELSE m.dt
             k == m.buffers + 1
  <2>b. e \in Nat /\ k \in Int
    BY <1>4 DEF List
  <2>4. a = [m EXCEPT !.bufs = b, !.buffers = k, !.dt = e]
    BY DEF ustream_add_buf
  <2> HIDE DEF a, b, e, k
  <2>a. /\ a \in List /\ a.bufs = b /\ a.data_bytes = m.data_bytes
        /\ a.buffers = m.buffers + 1 /\ a.buffer_len = len
    <3>1. m \in List /\ b \in Seq(Buf) /\ m.buffer_len = len
      BY <1>4, <2>2
    <3>2. a \in List /\ a.bufs = b /\ a.data_bytes = m.data_bytes /\ a.buffers = k /\ a.buffer_len = len
      BY <2>b, <2>4, <3>1 DEF List
    <3> QED BY <3>2 DEF k
  <2>5. /\ t \in List /\ t.bufs = b /\ t.dt = Len(b) /\ t.data_bytes = m.data_bytes
        /\ t.buffers = m.buffers + 1 /\ t.buffer_len = len
    BY <1>4, <2>2, <2>a, SMTT(30) DEF List
  <2> HIDE DEF t
  <2>6. m.dt = Len(m.bufs)
    BY <1>4, <1>9 DEF Shape
  <2>7. Shape(b, Len(b), len)
    <3>1. CASE m.dt = 0
      BY <2>2, <2>6, <3>1
    <3>2. CASE m.dt # 0
      <4>1. m.dt \in 0..(Len(b) - 1) /\ m.dt + 1 = Len(b)
        BY <1>4, <2>2, <2>6
      <4>2. b[m.dt].bytes # <<>>
        BY <1>1, <1>2, <1>9, <2>2, <3>2
      <4>3. Shape(b, m.dt, len)
        BY <2>2, <3>2
      <4> QED BY <2>2, <4>1, <4>2, <4>3, NextShape
    <3> QED BY <3>1, <3>2
  <2>8. Counted(t, max)
    BY <1>4, <1>9, <2>2, <2>5 DEF Counted, ustream_can_alloc, List
  <2>9. Sound(t, d, max, len, from, mod) /\ d[Len(t.bufs)] = c[Len(m.bufs)]
    BY <2>2, <2>3, <2>5, <2>7, <2>8 DEF Sound
  <2>10. Fillable(t) = len /\ t.dt # 0
    BY <1>4, <2>2, <2>5 DEF Fillable, Space, TailOf, EmptyBuf
  <2>11. Fillable(t) > 0
    BY <2>10
  <2> QED BY <1>1, <2>1, <2>5, <2>9, <2>10, <2>11 DEF p
<1> QED BY <1>6, <1>7, <1>8, <1>9

LEMMA PrepareGood ==
  ASSUME NEW l, NEW max \in Int, NEW len \in Nat \ {0}, NEW from, NEW mod, NEW n,
         Good(l, max, len, from, mod)
  PROVE  LET p == ustream_prepare_buf(l, max, n)
         IN  /\ Good(p.l, max, len, from, mod)
             /\ p.l.data_bytes = l.data_bytes /\ p.ok \in BOOLEAN
             /\ p.ok => p.l.dt # 0 /\ Fillable(p.l) > 0
<1> DEFINE p == ustream_prepare_buf(l, max, n)
<1>1. PICK c : Sound(l, c, max, len, from, mod) /\ l.data_bytes = c[Len(l.bufs)]
  BY GoodSums
<1>2. /\ p.l.data_bytes = l.data_bytes /\ p.ok \in BOOLEAN
      /\ \E d : Sound(p.l, d, max, len, from, mod) /\ d[Len(p.l.bufs)] = c[Len(l.bufs)]
      /\ p.ok => p.l.dt # 0 /\ Fillable(p.l) > 0
  BY <1>1, PrepareSound
<1> HIDE DEF p
<1>3. Good(p.l, max, len, from, mod)
  <2>1. \E d : Sound(p.l, d, max, len, from, mod) /\ p.l.data_bytes = d[Len(p.l.bufs)]
    BY <1>1, <1>2
  <2> QED BY <2>1, GoodSums
<1> QED BY <1>2, <1>3 DEF p

\* If there is no space for a byte the last buffer is full from head to end, and
\* trying again does not help.
LEMMA PrepareFull ==
  ASSUME NEW l, NEW max \in Int, NEW len \in Nat \ {0}, NEW from, NEW mod,
         Good(l, max, len, from, mod), ~ustream_prepare_buf(l, max, 1).ok
  PROVE  LET q == ustream_prepare_buf(l, max, 1).l
         IN  q.data_bytes > 0 /\ ~ustream_prepare_buf(q, max, 1).ok
<1> DEFINE m == Moved(l, max, 1)
           p == ustream_prepare_buf(l, max, 1)
<1>0. PICK c : Sound(l, c, max, len, from, mod) /\ l.data_bytes = c[Len(l.bufs)]
  BY GoodSums
<1>1. /\ m.dt = l.dt /\ m.buffers = l.buffers /\ Len(m.bufs) = Len(l.bufs)
      /\ m.data_bytes = l.data_bytes /\ Sound(m, c, max, len, from, mod)
  BY <1>0, MovedSound
<1>2. l.dt # 0 => /\ m.dt \in 1..Len(m.bufs) /\ m.bufs[m.dt] \in Buf
                  /\ m.bufs[m.dt].bytes = <<>> => Fillable(m) > 0
                  /\ Fillable(m) <= 0 /\ m.dt = Len(m.bufs) /\ ~ustream_can_alloc(m, max)
                       => m.bufs[m.dt].data = 0
  BY <1>0, MovedRoom
<1>3. /\ ~(m.dt # 0 /\ Fillable(m) > 0) /\ ~(m.dt # 0 /\ m.dt < Len(m.bufs))
      /\ ~ustream_can_alloc(m, max) /\ p.l = m
  BY DEF ustream_prepare_buf
<1> HIDE DEF m, p
<1>4. /\ m \in List /\ m.bufs \in Seq(Buf) /\ Len(m.bufs) \in Nat /\ m.buffer_len = len
      /\ m.dt \in Nat /\ Shape(m.bufs, m.dt, len) /\ Counted(m, max) /\ Adds(m.bufs, c)
  BY <1>1 DEF Sound, List
<1>5. m.dt # 0 /\ m.dt = Len(m.bufs)
  <2>1. m.buffers = Len(m.bufs) /\ max > 0 /\ ~(m.buffers < max)
    BY <1>3, <1>4 DEF Counted, ustream_can_alloc
  <2>2. m.bufs # <<>>
    BY <1>4, <2>1
  <2> QED BY <1>3, <1>4, <2>2 DEF Shape
<1> DEFINE b == m.bufs[m.dt]
<1>6. b \in Buf /\ b.data \in Nat /\ Len(b.bytes) \in Nat /\ b.bytes \in Seq(Nat) /\ m.dt \in 1..Len(m.bufs)
  BY <1>1, <1>2, <1>5, BufFields
<1>7. Fillable(m) = len - (b.data + Len(b.bytes))
  BY <1>4 DEF Fillable, Space, TailOf
<1>8. Fillable(m) <= 0
  BY <1>3, <1>5, <1>6, <1>7
<1>9. b.data = 0 /\ b.bytes # <<>>
  <2>1. b.data = 0
    BY <1>1, <1>2, <1>3, <1>5, <1>8
  <2>2. b.bytes # <<>>
    BY <1>1, <1>2, <1>3, <1>5
  <2> QED BY <2>1, <2>2
<1>10. m.data_bytes > 0
  <2>1. c[m.dt] = c[m.dt - 1] + Len(b.bytes) /\ c[m.dt - 1] \in Nat
    BY <1>4, <1>6, SMTT(30) DEF Adds
  <2>2. Len(b.bytes) > 0
    BY <1>6, <1>9
  <2>3. m.data_bytes = c[m.dt]
    BY <1>0, <1>1, <1>5
  <2> HIDE DEF b
  <2> QED BY <1>6, <2>1, <2>2, <2>3
<1>11. Moved(m, max, 1) = m
  BY <1>9 DEF Moved, ustream_should_move
<1>12. ~ustream_prepare_buf(m, max, 1).ok
  BY <1>3, <1>11 DEF ustream_prepare_buf
<1> QED BY <1>3, <1>10, <1>12 DEF p

\* The sums when buffer g has k bytes more.
MoreFrom(c, n, g, k) == [i \in 0..n |-> IF i < g THEN c[i] ELSE c[i] + k]

\* Buffer g, the last in use, has k bytes more.
Grown(bufs, b, g, k) ==
  /\ Len(b) = Len(bufs)
  /\ \A i \in 1..Len(bufs) : i # g => b[i] = bufs[i]
  /\ Len(b[g].bytes) = Len(bufs[g].bytes) + k
  /\ \A i \in (g + 1)..Len(bufs) : bufs[i].bytes = <<>>

\* d has the sums for b.
SumsGrown(bufs, c, b, d, g, k) ==
  /\ Adds(b, d) /\ d[Len(bufs)] = c[Len(bufs)] + k
  /\ \A i \in 1..g : d[i - 1] = c[i - 1]
  /\ c[Len(bufs)] = c[g - 1] + Len(bufs[g].bytes)

\* The sums and numbers when data is put behind that of the last buffer in use.
LEMMA FilledSum ==
  ASSUME NEW bufs \in Seq(Buf), NEW c, Adds(bufs, c), NEW g \in 1..Len(bufs),
         NEW b \in Seq(Buf), NEW k \in Nat, Grown(bufs, b, g, k)
  PROVE  SumsGrown(bufs, c, b, MoreFrom(c, Len(bufs), g, k), g, k)
<1> DEFINE n == Len(bufs)
           d == MoreFrom(c, n, g, k)
<1>0. n \in Nat /\ g \in Nat /\ \A i \in 1..n : Len(bufs[i].bytes) \in Nat
  BY BufFields
<1>1. /\ \A i \in 0..n : c[i] \in Nat
      /\ \A i \in 1..n : c[i] = c[i - 1] + Len(bufs[i].bytes)
      /\ c[0] = 0
  BY DEF Adds
<1>2. d \in [0..n -> Nat] /\ \A i \in 0..n : d[i] = IF i < g THEN c[i] ELSE c[i] + k
  BY <1>1 DEF MoreFrom
<1>g. /\ Len(b) = n /\ Len(b[g].bytes) = Len(bufs[g].bytes) + k
      /\ \A i \in 1..n : i # g => b[i] = bufs[i]
      /\ \A i \in (g + 1)..n : bufs[i].bytes = <<>>
  BY DEF Grown
<1> HIDE DEF d
<1>3. ASSUME NEW i \in 1..n PROVE d[i] = d[i - 1] + Len(b[i].bytes)
  <2>1. i - 1 \in 0..n /\ i \in 0..n /\ c[i] = c[i - 1] + Len(bufs[i].bytes) /\ Len(bufs[i].bytes) \in Nat
    BY <1>0, <1>1
  <2>2. c[i - 1] \in Nat
    BY <1>1, <2>1
  <2>3. CASE i = g
    <3>1. d[i] = c[i] + k /\ d[i - 1] = c[i - 1]
      BY <1>0, <1>2, <2>1, <2>3
    <3> QED BY <1>g, <2>1, <2>2, <2>3, <3>1
  <2>4. CASE i < g
    <3>1. d[i] = c[i] /\ d[i - 1] = c[i - 1] /\ b[i] = bufs[i]
      BY <1>0, <1>2, <1>g, <2>1, <2>4
    <3> QED BY <2>1, <3>1
  <2>5. CASE i > g
    <3>1. d[i] = c[i] + k /\ d[i - 1] = c[i - 1] + k /\ b[i] = bufs[i]
      BY <1>0, <1>2, <1>g, <2>1, <2>5
    <3> QED BY <2>1, <2>2, <3>1
  <2> QED BY <1>0, <2>3, <2>4, <2>5
<1>4. d[0] = 0 /\ d[n] = c[n] + k /\ \A i \in 1..g : d[i - 1] = c[i - 1]
  <2>1. d[0] = 0 /\ d[n] = c[n] + k
    <3>1. 0 \in 0..n /\ 0 < g /\ n \in 0..n /\ ~(n < g)
      BY <1>0
    <3> QED BY <1>1, <1>2, <3>1
  <2>2. ASSUME NEW i \in 1..g PROVE d[i - 1] = c[i - 1]
    <3>1. i - 1 \in 0..n /\ i - 1 < g
      BY <1>0
    <3> QED BY <1>2, <3>1
  <2> QED BY <2>1, <2>2
<1>5. Adds(b, d)
  BY <1>2, <1>3, <1>4, <1>g DEF Adds
<1>6. \A j \in g..n : c[j] = c[g]
  <2>1. g \in 0..Len(bufs)
    BY <1>0
  <2> QED BY <1>g, <2>1, Flat
<1>7. c[n] = c[g - 1] + Len(bufs[g].bytes)
  BY <1>0, <1>1, <1>6
<1> QED BY <1>4, <1>5, <1>7 DEF d, SumsGrown

LEMMA FilledNumbers ==
  ASSUME NEW bufs \in Seq(Buf), NEW c, NEW d, NEW from, NEW mod, Numbered(bufs, c, from, mod),
         NEW g \in 1..Len(bufs), NEW b \in Seq(Buf), Len(b) = Len(bufs), NEW data \in Seq(Nat),
         \A i \in 1..Len(bufs) : i # g => b[i] = bufs[i],
         b[g].bytes = bufs[g].bytes \o data,
         \A i \in (g + 1)..Len(bufs) : bufs[i].bytes = <<>>,
         \A i \in 1..g : d[i - 1] = c[i - 1], c[g - 1] \in Nat,
         \A j \in 1..Len(data) : data[j] = Nth(from, c[g - 1] + Len(bufs[g].bytes) + j - 1, mod)
  PROVE  Numbered(b, d, from, mod)
<1> DEFINE o == bufs[g].bytes
           y == b[g].bytes
<1>0. o \in Seq(Nat) /\ Len(o) \in Nat /\ Len(bufs) \in Nat /\ g \in Nat /\ Len(data) \in Nat
  BY BufFields
<1>1. /\ Len(y) = Len(o) + Len(data)
      /\ \A j \in 1..(Len(o) + Len(data)) : y[j] = IF j <= Len(o) THEN o[j] ELSE data[j - Len(o)]
  BY <1>0, ConcatElements
<1>2. d[g - 1] = c[g - 1]
  BY <1>0
<1>3. ASSUME NEW j \in 1..Len(y) PROVE y[j] = Nth(from, d[g - 1] + j - 1, mod)
  <2>1. CASE j <= Len(o)
    <3>1. j \in 1..Len(o) /\ y[j] = o[j]
      BY <1>0, <1>1, <2>1
    <3> QED BY <1>2, <3>1 DEF Numbered
  <2>2. CASE j > Len(o)
    <3> DEFINE m == j - Len(o)
    <3>1. m \in 1..Len(data) /\ y[j] = data[m]
      <4>1. j \in 1..(Len(o) + Len(data)) /\ ~(j <= Len(o)) /\ m \in 1..Len(data)
        <5>1. Len(y) = Len(o) + Len(data) /\ Len(o) \in Nat /\ Len(data) \in Nat /\ j \in 1..Len(y)
          BY <1>0, <1>1
        <5> HIDE DEF o, y
        <5> QED BY <2>2, <5>1
      <4>2. y[j] = data[m]
        BY <1>1, <4>1
      <4> QED BY <4>1, <4>2
    <3>2. c[g - 1] + Len(o) + m - 1 = c[g - 1] + j - 1
      BY <1>0
    <3> HIDE DEF m, y
    <3>3. data[m] = Nth(from, c[g - 1] + Len(o) + m - 1, mod)
      BY <3>1
    <3> QED BY <1>2, <3>1, <3>2, <3>3
  <2> QED BY <1>0, <1>1, <2>1, <2>2
<1>4. ASSUME NEW i \in 1..Len(b), NEW j \in 1..Len(b[i].bytes)
      PROVE  b[i].bytes[j] = Nth(from, d[i - 1] + j - 1, mod)
  <2>1. CASE i = g
    BY <1>3, <2>1
  <2>2. CASE i < g
    <3>1. b[i] = bufs[i] /\ d[i - 1] = c[i - 1] /\ i \in 1..Len(bufs)
      BY <1>0, <2>2, SMTT(30)
    <3> QED BY <3>1 DEF Numbered
  <2>3. CASE i > g
    <3>1. b[i] = bufs[i] /\ bufs[i].bytes = <<>>
      BY <1>0, <2>3
    <3> QED BY <3>1
  <2> QED BY <1>0, <2>1, <2>2, <2>3
<1> QED BY <1>4 DEF Numbered

\* data is numbered on from the d bytes before it.
Behind(data, from, d, mod) ==
  \A j \in 1..Len(data) : data[j] = Nth(from, d + j - 1, mod)

Follow(data, n, from, d, mod) ==
  data \in Seq(Nat) /\ Len(data) = n /\ Behind(data, from, d, mod)

\* Data is put into data_tail.
LEMMA FilledGood ==
  ASSUME NEW l, NEW max \in Int, NEW len \in Nat \ {0}, NEW from \in Nat, NEW mod \in Nat \ {0},
         Good(l, max, len, from, mod), l.dt # 0,
         NEW data \in Seq(Nat), Len(data) <= Fillable(l), Behind(data, from, l.data_bytes, mod)
  PROVE  /\ Good(Filled(l, data), max, len, from, mod)
         /\ Filled(l, data).data_bytes = l.data_bytes + Len(data)
         /\ Filled(l, data).dt = l.dt
<1> DEFINE t == Filled(l, data)
           k == Len(data)
           g == l.dt
           bufs == l.bufs
           n == Len(bufs)
           o == bufs[g]
           y == o.bytes \o data
           x == [o EXCEPT !.bytes = y]
           b == [bufs EXCEPT ![g] = x]
           s == l.data_bytes + k
<1>0. PICK c : Sound(l, c, max, len, from, mod) /\ l.data_bytes = c[n]
  BY GoodSums
<1>1. /\ l \in List /\ bufs \in Seq(Buf) /\ n \in Nat /\ l.buffer_len = len /\ k \in Nat
      /\ g \in Nat /\ Shape(bufs, g, len) /\ Counted(l, max) /\ Adds(bufs, c)
      /\ Numbered(bufs, c, from, mod)
  BY <1>0 DEF Sound, List
<1>2. g \in 1..n
  BY <1>1 DEF Shape
<1>3. o \in Buf /\ o.data \in Nat /\ o.bytes \in Seq(Nat) /\ Len(o.bytes) \in Nat
  BY <1>1, <1>2, BufFields
<1>4. t = [l EXCEPT !.bufs = b, !.data_bytes = s]
  BY DEF Filled
<1>5. y \in Seq(Nat) /\ Len(y) = Len(o.bytes) + k
  BY <1>3, ConcatElements
<1>y. y = o.bytes \o data
  OBVIOUS
<1> HIDE DEF t, y
<1>6. x \in Buf /\ x.bytes = y /\ x.data = o.data
  BY <1>3, <1>5 DEF Buf
<1> HIDE DEF x
<1>7. b \in Seq(Buf) /\ Len(b) = n /\ b[g] = x /\ \A i \in 1..n : i # g => b[i] = bufs[i]
  BY <1>1, <1>2, <1>6, ElementReplaced
<1> HIDE DEF b
<1>8. s \in Int
  BY <1>1 DEF List
<1> HIDE DEF s
<1>9. /\ t \in List /\ t.bufs = b /\ t.dt = g /\ t.data_bytes = s /\ t.buffers = l.buffers
      /\ t.buffer_len = len
  <2>1. l \in List /\ b \in Seq(Buf) /\ l.buffer_len = len
    BY <1>1, <1>7
  <2> QED BY <1>4, <1>8, <2>1 DEF List
<1>10. Fillable(l) = len - (o.data + Len(o.bytes))
  BY <1>1 DEF Fillable, Space, TailOf
<1>11. k <= len - (o.data + Len(o.bytes))
  BY <1>10
<1>12. \A i \in (g + 1)..n : bufs[i].bytes = <<>>
  <2>1. \A i \in (g + 1)..n : i \in 1..n /\ i > g
    BY <1>1
  <2> QED BY <1>1, <2>1 DEF Shape, EmptyBuf
<1>13. l.buffers = n /\ (max > 0 => l.buffers <= max)
  BY <1>1 DEF Counted
<1>14. \A j \in 1..k : data[j] = Nth(from, c[n] + j - 1, mod)
  BY <1>0 DEF Behind
<1> HIDE DEF g, bufs, k
<1>15. x.data + Len(x.bytes) <= len
  <2> HIDE DEF o
  <2> QED BY <1>1, <1>3, <1>5, <1>6, <1>11, SMTT(30)
<1>16. Shape(b, g, len)
  <2>1. b # <<>>
    BY <1>2, <1>7
  <2>2. \A i \in 1..n : /\ bufs[i].data + Len(bufs[i].bytes) <= len
                        /\ i < g => bufs[i].bytes # <<>>
                        /\ i > g => bufs[i] = EmptyBuf
    BY <1>1 DEF Shape
  <2>3. ASSUME NEW i \in 1..n
        PROVE  /\ b[i].data + Len(b[i].bytes) <= len
               /\ i < g => b[i].bytes # <<>>
               /\ i > g => b[i] = EmptyBuf
    <3>1. CASE i = g
      BY <1>1, <1>7, <1>15, <3>1
    <3>2. CASE i # g
      BY <1>7, <2>2, <3>2
    <3> QED BY <3>1, <3>2
  <2>4. g \in 0..n /\ g # 0
    BY <1>1, <1>2
  <2> QED BY <1>7, <2>1, <2>3, <2>4 DEF Shape
<1> DEFINE d == MoreFrom(c, n, g, k)
<1>17. /\ Adds(b, d) /\ d[n] = c[n] + k
       /\ \A i \in 1..g : d[i - 1] = c[i - 1]
       /\ c[n] = c[g - 1] + Len(bufs[g].bytes)
  <2>1. Len(b[g].bytes) = Len(bufs[g].bytes) + k
    BY <1>5, <1>6, <1>7
  <2>2. bufs \in Seq(Buf) /\ Adds(bufs, c) /\ b \in Seq(Buf) /\ Len(b) = Len(bufs) /\ k \in Nat
    BY <1>1, <1>7
  <2>3. Grown(bufs, b, g, k)
    BY <1>7, <1>12, <2>1 DEF Grown
  <2>4. SumsGrown(bufs, c, b, d, g, k)
    BY <1>2, <2>2, <2>3, FilledSum
  <2> HIDE DEF d
  <2> QED BY <2>4 DEF SumsGrown
<1> HIDE DEF d
<1>18. Numbered(b, d, from, mod)
  <2>1. b[g].bytes = bufs[g].bytes \o data
    BY <1>6, <1>7, <1>y
  <2>2. c[g - 1] \in Nat
    <3>1. g - 1 \in 0..n
      BY <1>1, <1>2
    <3> QED BY <1>1, <3>1 DEF Adds
  <2>3. \A j \in 1..Len(data) : data[j] = Nth(from, c[g - 1] + Len(bufs[g].bytes) + j - 1, mod)
    BY <1>14, <1>17 DEF k
  <2> QED BY <1>1, <1>2, <1>7, <1>12, <1>17, <2>1, <2>2, <2>3, FilledNumbers
<1>19. Counted(t, max)
  BY <1>7, <1>9, <1>13 DEF Counted
<1>20. Sound(t, d, max, len, from, mod)
  BY <1>9, <1>16, <1>17, <1>18, <1>19 DEF Sound
<1>21. t.data_bytes = d[Len(t.bufs)]
  BY <1>0, <1>7, <1>9, <1>17 DEF s
<1>22. Good(t, max, len, from, mod)
  <2>1. \E e : Sound(t, e, max, len, from, mod) /\ t.data_bytes = e[Len(t.bufs)]
    BY <1>20, <1>21
  <2> QED BY <2>1, GoodSums
<1> QED BY <1>9, <1>22 DEF t, s, g, k

-----------------------------------------------------------------------------
(* Data is removed. *)

\* Counting on from a number.
LEMMA NthShift ==
  ASSUME NEW from \in Nat, NEW a \in Nat, NEW n \in Nat, NEW mod \in Nat \ {0}
  PROVE  /\ Nth(from, a, mod) \in Nat
         /\ Nth(Nth(from, a, mod), n, mod) = Nth(from, a + n, mod)
<1> DEFINE x == from + a
<1>1. x \in Int /\ n \in Int /\ x + n = from + (a + n)
  OBVIOUS
<1> HIDE DEF x
<1>2. ((x % mod) + n) % mod = (x + n) % mod
  BY <1>1, ModAdd
<1>3. x % mod \in Nat
  BY <1>1, DivMod
<1> QED BY <1>1, <1>2, <1>3 DEF Nth, x

\* b is list l after n calls of ustream_free_buf.
Freed(l, b, n) ==
  /\ b \in List /\ b.buffer_len = l.buffer_len /\ b.data_bytes = l.data_bytes
  /\ b.buffers = Len(b.bufs) /\ Len(b.bufs) <= Len(l.bufs) /\ Len(b.bufs) >= Len(l.bufs) - n
  /\ \A k \in 1..Len(b.bufs) :
       b.bufs[k] = IF k <= Len(l.bufs) - n THEN l.bufs[n + k] ELSE EmptyBuf
  /\ b.dt = IF l.dt > n THEN l.dt - n ELSE IF Len(b.bufs) = 0 THEN 0 ELSE 1

With(l, b, k, e) == [l EXCEPT !.bufs = b, !.buffers = k, !.dt = e]

HasFields(a, l, b, k, e) ==
  /\ a \in List /\ a.bufs = b /\ a.buffers = k /\ a.dt = e
  /\ a.data_bytes = l.data_bytes /\ a.buffer_len = l.buffer_len

\* The fields of a list that are replaced.
LEMMA ListWith ==
  ASSUME NEW l \in List, NEW b \in Seq(Buf), NEW e \in Nat, NEW k \in Int
  PROVE  HasFields(With(l, b, k, e), l, b, k, e)
BY DEF List, With, HasFields

\* One more call.
LEMMA FreedOne ==
  ASSUME NEW l \in List, NEW b, NEW n \in Nat, n < Len(l.bufs), Freed(l, b, n), NEW min
  PROVE  Freed(l, ustream_free_buf(b, min), n + 1)
<1> DEFINE s == Tail(b.bufs)
           e == IF b.dt = 1 THEN (IF Len(b.bufs) > 1 THEN 1 ELSE 0) ELSE b.dt - 1
           k == b.buffers - 1
           rest == With(b, s, k, e)
           N == Len(l.bufs)
           M == Len(b.bufs)
<1>1. /\ b \in List /\ b.bufs \in Seq(Buf) /\ M \in Nat /\ N \in Nat /\ l.dt \in Nat /\ b.dt \in Nat
      /\ b.buffers \in Int
  BY DEF Freed, List
<1>2. /\ b.buffer_len = l.buffer_len /\ b.data_bytes = l.data_bytes
      /\ b.buffers = M /\ M <= N /\ M >= N - n
      /\ \A i \in 1..M : b.bufs[i] = IF i <= N - n THEN l.bufs[n + i] ELSE EmptyBuf
      /\ b.dt = IF l.dt > n THEN l.dt - n ELSE IF M = 0 THEN 0 ELSE 1
  BY DEF Freed
<1>3. M >= 1 /\ b.bufs # <<>>
  BY <1>1, <1>2
<1>4. s \in Seq(Buf) /\ Len(s) = M - 1 /\ \A i \in 1..(M - 1) : s[i] = b.bufs[i + 1]
  BY <1>1, <1>3
<1>5. e \in Nat /\ k \in Int /\ b.dt >= 1
  BY <1>1, <1>2, <1>3
<1>6. e = IF l.dt > n + 1 THEN l.dt - (n + 1) ELSE IF M = 1 THEN 0 ELSE 1
  <2>1. b.dt = IF l.dt > n THEN l.dt - n ELSE 1
    BY <1>1, <1>2, <1>3
  <2>2. CASE l.dt > n + 1
    <3>1. b.dt = l.dt - n /\ b.dt # 1
      BY <1>1, <2>1, <2>2
    <3> QED BY <1>1, <2>2, <3>1
  <2>3. CASE ~(l.dt > n + 1)
    <3>1. b.dt = 1
      BY <1>1, <2>1, <2>3
    <3>2. e = IF M > 1 THEN 1 ELSE 0
      BY <3>1
    <3>a. M \in Nat /\ M >= 1
      BY <1>1, <1>3
    <3> HIDE DEF e, M
    <3>3. (M > 1) <=> (M # 1)
      BY <3>a
    <3> QED BY <2>3, <3>2, <3>3
  <2> QED BY <2>2, <2>3
<1>7. ustream_free_buf(b, min) = IF rest.buffers >= min THEN rest ELSE ustream_add_buf(rest)
  BY DEF ustream_free_buf, With
<1> HIDE DEF s, e
<1>8. /\ rest \in List /\ rest.bufs = s /\ rest.buffers = k /\ rest.dt = e
      /\ rest.data_bytes = b.data_bytes /\ rest.buffer_len = b.buffer_len
  <2> HIDE DEF k
  <2>1. b \in List /\ s \in Seq(Buf) /\ e \in Nat /\ k \in Int
    BY <1>1, <1>4, <1>5
  <2>2. HasFields(rest, b, s, k, e)
    BY <2>1, ListWith
  <2> QED BY <2>2 DEF HasFields
<1>9. \A i \in 1..(M - 1) : s[i] = IF i <= N - (n + 1) THEN l.bufs[(n + 1) + i] ELSE EmptyBuf
  <2> SUFFICES ASSUME NEW i \in 1..(M - 1)
               PROVE  s[i] = IF i <= N - (n + 1) THEN l.bufs[(n + 1) + i] ELSE EmptyBuf
    OBVIOUS
  <2>1. i + 1 \in 1..M /\ n + (i + 1) = (n + 1) + i /\ (i + 1 <= N - n <=> i <= N - (n + 1))
    BY <1>1
  <2>2. s[i] = b.bufs[i + 1]
    BY <1>4
  <2>3. b.bufs[i + 1] = IF i + 1 <= N - n THEN l.bufs[n + (i + 1)] ELSE EmptyBuf
    BY <1>2, <2>1
  <2> QED BY <2>1, <2>2, <2>3
<1> HIDE DEF rest
<1>10. CASE rest.buffers >= min
  <2>1. ustream_free_buf(b, min) = rest
    BY <1>7, <1>10
  <2>2. /\ rest.buffers = Len(s) /\ Len(s) <= N /\ Len(s) >= N - (n + 1)
        /\ e = IF l.dt > n + 1 THEN l.dt - (n + 1) ELSE IF Len(s) = 0 THEN 0 ELSE 1
    BY <1>1, <1>2, <1>3, <1>4, <1>6, <1>8
  <2>3. \A i \in 1..Len(s) : s[i] = IF i <= N - (n + 1) THEN l.bufs[(n + 1) + i] ELSE EmptyBuf
    BY <1>4, <1>9
  <2> QED BY <1>2, <1>8, <2>1, <2>2, <2>3 DEF Freed
<1>11. CASE ~(rest.buffers >= min)
  <2> DEFINE u == Append(s, EmptyBuf)
             f == IF rest.dt = 0 THEN 1 ELSE rest.dt
             m == rest.buffers + 1
             a == With(rest, u, m, f)
  <2>1. ustream_free_buf(b, min) = a
    BY <1>7, <1>8, <1>11 DEF ustream_add_buf, With
  <2>2. EmptyBuf \in Buf
    BY DEF EmptyBuf, Buf
  <2>3. u \in Seq(Buf) /\ Len(u) = M /\ u[M] = EmptyBuf /\ \A i \in 1..(M - 1) : u[i] = s[i]
    BY <1>1, <1>4, <2>2
  <2>4. f \in Nat /\ m \in Int /\ m = M
    BY <1>1, <1>2, <1>5, <1>8
  <2>5. f = IF l.dt > n + 1 THEN l.dt - (n + 1) ELSE IF M = 0 THEN 0 ELSE 1
    BY <1>1, <1>3, <1>6, <1>8
  <2> HIDE DEF u, f, m
  <2>6. /\ a \in List /\ a.bufs = u /\ a.buffers = m /\ a.dt = f
        /\ a.data_bytes = rest.data_bytes /\ a.buffer_len = rest.buffer_len
    <3>1. rest \in List /\ u \in Seq(Buf) /\ f \in Nat /\ m \in Int
      BY <1>8, <2>3, <2>4
    <3>2. HasFields(a, rest, u, m, f)
      BY <3>1, ListWith
    <3> QED BY <3>2 DEF HasFields
  <2> HIDE DEF a
  <2>7. ASSUME NEW i \in 1..M
        PROVE  u[i] = IF i <= N - (n + 1) THEN l.bufs[(n + 1) + i] ELSE EmptyBuf
    <3>1. CASE i = M
      <4>1. CASE M <= N - (n + 1)
        BY <1>1, <1>2, <4>1
      <4>2. CASE ~(M <= N - (n + 1))
        BY <2>3, <3>1, <4>2
      <4> QED BY <4>1, <4>2
    <3>2. CASE i # M
      <4>1. i \in 1..(M - 1)
        BY <1>1, <3>2
      <4> QED BY <1>9, <2>3, <4>1
    <3> QED BY <3>1, <3>2
  <2>8. M <= N /\ M >= N - (n + 1)
    BY <1>1, <1>2
  <2> QED BY <1>2, <1>8, <2>1, <2>3, <2>4, <2>5, <2>6, <2>7, <2>8 DEF Freed
<1> QED BY <1>10, <1>11

Freeing(l, min, m, f) ==
  f = [i \in 0..m |-> IF i = 0 THEN l ELSE ustream_free_buf(f[i - 1], min)]

\* The recursive function of FreeBufs exists.
LEMMA FreeingExists ==
  ASSUME NEW l, NEW min, NEW n \in Nat
  PROVE  \E f : Freeing(l, min, n, f)
<1> DEFINE T == {m \in Nat : \E f : Freeing(l, min, m, f)}
<1>1. 0 \in T
  <2> DEFINE g == [i \in 0..0 |-> l]
  <2>1. g = [i \in 0..0 |-> IF i = 0 THEN l ELSE ustream_free_buf(g[i - 1], min)]
    OBVIOUS
  <2> QED BY <2>1 DEF Freeing
<1>2. ASSUME NEW m \in Nat, m \in T PROVE m + 1 \in T
  <2>1. PICK f : Freeing(l, min, m, f)
    BY <1>2
  <2> DEFINE g == [i \in 0..(m + 1) |-> IF i <= m THEN f[i] ELSE ustream_free_buf(f[m], min)]
  <2>2. g = [i \in 0..(m + 1) |-> IF i = 0 THEN l ELSE ustream_free_buf(g[i - 1], min)]
    <3>1. ASSUME NEW i \in 0..(m + 1)
          PROVE  g[i] = IF i = 0 THEN l ELSE ustream_free_buf(g[i - 1], min)
      BY <2>1 DEF Freeing
    <3> QED BY <3>1
  <2> HIDE DEF g
  <2> QED BY <2>2 DEF Freeing
<1>3. Nat \subseteq T
  <2> HIDE DEF T
  <2> QED BY <1>1, <1>2, Induction
<1> QED BY <1>3

\* What FreeBufs computes.
LEMMA FreeBufsFreed ==
  ASSUME NEW l \in List, NEW min, NEW n \in 0..Len(l.bufs),
         l.buffers = Len(l.bufs), l.dt = 0 <=> l.bufs = <<>>
  PROVE  Freed(l, FreeBufs(l, min, n), n)
<1> DEFINE g == CHOOSE f : f = [i \in 0..n |-> IF i = 0 THEN l ELSE ustream_free_buf(f[i - 1], min)]
<1>0. Len(l.bufs) \in Nat /\ n \in Nat /\ n <= Len(l.bufs) /\ l.dt \in Nat /\ l.bufs \in Seq(Buf)
  BY DEF List
<1>1. g = [i \in 0..n |-> IF i = 0 THEN l ELSE ustream_free_buf(g[i - 1], min)]
  BY <1>0, FreeingExists DEF Freeing
<1>2. FreeBufs(l, min, n) = g[n]
  BY Zenon DEF FreeBufs
<1> HIDE DEF g
<1>3. \A i \in 0..n : g[i] = IF i = 0 THEN l ELSE ustream_free_buf(g[i - 1], min)
  BY <1>1
<1> DEFINE T == {i \in Nat : i <= n => Freed(l, g[i], i)}
<1>4. 0 \in T
  <2>1. g[0] = l
    BY <1>0, <1>3
  <2>2. \A k \in 1..Len(l.bufs) : k <= Len(l.bufs) - 0 /\ 0 + k = k
    BY <1>0
  <2>3. l.dt = IF l.dt > 0 THEN l.dt - 0 ELSE IF Len(l.bufs) = 0 THEN 0 ELSE 1
    BY <1>0
  <2>4. Freed(l, l, 0)
    BY <1>0, <2>2, <2>3 DEF Freed
  <2> QED BY <2>1, <2>4
<1>5. ASSUME NEW i \in Nat, i \in T PROVE i + 1 \in T
  <2> SUFFICES ASSUME i + 1 <= n PROVE Freed(l, g[i + 1], i + 1)
    OBVIOUS
  <2>1. Freed(l, g[i], i) /\ i < Len(l.bufs)
    BY <1>0, <1>5
  <2>2. g[i + 1] = ustream_free_buf(g[i], min)
    <3>1. i + 1 \in 0..n /\ i + 1 # 0 /\ (i + 1) - 1 = i
      BY <1>0
    <3> QED BY <1>3, <3>1
  <2> QED BY <2>1, <2>2, FreedOne
<1>6. Nat \subseteq T
  <2> HIDE DEF T
  <2> QED BY <1>4, <1>5, Induction
<1> QED BY <1>0, <1>2, <1>6

\* The values of the sums.
LEMMA AddsFacts ==
  ASSUME NEW bufs \in Seq(Buf), NEW c, Adds(bufs, c)
  PROVE  /\ \A i \in 0..Len(bufs) : c[i] \in Nat
         /\ \A i \in 1..Len(bufs) : c[i] = c[i - 1] + Len(bufs[i].bytes) /\ Len(bufs[i].bytes) \in Nat
<1>1. \A i \in 1..Len(bufs) : Len(bufs[i].bytes) \in Nat
  BY BufFields
<1> QED BY <1>1 DEF Adds

\* The sums behind buffer n.
SumsFrom(c, N, n, M) == [k \in 0..M |-> (IF k <= N - n THEN c[n + k] ELSE c[N]) - c[n]]

LEMMA FreedSums ==
  ASSUME NEW bufs \in Seq(Buf), NEW c, Adds(bufs, c), NEW n \in 0..Len(bufs),
         NEW b \in Seq(Buf), Len(b) >= Len(bufs) - n,
         \A k \in 1..Len(b) : b[k] = IF k <= Len(bufs) - n THEN bufs[n + k] ELSE EmptyBuf
  PROVE  LET d == SumsFrom(c, Len(bufs), n, Len(b))
         IN  /\ Adds(b, d) /\ d[Len(b)] = c[Len(bufs)] - c[n]
             /\ \A k \in 1..(Len(bufs) - n) : d[k - 1] = c[n + (k - 1)] - c[n]
<1> DEFINE N == Len(bufs)
           M == Len(b)
           d == SumsFrom(c, N, n, M)
<1>0. N \in Nat /\ M \in Nat /\ n \in Nat /\ n <= N
  OBVIOUS
<1>1. /\ \A i \in 0..N : c[i] \in Nat
      /\ \A i \in 1..N : c[i] = c[i - 1] + Len(bufs[i].bytes) /\ Len(bufs[i].bytes) \in Nat
  BY AddsFacts
<1>2. \A j \in n..N : c[n] <= c[j]
  BY SumsGrow
<1>3. Len(EmptyBuf.bytes) = 0
  BY DEF EmptyBuf
<1>4. \A k \in 0..M : d[k] = (IF k <= N - n THEN c[n + k] ELSE c[N]) - c[n]
  BY DEF SumsFrom
<1>5. DOMAIN d = 0..M /\ d = [k \in 0..M |-> d[k]]
  BY DEF SumsFrom
<1> HIDE DEF d
<1>6. ASSUME NEW k \in 0..M PROVE d[k] \in Nat
  <2>1. CASE k <= N - n
    <3>1. n + k \in n..N /\ n + k \in 0..N /\ n \in 0..N
      BY <1>0, <2>1
    <3>2. d[k] = c[n + k] - c[n] /\ c[n + k] \in Nat /\ c[n] \in Nat /\ c[n] <= c[n + k]
      BY <1>1, <1>2, <1>4, <2>1, <3>1
    <3> QED BY <3>2
  <2>2. CASE ~(k <= N - n)
    <3>1. N \in n..N /\ N \in 0..N /\ n \in 0..N
      BY <1>0
    <3>2. d[k] = c[N] - c[n] /\ c[N] \in Nat /\ c[n] \in Nat /\ c[n] <= c[N]
      BY <1>1, <1>2, <1>4, <2>2, <3>1
    <3> QED BY <3>2
  <2> QED BY <2>1, <2>2
<1>7. d[0] = 0
  <2>1. 0 \in 0..M /\ 0 <= N - n /\ n + 0 = n /\ c[n] \in Nat
    BY <1>0, <1>1
  <2>2. d[0] = c[n] - c[n]
    BY <1>4, <2>1
  <2> QED BY <2>1, <2>2
<1>8. ASSUME NEW k \in 1..M PROVE d[k] = d[k - 1] + Len(b[k].bytes)
  <2>0. k - 1 \in 0..M /\ k \in 0..M
    BY <1>0
  <2>1. CASE k <= N - n
    <3>1. n + k \in 1..N /\ n + (k - 1) = (n + k) - 1 /\ k - 1 <= N - n /\ n \in 0..N /\ (n + k) - 1 \in 0..N
      BY <1>0, <2>1
    <3>2. d[k] = c[n + k] - c[n] /\ d[k - 1] = c[n + (k - 1)] - c[n] /\ b[k] = bufs[n + k]
      BY <1>4, <2>0, <2>1, <3>1
    <3>3. /\ c[n + k] = c[(n + k) - 1] + Len(bufs[n + k].bytes) /\ Len(bufs[n + k].bytes) \in Nat
          /\ c[(n + k) - 1] \in Nat /\ c[n] \in Nat
      BY <1>1, <3>1
    <3> QED BY <3>1, <3>2, <3>3, SMTT(30)
  <2>2. CASE ~(k <= N - n)
    <3>1. Len(b[k].bytes) = 0
      BY <1>3, <2>2
    <3>2. d[k] = c[N] - c[n]
      BY <1>4, <2>0, <2>2
    <3>3. d[k - 1] = c[N] - c[n]
      <4>1. CASE k - 1 <= N - n
        <5>1. n + (k - 1) = N
          BY <1>0, <2>2, <4>1
        <5> QED BY <1>4, <2>0, <4>1, <5>1
      <4>2. CASE ~(k - 1 <= N - n)
        BY <1>4, <2>0, <4>2
      <4> QED BY <4>1, <4>2
    <3>4. c[N] - c[n] \in Int
      <4>1. c[N] \in Nat /\ c[n] \in Nat
        BY <1>0, <1>1
      <4> QED BY <4>1
    <3> QED BY <3>1, <3>2, <3>3, <3>4
  <2> QED BY <2>1, <2>2
<1>9. Adds(b, d)
  <2>1. d \in [0..M -> Nat]
    BY <1>5, <1>6
  <2> QED BY <1>7, <1>8, <2>1 DEF Adds
<1>10. d[M] = c[N] - c[n]
  <2>1. M \in 0..M /\ (M <= N - n => n + M = N)
    BY <1>0
  <2> QED BY <1>4, <2>1
<1>11. \A k \in 1..(N - n) : d[k - 1] = c[n + (k - 1)] - c[n]
  <2> SUFFICES ASSUME NEW k \in 1..(N - n) PROVE d[k - 1] = c[n + (k - 1)] - c[n]
    OBVIOUS
  <2>1. k - 1 \in 0..M /\ k - 1 <= N - n
    BY <1>0
  <2> QED BY <1>4, <2>1
<1> QED BY <1>9, <1>10, <1>11 DEF d

LEMMA NthRest ==
  ASSUME NEW from \in Nat, NEW mod \in Nat \ {0}, NEW p \in Nat, NEW q \in Nat, NEW y \in Nat,
         p = y + q
  PROVE  Nth(from, p, mod) = Nth(Nth(from, y, mod), q, mod)
BY NthShift

LEMMA FreedNumbers ==
  ASSUME NEW bufs \in Seq(Buf), NEW c, Adds(bufs, c), NEW n \in 0..Len(bufs),
         NEW b \in Seq(Buf), NEW d, NEW from \in Nat, NEW mod \in Nat \ {0},
         Numbered(bufs, c, from, mod),
         \A k \in 1..Len(b) : b[k] = IF k <= Len(bufs) - n THEN bufs[n + k] ELSE EmptyBuf,
         \A k \in 1..(Len(bufs) - n) : d[k - 1] = c[n + (k - 1)] - c[n]
  PROVE  Numbered(b, d, Nth(from, c[n], mod), mod)
<1> DEFINE N == Len(bufs)
<1>0. N \in Nat /\ Len(b) \in Nat /\ n \in Nat /\ n <= N
  OBVIOUS
<1>1. \A i \in 0..N : c[i] \in Nat
  BY AddsFacts
<1>2. \A j \in n..N : c[n] <= c[j]
  BY SumsGrow
<1> SUFFICES ASSUME NEW k \in 1..Len(b), NEW j \in 1..Len(b[k].bytes)
             PROVE  b[k].bytes[j] = Nth(Nth(from, c[n], mod), d[k - 1] + j - 1, mod)
  BY DEF Numbered
<1>3. k <= N - n
  <2> SUFFICES ASSUME ~(k <= N - n) PROVE FALSE
    OBVIOUS
  <2>1. b[k].bytes = <<>>
    BY DEF EmptyBuf
  <2> QED BY <2>1
<1>4. b[k] = bufs[n + k] /\ d[k - 1] = c[n + (k - 1)] - c[n]
  <2>1. k \in 1..(N - n)
    BY <1>0, <1>3
  <2> QED BY <1>3, <2>1
<1>5. n + k \in 1..N /\ n + (k - 1) = (n + k) - 1 /\ (n + k) - 1 \in n..N /\ (n + k) - 1 \in 0..N /\ n \in 0..N
  BY <1>0, <1>3
<1>6. b[k].bytes[j] = Nth(from, c[(n + k) - 1] + j - 1, mod)
  BY <1>4, <1>5 DEF Numbered
<1> DEFINE x == c[(n + k) - 1]
           y == c[n]
           p == x + j - 1
           q == d[k - 1] + j - 1
<1>7. x \in Nat /\ y \in Nat /\ y <= x /\ j \in Nat \ {0}
  BY <1>1, <1>2, <1>5, SMTT(30)
<1>8. b[k].bytes[j] = Nth(from, p, mod)
  BY <1>6
<1>9. d[k - 1] = x - y
  BY <1>4, <1>5
<1> HIDE DEF x, y
<1>10. p \in Nat /\ q \in Nat /\ p = y + q
  BY <1>7, <1>9
<1> HIDE DEF p, q
<1>11. Nth(from, p, mod) = Nth(Nth(from, y, mod), q, mod)
  BY <1>7, <1>10, NthRest
<1> QED BY <1>8, <1>11 DEF y, q

\* d counts the bytes that are left.
Rest(b, d, c, N, n) == d[Len(b.bufs)] = c[N] - c[n]

\* What is left after n buffers were freed is as sound as it was.
LEMMA FreedSound ==
  ASSUME NEW l, NEW c, NEW max \in Int, NEW len \in Nat \ {0}, NEW from \in Nat, NEW mod \in Nat \ {0},
         Sound(l, c, max, len, from, mod), NEW n \in 0..Len(l.bufs), NEW b, Freed(l, b, n)
  PROVE  LET d == SumsFrom(c, Len(l.bufs), n, Len(b.bufs))
         IN  /\ Sound(b, d, max, len, Nth(from, c[n], mod), mod)
             /\ Rest(b, d, c, Len(l.bufs), n)
<1> DEFINE bufs == l.bufs
           s == b.bufs
           N == Len(bufs)
           M == Len(s)
           d == SumsFrom(c, N, n, M)
<1>1. /\ l \in List /\ bufs \in Seq(Buf) /\ N \in Nat /\ l.buffer_len = len
      /\ l.dt \in Nat /\ Shape(bufs, l.dt, len) /\ Counted(l, max) /\ Adds(bufs, c)
      /\ Numbered(bufs, c, from, mod)
  BY DEF Sound, List
<1>2. /\ b \in List /\ s \in Seq(Buf) /\ M \in Nat /\ b.buffer_len = len /\ b.dt \in Nat
      /\ b.buffers = M /\ M <= N /\ M >= N - n
  BY <1>1 DEF Freed, List
<1>3. \A k \in 1..M : s[k] = IF k <= N - n THEN bufs[n + k] ELSE EmptyBuf
  BY DEF Freed
<1>4. b.dt = IF l.dt > n THEN l.dt - n ELSE IF M = 0 THEN 0 ELSE 1
  BY DEF Freed
<1>5. l.buffers = N /\ (max > 0 => l.buffers <= max)
  BY <1>1 DEF Counted
<1>6. /\ l.dt <= N
      /\ \A i \in 1..N : /\ bufs[i].data + Len(bufs[i].bytes) <= len
                         /\ i < l.dt => bufs[i].bytes # <<>>
                         /\ i > l.dt => bufs[i] = EmptyBuf
  BY <1>1 DEF Shape
<1>n. n \in Nat /\ n <= N
  BY <1>1
<1> HIDE DEF bufs, s
<1>7. Shape(s, b.dt, len)
  <2>0. EmptyBuf.data + Len(EmptyBuf.bytes) <= len
    BY DEF EmptyBuf
  <2>1. b.dt \in 0..M /\ (b.dt = 0 <=> M = 0)
    BY <1>1, <1>2, <1>4, <1>6, <1>n
  <2>2. s = <<>> <=> M = 0
    BY <1>2
  <2>3. ASSUME NEW k \in 1..M
        PROVE  /\ s[k].data + Len(s[k].bytes) <= len
               /\ k < b.dt => s[k].bytes # <<>>
               /\ k > b.dt => s[k] = EmptyBuf
    <3>1. CASE k <= N - n
      <4>1. n + k \in 1..N /\ s[k] = bufs[n + k]
        BY <1>1, <1>3, <1>n, <3>1
      <4>2. (k < b.dt => n + k < l.dt) /\ (k > b.dt => n + k > l.dt)
        BY <1>1, <1>2, <1>4, <1>n
      <4> QED BY <1>6, <4>1, <4>2
    <3>2. CASE ~(k <= N - n)
      <4>1. s[k] = EmptyBuf
        BY <1>3, <3>2
      <4>2. ~(k < b.dt)
        BY <1>1, <1>2, <1>4, <1>6, <1>n, <3>2
      <4> QED BY <2>0, <4>1, <4>2
    <3> QED BY <3>1, <3>2
  <2> QED BY <2>1, <2>2, <2>3 DEF Shape
<1>8. Counted(b, max)
  BY <1>1, <1>2, <1>5 DEF Counted, s
<1>9. /\ Adds(s, d) /\ d[M] = c[N] - c[n]
      /\ \A k \in 1..(N - n) : d[k - 1] = c[n + (k - 1)] - c[n]
  <2>1. n \in 0..Len(bufs)
    BY <1>1, <1>n
  <2> QED BY <1>1, <1>2, <1>3, <2>1, FreedSums
<1> HIDE DEF d
<1>10. Numbered(s, d, Nth(from, c[n], mod), mod)
  <2>1. n \in 0..Len(bufs)
    BY <1>1, <1>n
  <2> QED BY <1>1, <1>2, <1>3, <1>9, <2>1, FreedNumbers
<1>11. Sound(b, d, max, len, Nth(from, c[n], mod), mod)
  BY <1>2, <1>7, <1>8, <1>9, <1>10 DEF Sound, s
<1> QED BY <1>9, <1>11 DEF d, s, bufs, Rest

\* The end of a sequence.
LEMMA Suffix ==
  ASSUME NEW S, NEW s \in Seq(S), NEW k \in 0..Len(s)
  PROVE  /\ SubSeq(s, k + 1, Len(s)) \in Seq(S)
         /\ Len(SubSeq(s, k + 1, Len(s))) = Len(s) - k
         /\ \A j \in 1..(Len(s) - k) : SubSeq(s, k + 1, Len(s))[j] = s[k + j]
<1> DEFINE i == k + 1
           c == SubSeq(s, i, Len(s))
<1>1. i \in 1..(Len(s) + 1) /\ Len(s) - i + 1 = Len(s) - k /\ \A j \in Int : i + j - 1 = k + j
  OBVIOUS
<1> HIDE DEF i
<1>2. c \in Seq(S) /\ Len(c) = Len(s) - i + 1 /\ \A j \in 1..(Len(s) - i + 1) : c[j] = s[i + j - 1]
  BY <1>1
<1> HIDE DEF c
<1>3. ASSUME NEW j \in 1..(Len(s) - k) PROVE c[j] = s[k + j]
  <2>1. j \in 1..(Len(s) - i + 1) /\ i + j - 1 = k + j
    BY <1>1
  <2> QED BY <1>2, <2>1
<1>4. c \in Seq(S) /\ Len(c) = Len(s) - k
  BY <1>1, <1>2
<1> QED BY <1>3, <1>4 DEF c, i

\* The head buffer without its first k bytes.
Cut(b, k) == [data |-> b.data + k, bytes |-> SubSeq(b.bytes, k + 1, Len(b.bytes))]

LEMMA CutBuf ==
  ASSUME NEW b \in Buf, NEW k \in Nat, k < Len(b.bytes)
  PROVE  /\ Cut(b, k) \in Buf /\ Cut(b, k).data = b.data + k
         /\ Len(Cut(b, k).bytes) = Len(b.bytes) - k /\ Cut(b, k).bytes # <<>>
         /\ \A j \in 1..(Len(b.bytes) - k) : Cut(b, k).bytes[j] = b.bytes[k + j]
<1> DEFINE s == b.bytes
           t == SubSeq(s, k + 1, Len(s))
<1>1. b.data \in Nat /\ s \in Seq(Nat) /\ Len(s) \in Nat
  BY BufFields
<1>2. Cut(b, k) = [data |-> b.data + k, bytes |-> t]
  BY DEF Cut
<1> HIDE DEF s
<1>3. t \in Seq(Nat) /\ Len(t) = Len(s) - k /\ \A j \in 1..(Len(s) - k) : t[j] = s[k + j]
  <2>1. k \in 0..Len(s)
    BY <1>1 DEF s
  <2> QED BY <1>1, <2>1, Suffix
<1> HIDE DEF t
<1>4. t # <<>> /\ b.data + k \in Nat
  BY <1>1, <1>3 DEF s
<1>5. Cut(b, k) \in Buf /\ Cut(b, k).data = b.data + k /\ Cut(b, k).bytes = t
  BY <1>2, <1>3, <1>4 DEF Buf
<1> QED BY <1>3, <1>4, <1>5 DEF s

\* The sums without the first k bytes.
LessBy(c, N, k) == [i \in 0..N |-> IF i = 0 THEN 0 ELSE c[i] - k]

LEMMA CutSums ==
  ASSUME NEW bufs \in Seq(Buf), bufs # <<>>, NEW c, Adds(bufs, c),
         NEW from \in Nat, NEW mod \in Nat \ {0}, Numbered(bufs, c, from, mod),
         NEW k \in Nat, k < Len(bufs[1].bytes)
  PROVE  LET b == [bufs EXCEPT ![1] = Cut(bufs[1], k)]
             d == LessBy(c, Len(bufs), k)
         IN  /\ Adds(b, d) /\ d[Len(bufs)] = c[Len(bufs)] - k
             /\ Numbered(b, d, Nth(from, k, mod), mod)
<1> DEFINE N == Len(bufs)
           x == Cut(bufs[1], k)
           b == [bufs EXCEPT ![1] = x]
           d == LessBy(c, N, k)
<1>0. N \in Nat /\ N >= 1 /\ 1 \in 1..N
  OBVIOUS
<1>1. /\ \A i \in 0..N : c[i] \in Nat
      /\ \A i \in 1..N : c[i] = c[i - 1] + Len(bufs[i].bytes) /\ Len(bufs[i].bytes) \in Nat
  BY AddsFacts
<1>2. c[0] = 0
  BY DEF Adds
<1>3. c[1] = Len(bufs[1].bytes) /\ c[1] \in Nat
  <2>1. c[1] = c[1 - 1] + Len(bufs[1].bytes) /\ c[1] \in Nat /\ Len(bufs[1].bytes) \in Nat
    BY <1>0, <1>1
  <2> QED BY <1>2, <2>1
<1>4. \A j \in 1..N : c[1] <= c[j]
  <2>1. 1 \in 0..Len(bufs)
    BY <1>0
  <2> QED BY <2>1, SumsGrow
<1>5. bufs[1] \in Buf
  BY <1>0
<1>6. /\ x \in Buf /\ Len(x.bytes) = Len(bufs[1].bytes) - k
      /\ \A j \in 1..(Len(bufs[1].bytes) - k) : x.bytes[j] = bufs[1].bytes[k + j]
  BY <1>5, CutBuf
<1> HIDE DEF x
<1>7. b \in Seq(Buf) /\ Len(b) = N /\ b[1] = x /\ \A i \in 1..N : i # 1 => b[i] = bufs[i]
  BY <1>0, <1>6, ElementReplaced
<1> HIDE DEF b
<1>8. \A i \in 0..N : d[i] = IF i = 0 THEN 0 ELSE c[i] - k
  BY DEF LessBy
<1>9. d = [i \in 0..N |-> d[i]]
  BY DEF LessBy
<1> HIDE DEF d
<1>10. ASSUME NEW i \in 1..N PROVE d[i] = c[i] - k /\ d[i] \in Nat
  <2>1. c[i] \in Nat /\ c[1] <= c[i] /\ d[i] = c[i] - k
    BY <1>0, <1>1, <1>4, <1>8
  <2>2. k < c[1] /\ c[1] \in Nat
    BY <1>3
  <2> QED BY <2>1, <2>2
<1>11. d[0] = 0
  BY <1>0, <1>8
<1>12. Adds(b, d)
  <2>1. d \in [0..N -> Nat]
    <3>1. \A i \in 0..N : d[i] \in Nat
      BY <1>0, <1>10, <1>11
    <3> QED BY <1>9, <3>1
  <2>2. ASSUME NEW i \in 1..N PROVE d[i] = d[i - 1] + Len(b[i].bytes)
    <3>1. CASE i = 1
      <4>1. d[1] = c[1] - k /\ d[1] \in Nat
        BY <1>0, <1>10
      <4>2. Len(b[1].bytes) = c[1] - k
        BY <1>3, <1>6, <1>7
      <4> QED BY <1>11, <3>1, <4>1, <4>2
    <3>2. CASE i # 1
      <4>1. i - 1 \in 1..N /\ b[i] = bufs[i]
        BY <1>0, <1>7, <3>2
      <4>2. d[i] = c[i] - k /\ d[i - 1] = c[i - 1] - k /\ c[i - 1] \in Nat
        BY <1>0, <1>1, <1>10, <4>1
      <4>3. c[i] = c[i - 1] + Len(bufs[i].bytes) /\ Len(bufs[i].bytes) \in Nat
        BY <1>1
      <4> QED BY <4>1, <4>2, <4>3
    <3> QED BY <3>1, <3>2
  <2> QED BY <1>7, <1>11, <2>1, <2>2 DEF Adds
<1>13. d[N] = c[N] - k
  BY <1>0, <1>10
<1>14. Numbered(b, d, Nth(from, k, mod), mod)
  <2> SUFFICES ASSUME NEW i \in 1..N, NEW j \in 1..Len(b[i].bytes)
               PROVE  b[i].bytes[j] = Nth(Nth(from, k, mod), d[i - 1] + j - 1, mod)
    BY <1>7 DEF Numbered
  <2> DEFINE q == d[i - 1] + j - 1
             p == k + q
  <2>1. b[i].bytes[j] = Nth(from, p, mod) /\ q \in Nat
    <3>1. CASE i = 1
      <4>1. b[i].bytes[j] = bufs[1].bytes[k + j] /\ k + j \in 1..Len(bufs[1].bytes)
        <5>1. Len(x.bytes) = Len(bufs[1].bytes) - k /\ j \in 1..Len(x.bytes) /\ Len(bufs[1].bytes) \in Nat
          BY <1>0, <1>1, <1>6, <1>7, <3>1
        <5>2. j \in 1..(Len(bufs[1].bytes) - k) /\ k + j \in 1..Len(bufs[1].bytes)
          BY <5>1
        <5> QED BY <1>6, <1>7, <3>1, <5>2
      <4>2. bufs[1].bytes[k + j] = Nth(from, c[1 - 1] + (k + j) - 1, mod)
        BY <1>0, <4>1 DEF Numbered
      <4>3. c[1 - 1] + (k + j) - 1 = p /\ q \in Nat
        BY <1>2, <1>11, <3>1
      <4> QED BY <4>1, <4>2, <4>3
    <3>2. CASE i # 1
      <4>1. i - 1 \in 1..N /\ b[i] = bufs[i]
        BY <1>0, <1>7, <3>2
      <4>2. d[i - 1] = c[i - 1] - k /\ d[i - 1] \in Nat /\ c[i - 1] \in Nat
        BY <1>0, <1>1, <1>10, <4>1
      <4>3. b[i].bytes[j] = Nth(from, c[i - 1] + j - 1, mod)
        BY <4>1 DEF Numbered
      <4>4. c[i - 1] + j - 1 = p /\ q \in Nat
        <5> DEFINE u == d[i - 1]
                   v == c[i - 1]
        <5>1. u = v - k /\ u \in Nat /\ v \in Nat
          BY <4>2
        <5> HIDE DEF u, v
        <5>2. v + j - 1 = k + (u + j - 1) /\ u + j - 1 \in Nat
          BY <5>1
        <5> QED BY <5>2 DEF u, v
      <4> QED BY <4>3, <4>4
    <3> QED BY <3>1, <3>2
  <2>2. p \in Nat
    BY <2>1
  <2>3. p = k + q
    OBVIOUS
  <2> HIDE DEF p, q
  <2>4. Nth(from, p, mod) = Nth(Nth(from, k, mod), q, mod)
    BY <2>1, <2>2, <2>3, NthRest
  <2> QED BY <2>1, <2>4 DEF q
<1> QED BY <1>12, <1>13, <1>14 DEF b, d, x

WithBufs(l, s) == [l EXCEPT !.bufs = s]

LEMMA CutSound ==
  ASSUME NEW l, NEW c, NEW max \in Int, NEW len \in Nat \ {0}, NEW from \in Nat, NEW mod \in Nat \ {0},
         Sound(l, c, max, len, from, mod), l.bufs # <<>>, NEW k \in Nat, k < Len(l.bufs[1].bytes)
  PROVE  LET t == WithBufs(l, [l.bufs EXCEPT ![1] = Cut(l.bufs[1], k)])
             d == LessBy(c, Len(l.bufs), k)
         IN  /\ Sound(t, d, max, len, Nth(from, k, mod), mod)
             /\ d[Len(t.bufs)] = c[Len(l.bufs)] - k
             /\ t.data_bytes = l.data_bytes
<1> DEFINE bufs == l.bufs
           N == Len(bufs)
           x == Cut(bufs[1], k)
           b == [bufs EXCEPT ![1] = x]
           t == WithBufs(l, b)
           d == LessBy(c, N, k)
<1>1. /\ l \in List /\ bufs \in Seq(Buf) /\ N \in Nat /\ l.buffer_len = len
      /\ l.dt \in Nat /\ Shape(bufs, l.dt, len) /\ Counted(l, max) /\ Adds(bufs, c)
      /\ Numbered(bufs, c, from, mod)
  BY DEF Sound, List
<1>2. /\ Adds(b, d) /\ d[N] = c[N] - k /\ Numbered(b, d, Nth(from, k, mod), mod)
  BY <1>1, CutSums
<1>3. N >= 1 /\ 1 \in 1..N /\ bufs[1] \in Buf
  BY <1>1
<1>4. x \in Buf /\ x.data = bufs[1].data + k /\ Len(x.bytes) = Len(bufs[1].bytes) - k /\ x.bytes # <<>>
  BY <1>3, CutBuf
<1> HIDE DEF x, d
<1>5. b \in Seq(Buf) /\ Len(b) = N /\ b[1] = x /\ \A i \in 1..N : i # 1 => b[i] = bufs[i]
  BY <1>1, <1>3, <1>4, ElementReplaced
<1> HIDE DEF b
<1>6. /\ t \in List /\ t.bufs = b /\ t.dt = l.dt /\ t.buffers = l.buffers /\ t.buffer_len = len
      /\ t.data_bytes = l.data_bytes
  <2>1. l \in List /\ b \in Seq(Buf) /\ l.buffer_len = len
    BY <1>1, <1>5
  <2> QED BY <2>1 DEF List, WithBufs
<1> HIDE DEF t
<1>7. Shape(b, l.dt, len)
  <2>1. l.dt \in 1..N
    BY <1>1 DEF Shape
  <2>2. bufs[1].data \in Nat /\ Len(bufs[1].bytes) \in Nat /\ bufs[1].data + Len(bufs[1].bytes) <= len
    BY <1>1, <1>3, BufFields DEF Shape
  <2>3. ASSUME NEW i \in 1..N
        PROVE  /\ b[i].data + Len(b[i].bytes) <= len
               /\ i < l.dt => b[i].bytes # <<>>
               /\ i > l.dt => b[i] = EmptyBuf
    <3>1. CASE i = 1
      <4>1. x.data + Len(x.bytes) <= len
        BY <1>4, <2>2, SMTT(30)
      <4>2. b[i] = x /\ ~(i > l.dt) /\ x.bytes # <<>>
        BY <1>4, <1>5, <2>1, <3>1
      <4> QED BY <4>1, <4>2
    <3>2. CASE i # 1
      <4>1. b[i] = bufs[i]
        BY <1>5, <3>2
      <4> QED BY <1>1, <4>1 DEF Shape
    <3> QED BY <3>1, <3>2
  <2>4. b # <<>>
    BY <1>3, <1>5
  <2> QED BY <1>5, <2>1, <2>3, <2>4 DEF Shape
<1>8. Counted(t, max)
  BY <1>1, <1>5, <1>6 DEF Counted
<1>9. Sound(t, d, max, len, Nth(from, k, mod), mod)
  BY <1>2, <1>5, <1>6, <1>7, <1>8 DEF Sound
<1> QED BY <1>2, <1>5, <1>6, <1>9 DEF t, d, b, x

\* The loop of ustream_consume stops.
LEMMA StopExists ==
  ASSUME NEW N \in Nat, NEW c \in [0..N -> Nat], c[0] = 0, NEW n \in 1..c[N]
  PROVE  \E f \in 0..N : /\ n = c[f] \/ (f < N /\ n < c[f + 1])
                         /\ \A m \in 0..(f - 1) : ~(n = c[m] \/ (m < N /\ n < c[m + 1]))
<1> DEFINE Stop(m) == n = c[m] \/ (m < N /\ n < c[m + 1])
           T == {m \in 0..N : Stop(m)}
           U == {m \in 0..N : n < c[m]}
<1>0. N \in 0..N /\ c[N] \in Nat /\ n \in Nat /\ n <= c[N] /\ n # 0
  OBVIOUS
<1>1. T # {}
  <2>1. CASE n = c[N]
    <3>1. N \in T
      BY <1>0, <2>1
    <3> QED BY <3>1
  <2>2. CASE n # c[N]
    <3>1. N \in U
      BY <1>0, <2>2
    <3>2. U \in SUBSET Nat
      OBVIOUS
    <3>3. PICK u \in U : \A m \in U : u <= m
      <4> HIDE DEF U
      <4> QED BY <3>1, <3>2, LeastNumber
    <3>4. u \in 0..N /\ n < c[u]
      BY <3>3
    <3>5. u # 0
      BY <1>0, <3>4
    <3>6. u - 1 \in 0..N /\ u - 1 < N /\ (u - 1) + 1 = u
      BY <3>4, <3>5
    <3>7. Stop(u - 1)
      BY <3>4, <3>6
    <3>8. u - 1 \in T
      BY <3>6, <3>7
    <3> QED BY <3>8
  <2> QED BY <2>1, <2>2
<1>2. T \in SUBSET Nat
  OBVIOUS
<1>3. PICK f \in T : \A m \in T : f <= m
  <2> HIDE DEF T
  <2> QED BY <1>1, <1>2, LeastNumber
<1>4. f \in 0..N /\ Stop(f)
  BY <1>3
<1>5. ASSUME NEW m \in 0..(f - 1), Stop(m) PROVE FALSE
  <2>1. m \in 0..N /\ m < f
    BY <1>4
  <2>2. m \in T
    BY <1>5, <2>1
  <2>3. f <= m
    BY <1>3, <2>2
  <2> QED BY <1>4, <2>1, <2>3
<1> QED BY <1>4, <1>5

\* Removing the first n bytes.
LEMMA RemovedGood ==
  ASSUME NEW l, NEW max \in Int, NEW len \in Nat \ {0}, NEW from \in Nat, NEW mod \in Nat \ {0},
         Good(l, max, len, from, mod), NEW min, NEW n \in 1..l.data_bytes
  PROVE  /\ Good(Removed(l, min, n), max, len, Nth(from, n, mod), mod)
         /\ Removed(l, min, n).data_bytes = l.data_bytes - n
<1> DEFINE bufs == l.bufs
           N == Len(bufs)
           c == Sums(bufs)
           Stop(m) == n = BytesIn(bufs, m) \/ (m < N /\ n < BytesIn(bufs, m + 1))
           full == CHOOSE f \in 0..N : Stop(f) /\ \A m \in 0..(f - 1) : ~Stop(m)
           part == n - BytesIn(bufs, full)
           less == [l EXCEPT !.data_bytes = @ - n]
           freed == FreeBufs(less, min, full)
           q == Removed(l, min, n)
<1>1. Sound(l, c, max, len, from, mod) /\ l.data_bytes = BytesIn(bufs, N)
  BY DEF Good
<1>2. /\ l \in List /\ bufs \in Seq(Buf) /\ N \in Nat /\ l.buffer_len = len /\ l.data_bytes \in Int
      /\ l.dt \in Nat /\ Shape(bufs, l.dt, len) /\ Counted(l, max) /\ Adds(bufs, c)
  BY <1>1 DEF Sound, List
<1>3. \A m \in 0..N : BytesIn(bufs, m) = c[m]
  BY DEF Sums
<1>4. q = IF part = 0 THEN freed
          ELSE [freed EXCEPT !.bufs[1] = [data |-> @.data + part,
                                          bytes |-> SubSeq(@.bytes, part + 1, Len(@.bytes))]]
  <2>1. n # 0
    BY <1>2
  <2> QED BY <2>1 DEF Removed
<1>5. l.data_bytes = c[N] /\ c \in [0..N -> Nat] /\ c[0] = 0 /\ n \in 1..c[N]
  BY <1>1, <1>2, <1>3 DEF Adds
<1>6. /\ less \in List /\ less.bufs = bufs /\ less.dt = l.dt /\ less.buffers = l.buffers
      /\ less.buffer_len = len /\ less.data_bytes = l.data_bytes - n
  BY <1>2, SMTT(30) DEF List
<1> HIDE DEF c, less, bufs
<1>7. /\ full \in 0..N /\ (n = c[full] \/ (full < N /\ n < c[full + 1]))
      /\ \A m \in 0..(full - 1) : ~(n = c[m] \/ (m < N /\ n < c[m + 1]))
  <2>1. \A m \in 0..N : Stop(m) <=> (n = c[m] \/ (m < N /\ n < c[m + 1]))
    <3> SUFFICES ASSUME NEW m \in 0..N
                 PROVE  Stop(m) <=> (n = c[m] \/ (m < N /\ n < c[m + 1]))
      OBVIOUS
    <3>1. m < N => m + 1 \in 0..N
      BY <1>2
    <3> QED BY <1>3, <3>1
  <2>2. PICK f \in 0..N : /\ n = c[f] \/ (f < N /\ n < c[f + 1])
                          /\ \A m \in 0..(f - 1) : ~(n = c[m] \/ (m < N /\ n < c[m + 1]))
    BY <1>2, <1>5, StopExists
  <2>3. \A f2 \in 0..N : \A m \in 0..(f2 - 1) : m \in 0..N
    BY <1>2
  <2> HIDE DEF Stop
  <2>4. Stop(f) /\ \A m \in 0..(f - 1) : ~Stop(m)
    BY <2>1, <2>2, <2>3
  <2>5. full \in 0..N /\ Stop(full) /\ \A m \in 0..(full - 1) : ~Stop(m)
    BY <2>4
  <2> HIDE DEF full
  <2> QED BY <2>1, <2>3, <2>5
<1>8. part = n - c[full]
  BY <1>3, <1>7
<1> HIDE DEF full, part
<1>9. /\ full \in Nat /\ c[full] \in Nat /\ part \in Nat
      /\ part # 0 => full < N /\ n < c[full + 1]
      /\ c[full] + part = n
  <2>1. full \in Nat /\ c[full] \in Nat /\ n \in Nat
    BY <1>2, <1>5, <1>7
  <2>2. c[full] <= n
    <3>1. CASE full = 0
      BY <1>5, <2>1, <3>1
    <3>2. CASE full # 0
      <4>1. full - 1 \in 0..(full - 1) /\ full - 1 < N /\ (full - 1) + 1 = full
        BY <1>2, <1>7, <2>1, <3>2
      <4>2. ~(n < c[full])
        BY <1>7, <4>1
      <4> QED BY <2>1, <4>2
    <3> QED BY <3>1, <3>2
  <2>3. part # 0 => n # c[full]
    BY <1>8, <2>1
  <2> QED BY <1>7, <1>8, <2>1, <2>2, <2>3
<1>10. Sound(less, c, max, len, from, mod)
  <2>1. Sound(l, c, max, len, from, mod)
    BY <1>1 DEF c, bufs
  <2> QED BY <1>6, <2>1 DEF Sound, Counted, bufs
<1>11. Freed(less, freed, full)
  <2>1. less.buffers = Len(less.bufs) /\ (less.dt = 0 <=> less.bufs = <<>>)
    BY <1>2, <1>6 DEF Shape, Counted, bufs
  <2>2. full \in 0..Len(less.bufs)
    BY <1>6, <1>7
  <2> QED BY <1>6, <2>1, <2>2, FreeBufsFreed
<1> HIDE DEF freed
<1> DEFINE M == Len(freed.bufs)
           d == SumsFrom(c, N, full, M)
           from1 == Nth(from, c[full], mod)
<1>12. Sound(freed, d, max, len, from1, mod) /\ d[M] = c[N] - c[full]
  <2>1. full \in 0..Len(less.bufs) /\ Len(less.bufs) = N
    BY <1>6, <1>7
  <2> DEFINE e == SumsFrom(c, Len(less.bufs), full, Len(freed.bufs))
  <2>2. e = d
    BY <2>1
  <2>3. Sound(freed, e, max, len, Nth(from, c[full], mod), mod)
    BY <1>10, <1>11, <2>1, FreedSound
  <2>4. Rest(freed, e, c, Len(less.bufs), full)
    BY <1>10, <1>11, <2>1, FreedSound
  <2> HIDE DEF d, e
  <2> QED BY <2>1, <2>2, <2>3, <2>4 DEF Rest
<1>13. freed.data_bytes = c[N] - n /\ freed \in List
  BY <1>5, <1>6, <1>11 DEF Freed
<1>14. c[N] \in Nat
  BY <1>2, <1>5
<1>15. CASE part = 0
  <2>1. q = freed /\ c[full] = n
    BY <1>4, <1>9, <1>15
  <2>2. freed.data_bytes = d[M]
    BY <1>12, <1>13, <2>1
  <2>3. \E e : Sound(freed, e, max, len, from1, mod) /\ freed.data_bytes = e[Len(freed.bufs)]
    BY <1>12, <2>2
  <2>4. Good(freed, max, len, from1, mod)
    BY <2>3, GoodSums
  <2> HIDE DEF q
  <2>5. from1 = Nth(from, n, mod)
    BY <2>1
  <2>6. Good(q, max, len, Nth(from, n, mod), mod) /\ q.data_bytes = c[N] - n
    BY <1>13, <2>1, <2>4, <2>5
  <2> QED BY <1>5, <2>6 DEF q
<1>16. CASE part # 0
  <2> DEFINE x == Cut(freed.bufs[1], part)
             t == WithBufs(freed, [freed.bufs EXCEPT ![1] = x])
             e == LessBy(d, M, part)
  <2>1. q = t
    BY <1>4, <1>16 DEF WithBufs, Cut
  <2>2. M >= N - full /\ full < N /\ M \in Nat /\ freed.bufs \in Seq(Buf)
    BY <1>2, <1>6, <1>9, <1>11, <1>16 DEF Freed, List
  <2>3. freed.bufs[1] = bufs[full + 1] /\ freed.bufs # <<>>
    <3>1. 1 \in 1..M /\ 1 <= N - full
      BY <1>2, <1>9, <2>2
    <3>2. \A k \in 1..M : freed.bufs[k] = IF k <= N - full THEN bufs[full + k] ELSE EmptyBuf
      BY <1>6, <1>11 DEF Freed
    <3> QED BY <2>2, <3>1, <3>2
  <2>4. part < Len(freed.bufs[1].bytes)
    <3>1. full + 1 \in 1..N /\ (full + 1) - 1 = full
      BY <1>2, <1>9, <2>2
    <3>2. c[full + 1] = c[full] + Len(bufs[full + 1].bytes) /\ Len(bufs[full + 1].bytes) \in Nat
      <4>1. c[full + 1] = c[(full + 1) - 1] + Len(bufs[full + 1].bytes) /\ Len(bufs[full + 1].bytes) \in Nat
        BY <1>2, <3>1, AddsFacts
      <4> QED BY <3>1, <4>1
    <3>3. n < c[full + 1]
      BY <1>9, <1>16
    <3> QED BY <1>9, <2>3, <3>2, <3>3
  <2>5. from1 \in Nat
    BY <1>9, NthShift
  <2>6. /\ Sound(t, e, max, len, Nth(from1, part, mod), mod)
        /\ e[Len(t.bufs)] = d[M] - part /\ t.data_bytes = freed.data_bytes
    <3> HIDE DEF d, from1
    <3> QED BY <1>9, <1>12, <2>3, <2>4, <2>5, CutSound
  <2> HIDE DEF t, e, d
  <2>7. Nth(from1, part, mod) = Nth(from, n, mod)
    <3> DEFINE y == c[full]
    <3>1. y \in Nat /\ part \in Nat /\ n \in Nat /\ n = y + part
      BY <1>9
    <3> HIDE DEF y
    <3>2. Nth(from, n, mod) = Nth(Nth(from, y, mod), part, mod)
      BY <3>1, NthRest
    <3> QED BY <3>2 DEF y
  <2>8. t.data_bytes = e[Len(t.bufs)]
    BY <1>9, <1>12, <1>13, <1>14, <2>6
  <2>9. \E s : Sound(t, s, max, len, Nth(from, n, mod), mod) /\ t.data_bytes = s[Len(t.bufs)]
    BY <2>6, <2>7, <2>8
  <2>10. Good(t, max, len, Nth(from, n, mod), mod)
    BY <2>9, GoodSums
  <2> HIDE DEF q
  <2>11. Good(q, max, len, Nth(from, n, mod), mod) /\ q.data_bytes = c[N] - n
    BY <1>13, <2>1, <2>6, <2>10
  <2> QED BY <1>5, <2>11 DEF q
<1> QED BY <1>15, <1>16

-----------------------------------------------------------------------------
(* Data behind what is there. *)

\* Only the numbers of the bytes matter.
LEMMA Renumbered ==
  ASSUME NEW l, NEW max, NEW len, NEW from, NEW mod, NEW to,
         Good(l, max, len, from, mod), \A k \in Nat : Nth(from, k, mod) = Nth(to, k, mod)
  PROVE  Good(l, max, len, to, mod)
<1> DEFINE bufs == l.bufs
           c == Sums(bufs)
<1>1. Sound(l, c, max, len, from, mod) /\ l.data_bytes = BytesIn(bufs, Len(bufs))
  BY DEF Good
<1>2. bufs \in Seq(Buf) /\ Adds(bufs, c) /\ Numbered(bufs, c, from, mod)
  BY <1>1 DEF Sound, List
<1> HIDE DEF c
<1>3. Numbered(bufs, c, to, mod)
  <2> SUFFICES ASSUME NEW i \in 1..Len(bufs), NEW j \in 1..Len(bufs[i].bytes)
               PROVE  bufs[i].bytes[j] = Nth(to, c[i - 1] + j - 1, mod)
    BY DEF Numbered
  <2>1. c[i - 1] \in Nat /\ Len(bufs[i].bytes) \in Nat
    <3>1. i - 1 \in 0..Len(bufs)
      BY <1>2
    <3> QED BY <1>2, <3>1, AddsFacts
  <2>2. c[i - 1] + j - 1 \in Nat
    BY <2>1
  <2> QED BY <1>2, <2>2 DEF Numbered
<1>4. Sound(l, c, max, len, to, mod)
  BY <1>1, <1>3 DEF Sound
<1> QED BY <1>1, <1>4 DEF Good, c

\* Nothing is numbered if there is nothing.
LEMMA NothingNumbered ==
  ASSUME NEW l, NEW max, NEW len, NEW from, NEW mod, NEW to,
         Good(l, max, len, from, mod), l.data_bytes = 0
  PROVE  Good(l, max, len, to, mod)
<1> DEFINE bufs == l.bufs
           c == Sums(bufs)
           N == Len(bufs)
<1>1. Sound(l, c, max, len, from, mod) /\ l.data_bytes = BytesIn(bufs, N)
  BY DEF Good
<1>2. bufs \in Seq(Buf) /\ Adds(bufs, c) /\ N \in Nat
  BY <1>1 DEF Sound, List
<1>3. c[N] = 0
  BY <1>1, <1>2 DEF Sums
<1> HIDE DEF c
<1>4. Numbered(bufs, c, to, mod)
  <2> SUFFICES ASSUME NEW i \in 1..N, NEW j \in 1..Len(bufs[i].bytes)
               PROVE  FALSE
    BY DEF Numbered
  <2>1. i \in 0..N /\ i - 1 \in 0..N /\ N \in i..N
    BY <1>2
  <2>2. c[i] = c[i - 1] + Len(bufs[i].bytes) /\ Len(bufs[i].bytes) \in Nat /\ c[i - 1] \in Nat /\ c[i] \in Nat
    BY <1>2, <2>1, AddsFacts
  <2>3. c[i] <= c[N]
    BY <1>2, <2>1, SumsGrow
  <2> HIDE DEF N
  <2> QED BY <1>3, <2>2, <2>3
<1>5. Sound(l, c, max, len, to, mod)
  BY <1>1, <1>4 DEF Sound
<1> QED BY <1>1, <1>5 DEF Good, c

LEMMA GoodFacts ==
  ASSUME NEW l, NEW max, NEW len, NEW from, NEW mod, Good(l, max, len, from, mod)
  PROVE  l.data_bytes \in Nat /\ l.buffer_len = len /\ l \in List
<1>1. /\ Sound(l, Sums(l.bufs), max, len, from, mod)
      /\ l.data_bytes = Sums(l.bufs)[Len(l.bufs)]
  <2>1. Len(l.bufs) \in Nat
    BY DEF Good, Sound, List
  <2> QED BY <2>1 DEF Good, Sums
<1>2. l.bufs \in Seq(Buf) /\ Adds(l.bufs, Sums(l.bufs)) /\ Len(l.bufs) \in 0..Len(l.bufs)
  BY <1>1 DEF Sound, List
<1>3. Sums(l.bufs)[Len(l.bufs)] \in Nat
  BY <1>2, AddsFacts
<1> QED BY <1>1, <1>3 DEF Sound

LEMMA BytesAre ==
  ASSUME NEW from \in Nat, NEW n \in Nat, NEW mod \in Nat \ {0}
  PROVE  /\ Bytes(from, n, mod) \in Seq(Nat) /\ Len(Bytes(from, n, mod)) = n
         /\ \A j \in 1..n : Bytes(from, n, mod)[j] = Nth(from, j - 1, mod)
<1>1. ASSUME NEW j \in 1..n PROVE (from + j - 1) % mod = Nth(from, j - 1, mod)
  <2>1. from + j - 1 = from + (j - 1)
    OBVIOUS
  <2> QED BY <2>1 DEF Nth
<1>2. ASSUME NEW j \in 1..n PROVE (from + j - 1) % mod \in Nat
  BY <1>1, NthShift
<1> QED BY <1>1, <1>2 DEF Bytes

LEMMA BytesBehind ==
  ASSUME NEW from \in Nat, NEW d \in Nat, NEW n \in Nat, NEW mod \in Nat \ {0},
         NEW to, to = Nth(from, d, mod)
  PROVE  Follow(Bytes(to, n, mod), n, from, d, mod)
<1> DEFINE data == Bytes(to, n, mod)
<1>1. to \in Nat
  BY NthShift
<1>2. data \in Seq(Nat) /\ Len(data) = n /\ \A j \in 1..n : data[j] = Nth(to, j - 1, mod)
  BY <1>1, BytesAre
<1> HIDE DEF data
<1>3. ASSUME NEW j \in 1..Len(data) PROVE data[j] = Nth(from, d + j - 1, mod)
  <2> DEFINE p == d + j - 1
             q == j - 1
  <2>1. p \in Nat /\ q \in Nat /\ p = d + q
    BY <1>2
  <2>2. data[j] = Nth(to, q, mod)
    BY <1>2
  <2> HIDE DEF p, q
  <2>3. Nth(from, p, mod) = Nth(Nth(from, d, mod), q, mod)
    BY <2>1, NthRest
  <2> QED BY <2>2, <2>3 DEF p
<1>4. Behind(data, from, d, mod)
  BY <1>3 DEF Behind
<1> QED BY <1>2, <1>4 DEF Follow, data

\* The numbers of what is behind a prefix that goes.
LEMMA BehindPrefix ==
  ASSUME NEW from, NEW d \in Nat, NEW mod, NEW data \in Seq(Nat), Behind(data, from, d, mod),
         NEW k \in 0..Len(data)
  PROVE  /\ Follow(SubSeq(data, 1, k), k, from, d, mod)
         /\ Follow(SubSeq(data, k + 1, Len(data)), Len(data) - k, from, d + k, mod)
<1>1. Len(data) \in Nat /\ k \in Nat /\ k <= Len(data)
  OBVIOUS
<1> DEFINE a == SubSeq(data, 1, k)
           z == SubSeq(data, k + 1, Len(data))
<1>2. a \in Seq(Nat) /\ Len(a) = k /\ \A j \in 1..k : a[j] = data[j]
  BY <1>1
<1>3. z \in Seq(Nat) /\ Len(z) = Len(data) - k /\ \A j \in 1..(Len(data) - k) : z[j] = data[k + j]
  BY Suffix
<1> HIDE DEF a, z
<1>4. Behind(a, from, d, mod)
  <2> SUFFICES ASSUME NEW j \in 1..Len(a) PROVE a[j] = Nth(from, d + j - 1, mod)
    BY DEF Behind
  <2>1. j \in 1..k /\ j \in 1..Len(data)
    BY <1>1, <1>2
  <2> QED BY <1>2, <2>1 DEF Behind
<1>5. Behind(z, from, d + k, mod)
  <2> SUFFICES ASSUME NEW j \in 1..Len(z) PROVE z[j] = Nth(from, d + k + j - 1, mod)
    BY DEF Behind
  <2>1. j \in 1..(Len(data) - k) /\ k + j \in 1..Len(data) /\ d + (k + j) - 1 = d + k + j - 1
    BY <1>1, <1>3
  <2>2. data[k + j] = Nth(from, d + (k + j) - 1, mod)
    BY <2>1 DEF Behind
  <2> QED BY <1>3, <2>1, <2>2
<1> QED BY <1>2, <1>3, <1>4, <1>5 DEF a, z, Follow

LEMMA FillableInt ==
  ASSUME NEW l, NEW max, NEW len, NEW from, NEW mod, Good(l, max, len, from, mod), l.dt # 0
  PROVE  Fillable(l) \in Int
<1> DEFINE x == l.bufs[l.dt]
<1>1. l \in List /\ l.bufs \in Seq(Buf) /\ l.dt \in 1..Len(l.bufs) /\ l.buffer_len \in Nat
  BY DEF Good, Sound, List, Shape
<1>2. x \in Buf
  BY <1>1
<1>3. Fillable(l) = l.buffer_len - (x.data + Len(x.bytes))
  BY DEF Fillable, Space, TailOf
<1> HIDE DEF x
<1>4. x.data \in Nat /\ Len(x.bytes) \in Nat
  BY <1>2, BufFields
<1> QED BY <1>1, <1>3, <1>4

\* One turn of the loop of ustream_write_buffered.
Turn(s, max) ==
  LET p == ustream_prepare_buf(s.l, max, Len(s.rest))
      space == Fillable(p.l)
      n == IF space < Len(s.rest) THEN space ELSE Len(s.rest)
  IN  IF s.rest = <<>> THEN s
      ELSE IF ~p.ok THEN [s EXCEPT !.l = p.l]
      ELSE [l |-> Filled(p.l, SubSeq(s.rest, 1, n)),
            rest |-> SubSeq(s.rest, n + 1, Len(s.rest))]

Turns(l, max, data, m, f) ==
  f = [i \in 0..m |-> IF i = 0 THEN [l |-> l, rest |-> data] ELSE Turn(f[i - 1], max)]

\* The recursive function of ustream_write_buffered exists.
LEMMA TurnsExist ==
  ASSUME NEW l, NEW max, NEW data, NEW n \in Nat
  PROVE  \E f : Turns(l, max, data, n, f)
<1> DEFINE T == {m \in Nat : \E f : Turns(l, max, data, m, f)}
<1>1. 0 \in T
  <2> DEFINE g == [i \in 0..0 |-> [l |-> l, rest |-> data]]
  <2>1. g = [i \in 0..0 |-> IF i = 0 THEN [l |-> l, rest |-> data] ELSE Turn(g[i - 1], max)]
    OBVIOUS
  <2> QED BY <2>1 DEF Turns
<1>2. ASSUME NEW m \in Nat, m \in T PROVE m + 1 \in T
  <2>1. PICK f : Turns(l, max, data, m, f)
    BY <1>2
  <2> DEFINE g == [i \in 0..(m + 1) |-> IF i <= m THEN f[i] ELSE Turn(f[m], max)]
  <2>2. g = [i \in 0..(m + 1) |-> IF i = 0 THEN [l |-> l, rest |-> data] ELSE Turn(g[i - 1], max)]
    <3>1. ASSUME NEW i \in 0..(m + 1)
          PROVE  g[i] = IF i = 0 THEN [l |-> l, rest |-> data] ELSE Turn(g[i - 1], max)
      BY <2>1 DEF Turns
    <3> QED BY <3>1
  <2> HIDE DEF g
  <2> QED BY <2>2 DEF Turns
<1>3. Nat \subseteq T
  <2> HIDE DEF T
  <2> QED BY <1>1, <1>2, Induction
<1> QED BY <1>3

\* What is not in the buffers yet comes behind what is.
Going(s, max, len, from, mod, total) ==
  /\ Good(s.l, max, len, from, mod)
  /\ s.rest \in Seq(Nat) /\ s.l.data_bytes + Len(s.rest) = total
  /\ Behind(s.rest, from, s.l.data_bytes, mod)

LEMMA OneTurn ==
  ASSUME NEW max \in Int, NEW len \in Nat \ {0}, NEW from \in Nat, NEW mod \in Nat \ {0},
         NEW total \in Nat, NEW s, Going(s, max, len, from, mod, total),
         s = [l |-> s.l, rest |-> s.rest]
  PROVE  /\ Going(Turn(s, max), max, len, from, mod, total)
         /\ Turn(s, max) = [l |-> Turn(s, max).l, rest |-> Turn(s, max).rest]
         /\ Turn(s, max).l.data_bytes >= s.l.data_bytes
<1> DEFINE l == s.l
           rest == s.rest
           p == ustream_prepare_buf(l, max, Len(rest))
           space == Fillable(p.l)
           n == IF space < Len(rest) THEN space ELSE Len(rest)
           a == SubSeq(rest, 1, n)
           z == SubSeq(rest, n + 1, Len(rest))
           t == Turn(s, max)
<1>1. /\ Good(l, max, len, from, mod) /\ rest \in Seq(Nat) /\ l.data_bytes + Len(rest) = total
      /\ Behind(rest, from, l.data_bytes, mod) /\ Len(rest) \in Nat
  BY DEF Going
<1>2. l.data_bytes \in Nat
  BY <1>1, GoodFacts
<1>3. t = IF rest = <<>> THEN s
          ELSE IF ~p.ok THEN [s EXCEPT !.l = p.l]
          ELSE [l |-> Filled(p.l, a), rest |-> z]
  BY DEF Turn
<1>4. /\ Good(p.l, max, len, from, mod) /\ p.l.data_bytes = l.data_bytes /\ p.ok \in BOOLEAN
      /\ p.ok => p.l.dt # 0 /\ Fillable(p.l) > 0
  <2> HIDE DEF l, rest
  <2> QED BY <1>1, PrepareGood
<1> HIDE DEF p, t
<1>5. CASE rest = <<>>
  <2>1. t = s
    BY <1>3, <1>5
  <2> QED BY <1>2, <2>1 DEF t
<1>6. CASE rest # <<>> /\ ~p.ok
  <2>1. t = [s EXCEPT !.l = p.l]
    BY <1>3, <1>6
  <2>2. t = [l |-> p.l, rest |-> rest]
    BY <2>1
  <2>3. t.l = p.l /\ t.rest = rest
    BY <2>2
  <2>4. Going(t, max, len, from, mod, total)
    BY <1>1, <1>4, <2>3 DEF Going
  <2>5. t.l.data_bytes >= l.data_bytes
    BY <1>2, <1>4, <2>3
  <2> QED BY <2>2, <2>3, <2>4, <2>5 DEF t
<1>7. CASE rest # <<>> /\ p.ok
  <2>1. t = [l |-> Filled(p.l, a), rest |-> z]
    BY <1>3, <1>7
  <2>2. p.l.dt # 0 /\ space > 0
    BY <1>4, <1>7
  <2>3. space \in Int
    <3> HIDE DEF p
    <3> QED BY <1>4, <2>2, FillableInt
  <2> HIDE DEF space
  <2>4. n \in 0..Len(rest) /\ n <= space
    BY <1>1, <2>2, <2>3
  <2> HIDE DEF n, rest
  <2>5. /\ a \in Seq(Nat) /\ Len(a) = n /\ Behind(a, from, l.data_bytes, mod)
        /\ z \in Seq(Nat) /\ Len(z) = Len(rest) - n /\ Behind(z, from, l.data_bytes + n, mod)
    <3> DEFINE d == l.data_bytes
    <3>1. d \in Nat /\ Behind(rest, from, d, mod) /\ rest \in Seq(Nat)
      BY <1>1, <1>2
    <3> HIDE DEF d
    <3>2. Follow(a, n, from, d, mod) /\ Follow(z, Len(rest) - n, from, d + n, mod)
      BY <2>4, <3>1, BehindPrefix
    <3> HIDE DEF a, z
    <3> QED BY <3>2 DEF d, Follow
  <2> HIDE DEF a, z
  <2>6. Len(a) <= Fillable(p.l) /\ Behind(a, from, p.l.data_bytes, mod)
    BY <1>4, <2>4, <2>5 DEF space
  <2>7. /\ Good(Filled(p.l, a), max, len, from, mod)
        /\ Filled(p.l, a).data_bytes = p.l.data_bytes + Len(a)
    <3> DEFINE x == p.l
    <3>1. Good(x, max, len, from, mod) /\ x.dt # 0 /\ a \in Seq(Nat)
      BY <1>4, <2>2, <2>5
    <3>2. Len(a) <= Fillable(x) /\ Behind(a, from, x.data_bytes, mod)
      BY <2>6
    <3> HIDE DEF x
    <3>3. Good(Filled(x, a), max, len, from, mod) /\ Filled(x, a).data_bytes = x.data_bytes + Len(a)
      BY <3>1, <3>2, FilledGood
    <3> QED BY <3>3 DEF x
  <2>8. t.l = Filled(p.l, a) /\ t.rest = z
    BY <2>1
  <2>9. t.l.data_bytes = l.data_bytes + n
    BY <1>4, <2>5, <2>7, <2>8
  <2>10. t.l.data_bytes + Len(z) = total /\ t.l.data_bytes >= l.data_bytes
    BY <1>1, <1>2, <2>4, <2>5, <2>9
  <2>11. Going(t, max, len, from, mod, total)
    BY <2>5, <2>7, <2>8, <2>9, <2>10 DEF Going
  <2> QED BY <2>1, <2>8, <2>10, <2>11 DEF t
<1> QED BY <1>4, <1>5, <1>6, <1>7

\* The buffers of b have data, except for its rest.
Gained(b, l, data) ==
  /\ Len(b.rest) \in Nat /\ Len(b.rest) <= Len(data)
  /\ b.l.data_bytes = l.data_bytes + (Len(data) - Len(b.rest))

\* ustream_write_buffered: the buffers have the first of the data, and the rest is left.
LEMMA BufferedGood ==
  ASSUME NEW l, NEW max \in Int, NEW len \in Nat \ {0}, NEW from \in Nat, NEW mod \in Nat \ {0},
         Good(l, max, len, from, mod), NEW data \in Seq(Nat), Behind(data, from, l.data_bytes, mod)
  PROVE  LET b == ustream_write_buffered(l, max, data)
         IN  /\ Good(b.l, max, len, from, mod)
             /\ Gained(b, l, data)
<1> DEFINE total == l.data_bytes + Len(data)
           N == Len(data)
           b == ustream_write_buffered(l, max, data)
           start == [l |-> l, rest |-> data]
           g == CHOOSE f : f = [i \in 0..N |-> IF i = 0 THEN start ELSE Turn(f[i - 1], max)]
           Fine(s) == /\ Going(s, max, len, from, mod, total) /\ s = [l |-> s.l, rest |-> s.rest]
                      /\ s.l.data_bytes >= l.data_bytes
           T == {i \in Nat : i <= N => Fine(g[i])}
<1>1. N \in Nat /\ l.data_bytes \in Nat /\ total \in Nat
  BY GoodFacts
<1>2. g = [i \in 0..N |-> IF i = 0 THEN start ELSE Turn(g[i - 1], max)]
  <2>1. \E f : Turns(l, max, data, N, f)
    BY <1>1, TurnsExist
  <2>2. Turns(l, max, data, N, CHOOSE f : Turns(l, max, data, N, f))
    BY <2>1
  <2> QED BY <2>2 DEF Turns
<1>3. b = g[N]
  BY Zenon DEF ustream_write_buffered, Turn
<1> HIDE DEF g
<1>5. start.l = l /\ start.rest = data
  OBVIOUS
<1>6. Fine(start)
  BY <1>1, <1>5 DEF Going
<1> HIDE DEF start
<1>x. \A i \in 0..N : g[i] = IF i = 0 THEN start ELSE Turn(g[i - 1], max)
  BY <1>2
<1>4. g[0] = start /\ \A i \in 1..N : g[i] = Turn(g[i - 1], max)
  BY <1>1, <1>x
<1>7. 0 \in T
  BY <1>4, <1>6
<1>8. ASSUME NEW i \in Nat, i \in T PROVE i + 1 \in T
  <2> SUFFICES ASSUME i + 1 <= N PROVE Fine(g[i + 1])
    OBVIOUS
  <2>1. i <= N /\ i + 1 \in 1..N /\ (i + 1) - 1 = i
    BY <1>1
  <2> DEFINE s == g[i]
             t == Turn(s, max)
  <2>2. g[i + 1] = t
    BY <1>4, <2>1
  <2>3. Fine(s)
    BY <1>8, <2>1
  <2> HIDE DEF s, total
  <2>4. /\ Going(t, max, len, from, mod, total) /\ t = [l |-> t.l, rest |-> t.rest]
        /\ t.l.data_bytes >= s.l.data_bytes
    BY <1>1, <2>3, OneTurn, SMTT(30)
  <2>5. t.l.data_bytes \in Nat /\ s.l.data_bytes \in Nat
    BY <2>3, <2>4, GoodFacts DEF Going
  <2> HIDE DEF t
  <2>6. t.l.data_bytes >= l.data_bytes
    BY <1>1, <2>3, <2>4, <2>5
  <2>7. Fine(t)
    BY <2>4, <2>6
  <2> QED BY <2>2, <2>7
<1>9. Nat \subseteq T
  <2> HIDE DEF T
  <2> QED BY <1>7, <1>8, Induction
<1>10. Fine(g[N])
  BY <1>1, <1>9
<1>11. Fine(b)
  BY <1>3, <1>10
<1>12. Good(b.l, max, len, from, mod) /\ b.rest \in Seq(Nat) /\ b.l.data_bytes + Len(b.rest) = total
  BY <1>11 DEF Going
<1>13. b.l.data_bytes \in Nat /\ b.l.data_bytes >= l.data_bytes
  BY <1>11, <1>12, GoodFacts
<1> HIDE DEF b
<1>14. Len(b.rest) \in Nat
  BY <1>12
<1>15. Len(b.rest) <= Len(data) /\ b.l.data_bytes = l.data_bytes + (Len(data) - Len(b.rest))
  <2> DEFINE x == b.l.data_bytes
             y == Len(b.rest)
             d == l.data_bytes
  <2>1. x \in Nat /\ y \in Nat /\ d \in Nat /\ N \in Nat /\ x >= d /\ x + y = d + N
    BY <1>1, <1>12, <1>13, <1>14
  <2> HIDE DEF x, y, d, N
  <2>2. y <= N /\ x = d + (N - y)
    BY <2>1
  <2> QED BY <2>2 DEF x, y, d, N
<1> QED BY <1>12, <1>14, <1>15 DEF b, Gained

\* l with the bytes up to number to.
Holds(l, max, len, from, to, mod) ==
  Good(l, max, len, from, mod) /\ to = Nth(from, l.data_bytes, mod)

\* n bytes are put behind what is there, where there is space for them.
LEMMA FillHolds ==
  ASSUME NEW l, NEW max \in Int, NEW len \in Nat \ {0}, NEW from \in Nat, NEW mod \in Nat \ {0},
         NEW to, Holds(l, max, len, from, to, mod), l.dt # 0,
         NEW n \in Nat, n <= Fillable(l)
  PROVE  /\ Holds(Filled(l, Bytes(to, n, mod)), max, len, from, Nth(to, n, mod), mod)
         /\ Filled(l, Bytes(to, n, mod)).data_bytes = l.data_bytes + n
         /\ Nth(to, n, mod) \in Nat
<1> DEFINE d == l.data_bytes
           data == Bytes(to, n, mod)
           q == Filled(l, data)
<1>1. Good(l, max, len, from, mod) /\ to = Nth(from, d, mod)
  BY DEF Holds
<1>2. d \in Nat
  BY <1>1, GoodFacts
<1> HIDE DEF d
<1>3. data \in Seq(Nat) /\ Len(data) = n /\ Behind(data, from, d, mod)
  <2>1. Follow(data, n, from, d, mod)
    BY <1>1, <1>2, BytesBehind
  <2> QED BY <2>1 DEF Follow
<1> HIDE DEF data
<1>4. Len(data) <= Fillable(l)
  BY <1>3
<1>5. Behind(data, from, l.data_bytes, mod)
  BY <1>3 DEF d
<1>6. Good(q, max, len, from, mod) /\ q.data_bytes = l.data_bytes + Len(data)
  BY <1>1, <1>3, <1>4, <1>5, FilledGood
<1> HIDE DEF q
<1>7. to \in Nat /\ Nth(to, n, mod) \in Nat
  <2>1. to \in Nat
    BY <1>1, <1>2, NthShift
  <2> QED BY <2>1, NthShift
<1>8. q.data_bytes = d + n
  BY <1>3, <1>6 DEF d
<1>9. Nth(to, n, mod) = Nth(from, d + n, mod)
  BY <1>1, <1>2, NthShift
<1>10. Holds(q, max, len, from, Nth(to, n, mod), mod)
  BY <1>6, <1>8, <1>9 DEF Holds
<1> QED BY <1>7, <1>8, <1>10 DEF q, data, d

\* n bytes are put behind what is there, as far as there are buffers.
LEMMA BufferHolds ==
  ASSUME NEW l, NEW max \in Int, NEW len \in Nat \ {0}, NEW from \in Nat, NEW mod \in Nat \ {0},
         NEW to, Holds(l, max, len, from, to, mod), NEW n \in Nat
  PROVE  LET b == ustream_write_buffered(l, max, Bytes(to, n, mod))
         IN  /\ Holds(b.l, max, len, from, (to + n - Len(b.rest)) % mod, mod)
             /\ (to + n - Len(b.rest)) % mod \in Nat
             /\ b.l.data_bytes \in Nat /\ b.l.data_bytes >= l.data_bytes
<1> DEFINE d == l.data_bytes
           data == Bytes(to, n, mod)
           b == ustream_write_buffered(l, max, data)
           k == Len(b.rest)
           x == b.l.data_bytes
           m == n - k
<1>1. Good(l, max, len, from, mod) /\ to = Nth(from, d, mod)
  BY DEF Holds
<1>2. d \in Nat
  BY <1>1, GoodFacts
<1>3. data \in Seq(Nat) /\ Len(data) = n /\ Behind(data, from, d, mod)
  <2> HIDE DEF d
  <2>1. Follow(data, n, from, d, mod)
    BY <1>1, <1>2, BytesBehind
  <2> QED BY <2>1 DEF Follow
<1> HIDE DEF data
<1>4. /\ Good(b.l, max, len, from, mod) /\ k \in Nat /\ k <= Len(data)
      /\ x = d + (Len(data) - k)
  <2>1. Behind(data, from, l.data_bytes, mod)
    BY <1>3
  <2> HIDE DEF d, k, x
  <2>2. Good(b.l, max, len, from, mod) /\ Gained(b, l, data)
    BY <1>1, <1>3, <2>1, BufferedGood
  <2> HIDE DEF b
  <2> QED BY <2>2 DEF Gained, d, k, x
<1> HIDE DEF b, d, k, x
<1>5. m \in Nat /\ x = d + m /\ x \in Nat /\ x >= d
  BY <1>2, <1>3, <1>4
<1>6. to \in Nat
  BY <1>1, <1>2, NthShift
<1>7. to + n - k = to + m
  BY <1>3, <1>4, <1>6
<1> HIDE DEF m
<1>8. Nth(to, m, mod) = Nth(from, d + m, mod) /\ Nth(to, m, mod) \in Nat
  <2>1. Nth(to, m, mod) \in Nat
    BY <1>5, <1>6, NthShift
  <2> QED BY <1>1, <1>2, <1>5, <2>1, NthShift
<1>9. (to + n - k) % mod = Nth(to, m, mod)
  BY <1>7 DEF Nth
<1>10. Nth(to, m, mod) = Nth(from, x, mod)
  BY <1>5, <1>8
<1>11. Holds(b.l, max, len, from, (to + n - k) % mod, mod)
  BY <1>4, <1>9, <1>10 DEF Holds, x
<1>12. (to + n - k) % mod \in Nat
  BY <1>8, <1>9
<1> QED BY <1>5, <1>11, <1>12 DEF b, data, d, k, x

\* The first n bytes go.
LEMMA RemoveHolds ==
  ASSUME NEW l, NEW max \in Int, NEW len \in Nat \ {0}, NEW from \in Nat, NEW mod \in Nat \ {0},
         NEW to, Holds(l, max, len, from, to, mod), NEW min, NEW n \in 0..l.data_bytes
  PROVE  /\ Holds(Removed(l, min, n), max, len, Nth(from, n, mod), to, mod)
         /\ Removed(l, min, n).data_bytes = l.data_bytes - n
         /\ Nth(from, n, mod) \in Nat
<1> DEFINE d == l.data_bytes
           q == Removed(l, min, n)
           x == q.data_bytes
<1>1. Good(l, max, len, from, mod) /\ to = Nth(from, d, mod)
  BY DEF Holds
<1>2. d \in Nat /\ n \in Nat /\ n <= d
  BY <1>1, GoodFacts
<1>3. Nth(from, n, mod) \in Nat
  BY <1>2, NthShift
<1>4. Good(q, max, len, Nth(from, n, mod), mod) /\ x = d - n
  <2>1. CASE n # 0
    <3>1. n \in 1..l.data_bytes
      BY <1>2, <2>1
    <3> QED BY <1>1, <3>1, RemovedGood
  <2>2. CASE n = 0
    <3>1. q = l
      BY <2>2 DEF Removed
    <3>2. ASSUME NEW k \in Nat PROVE Nth(from, k, mod) = Nth(Nth(from, 0, mod), k, mod)
      <4>1. 0 + k = k /\ 0 \in Nat
        OBVIOUS
      <4> QED BY <4>1, NthRest
    <3>3. Good(l, max, len, Nth(from, 0, mod), mod)
      <4> DEFINE f == Nth(from, 0, mod)
      <4>1. \A k \in Nat : Nth(from, k, mod) = Nth(f, k, mod)
        BY <3>2
      <4> HIDE DEF f
      <4>2. Good(l, max, len, f, mod)
        BY <1>1, <4>1, Renumbered
      <4> QED BY <4>2 DEF f
    <3> QED BY <1>2, <2>2, <3>1, <3>3
  <2> QED BY <2>1, <2>2
<1> HIDE DEF q, x, d
<1>5. x \in Nat /\ d = n + x
  BY <1>2, <1>4
<1>6. Nth(from, d, mod) = Nth(Nth(from, n, mod), x, mod)
  BY <1>2, <1>5, NthRest
<1>7. Holds(q, max, len, Nth(from, n, mod), to, mod)
  BY <1>1, <1>4, <1>6 DEF Holds, x
<1> QED BY <1>3, <1>4, <1>7 DEF q, x, d

\* n bytes pass by while there is nothing.
LEMMA PassHolds ==
  ASSUME NEW l, NEW max \in Int, NEW len \in Nat \ {0}, NEW from \in Nat, NEW mod \in Nat \ {0},
         NEW to, Holds(l, max, len, from, to, mod), l.data_bytes = 0, NEW n \in Nat
  PROVE  /\ Holds(l, max, len, Nth(from, n, mod), Nth(to, n, mod), mod)
         /\ Nth(from, n, mod) \in Nat /\ Nth(to, n, mod) \in Nat
<1> DEFINE f == Nth(from, n, mod)
<1>1. Good(l, max, len, from, mod) /\ to = Nth(from, 0, mod)
  BY DEF Holds
<1>2. Good(l, max, len, f, mod)
  <2> HIDE DEF f
  <2> QED BY <1>1, NothingNumbered
<1>3. f \in Nat /\ 0 \in Nat /\ to \in Nat
  <2>1. f \in Nat
    BY NthShift
  <2>2. Nth(from, 0, mod) \in Nat
    BY NthShift
  <2> QED BY <1>1, <2>1, <2>2
<1>4. Nth(to, n, mod) \in Nat
  BY <1>3, NthShift
<1>5. Nth(to, n, mod) = Nth(from, n, mod)
  <2>1. n = 0 + n
    OBVIOUS
  <2> QED BY <1>1, <1>3, <2>1, NthRest
<1>6. Nth(f, 0, mod) = Nth(from, n, mod)
  <2>1. n = n + 0
    OBVIOUS
  <2> QED BY <1>3, <2>1, NthRest
<1>7. Nth(to, n, mod) = Nth(f, l.data_bytes, mod)
  BY <1>5, <1>6
<1> QED BY <1>2, <1>3, <1>4, <1>7 DEF Holds

-----------------------------------------------------------------------------
(* What a list in use promises. *)

\* ustream_write_pending looks at all the data.
LEMMA WritableAll ==
  ASSUME NEW max, NEW len, NEW from, NEW mod, Good(w, max, len, from, mod)
  PROVE  Writable = w.data_bytes
<1> DEFINE bufs == w.bufs
           N == Len(bufs)
           c == Sums(bufs)
           dt == w.dt
           Until(n) == /\ \A i \in 1..n : bufs[i].bytes # <<>>
                       /\ n < N => bufs[n + 1].bytes = <<>>
           m == CHOOSE n \in 0..N : Until(n)
<1>1. Sound(w, c, max, len, from, mod) /\ w.data_bytes = BytesIn(bufs, N)
  BY DEF Good
<1>2. bufs \in Seq(Buf) /\ Adds(bufs, c) /\ N \in Nat /\ Shape(bufs, dt, len) /\ dt \in Nat
  BY <1>1 DEF Sound, List
<1>3. Writable = BytesIn(bufs, m)
  BY DEF Writable
<1>4. \A n \in 0..N : BytesIn(bufs, n) = c[n]
  BY DEF Sums
<1> HIDE DEF c, bufs
<1>5. /\ dt <= N /\ (dt = 0 => N = 0)
      /\ \A i \in 1..N : (i < dt => bufs[i].bytes # <<>>) /\ (i > dt => bufs[i].bytes = <<>>)
  BY <1>2 DEF Shape, EmptyBuf
<1> HIDE DEF dt
<1>6. \E n \in 0..N : Until(n)
  <2>1. CASE dt = 0
    <3>1. 0 \in 0..N /\ Until(0)
      BY <1>2, <1>5, <2>1
    <3> QED BY <3>1
  <2>2. CASE dt # 0 /\ bufs[dt].bytes = <<>>
    <3>1. dt - 1 \in 0..N /\ (dt - 1) + 1 = dt
      BY <1>2, <1>5, <2>2
    <3>2. \A i \in 1..(dt - 1) : i \in 1..N /\ i < dt
      BY <1>2, <1>5
    <3>3. Until(dt - 1)
      BY <1>5, <2>2, <3>1, <3>2
    <3> QED BY <3>1, <3>3
  <2>3. CASE dt # 0 /\ bufs[dt].bytes # <<>>
    <3>1. dt \in 0..N
      BY <1>2, <1>5
    <3>2. ASSUME NEW i \in 1..dt PROVE bufs[i].bytes # <<>>
      <4>1. i \in 1..N /\ (i = dt \/ i < dt)
        BY <1>2, <1>5
      <4> QED BY <1>5, <2>3, <4>1
    <3>3. dt < N => dt + 1 \in 1..N /\ dt + 1 > dt
      BY <1>2
    <3>4. Until(dt)
      BY <1>5, <3>2, <3>3
    <3> QED BY <3>1, <3>4
  <2> QED BY <2>1, <2>2, <2>3
<1>7. m \in 0..N /\ Until(m)
  BY <1>6
<1> HIDE DEF m
<1>8. \A i \in (m + 1)..N : bufs[i].bytes = <<>>
  <2> SUFFICES ASSUME NEW i \in (m + 1)..N PROVE bufs[i].bytes = <<>>
    OBVIOUS
  <2>1. m < N /\ m + 1 \in 1..N /\ i \in 1..N /\ (i = m + 1 \/ i > m + 1)
    BY <1>2, <1>7
  <2>2. bufs[m + 1].bytes = <<>>
    BY <1>7, <2>1
  <2>3. m + 1 >= dt
    BY <1>2, <1>5, <2>1, <2>2
  <2>4. i > m + 1 => i > dt
    BY <1>2, <2>1, <2>3
  <2> QED BY <1>5, <2>1, <2>2, <2>4
<1>9. N \in m..N /\ m \in 0..N /\ N \in 0..N
  BY <1>2, <1>7
<1>10. c[N] = c[m]
  <2> HIDE DEF N
  <2>1. \A j \in m..Len(bufs) : c[j] = c[m]
    BY <1>2, <1>8, <1>9, Flat DEF N
  <2> QED BY <1>9, <2>1 DEF N
<1>11. BytesIn(bufs, N) = c[N] /\ BytesIn(bufs, m) = c[m]
  BY <1>4, <1>9
<1> QED BY <1>1, <1>3, <1>10, <1>11 DEF bufs

\* The parts of BuffersOK.
LEMMA GoodBuffers ==
  ASSUME NEW l, NEW max, NEW len \in Nat \ {0}, NEW from, NEW mod, Good(l, max, len, from, mod)
  PROVE  ListOK(l) /\ HeadFirst(l) /\ Counted(l, max)
<1> DEFINE bufs == l.bufs
           N == Len(bufs)
           dt == l.dt
           used == {i \in 1..N : bufs[i].bytes # <<>>}
<1>1. Sound(l, Sums(bufs), max, len, from, mod)
  BY DEF Good
<1>2. /\ bufs \in Seq(Buf) /\ N \in Nat /\ Shape(bufs, dt, len) /\ dt \in Nat
      /\ Counted(l, max) /\ l.buffer_len = len
  BY <1>1 DEF Sound, List
<1>3. ListOK(l)
  <2>1. dt \in 0..N /\ (dt = 0 <=> bufs = <<>>)
    BY <1>2 DEF Shape
  <2>2. ASSUME NEW i \in 1..N PROVE bufs[i].data >= 0 /\ Space(l, bufs[i]) >= 0
    <3>1. bufs[i].data + Len(bufs[i].bytes) <= len
      BY <1>2 DEF Shape
    <3>2. bufs[i].data \in Nat /\ Len(bufs[i].bytes) \in Nat
      BY <1>2, BufFields
    <3>3. Space(l, bufs[i]) = len - (bufs[i].data + Len(bufs[i].bytes))
      BY <1>2 DEF Space, TailOf
    <3> QED BY <3>1, <3>2, <3>3
  <2> QED BY <2>1, <2>2 DEF ListOK
<1>4. HeadFirst(l)
  <2>1. /\ dt \in 0..N /\ (dt = 0 <=> bufs = <<>>)
        /\ \A i \in 1..N : (i < dt => bufs[i].bytes # <<>>) /\ (i > dt => bufs[i].bytes = <<>>)
    BY <1>2 DEF Shape, EmptyBuf
  <2>2. \A i \in used : i <= dt
    BY <1>2, <2>1
  <2>3. ASSUME bufs # <<>> PROVE used \cup {dt} = 1..dt
    <3>1. dt \in 1..dt /\ dt <= N
      BY <1>2, <2>1, <2>3
    <3>2. used \subseteq 1..dt
      BY <1>2, <2>2
    <3>3. ASSUME NEW i \in 1..dt, i # dt PROVE i \in used
      <4>1. i \in 1..N /\ i < dt
        BY <1>2, <3>1, <3>3
      <4> QED BY <2>1, <4>1
    <3> HIDE DEF used
    <3> QED BY <3>1, <3>2, <3>3
  <2> QED BY <2>2, <2>3 DEF HeadFirst
<1> QED BY <1>2, <1>3, <1>4

Flattening(seqs, m, f) ==
  f = [i \in 1..m |-> IF i = 1 THEN seqs[i] ELSE f[i - 1] \o seqs[i]]

\* The recursive function of FlattenSeq exists.
LEMMA FlatteningExists ==
  ASSUME NEW seqs, NEW n \in Nat
  PROVE  \E f : Flattening(seqs, n, f)
<1> DEFINE T == {m \in Nat : \E f : Flattening(seqs, m, f)}
<1>1. 0 \in T
  <2> DEFINE g == [i \in 1..0 |-> IF i = 1 THEN seqs[i] ELSE seqs[i]]
  <2>1. g = [i \in 1..0 |-> IF i = 1 THEN seqs[i] ELSE g[i - 1] \o seqs[i]]
    OBVIOUS
  <2> QED BY <2>1 DEF Flattening
<1>2. ASSUME NEW m \in Nat, m \in T PROVE m + 1 \in T
  <2>1. PICK f : Flattening(seqs, m, f)
    BY <1>2
  <2> DEFINE g == [i \in 1..(m + 1) |-> IF i <= m THEN f[i]
                                        ELSE IF i = 1 THEN seqs[i] ELSE f[m] \o seqs[i]]
  <2>2. g = [i \in 1..(m + 1) |-> IF i = 1 THEN seqs[i] ELSE g[i - 1] \o seqs[i]]
    <3>1. ASSUME NEW i \in 1..(m + 1)
          PROVE  g[i] = IF i = 1 THEN seqs[i] ELSE g[i - 1] \o seqs[i]
      <4>1. CASE i <= m
        <5>1. i \in 1..m /\ (i # 1 => i - 1 \in 1..(m + 1) /\ i - 1 <= m)
          BY <4>1
        <5>2. f[i] = IF i = 1 THEN seqs[i] ELSE f[i - 1] \o seqs[i]
          BY <2>1, <5>1 DEF Flattening
        <5> QED BY <4>1, <5>1, <5>2
      <4>2. CASE i = m + 1
        <5>1. ~(i <= m) /\ (i # 1 => i - 1 \in 1..(m + 1) /\ i - 1 = m /\ i - 1 <= m)
          BY <4>2
        <5> QED BY <5>1
      <4> QED BY <4>1, <4>2
    <3> QED BY <3>1
  <2> HIDE DEF g
  <2>3. Flattening(seqs, m + 1, g)
    BY <2>2 DEF Flattening
  <2> QED BY <2>3
<1>3. Nat \subseteq T
  <2> HIDE DEF T
  <2> QED BY <1>1, <1>2, Induction
<1> QED BY <1>3

\* s is the n bytes from number from on.
Run(s, from, n, mod) ==
  s \in Seq(Nat) /\ Len(s) = n /\ \A j \in 1..n : s[j] = Nth(from, j - 1, mod)

\* A run goes on.
LEMMA LongerRun ==
  ASSUME NEW s, NEW from, NEW n \in Nat, NEW mod, Run(s, from, n, mod), NEW t \in Seq(Nat),
         \A j \in 1..Len(t) : t[j] = Nth(from, n + j - 1, mod)
  PROVE  Run(s \o t, from, n + Len(t), mod)
<1>1. s \in Seq(Nat) /\ Len(s) = n /\ \A j \in 1..n : s[j] = Nth(from, j - 1, mod)
  BY DEF Run
<1>2. /\ s \o t \in Seq(Nat) /\ Len(s \o t) = n + Len(t) /\ Len(t) \in Nat
      /\ \A j \in 1..(n + Len(t)) : (s \o t)[j] = IF j <= n THEN s[j] ELSE t[j - n]
  <2>1. s \in Seq(Nat) /\ Len(s) = n /\ Len(t) \in Nat
    BY <1>1
  <2>2. /\ s \o t \in Seq(Nat) /\ Len(s \o t) = Len(s) + Len(t)
        /\ \A j \in 1..(Len(s) + Len(t)) :
             (s \o t)[j] = IF j <= Len(s) THEN s[j] ELSE t[j - Len(s)]
    BY <2>1, ConcatElements
  <2> QED BY <2>1, <2>2
<1>3. ASSUME NEW j \in 1..(n + Len(t)) PROVE (s \o t)[j] = Nth(from, j - 1, mod)
  <2>1. CASE j <= n
    <3>1. j \in 1..n
      BY <2>1
    <3> QED BY <1>1, <1>2, <2>1, <3>1
  <2>2. CASE ~(j <= n)
    <3>1. j - n \in 1..Len(t) /\ n + (j - n) - 1 = j - 1
      BY <1>2, <2>2
    <3>2. t[j - n] = Nth(from, n + (j - n) - 1, mod)
      BY <3>1
    <3>3. (s \o t)[j] = t[j - n]
      BY <1>2, <2>2
    <3> QED BY <3>1, <3>2, <3>3
  <2> QED BY <2>1, <2>2
<1> QED BY <1>2, <1>3 DEF Run

\* The contents are the bytes from number from on.
LEMMA ContentIs ==
  ASSUME NEW l, NEW max, NEW len, NEW from \in Nat, NEW mod \in Nat \ {0},
         Good(l, max, len, from, mod)
  PROVE  Content(l) = Bytes(from, l.data_bytes, mod)
<1> DEFINE bufs == l.bufs
           N == Len(bufs)
           c == Sums(bufs)
           seqs == [i \in 1..N |-> bufs[i].bytes]
           g == CHOOSE f : f = [i \in 1..Len(seqs) |-> IF i = 1 THEN seqs[i] ELSE f[i - 1] \o seqs[i]]
<1>1. Sound(l, c, max, len, from, mod) /\ l.data_bytes = BytesIn(bufs, N)
  BY DEF Good
<1>2. bufs \in Seq(Buf) /\ N \in Nat /\ Adds(bufs, c) /\ Numbered(bufs, c, from, mod)
  BY <1>1 DEF Sound, List
<1>3. l.data_bytes = c[N] /\ c[0] = 0
  BY <1>1, <1>2 DEF Sums, Adds
<1>4. Len(seqs) = N /\ (N = 0 => seqs = <<>>)
  BY <1>2
<1>5. Content(l) = IF Len(seqs) = 0 THEN seqs ELSE g[Len(seqs)]
  BY Zenon DEF Content, FlattenSeq
<1>6. g = [i \in 1..N |-> IF i = 1 THEN seqs[i] ELSE g[i - 1] \o seqs[i]]
  <2>1. Len(seqs) \in Nat
    BY <1>2, <1>4
  <2> HIDE DEF seqs
  <2>2. \E f : Flattening(seqs, Len(seqs), f)
    BY <2>1, FlatteningExists
  <2>3. Flattening(seqs, Len(seqs), CHOOSE f : Flattening(seqs, Len(seqs), f))
    BY <2>2
  <2>4. Flattening(seqs, Len(seqs), g)
    BY <2>3 DEF Flattening
  <2> HIDE DEF g
  <2> QED BY <1>4, <2>4 DEF Flattening
<1>7. \A i \in 1..N : seqs[i] = bufs[i].bytes
  OBVIOUS
<1> HIDE DEF g, seqs, bufs, c
<1>8. \A i \in 1..N : g[i] = IF i = 1 THEN seqs[i] ELSE g[i - 1] \o seqs[i]
  BY <1>6
<1> DEFINE T == {n \in Nat : 1 <= n /\ n <= N => Run(g[n], from, c[n], mod)}
<1>9. ASSUME NEW n \in 1..N
      PROVE  /\ bufs[n].bytes \in Seq(Nat) /\ c[n - 1] \in Nat /\ c[n] = c[n - 1] + Len(bufs[n].bytes)
             /\ \A j \in 1..Len(bufs[n].bytes) : bufs[n].bytes[j] = Nth(from, c[n - 1] + j - 1, mod)
  <2>1. bufs[n] \in Buf /\ n - 1 \in 0..N
    BY <1>2
  <2>2. bufs[n].bytes \in Seq(Nat)
    BY <2>1, BufFields
  <2>3. c[n - 1] \in Nat /\ c[n] = c[n - 1] + Len(bufs[n].bytes)
    BY <1>2, <2>1, AddsFacts
  <2> QED BY <1>2, <2>2, <2>3 DEF Numbered
<1>10. 0 \in T
  OBVIOUS
<1>11. ASSUME NEW n \in Nat, n \in T PROVE n + 1 \in T
  <2> SUFFICES ASSUME n + 1 <= N PROVE Run(g[n + 1], from, c[n + 1], mod)
    OBVIOUS
  <2> DEFINE b == bufs[n + 1].bytes
             y == c[n]
  <2>1. n + 1 \in 1..N /\ (n + 1) - 1 = n /\ (n # 0 => 1 <= n /\ n <= N /\ n + 1 # 1)
    BY <1>2
  <2>2. /\ b \in Seq(Nat) /\ y \in Nat /\ c[n + 1] = y + Len(b)
        /\ \A j \in 1..Len(b) : b[j] = Nth(from, y + j - 1, mod)
    BY <1>9, <2>1
  <2>3. seqs[n + 1] = b
    BY <1>7, <2>1
  <2> HIDE DEF b, y
  <2>4. CASE n = 0
    <3>1. y = 0
      BY <1>3, <2>4 DEF y
    <3>2. g[n + 1] = b
      BY <1>8, <2>1, <2>3, <2>4
    <3>3. ASSUME NEW j \in 1..Len(b) PROVE b[j] = Nth(from, j - 1, mod)
      <4>1. 0 + j - 1 = j - 1
        BY <2>2
      <4> QED BY <2>2, <3>1, <4>1
    <3>4. c[n + 1] = Len(b)
      BY <2>2, <3>1
    <3>5. Run(b, from, Len(b), mod)
      BY <2>2, <3>3 DEF Run
    <3> QED BY <3>2, <3>4, <3>5
  <2>5. CASE n # 0
    <3>1. g[n + 1] = g[n] \o b
      BY <1>8, <2>1, <2>3, <2>5
    <3>2. Run(g[n], from, y, mod)
      BY <1>11, <2>1, <2>5 DEF y
    <3>3. Run(g[n] \o b, from, y + Len(b), mod)
      BY <2>2, <3>2, LongerRun
    <3> QED BY <2>2, <3>1, <3>3
  <2> QED BY <2>4, <2>5
<1>12. Nat \subseteq T
  <2> HIDE DEF T
  <2> QED BY <1>10, <1>11, Induction
<1>13. Run(Content(l), from, c[N], mod)
  <2>1. CASE N = 0
    <3>1. Content(l) = <<>> /\ c[N] = 0
      BY <1>3, <1>4, <1>5, <2>1
    <3> QED BY <3>1 DEF Run
  <2>2. CASE N # 0
    <3>1. 1 <= N /\ N \in T
      BY <1>2, <1>12, <2>2
    <3>2. Content(l) = g[N]
      BY <1>4, <1>5, <2>2
    <3>3. Run(g[N], from, c[N], mod)
      BY <1>2, <3>1
    <3> QED BY <3>2, <3>3
  <2> QED BY <2>1, <2>2
<1>14. c[N] \in Nat
  <2>1. l.data_bytes \in Nat
    BY GoodFacts
  <2> QED BY <1>3, <2>1
<1> DEFINE y == c[N]
           s == Content(l)
           t == Bytes(from, y, mod)
<1>15. /\ t \in Seq(Nat) /\ Len(t) = y /\ \A j \in 1..y : t[j] = Nth(from, j - 1, mod)
  <2> HIDE DEF y
  <2> QED BY <1>14, BytesAre DEF y
<1>16. s \in Seq(Nat) /\ Len(s) = y /\ \A j \in 1..y : s[j] = Nth(from, j - 1, mod)
  BY <1>13 DEF Run
<1> HIDE DEF s, t, y
<1>17. s = t
  BY <1>15, <1>16
<1> QED BY <1>3, <1>17 DEF s, t, y

-----------------------------------------------------------------------------
(* The stack. *)

Points == {"read", "write", "written", "error"} \cup Callbacks

LEMMA TopFrame ==
  ASSUME NEW s \in Seq(Frame), s # <<>>
  PROVE  /\ Last(s) = s[Len(s)] /\ Last(s) \in Frame /\ Len(s) \in Nat /\ Len(s) \in 1..Len(s)
         /\ Front(s) \in Seq(Frame) /\ Len(Front(s)) = Len(s) - 1
         /\ \A i \in 1..(Len(s) - 1) : Front(s)[i] = s[i]
<1>1. Last(s) = s[Len(s)] /\ Len(s) \in Nat /\ Len(s) \in 1..Len(s) /\ s[Len(s)] \in Frame
  BY DEF Last
<1> QED BY <1>1, FrontElements

\* The calls below the top go on as they are.
Below(k) ==
  /\ k \in Nat /\ k <= Len(stack) /\ k <= Len(stack')
  /\ \A i \in 1..k : stack'[i] = stack[i]

Kept ==
  /\ (ReadRuns => ReadRuns')
  /\ (WriteRuns => WriteRuns')
  /\ (TellRuns => TellRuns')

LEMMA BelowKept ==
  ASSUME stack \in Seq(Frame), stack # <<>>, Below(Len(stack) - 1)
  PROVE  /\ ReadRuns => ReadRuns' \/ Reads(Last(stack))
         /\ WriteRuns => WriteRuns' \/ Writes(Last(stack))
         /\ TellRuns => TellRuns' \/ Tells(Last(stack))
<1> DEFINE n == Len(stack)
<1>1. n \in Nat /\ Last(stack) = stack[n]
  BY TopFrame
<1>2. ASSUME NEW i \in 1..n, i # n PROVE i \in 1..Len(stack') /\ stack'[i] = stack[i]
  BY <1>1, <1>2 DEF Below
<1>3. ReadRuns => ReadRuns' \/ Reads(Last(stack))
  BY <1>1, <1>2 DEF ReadRuns, Reads
<1>4. WriteRuns => WriteRuns' \/ Writes(Last(stack))
  BY <1>1, <1>2 DEF WriteRuns, Writes
<1>5. TellRuns => TellRuns' \/ Tells(Last(stack))
  BY <1>1, <1>2 DEF TellRuns, Tells
<1> QED BY <1>3, <1>4, <1>5

\* Goto.
LEMMA GotoKeeps ==
  ASSUME stack \in Seq(Frame), NEW q, At(q), NEW p \in Points, Goto(p)
  PROVE  /\ stack' \in Seq(Frame) /\ stack # <<>>
         /\ Last(stack) \in Frame /\ Last(stack).at = q
         /\ ReadRuns => ReadRuns' \/ q = "read"
         /\ WriteRuns => WriteRuns' \/ (Writes(Last(stack)) /\ p \notin {"read", "write"})
         /\ TellRuns => TellRuns' \/ Tells(Last(stack))
<1> DEFINE n == Len(stack)
           top == Last(stack)
           new == [top EXCEPT !.at = p]
<1>1. stack # <<>> /\ top.at = q /\ stack' = Append(Front(stack), new)
  BY DEF At, Goto
<1>2. /\ top = stack[n] /\ top \in Frame /\ n \in Nat /\ n \in 1..n
      /\ Front(stack) \in Seq(Frame) /\ Len(Front(stack)) = n - 1
      /\ \A i \in 1..(n - 1) : Front(stack)[i] = stack[i]
  BY <1>1, TopFrame
<1> HIDE DEF top
<1>3. new \in Frame /\ new.at = p /\ new.events = top.events /\ new.wr = top.wr
  BY <1>2 DEF Frame, Points
<1> HIDE DEF new
<1>4. /\ stack' \in Seq(Frame) /\ Len(stack') = (n - 1) + 1 /\ stack'[(n - 1) + 1] = new
      /\ \A i \in 1..(n - 1) : stack'[i] = Front(stack)[i]
  BY <1>1, <1>2, <1>3, Pushed
<1>5. Len(stack') = n /\ stack'[n] = new
  BY <1>2, <1>4
<1>6. Below(n - 1)
  BY <1>2, <1>4, <1>5 DEF Below
<1>7. /\ ReadRuns => ReadRuns' \/ Reads(top)
      /\ WriteRuns => WriteRuns' \/ Writes(top)
      /\ TellRuns => TellRuns' \/ Tells(top)
  BY <1>1, <1>6, BelowKept DEF top
<1>8. Reads(top) => q = "read"
  BY <1>1 DEF Reads
<1>9. Writes(top) /\ p \in {"read", "write"} => WriteRuns'
  <2> SUFFICES ASSUME Writes(top), p \in {"read", "write"} PROVE WriteRuns'
    OBVIOUS
  <2>1. Writes(new)
    BY <1>3 DEF Writes
  <2> QED BY <1>2, <1>5, <2>1 DEF WriteRuns, Writes
<1> QED BY <1>1, <1>2, <1>4, <1>7, <1>8, <1>9 DEF top

\* A frame returns.
LEMMA ReturnKeeps ==
  ASSUME stack \in Seq(Frame), NEW q, At(q), q \notin {"read", "write", "written"},
         stack' = Front(stack)
  PROVE  stack' \in Seq(Frame) /\ Kept
<1>1. stack # <<>> /\ Last(stack).at = q
  BY DEF At
<1>2. /\ Len(stack) \in Nat /\ stack' \in Seq(Frame) /\ Len(stack') = Len(stack) - 1
      /\ \A i \in 1..(Len(stack) - 1) : stack'[i] = stack[i]
      /\ Len(stack) \in 1..Len(stack)
  BY <1>1, TopFrame
<1>3. Below(Len(stack) - 1)
  BY <1>2 DEF Below
<1>4. ~Reads(Last(stack)) /\ ~Writes(Last(stack)) /\ ~Tells(Last(stack))
  BY <1>1 DEF Reads, Writes, Tells
<1> QED BY <1>1, <1>2, <1>3, <1>4, BelowKept DEF Kept

\* A frame is pushed.
LEMMA PushKeeps ==
  ASSUME stack \in Seq(Frame), NEW f \in Frame, stack' = Append(stack, f)
  PROVE  stack' \in Seq(Frame) /\ Kept
<1>1. /\ stack' \in Seq(Frame) /\ Len(stack) \in Nat /\ Len(stack') = Len(stack) + 1
      /\ \A i \in 1..Len(stack) : stack'[i] = stack[i]
  BY Pushed
<1>2. \A i \in 1..Len(stack) : i \in 1..Len(stack') /\ stack'[i] = stack[i]
  BY <1>1
<1>3. ReadRuns => ReadRuns'
  BY <1>2 DEF ReadRuns, Reads
<1>4. WriteRuns => WriteRuns'
  BY <1>2 DEF WriteRuns, Writes
<1>5. TellRuns => TellRuns'
  BY <1>2 DEF TellRuns, Tells
<1> QED BY <1>1, <1>3, <1>4, <1>5 DEF Kept

\* ustream_write_pending calls notify_write.
LEMMA WrittenKeeps ==
  ASSUME stack \in Seq(Frame), At("write"), NEW n \in Nat, ToNotifyWrite(n)
  PROVE  /\ stack' \in Seq(Frame)
         /\ (ReadRuns => ReadRuns') /\ (TellRuns => TellRuns') /\ (n > 0 => TellRuns')
<1> DEFINE N == Len(stack)
           top == Last(stack)
           new == [top EXCEPT !.at = "written", !.wr = n]
           cb == Callback("notify_write")
<1>1. stack # <<>> /\ top.at = "write" /\ stack' = Front(stack) \o <<new, cb>>
  BY DEF At, ToNotifyWrite
<1>2. /\ top = stack[N] /\ top \in Frame /\ N \in Nat /\ N \in 1..N
      /\ Front(stack) \in Seq(Frame) /\ Len(Front(stack)) = N - 1
      /\ \A i \in 1..(N - 1) : Front(stack)[i] = stack[i]
  BY <1>1, TopFrame
<1> HIDE DEF top
<1>3. new \in Frame /\ new.at = "written" /\ new.wr = n
  BY <1>2 DEF Frame
<1>4. cb \in Frame
  BY DEF Callback, Callbacks, Frame
<1> HIDE DEF new, cb
<1>5. <<new, cb>> \in Seq(Frame) /\ Len(<<new, cb>>) = 2 /\ <<new, cb>>[1] = new
  BY <1>3, <1>4
<1>6. /\ stack' \in Seq(Frame) /\ Len(stack') = (N - 1) + 2
      /\ \A i \in 1..((N - 1) + 2) : stack'[i] = IF i <= N - 1 THEN Front(stack)[i] ELSE <<new, cb>>[i - (N - 1)]
  <2> DEFINE a == Front(stack)
             b == <<new, cb>>
  <2>1. a \in Seq(Frame) /\ b \in Seq(Frame) /\ stack' = a \o b /\ Len(a) = N - 1 /\ Len(b) = 2
    BY <1>1, <1>2, <1>5
  <2> HIDE DEF a, b
  <2>2. /\ a \o b \in Seq(Frame) /\ Len(a \o b) = Len(a) + Len(b)
        /\ \A i \in 1..(Len(a) + Len(b)) : (a \o b)[i] = IF i <= Len(a) THEN a[i] ELSE b[i - Len(a)]
    BY <2>1, ConcatElements
  <2> QED BY <2>1, <2>2 DEF a, b
<1>7. stack'[N] = new /\ N \in 1..Len(stack')
  <2>1. N \in 1..((N - 1) + 2) /\ ~(N <= N - 1) /\ N - (N - 1) = 1
    BY <1>2
  <2> QED BY <1>5, <1>6, <2>1
<1>8. \A i \in 1..(N - 1) : stack'[i] = stack[i]
  <2> SUFFICES ASSUME NEW i \in 1..(N - 1) PROVE stack'[i] = stack[i]
    OBVIOUS
  <2>1. i \in 1..((N - 1) + 2) /\ i <= N - 1
    BY <1>2
  <2> QED BY <1>2, <1>6, <2>1
<1>9. Below(N - 1)
  BY <1>2, <1>6, <1>8 DEF Below
<1>10. ~Reads(top) /\ ~Tells(top)
  BY <1>1 DEF Reads, Tells
<1>11. (ReadRuns => ReadRuns') /\ (TellRuns => TellRuns')
  BY <1>1, <1>9, <1>10, BelowKept DEF top
<1>12. n > 0 => TellRuns'
  BY <1>3, <1>7 DEF TellRuns, Tells
<1> QED BY <1>6, <1>11, <1>12

\* The stack is as it was.
LEMMA SameStack ==
  stack \in Seq(Frame) /\ UNCHANGED stack => stack' \in Seq(Frame) /\ Kept
BY DEF Kept, ReadRuns, WriteRuns, TellRuns, Reads, Writes, Tells

LEMMA Frames ==
  /\ \A name \in Callbacks : Callback(name) \in Frame
  /\ \A at \in Points : \A events \in SUBSET Events : \A wr \in Nat : PollAt(at, events, wr) \in Frame
BY DEF Callback, Callbacks, Frame, Points, PollAt

LEMMA EmptyStack ==
  ASSUME stack = <<>>
  PROVE  ~ReadRuns /\ ~WriteRuns /\ ~TellRuns
BY DEF ReadRuns, WriteRuns, TellRuns

-----------------------------------------------------------------------------
(* The descriptor. *)

Interests == ReadInterest /\ WriteInterest /\ ReadDue /\ WriteDue

\* A list with data has buffers.
LEMMA DataIsBuffered ==
  ASSUME NEW l, NEW max, NEW len, NEW from, NEW mod, Good(l, max, len, from, mod), l.data_bytes > 0
  PROVE  l.bufs # <<>>
<1> DEFINE c == Sums(l.bufs)
<1>1. Sound(l, c, max, len, from, mod) /\ l.data_bytes = BytesIn(l.bufs, Len(l.bufs))
  BY DEF Good
<1>2. Adds(l.bufs, c) /\ Len(l.bufs) \in Nat
  BY <1>1 DEF Sound, List
<1>3. l.data_bytes = c[Len(l.bufs)] /\ c[0] = 0
  BY <1>1, <1>2 DEF Adds, Sums
<1> HIDE DEF c
<1> QED BY <1>3

\* ustream_fd_set_uloop tells the kernel what the stream waits for, and the
\* kernel reports what is there.
LEMMA Registers ==
  ASSUME NEW write \in BOOLEAN, ustream_fd_set_uloop(write), error \in BOOLEAN,
         (Writing /\ w.data_bytes > 0 => w.bufs # <<>>)'
  PROVE  Polled' /\ Interests'
<1> DEFINE events == (IF blocked' = {} /\ ~eof' THEN {"read"} ELSE {})
                       \cup (IF write \/ (w'.bufs # <<>> /\ w'.data_bytes > 0 /\ ~write_error')
                             THEN {"write"} ELSE {})
<1>1. /\ interest' = events
      /\ armed' = (events # {} /\ (events \cap Ready' # {} \/ peer' = "reset"))
      /\ error' = (error /\ events = {})
  BY Zenon DEF ustream_fd_set_uloop, Register
<1>2. events \in SUBSET Events
  BY DEF Events
<1>3. "read" \in events <=> blocked' = {} /\ ~eof'
  OBVIOUS
<1>4. w'.bufs # <<>> /\ w'.data_bytes > 0 /\ ~write_error' => "write" \in events
  OBVIOUS
<1> HIDE DEF events
<1>5. armed' \in BOOLEAN /\ error' \in BOOLEAN
  BY <1>1
<1>6. ASSUME NEW e \in events, e \in Ready' PROVE armed'
  BY <1>1, <1>6
<1>7. Polled'
  BY <1>1, <1>2, <1>5 DEF Polled
<1>8. ReadInterest'
  BY <1>1, <1>3 DEF ReadInterest
<1>9. WriteInterest'
  BY <1>1, <1>4 DEF WriteInterest, Writing
<1>10. ReadDue'
  BY <1>3, <1>6 DEF ReadDue
<1>11. WriteDue'
  BY <1>4, <1>6 DEF WriteDue, Writing
<1> QED BY <1>7, <1>8, <1>9, <1>10, <1>11 DEF Interests

\* Good write buffers, for Registers.
LEMMA Buffered ==
  ASSUME WriteList'
  PROVE  (Writing /\ w.data_bytes > 0 => w.bufs # <<>>)'
<1> SUFFICES ASSUME Writing', w'.data_bytes > 0 PROVE w'.bufs # <<>>
  OBVIOUS
<1>1. Good(w', WMax, WLen, sent', WMod)
  BY DEF WriteList
<1> QED BY <1>1, DataIsBuffered

-----------------------------------------------------------------------------
(* Steps of the kernel. *)

Sizes ==
  /\ RLen \in Nat \ {0} /\ WLen \in Nat \ {0} /\ RMax \in Int /\ WMax \in Int
  /\ RMod \in Nat \ {0} /\ WMod \in Nat \ {0} /\ MaxOut \in Nat
  /\ WriteLens \subseteq Nat \ {0}

LEMMA SizesOK == Sizes
BY StreamAssumption DEF Sizes

\* The variables of each list are as they were.
SameRead == UNCHANGED <<r, blocked, alive, got, taken>>
SameWrite == UNCHANGED <<w, alive, write_error, put, sent>>

LEMMA ReadSame ==
  ASSUME IInv, SameRead
  PROVE  ReadList' /\ FullIsFull'
BY DEF IInv, ReadList, FullIsFull, Reserved, SameRead

LEMMA WriteSame ==
  ASSUME IInv, SameWrite
  PROVE  WriteList'
BY DEF IInv, WriteList, Writing, SameWrite

LEMMA InitOK == Init => IInv
<1> SUFFICES ASSUME Init PROVE IInv
  OBVIOUS
<1>1. TypeOK
  <2>1. SocketOK /\ Polled /\ Numbers
    BY SizesOK DEF Init, SocketOK, Polled, Numbers, Sizes
  <2>2. FlagsOK
    BY DEF Init, FlagsOK
  <2>3. stack = <<>> /\ <<>> \in Seq(Frame)
    BY DEF Init
  <2> QED BY <2>1, <2>2, <2>3 DEF TypeOK
<1>2. Idle /\ ReadList /\ WriteList /\ ReadInterest /\ WriteInterest /\ ReadDue /\ WriteDue
      /\ FullIsFull /\ NewsDue
  BY DEF Init, Idle, ReadList, WriteList, ReadInterest, WriteInterest, ReadDue, WriteDue, Writing,
         FullIsFull, NewsDue
<1> QED BY <1>1, <1>2 DEF IInv

LEMMA KernelOK == IInv /\ Kernel => IInv'
<1> SUFFICES ASSUME IInv, Kernel PROVE IInv'
  OBVIOUS
<1>1. /\ UNCHANGED <<r, w, blocked, flags, stack, history, interest, error>> /\ alive
  BY DEF Kernel, Arrive, Close, Reset, Drain
<1>2. TypeOK'
  <2>1. SocketOK'
    BY DEF IInv, TypeOK, SocketOK, Kernel, Arrive, Close, Reset, Drain
  <2>2. armed' \in BOOLEAN
    BY DEF IInv, TypeOK, Polled, Kernel, Arrive, Close, Reset, Drain
  <2>3. Polled'
    BY <1>1, <2>2 DEF IInv, TypeOK, Polled
  <2>4. FlagsOK' /\ stack' \in Seq(Frame) /\ Numbers'
    BY <1>1 DEF IInv, TypeOK, FlagsOK, Numbers, flags, history
  <2> QED BY <2>1, <2>3, <2>4 DEF TypeOK
<1>3. Idle' /\ ReadInterest' /\ WriteInterest' /\ NewsDue'
  BY <1>1 DEF IInv, Idle, ReadInterest, WriteInterest, Writing, NewsDue, Emptied, TellRuns, Tells, flags, history
<1>4. ReadList' /\ FullIsFull' /\ WriteList'
  BY <1>1, ReadSame, WriteSame DEF SameRead, SameWrite, flags, history
<1>5. (ReadRuns => ReadRuns') /\ (WriteRuns => WriteRuns')
  BY <1>1 DEF ReadRuns, WriteRuns, Reads, Writes
<1>6. ReadDue'
  BY <1>1, <1>5 DEF IInv, TypeOK, SocketOK, ReadDue, ReadInterest, Ready, Kernel, Arrive, Close, Reset, Drain, flags
<1>7. WriteDue'
  BY <1>1, <1>5 DEF IInv, TypeOK, SocketOK, WriteDue, WriteInterest, Writing, Ready, Kernel, Arrive, Close, Reset, Drain, flags
<1> QED BY <1>2, <1>3, <1>4, <1>6, <1>7 DEF IInv

-----------------------------------------------------------------------------
(* Steps of __ustream_fd_poll. *)

\* Only notify_state may outlive the stream.
LEMMA Lives ==
  ASSUME IInv, NEW q, At(q), q # "notify_state"
  PROVE  alive
<1> SUFFICES ASSUME ~alive PROVE FALSE
  OBVIOUS
<1>1. stack # <<>> /\ Last(stack).at = q
  BY DEF At
<1>2. stack = <<Callback("notify_state")>>
  BY <1>1 DEF IInv, Idle
<1>3. Last(stack).at = "notify_state"
  BY <1>2 DEF Last, Callback
<1> QED BY <1>1, <1>3

LEMMA AliveOK ==
  ASSUME alive'
  PROVE  Idle'
BY DEF Idle

\* News is still due if the buffers were not touched.
LEMMA NewsKept ==
  ASSUME IInv, news' = news, timer' = timer, UNCHANGED <<alive, eof, w>>, TellRuns => TellRuns'
  PROVE  NewsDue'
BY DEF IInv, NewsDue, Emptied

\* Nothing the descriptor depends on has changed.
LEMMA DueKept ==
  ASSUME IInv, UNCHANGED <<socket, epoll, alive, eof, blocked, w, write_error>>,
         (ReadRuns => ReadRuns') \/ blocked # {} \/ "read" \notin Ready,
         (WriteRuns => WriteRuns') \/ ~Writing
  PROVE  Interests' /\ Polled'
<1>1. Ready' = Ready
  BY DEF Ready, socket
<1>2. ReadInterest' /\ WriteInterest'
  BY DEF IInv, ReadInterest, WriteInterest, Writing, epoll
<1>3. ReadDue' /\ WriteDue'
  BY <1>1 DEF IInv, ReadDue, WriteDue, Writing, epoll
<1>4. Polled'
  BY DEF IInv, TypeOK, Polled, epoll
<1> QED BY <1>2, <1>3, <1>4 DEF Interests

LEMMA ustream_uloop_cbOK == IInv /\ ustream_uloop_cb => IInv'
<1> SUFFICES ASSUME IInv, ustream_uloop_cb PROVE IInv'
  OBVIOUS
<1> DEFINE events == interest \cap Ready
           f == PollAt(IF "read" \in events THEN "read" ELSE "write", events, 0)
<1>1. /\ stack = <<>> /\ armed /\ armed' = FALSE /\ error' = (error \/ peer = "reset")
      /\ stack' = <<f>> /\ UNCHANGED <<socket, interest, r, w, blocked, flags, history>>
  BY DEF ustream_uloop_cb
<1>2. alive /\ alive'
  BY <1>1 DEF IInv, Idle, flags
<1>3. events \in SUBSET Events
  BY DEF IInv, TypeOK, Polled
<1>4. f \in Frame /\ f.at = (IF "read" \in events THEN "read" ELSE "write") /\ f.events = events
  BY <1>3 DEF PollAt, Frame
<1>5. stack' \in Seq(Frame) /\ Len(stack') = 1 /\ stack'[1] = f /\ 1 \in 1..Len(stack')
  <2> HIDE DEF f
  <2> QED BY <1>1, <1>4
<1> HIDE DEF f
<1>6. "read" \in events => ReadRuns'
  BY <1>4, <1>5 DEF ReadRuns, Reads
<1>7. "write" \in events => WriteRuns'
  BY <1>4, <1>5 DEF WriteRuns, Writes
<1>8. TypeOK'
  <2>1. error' \in BOOLEAN
    BY <1>1 DEF IInv, TypeOK, Polled
  <2>2. Polled'
    BY <1>1, <2>1 DEF IInv, TypeOK, Polled
  <2>3. SocketOK' /\ FlagsOK' /\ Numbers'
    BY <1>1 DEF IInv, TypeOK, SocketOK, FlagsOK, Numbers, socket, flags, history
  <2> QED BY <1>5, <2>2, <2>3 DEF TypeOK
<1>9. Ready' = Ready
  BY <1>1 DEF Ready, socket
<1>10. ReadInterest' /\ WriteInterest'
  BY <1>1 DEF IInv, ReadInterest, WriteInterest, Writing, flags
<1>11. ReadDue'
  BY <1>1, <1>6, <1>9 DEF IInv, ReadInterest, ReadDue, flags
<1>12. WriteDue'
  BY <1>1, <1>7, <1>9 DEF IInv, WriteInterest, WriteDue, Writing, flags
<1>13. ReadList' /\ FullIsFull' /\ WriteList'
  BY <1>1, ReadSame, WriteSame DEF SameRead, SameWrite, flags, history
<1>14. NewsDue'
  BY <1>1, EmptyStack DEF IInv, NewsDue, Emptied, flags, history
<1>15. Idle'
  BY <1>2, AliveOK
<1> QED BY <1>8, <1>10, <1>11, <1>12, <1>13, <1>14, <1>15 DEF IInv

\* The parts that a step of a call leaves alone.
LEMMA StepKeeps ==
  ASSUME IInv, UNCHANGED <<socket, epoll, r, w, blocked, flags, history>>,
         stack' \in Seq(Frame), alive \/ stack' \in {<<>>, <<Callback("notify_state")>>},
         (ReadRuns => ReadRuns') \/ blocked # {} \/ "read" \notin Ready,
         (WriteRuns => WriteRuns') \/ ~Writing,
         TellRuns => TellRuns'
  PROVE  IInv'
<1>1. TypeOK'
  BY DEF IInv, TypeOK, SocketOK, Polled, FlagsOK, Numbers, socket, epoll, flags, history
<1>2. Idle'
  BY DEF IInv, Idle, flags, epoll
<1>3. ReadList' /\ FullIsFull' /\ WriteList'
  BY ReadSame, WriteSame DEF SameRead, SameWrite, flags, history
<1>4. Interests'
  BY DueKept DEF flags
<1>5. NewsDue'
  BY NewsKept DEF flags, history
<1> QED BY <1>1, <1>2, <1>3, <1>4, <1>5 DEF IInv, Interests

LEMMA ReadBlockedOK == IInv /\ ReadBlocked => IInv'
<1> SUFFICES ASSUME IInv, ReadBlocked PROVE IInv'
  OBVIOUS
<1>1. At("read") /\ blocked # {} /\ Goto("write") /\ UNCHANGED <<socket, epoll, r, w, blocked, flags, history>>
  BY DEF ReadBlocked
<1>2. alive
  BY <1>1, Lives
<1>3. stack \in Seq(Frame) /\ "write" \in Points
  BY DEF IInv, TypeOK, Points
<1>4. /\ stack' \in Seq(Frame) /\ Last(stack).at = "read"
      /\ WriteRuns => WriteRuns' \/ (Writes(Last(stack)) /\ "write" \notin {"read", "write"})
      /\ TellRuns => TellRuns' \/ Tells(Last(stack))
  BY <1>1, <1>3, GotoKeeps
<1>5. (WriteRuns => WriteRuns') /\ (TellRuns => TellRuns')
  BY <1>4 DEF Tells
<1> QED BY <1>1, <1>2, <1>4, <1>5, StepKeeps

LEMMA SkipWriteOK == IInv /\ SkipWrite => IInv'
<1> SUFFICES ASSUME IInv, SkipWrite PROVE IInv'
  OBVIOUS
<1>1. /\ At("write") /\ Goto("error") /\ UNCHANGED <<socket, epoll, r, w, blocked, flags, history>>
      /\ "write" \notin Last(stack).events \/ write_error
  BY DEF SkipWrite
<1>2. alive
  BY <1>1, Lives
<1>3. stack \in Seq(Frame) /\ "error" \in Points
  BY DEF IInv, TypeOK, Points
<1>4. /\ stack' \in Seq(Frame) /\ Last(stack).at = "write"
      /\ ReadRuns => ReadRuns' \/ "write" = "read"
      /\ WriteRuns => WriteRuns' \/ (Writes(Last(stack)) /\ "error" \notin {"read", "write"})
      /\ TellRuns => TellRuns' \/ Tells(Last(stack))
  BY <1>1, <1>3, GotoKeeps
<1>5. (ReadRuns => ReadRuns') /\ ((WriteRuns => WriteRuns') \/ ~Writing) /\ (TellRuns => TellRuns')
  BY <1>1, <1>4 DEF Tells, Writes, Writing
<1> QED BY <1>1, <1>2, <1>4, <1>5, StepKeeps

LEMMA NotifyReturnOK == IInv /\ NotifyReturn => IInv'
<1> SUFFICES ASSUME IInv, NotifyReturn PROVE IInv'
  OBVIOUS
<1>1. PICK q \in {"notify_write", "notify_state"} : At(q)
  BY DEF NotifyReturn
<1>2. stack' = Front(stack) /\ UNCHANGED <<socket, epoll, r, w, blocked, flags, history>>
  BY DEF NotifyReturn
<1>3. stack \in Seq(Frame)
  BY DEF IInv, TypeOK
<1>4. stack' \in Seq(Frame) /\ Kept
  BY <1>1, <1>2, <1>3, ReturnKeeps
<1>5. alive \/ stack' = <<>>
  <2> SUFFICES ASSUME ~alive PROVE stack' = <<>>
    OBVIOUS
  <2>1. stack = <<Callback("notify_state")>>
    BY <1>1 DEF IInv, Idle, At
  <2> QED BY <1>2, <2>1 DEF Front
<1> QED BY <1>2, <1>4, <1>5, StepKeeps DEF Kept

LEMMA ustream_pollOK == IInv /\ ustream_poll => IInv'
<1> SUFFICES ASSUME IInv, ustream_poll PROVE IInv'
  OBVIOUS
<1> DEFINE f == PollAt("read", {"read", "write"}, 0)
<1>1. alive /\ stack' = Append(stack, f) /\ UNCHANGED <<socket, epoll, r, w, blocked, flags, history>>
  BY DEF ustream_poll
<1>2. stack \in Seq(Frame) /\ f \in Frame
  BY Frames DEF IInv, TypeOK, Points, Events
<1> HIDE DEF f
<1>3. stack' \in Seq(Frame) /\ Kept
  BY <1>1, <1>2, PushKeeps
<1> QED BY <1>1, <1>3, StepKeeps DEF Kept

\* ustream_reserve changes the list only.
LEMMA ReservedGood ==
  ASSUME IInv, alive
  PROVE  /\ Good(Reserved.l, RMax, RLen, taken, RMod)
         /\ Reserved.l.data_bytes = r.data_bytes /\ r.data_bytes \in Nat
         /\ Reserved.ok => Reserved.l.dt # 0 /\ Fillable(Reserved.l) > 0
         /\ got = Nth(taken, r.data_bytes, RMod)
<1>1. Good(r, RMax, RLen, taken, RMod) /\ got = Nth(taken, r.data_bytes, RMod)
  BY DEF IInv, ReadList, Nth
<1>2. RMax \in Int /\ RLen \in Nat \ {0}
  BY SizesOK DEF Sizes
<1>3. LET p == ustream_prepare_buf(r, RMax, 1)
      IN  /\ Good(p.l, RMax, RLen, taken, RMod)
          /\ p.l.data_bytes = r.data_bytes /\ p.ok \in BOOLEAN
          /\ p.ok => p.l.dt # 0 /\ Fillable(p.l) > 0
  BY <1>1, <1>2, PrepareGood
<1>4. r.data_bytes \in Nat
  BY <1>1, GoodFacts
<1> QED BY <1>1, <1>3, <1>4 DEF Reserved

LEMMA ReadFullOK == IInv /\ ReadFull => IInv'
<1> SUFFICES ASSUME IInv, ReadFull PROVE IInv'
  OBVIOUS
<1>1. /\ At("read") /\ blocked = {} /\ ~Reserved.ok /\ r' = Reserved.l /\ Goto("write")
      /\ UNCHANGED <<socket, w, flags, history>> /\ set_read_blocked({"full"})
  BY DEF ReadFull
<1>2. alive /\ alive'
  BY <1>1, Lives DEF flags
<1>3. stack \in Seq(Frame) /\ "write" \in Points
  BY DEF IInv, TypeOK, Points
<1>4. /\ stack' \in Seq(Frame) /\ Last(stack).at = "read"
      /\ TellRuns => TellRuns' \/ Tells(Last(stack))
  BY <1>1, <1>3, GotoKeeps
<1>5. TellRuns => TellRuns'
  BY <1>4 DEF Tells
<1>6. blocked' = {"full"} /\ ustream_fd_set_uloop(FALSE)
  BY <1>1 DEF set_read_blocked
<1>7. WriteList'
  BY <1>1, WriteSame DEF SameWrite, flags, history
<1>8. Polled' /\ Interests'
  <2>1. error \in BOOLEAN
    BY DEF IInv, TypeOK, Polled
  <2> QED BY <1>6, <1>7, <2>1, Registers, Buffered
<1>9. ReadList'
  BY <1>1, <1>2, ReservedGood DEF ReadList, Nth, history
<1>10. FullIsFull'
  <2>1. Good(r, RMax, RLen, taken, RMod)
    BY <1>2 DEF IInv, ReadList
  <2>2. RMax \in Int /\ RLen \in Nat \ {0}
    BY SizesOK DEF Sizes
  <2>3. ~ustream_prepare_buf(r, RMax, 1).ok /\ r' = ustream_prepare_buf(r, RMax, 1).l
    BY <1>1 DEF Reserved
  <2>4. LET q == ustream_prepare_buf(r, RMax, 1).l
        IN  q.data_bytes > 0 /\ ~ustream_prepare_buf(q, RMax, 1).ok
    BY <2>1, <2>2, <2>3, PrepareFull
  <2> QED BY <2>3, <2>4 DEF FullIsFull, Reserved
<1>11. TypeOK'
  <2>1. SocketOK' /\ Numbers' /\ FlagsOK'
    BY <1>1, <1>6 DEF IInv, TypeOK, SocketOK, FlagsOK, Numbers, socket, flags, history
  <2> QED BY <1>4, <1>8, <2>1 DEF TypeOK
<1>12. NewsDue'
  BY <1>1, <1>5, NewsKept DEF flags, history
<1>13. Idle'
  BY <1>2, AliveOK
<1> QED BY <1>7, <1>8, <1>9, <1>10, <1>11, <1>12, <1>13 DEF IInv, Interests

LEMMA ReadNothingOK == IInv /\ ReadNothing => IInv'
<1> SUFFICES ASSUME IInv, ReadNothing PROVE IInv'
  OBVIOUS
<1>1. /\ At("read") /\ blocked = {} /\ inq = 0 /\ peer = "open" /\ r' = Reserved.l /\ Goto("write")
      /\ UNCHANGED <<socket, epoll, w, blocked, flags, history>>
  BY DEF ReadNothing
<1>2. alive /\ alive'
  BY <1>1, Lives DEF flags
<1>3. stack \in Seq(Frame) /\ "write" \in Points
  BY DEF IInv, TypeOK, Points
<1>4. /\ stack' \in Seq(Frame) /\ Last(stack).at = "read"
      /\ WriteRuns => WriteRuns' \/ (Writes(Last(stack)) /\ "write" \notin {"read", "write"})
      /\ TellRuns => TellRuns' \/ Tells(Last(stack))
  BY <1>1, <1>3, GotoKeeps
<1>5. (WriteRuns => WriteRuns') /\ (TellRuns => TellRuns')
  BY <1>4 DEF Tells
<1>6. "read" \notin Ready
  BY <1>1 DEF Ready
<1>7. WriteList'
  BY <1>1, WriteSame DEF SameWrite, flags, history
<1>8. Polled' /\ Interests'
  BY <1>1, <1>5, <1>6, DueKept DEF flags
<1>9. ReadList'
  BY <1>1, <1>2, ReservedGood DEF ReadList, Nth, history
<1>10. FullIsFull'
  BY <1>1 DEF FullIsFull
<1>11. TypeOK'
  <2>1. SocketOK' /\ Numbers' /\ FlagsOK'
    BY <1>1 DEF IInv, TypeOK, SocketOK, FlagsOK, Numbers, socket, flags, history
  <2> QED BY <1>4, <1>8, <2>1 DEF TypeOK
<1>12. NewsDue'
  BY <1>1, <1>5, NewsKept DEF flags, history
<1>13. Idle'
  BY <1>2, AliveOK
<1> QED BY <1>7, <1>8, <1>9, <1>10, <1>11, <1>12, <1>13 DEF IInv, Interests

LEMMA ReadEofOK == IInv /\ ReadEof => IInv'
<1> SUFFICES ASSUME IInv, ReadEof PROVE IInv'
  OBVIOUS
<1>1. /\ At("read") /\ blocked = {} /\ r' = Reserved.l /\ Goto("write")
      /\ timer' = (timer \/ ~eof) /\ news' = (news \/ ~eof) /\ eof' = TRUE
      /\ UNCHANGED <<socket, w, blocked, write_error, pending_cb, alive, got, taken, put, sent>>
      /\ ustream_fd_set_uloop(FALSE)
  BY DEF ReadEof
<1>2. alive /\ alive'
  BY <1>1, Lives
<1>3. stack \in Seq(Frame) /\ "write" \in Points
  BY DEF IInv, TypeOK, Points
<1>4. /\ stack' \in Seq(Frame) /\ Last(stack).at = "read"
      /\ TellRuns => TellRuns' \/ Tells(Last(stack))
  BY <1>1, <1>3, GotoKeeps
<1>5. TellRuns => TellRuns'
  BY <1>4 DEF Tells
<1>7. WriteList'
  BY <1>1, WriteSame DEF SameWrite
<1>8. Polled' /\ Interests'
  <2>1. error \in BOOLEAN
    BY DEF IInv, TypeOK, Polled
  <2> QED BY <1>1, <1>7, <2>1, Registers, Buffered
<1>9. ReadList'
  BY <1>1, <1>2, ReservedGood DEF ReadList, Nth
<1>10. FullIsFull'
  BY <1>1 DEF FullIsFull
<1>11. TypeOK'
  <2>1. SocketOK' /\ Numbers'
    BY <1>1 DEF IInv, TypeOK, SocketOK, Numbers, socket
  <2>2. FlagsOK'
    BY <1>1 DEF IInv, TypeOK, FlagsOK
  <2> QED BY <1>4, <1>8, <2>1, <2>2 DEF TypeOK
<1>12. NewsDue'
  BY <1>1, <1>5 DEF IInv, NewsDue, Emptied
<1>13. Idle'
  BY <1>2, AliveOK
<1> QED BY <1>7, <1>8, <1>9, <1>10, <1>11, <1>12, <1>13 DEF IInv, Interests

LEMMA ReadDataOK == IInv /\ ReadData => IInv'
<1> SUFFICES ASSUME IInv, ReadData PROVE IInv'
  OBVIOUS
<1> DEFINE l == Reserved.l
           n == Least(inq, Fillable(l))
           data == Bytes(got, n, RMod)
<1>1. /\ At("read") /\ blocked = {} /\ Reserved.ok /\ inq > 0
      /\ inq' = inq - n /\ r' = Filled(l, data) /\ got' = (got + n) % RMod
      /\ pending_cb' = TRUE
      /\ stack' = IF pending_cb THEN stack ELSE Append(stack, Callback("notify_read"))
      /\ UNCHANGED <<peer, room, epoll, w, blocked, eof, write_error, timer, alive, taken, put, sent, news>>
  BY DEF ReadData
<1>2. alive /\ alive'
  BY <1>1, Lives
<1>3. inq \in Nat /\ taken \in Nat /\ got \in Nat /\ stack \in Seq(Frame) /\ pending_cb \in BOOLEAN
  BY DEF IInv, TypeOK, SocketOK, Numbers, FlagsOK
<1>4. /\ Good(l, RMax, RLen, taken, RMod) /\ l.data_bytes = r.data_bytes /\ r.data_bytes \in Nat
      /\ l.dt # 0 /\ Fillable(l) > 0 /\ got = Nth(taken, l.data_bytes, RMod)
  BY <1>1, <1>2, ReservedGood
<1>5. Fillable(l) \in Int
  <2> HIDE DEF l
  <2> QED BY <1>4, FillableInt
<1>6. n \in Nat /\ n <= Fillable(l) /\ n <= inq
  BY <1>3, <1>4, <1>5 DEF Least
<1> HIDE DEF l, n
<1>7. RMax \in Int /\ RLen \in Nat \ {0} /\ RMod \in Nat \ {0}
  BY SizesOK DEF Sizes
<1>8. Holds(l, RMax, RLen, taken, got, RMod)
  BY <1>4 DEF Holds
<1>9. Holds(Filled(l, data), RMax, RLen, taken, Nth(got, n, RMod), RMod) /\ Nth(got, n, RMod) \in Nat
  BY <1>3, <1>4, <1>6, <1>7, <1>8, FillHolds
<1>10. got' = Nth(got, n, RMod)
  BY <1>1 DEF Nth
<1>11. Holds(r', RMax, RLen, taken', got', RMod)
  BY <1>1, <1>9, <1>10
<1>12. ReadList'
  BY <1>11 DEF ReadList, Holds, Nth
<1>13. FullIsFull'
  BY <1>1 DEF FullIsFull
<1>14. WriteList'
  BY <1>1, WriteSame DEF SameWrite
<1>15. stack' \in Seq(Frame) /\ Kept
  <2>1. CASE pending_cb
    BY <1>1, <1>3, <2>1, SameStack
  <2>2. CASE ~pending_cb
    <3>1. Callback("notify_read") \in Frame
      BY Frames DEF Callbacks
    <3> QED BY <1>1, <1>3, <2>2, <3>1, PushKeeps
  <2> QED BY <2>1, <2>2
<1>16. ReadRuns'
  <2>1. stack # <<>> /\ Reads(Last(stack))
    BY <1>1 DEF At, Reads
  <2>2. Last(stack) = stack[Len(stack)] /\ Len(stack) \in 1..Len(stack)
    BY <1>3, <2>1, TopFrame
  <2>3. ReadRuns
    BY <2>1, <2>2 DEF ReadRuns
  <2> QED BY <1>15, <2>3 DEF Kept
<1>17. ReadInterest' /\ WriteInterest'
  BY <1>1 DEF IInv, ReadInterest, WriteInterest, Writing, epoll
<1>18. ReadDue'
  BY <1>16 DEF ReadDue
<1>19. WriteDue'
  <2>1. "write" \in Ready' <=> "write" \in Ready
    BY <1>1 DEF Ready
  <2> QED BY <1>1, <1>15, <2>1 DEF IInv, WriteDue, Writing, Kept, epoll
<1>20. TypeOK'
  <2>1. SocketOK'
    BY <1>1, <1>3, <1>6 DEF IInv, TypeOK, SocketOK
  <2>2. got' \in Nat
    BY <1>9, <1>10
  <2>3. Polled' /\ Numbers'
    BY <1>1, <2>2 DEF IInv, TypeOK, Polled, Numbers, epoll
  <2>4. FlagsOK'
    BY <1>1 DEF IInv, TypeOK, FlagsOK
  <2> QED BY <1>15, <2>1, <2>3, <2>4 DEF TypeOK
<1>21. NewsDue'
  BY <1>1, <1>15, NewsKept DEF Kept
<1>22. Idle'
  BY <1>2, AliveOK
<1> QED BY <1>12, <1>13, <1>14, <1>17, <1>18, <1>19, <1>20, <1>21, <1>22 DEF IInv

\* The two lists, as the lemmas say it.
LEMMA ReadHolds ==
  ASSUME IInv, alive
  PROVE  Holds(r, RMax, RLen, taken, got, RMod) /\ taken \in Nat
BY DEF IInv, ReadList, Holds, Nth, TypeOK, Numbers

LEMMA WriteHolds ==
  ASSUME IInv, Writing
  PROVE  /\ Holds(w, WMax, WLen, sent, put, WMod) /\ sent \in Nat /\ put \in Nat
         /\ w.data_bytes \in Nat /\ Writable = w.data_bytes
<1>1. Holds(w, WMax, WLen, sent, put, WMod) /\ sent \in Nat /\ put \in Nat
  BY DEF IInv, WriteList, Holds, Nth, TypeOK, Numbers
<1>2. Good(w, WMax, WLen, sent, WMod)
  BY <1>1 DEF Holds
<1> QED BY <1>1, <1>2, GoodFacts, WritableAll

LEMMA ReadListFrom ==
  ASSUME Holds(r', RMax, RLen, taken', got', RMod)
  PROVE  ReadList'
BY DEF ReadList, Holds, Nth

LEMMA WriteListFrom ==
  ASSUME Holds(w', WMax, WLen, sent', put', WMod)
  PROVE  WriteList'
BY DEF WriteList, Holds, Nth

LEMMA WritePendingOK == IInv /\ WritePending => IInv'
<1> SUFFICES ASSUME IInv, WritePending PROVE IInv'
  OBVIOUS
<1> DEFINE n == Least(room, Writable)
<1>1. /\ At("write") /\ ~write_error
      /\ room' = room - n /\ w' = Removed(w, WMin, n) /\ sent' = (sent + n) % WMod
      /\ news' = (news \/ (eof /\ n > 0 /\ n = w.data_bytes)) /\ ToNotifyWrite(n)
      /\ UNCHANGED <<inq, peer, r, blocked, flags, got, taken, put>>
      /\ IF n < Writable THEN ustream_fd_set_uloop(TRUE) ELSE UNCHANGED epoll
  BY DEF WritePending
<1>2. alive /\ alive' /\ Writing
  BY <1>1, Lives DEF flags, Writing
<1>3. /\ Holds(w, WMax, WLen, sent, put, WMod) /\ sent \in Nat /\ put \in Nat
      /\ w.data_bytes \in Nat /\ Writable = w.data_bytes
  BY <1>2, WriteHolds
<1>4. room \in Nat /\ stack \in Seq(Frame) /\ error \in BOOLEAN
  BY DEF IInv, TypeOK, SocketOK, Polled
<1>5. n \in 0..w.data_bytes /\ n \in Nat /\ n <= room /\ (n < Writable <=> n # w.data_bytes)
  BY <1>3, <1>4 DEF Least
<1> HIDE DEF n
<1>6. WMax \in Int /\ WLen \in Nat \ {0} /\ WMod \in Nat \ {0}
  BY SizesOK DEF Sizes
<1>7. /\ Holds(Removed(w, WMin, n), WMax, WLen, Nth(sent, n, WMod), put, WMod)
      /\ Removed(w, WMin, n).data_bytes = w.data_bytes - n /\ Nth(sent, n, WMod) \in Nat
  BY <1>3, <1>5, <1>6, RemoveHolds
<1>8. sent' = Nth(sent, n, WMod) /\ put' = put
  BY <1>1 DEF Nth
<1>9. Holds(w', WMax, WLen, sent', put', WMod) /\ w'.data_bytes = w.data_bytes - n
  BY <1>1, <1>7, <1>8
<1>10. WriteList'
  BY <1>9, WriteListFrom
<1>11. ReadList' /\ FullIsFull'
  BY <1>1, ReadSame DEF SameRead, flags
<1>12. /\ stack' \in Seq(Frame)
       /\ (ReadRuns => ReadRuns') /\ (TellRuns => TellRuns') /\ (n > 0 => TellRuns')
  BY <1>1, <1>4, <1>5, WrittenKeeps
<1>13. Polled' /\ Interests'
  <2>1. CASE n < Writable
    BY <1>1, <1>4, <1>10, <2>1, Registers, Buffered
  <2>2. CASE ~(n < Writable)
    <3>1. UNCHANGED epoll
      BY <1>1, <2>2
    <3>2. w'.data_bytes = 0
      BY <1>3, <1>5, <1>9, <2>2
    <3>3. WriteInterest' /\ WriteDue'
      BY <3>2 DEF WriteInterest, WriteDue
    <3>4. ReadInterest'
      BY <1>1, <3>1 DEF IInv, ReadInterest, flags, epoll
    <3>5. "read" \in Ready' <=> "read" \in Ready
      BY <1>1 DEF Ready
    <3>6. ReadDue'
      BY <1>1, <1>12, <3>1, <3>5 DEF IInv, ReadDue, flags, epoll
    <3>7. Polled'
      BY <3>1 DEF IInv, TypeOK, Polled, epoll
    <3> QED BY <3>3, <3>4, <3>6, <3>7 DEF Interests
  <2> QED BY <2>1, <2>2
<1>14. TypeOK'
  <2>1. room' \in Nat
    BY <1>1, <1>4, <1>5
  <2>2. SocketOK'
    BY <1>1, <2>1 DEF IInv, TypeOK, SocketOK
  <2>3. Numbers'
    BY <1>1, <1>3, <1>7, <1>8 DEF IInv, TypeOK, Numbers
  <2>4. FlagsOK'
    BY <1>1 DEF IInv, TypeOK, FlagsOK, flags
  <2> QED BY <1>12, <1>13, <2>2, <2>3, <2>4 DEF TypeOK
<1>15. NewsDue'
  <2> SUFFICES ASSUME news', ~timer' PROVE Emptied'
    BY DEF NewsDue
  <2>1. eof' = eof /\ timer' = timer
    BY <1>1 DEF flags
  <2>2. CASE news
    <3>1. eof /\ w.data_bytes = 0 /\ TellRuns
      BY <1>2, <2>1, <2>2 DEF IInv, NewsDue, Emptied
    <3>2. n = 0
      BY <1>5, <3>1
    <3>3. w'.data_bytes = 0
      BY <1>9, <3>1, <3>2
    <3> QED BY <1>12, <2>1, <3>1, <3>3 DEF Emptied
  <2>3. CASE eof /\ n > 0 /\ n = w.data_bytes
    <3>1. w'.data_bytes = 0
      BY <1>5, <1>9, <2>3
    <3> QED BY <1>12, <2>1, <2>3, <3>1 DEF Emptied
  <2> QED BY <1>1, <2>2, <2>3
<1>16. Idle'
  BY <1>2, AliveOK
<1> QED BY <1>10, <1>11, <1>13, <1>14, <1>15, <1>16 DEF IInv, Interests

\* A write error: nothing is owed to the write buffers any more.
LEMMA ErrorOK ==
  ASSUME IInv, alive, write_error' = TRUE, timer' = TRUE, news' = TRUE,
         UNCHANGED <<socket, r, w, blocked, eof, pending_cb, alive, got, taken, put, sent>>,
         stack' \in Seq(Frame), Polled' /\ ReadInterest' /\ ReadDue'
  PROVE  IInv'
<1>1. WriteList' /\ WriteInterest' /\ WriteDue'
  BY DEF WriteList, WriteInterest, WriteDue, Writing
<1>2. ReadList' /\ FullIsFull'
  BY ReadSame DEF SameRead
<1>3. NewsDue' /\ Idle'
  BY DEF NewsDue, Idle
<1>4. SocketOK' /\ Numbers'
  BY DEF IInv, TypeOK, SocketOK, Numbers, socket
<1>5. FlagsOK'
  BY DEF IInv, TypeOK, FlagsOK
<1>6. TypeOK'
  BY <1>4, <1>5 DEF TypeOK
<1> QED BY <1>1, <1>2, <1>3, <1>6 DEF IInv

\* The read side of the descriptor is as it was.
LEMMA ReadDueKept ==
  ASSUME IInv, UNCHANGED <<socket, epoll, alive, eof, blocked>>, ReadRuns => ReadRuns'
  PROVE  Polled' /\ ReadInterest' /\ ReadDue'
<1>1. Ready' = Ready
  BY DEF Ready, socket
<1>2. ReadInterest' /\ ReadDue'
  BY <1>1 DEF IInv, ReadInterest, ReadDue, epoll
<1>3. Polled'
  BY DEF IInv, TypeOK, Polled, epoll
<1> QED BY <1>2, <1>3

LEMMA WriteErrorOK == IInv /\ WriteError => IInv'
<1> SUFFICES ASSUME IInv, WriteError PROVE IInv'
  OBVIOUS
<1>1. /\ At("write") /\ write_error' = TRUE /\ timer' = TRUE /\ news' = TRUE /\ ToNotifyWrite(0)
      /\ UNCHANGED <<socket, epoll, r, w, blocked, eof, pending_cb, alive, got, taken, put, sent>>
  BY DEF WriteError
<1>2. alive
  BY <1>1, Lives
<1>3. stack \in Seq(Frame) /\ 0 \in Nat
  BY DEF IInv, TypeOK
<1>4. stack' \in Seq(Frame) /\ (ReadRuns => ReadRuns')
  BY <1>1, <1>3, WrittenKeeps
<1>5. Polled' /\ ReadInterest' /\ ReadDue'
  BY <1>1, <1>4, ReadDueKept
<1> QED BY <1>1, <1>2, <1>4, <1>5, ErrorOK

LEMMA WriteDoneOK == IInv /\ WriteDone => IInv'
<1> SUFFICES ASSUME IInv, WriteDone PROVE IInv'
  OBVIOUS
<1>1. /\ At("written") /\ timer' = (timer \/ StateChange) /\ Goto("error")
      /\ UNCHANGED <<socket, r, w, blocked, eof, write_error, pending_cb, alive, history>>
      /\ IF w.data_bytes = 0 THEN ustream_fd_set_uloop(FALSE) ELSE UNCHANGED epoll
  BY DEF WriteDone
<1>2. alive /\ alive'
  BY <1>1, Lives
<1>3. stack \in Seq(Frame) /\ "error" \in Points /\ error \in BOOLEAN
  BY DEF IInv, TypeOK, Points, Polled
<1>4. /\ stack' \in Seq(Frame) /\ Last(stack).at = "written"
      /\ ReadRuns => ReadRuns' \/ "written" = "read"
      /\ WriteRuns => WriteRuns' \/ (Writes(Last(stack)) /\ "error" \notin {"read", "write"})
      /\ TellRuns => TellRuns' \/ Tells(Last(stack))
  BY <1>1, <1>3, GotoKeeps
<1>5. (ReadRuns => ReadRuns') /\ (WriteRuns => WriteRuns')
  BY <1>4 DEF Writes
<1>6. WriteList' /\ ReadList' /\ FullIsFull'
  BY <1>1, ReadSame, WriteSame DEF SameRead, SameWrite, history
<1>7. Polled' /\ Interests'
  <2>1. CASE w.data_bytes = 0
    BY <1>1, <1>3, <1>6, <2>1, Registers, Buffered
  <2>2. CASE w.data_bytes # 0
    BY <1>1, <1>5, <2>2, DueKept
  <2> QED BY <2>1, <2>2
<1>8. TypeOK'
  <2>1. SocketOK' /\ Numbers'
    BY <1>1 DEF IInv, TypeOK, SocketOK, Numbers, socket, history
  <2>2. timer' \in BOOLEAN
    BY <1>1 DEF IInv, TypeOK, FlagsOK
  <2>3. FlagsOK'
    BY <1>1, <2>2 DEF IInv, TypeOK, FlagsOK, history
  <2> QED BY <1>4, <1>7, <2>1, <2>3 DEF TypeOK
<1>9. NewsDue'
  <2> SUFFICES ASSUME news', ~timer' PROVE Emptied'
    BY DEF NewsDue
  <2>1. eof /\ w.data_bytes = 0 /\ TellRuns
    BY <1>1, <1>2 DEF IInv, NewsDue, Emptied, history
  <2>2. ~Tells(Last(stack))
    BY <1>1, <2>1 DEF StateChange, Tells
  <2> QED BY <1>1, <1>4, <2>1, <2>2 DEF Emptied
<1>10. Idle'
  BY <1>2, AliveOK
<1> QED BY <1>6, <1>7, <1>8, <1>9, <1>10 DEF IInv, Interests

LEMMA PollDoneOK == IInv /\ PollDone => IInv'
<1> SUFFICES ASSUME IInv, PollDone PROVE IInv'
  OBVIOUS
<1>1. /\ At("error") /\ stack' = Front(stack)
      /\ UNCHANGED <<socket, r, w, blocked, eof, pending_cb, alive, got, taken, put, sent>>
      /\ IF error /\ ~write_error
         THEN timer' = TRUE /\ write_error' = TRUE /\ news' = TRUE /\ ustream_fd_set_uloop(FALSE)
         ELSE UNCHANGED <<timer, write_error, news, epoll>>
  BY DEF PollDone
<1>2. alive
  BY <1>1, Lives
<1>3. stack \in Seq(Frame) /\ error \in BOOLEAN
  BY DEF IInv, TypeOK, Polled
<1>4. stack' \in Seq(Frame) /\ Kept
  BY <1>1, <1>3, ReturnKeeps
<1>5. CASE error /\ ~write_error
  <2>1. timer' = TRUE /\ write_error' = TRUE /\ news' = TRUE /\ ustream_fd_set_uloop(FALSE)
    BY <1>1, <1>5
  <2>2. WriteList'
    BY <2>1 DEF WriteList, Writing
  <2>3. Polled' /\ Interests'
    BY <1>3, <2>1, <2>2, Registers, Buffered
  <2> QED BY <1>1, <1>2, <1>4, <2>1, <2>3, ErrorOK DEF Interests
<1>6. CASE ~(error /\ ~write_error)
  <2>1. UNCHANGED <<timer, write_error, news, epoll>>
    BY <1>1, <1>6
  <2> QED BY <1>1, <1>2, <1>4, <2>1, StepKeeps DEF Kept, flags, history
<1> QED BY <1>5, <1>6

LEMMA NotifyReadReturnOK == IInv /\ NotifyReadReturn => IInv'
<1> SUFFICES ASSUME IInv, NotifyReadReturn PROVE IInv'
  OBVIOUS
<1>1. /\ At("notify_read") /\ pending_cb' = FALSE /\ stack' = Front(stack)
      /\ UNCHANGED <<socket, epoll, r, w, blocked, eof, write_error, timer, alive, history>>
  BY DEF NotifyReadReturn
<1>2. alive /\ alive'
  BY <1>1, Lives
<1>3. stack \in Seq(Frame)
  BY DEF IInv, TypeOK
<1>4. stack' \in Seq(Frame) /\ Kept
  BY <1>1, <1>3, ReturnKeeps
<1>5. WriteList' /\ ReadList' /\ FullIsFull'
  BY <1>1, ReadSame, WriteSame DEF SameRead, SameWrite, history
<1>6. Polled' /\ Interests'
  BY <1>1, <1>4, DueKept DEF Kept
<1>7. TypeOK'
  <2>1. SocketOK' /\ Numbers'
    BY <1>1 DEF IInv, TypeOK, SocketOK, Numbers, socket, history
  <2>2. FlagsOK'
    BY <1>1 DEF IInv, TypeOK, FlagsOK, history
  <2> QED BY <1>4, <1>6, <2>1, <2>2 DEF TypeOK
<1>8. NewsDue'
  BY <1>1, <1>4, NewsKept DEF Kept, history
<1>9. Idle'
  BY <1>2, AliveOK
<1> QED BY <1>5, <1>6, <1>7, <1>8, <1>9 DEF IInv, Interests

LEMMA ustream_state_change_cbOK == IInv /\ ustream_state_change_cb => IInv'
<1> SUFFICES ASSUME IInv, ustream_state_change_cb PROVE IInv'
  OBVIOUS
<1>1. /\ stack = <<>> /\ timer /\ timer' = FALSE /\ news' = FALSE
      /\ w' = IF write_error THEN ustream_free_buffers(w) ELSE w
      /\ stack' = <<Callback("notify_state")>>
      /\ UNCHANGED <<socket, epoll, r, blocked, eof, write_error, pending_cb, alive, got, taken, put, sent>>
  BY DEF ustream_state_change_cb
<1>2. alive /\ alive'
  BY <1>1 DEF IInv, Idle
<1>3. stack' \in Seq(Frame)
  <2> DEFINE f == Callback("notify_state")
  <2>1. f \in Frame
    BY Frames DEF Callbacks
  <2> HIDE DEF f
  <2>2. <<f>> \in Seq(Frame)
    BY <2>1
  <2> QED BY <1>1, <2>2 DEF f
<1>4. ~ReadRuns /\ ~WriteRuns
  BY <1>1, EmptyStack
<1>5. ReadList' /\ FullIsFull'
  BY <1>1, ReadSame DEF SameRead
<1>6. Writing' => Writing /\ w' = w
  BY <1>1 DEF Writing
<1>7. WriteList'
  BY <1>1, <1>6 DEF IInv, WriteList
<1>8. Ready' = Ready
  BY <1>1 DEF Ready, socket
<1>9. ReadInterest' /\ WriteInterest'
  BY <1>1, <1>6 DEF IInv, ReadInterest, WriteInterest, epoll
<1>10. ReadDue' /\ WriteDue'
  BY <1>1, <1>4, <1>6, <1>8 DEF IInv, ReadDue, WriteDue, epoll
<1>11. TypeOK'
  <2>1. SocketOK' /\ Numbers' /\ Polled'
    BY <1>1 DEF IInv, TypeOK, SocketOK, Numbers, Polled, socket, epoll
  <2>2. FlagsOK'
    BY <1>1 DEF IInv, TypeOK, FlagsOK
  <2> QED BY <1>3, <2>1, <2>2 DEF TypeOK
<1>12. NewsDue' /\ Idle'
  BY <1>1, <1>2 DEF NewsDue, Idle
<1> QED BY <1>5, <1>7, <1>9, <1>10, <1>11, <1>12 DEF IInv

-----------------------------------------------------------------------------
(* Calls of the client. *)

\* __ustream_set_read_blocked.
LEMMA BlockedDue ==
  ASSUME IInv, NEW val, set_read_blocked(val), WriteList',
         UNCHANGED <<socket, alive, eof, w, write_error, stack>>
  PROVE  Polled' /\ Interests' /\ blocked' = val
<1>1. /\ blocked' = val
      /\ IF (blocked = {}) # (val = {}) THEN ustream_fd_set_uloop(FALSE) ELSE UNCHANGED epoll
  BY DEF set_read_blocked
<1>2. error \in BOOLEAN /\ stack \in Seq(Frame)
  BY DEF IInv, TypeOK, Polled
<1>3. CASE (blocked = {}) # (val = {})
  BY <1>1, <1>2, <1>3, Registers, Buffered
<1>4. CASE (blocked = {}) = (val = {})
  <2>1. UNCHANGED epoll
    BY <1>1, <1>4
  <2>2. Ready' = Ready
    BY DEF Ready, socket
  <2>3. Kept
    BY <1>2, SameStack
  <2>4. ReadInterest' /\ WriteInterest'
    BY <1>1, <1>4, <2>1 DEF IInv, ReadInterest, WriteInterest, Writing, epoll
  <2>5. ReadDue' /\ WriteDue'
    BY <1>1, <1>4, <2>1, <2>2, <2>3 DEF IInv, ReadDue, WriteDue, Writing, Kept, epoll
  <2>6. Polled'
    BY <2>1 DEF IInv, TypeOK, Polled, epoll
  <2> QED BY <1>1, <2>4, <2>5, <2>6 DEF Interests
<1> QED BY <1>3, <1>4

LEMMA ustream_consumeOK ==
  ASSUME IInv, NEW len \in 1..r.data_bytes, ustream_consume(len)
  PROVE  IInv'
<1>1. /\ alive /\ r' = Removed(r, RMin, len) /\ taken' = (taken + len) % RMod
      /\ UNCHANGED <<socket, w, flags, stack, got, put, sent, news>>
      /\ set_read_blocked(blocked \ {"full"})
  BY DEF ustream_consume, Unfull
<1>2. Holds(r, RMax, RLen, taken, got, RMod) /\ taken \in Nat
  BY <1>1, ReadHolds
<1>3. RMax \in Int /\ RLen \in Nat \ {0} /\ RMod \in Nat \ {0}
  BY SizesOK DEF Sizes
<1>4. r.data_bytes \in Nat /\ len \in 0..r.data_bytes
  <2>1. r.data_bytes \in Nat
    BY <1>1, ReservedGood
  <2> QED BY <2>1
<1>5. /\ Holds(Removed(r, RMin, len), RMax, RLen, Nth(taken, len, RMod), got, RMod)
      /\ Nth(taken, len, RMod) \in Nat
  BY <1>2, <1>3, <1>4, RemoveHolds
<1>6. taken' = Nth(taken, len, RMod)
  BY <1>1 DEF Nth
<1>7. ReadList'
  BY <1>1, <1>5, <1>6, ReadListFrom
<1>8. WriteList'
  BY <1>1, WriteSame DEF SameWrite, flags
<1>9. Polled' /\ Interests' /\ blocked' = blocked \ {"full"}
  BY <1>1, <1>8, BlockedDue DEF flags
<1>10. FullIsFull'
  BY <1>9 DEF FullIsFull
<1>11. stack \in Seq(Frame) /\ stack' \in Seq(Frame) /\ Kept
  BY <1>1, SameStack DEF IInv, TypeOK
<1>12. TypeOK'
  <2>1. SocketOK' /\ Numbers'
    BY <1>1, <1>5, <1>6 DEF IInv, TypeOK, SocketOK, Numbers, socket
  <2>2. FlagsOK'
    BY <1>1, <1>9 DEF IInv, TypeOK, FlagsOK, flags
  <2> QED BY <1>9, <1>11, <2>1, <2>2 DEF TypeOK
<1>13. NewsDue'
  BY <1>1, <1>11, NewsKept DEF flags, Kept
<1>14. Idle'
  BY <1>1, AliveOK DEF flags
<1> QED BY <1>7, <1>8, <1>9, <1>10, <1>12, <1>13, <1>14 DEF IInv, Interests

LEMMA ustream_set_read_blockedOK ==
  ASSUME IInv, NEW set \in BOOLEAN, ustream_set_read_blocked(set)
  PROVE  IInv'
<1> DEFINE val == (blocked \ {"user"}) \cup (IF set THEN {"user"} ELSE {})
<1>1. alive /\ UNCHANGED <<socket, r, w, flags, stack, history>> /\ set_read_blocked(val)
  BY DEF ustream_set_read_blocked
<1>2. val \in SUBSET {"full", "user"} /\ ("full" \in val => "full" \in blocked)
  BY DEF IInv, TypeOK, FlagsOK
<1> HIDE DEF val
<1>3. WriteList'
  BY <1>1, WriteSame DEF SameWrite, flags, history
<1>4. Polled' /\ Interests' /\ blocked' = val
  BY <1>1, <1>3, BlockedDue DEF flags
<1>5. ReadList'
  BY <1>1 DEF IInv, ReadList, flags, history
<1>6. FullIsFull'
  BY <1>1, <1>2, <1>4 DEF IInv, FullIsFull, Reserved, flags
<1>7. stack \in Seq(Frame) /\ stack' \in Seq(Frame) /\ Kept
  BY <1>1, SameStack DEF IInv, TypeOK
<1>8. TypeOK'
  <2>1. SocketOK' /\ Numbers'
    BY <1>1 DEF IInv, TypeOK, SocketOK, Numbers, socket, history
  <2>2. FlagsOK'
    BY <1>1, <1>2, <1>4 DEF IInv, TypeOK, FlagsOK, flags, history
  <2> QED BY <1>4, <1>7, <2>1, <2>2 DEF TypeOK
<1>9. NewsDue'
  BY <1>1, <1>7, NewsKept DEF flags, Kept, history
<1>10. Idle'
  BY <1>1, AliveOK DEF flags
<1> QED BY <1>3, <1>4, <1>5, <1>6, <1>8, <1>9, <1>10 DEF IInv, Interests

\* Buffer: what is accepted is behind what was there.
LEMMA BufferOK ==
  ASSUME NEW l, NEW f \in Nat, NEW from, Holds(l, WMax, WLen, f, from, WMod), NEW n \in Nat,
         Buffer(l, n, from)
  PROVE  /\ Holds(w', WMax, WLen, f, put', WMod) /\ put' \in Nat
         /\ w'.data_bytes \in Nat /\ w'.data_bytes >= l.data_bytes
         /\ news' = (news /\ (timer \/ w'.data_bytes = 0))
<1> DEFINE b == ustream_write_buffered(l, WMax, Bytes(from, n, WMod))
<1>1. /\ w' = b.l /\ put' = (from + n - Len(b.rest)) % WMod
      /\ news' = (news /\ (timer \/ b.l.data_bytes = 0))
  BY DEF Buffer
<1>2. WMax \in Int /\ WLen \in Nat \ {0} /\ WMod \in Nat \ {0}
  BY SizesOK DEF Sizes
<1>3. /\ Holds(b.l, WMax, WLen, f, (from + n - Len(b.rest)) % WMod, WMod)
      /\ (from + n - Len(b.rest)) % WMod \in Nat
      /\ b.l.data_bytes \in Nat /\ b.l.data_bytes >= l.data_bytes
  BY <1>2, BufferHolds
<1> HIDE DEF b
<1> QED BY <1>1, <1>3

\* News is still due behind a write: the timer is pending, or nothing was buffered.
LEMMA NewsBuffered ==
  ASSUME IInv, alive, news' => news /\ (timer \/ w'.data_bytes = 0), UNCHANGED <<timer, eof, alive>>,
         TellRuns => TellRuns'
  PROVE  NewsDue'
BY DEF IInv, NewsDue, Emptied

\* What a write leaves alone.
LEMMA WriteOK ==
  ASSUME IInv, alive, UNCHANGED <<inq, peer, r, blocked, flags, stack, got, taken>>,
         room' \in Nat, sent' \in Nat, put' \in Nat, news' \in BOOLEAN,
         news' => news /\ (timer \/ w'.data_bytes = 0),
         WriteList', Polled', Interests'
  PROVE  IInv'
<1>1. ReadList' /\ FullIsFull'
  BY ReadSame DEF SameRead, flags
<1>2. stack \in Seq(Frame) /\ stack' \in Seq(Frame) /\ Kept
  BY SameStack DEF IInv, TypeOK
<1>3. TypeOK'
  <2>1. SocketOK' /\ Numbers'
    BY DEF IInv, TypeOK, SocketOK, Numbers
  <2>2. FlagsOK'
    BY DEF IInv, TypeOK, FlagsOK, flags
  <2> QED BY <1>2, <2>1, <2>2 DEF TypeOK
<1>4. NewsDue'
  BY <1>2, NewsBuffered DEF flags, Kept
<1>5. Idle'
  BY AliveOK DEF flags
<1> QED BY <1>1, <1>3, <1>4, <1>5 DEF IInv, Interests

\* The descriptor behind a write that does not touch it.
LEMMA WriteDueKept ==
  ASSUME IInv, UNCHANGED <<inq, peer, epoll, alive, eof, blocked, write_error, stack>>,
         (Writing' /\ w'.data_bytes > 0) => (w.data_bytes > 0 /\ room' = room)
  PROVE  Polled' /\ Interests'
<1>1. stack \in Seq(Frame) /\ Kept
  BY SameStack DEF IInv, TypeOK
<1>2. /\ "read" \in Ready' <=> "read" \in Ready
      /\ room' = room => ("write" \in Ready' <=> "write" \in Ready)
  BY DEF Ready
<1>3. ReadInterest' /\ WriteInterest'
  BY DEF IInv, ReadInterest, WriteInterest, Writing, epoll
<1>4. ReadDue'
  BY <1>1, <1>2 DEF IInv, ReadDue, Kept, epoll
<1>5. WriteDue'
  BY <1>1, <1>2 DEF IInv, WriteDue, Writing, Kept, epoll
<1>6. Polled'
  BY DEF IInv, TypeOK, Polled, epoll
<1> QED BY <1>3, <1>4, <1>5, <1>6 DEF Interests

LEMMA WriteDirectOK ==
  ASSUME IInv, NEW n \in WriteLens, alive, ~write_error, WriteDirect(n)
  PROVE  IInv'
<1> DEFINE m == Least(room, n)
<1>1. /\ w.data_bytes = 0 /\ room' = room - m /\ sent' = (sent + m) % WMod
      /\ UNCHANGED <<inq, peer, r, blocked, flags, stack, got, taken>>
      /\ IF m = n THEN put' = (put + n) % WMod /\ UNCHANGED <<w, epoll, news>>
         ELSE Buffer(w, n - m, (put + m) % WMod) /\ ustream_fd_set_uloop(TRUE)
  BY DEF WriteDirect
<1>2. /\ Holds(w, WMax, WLen, sent, put, WMod) /\ sent \in Nat /\ put \in Nat
  BY WriteHolds DEF Writing
<1>3. WMax \in Int /\ WLen \in Nat \ {0} /\ WMod \in Nat \ {0} /\ n \in Nat
  BY SizesOK DEF Sizes
<1>4. room \in Nat /\ error \in BOOLEAN /\ news \in BOOLEAN
  BY DEF IInv, TypeOK, SocketOK, Polled, FlagsOK
<1>5. m \in Nat /\ m <= room /\ n - m \in Nat
  BY <1>3, <1>4 DEF Least
<1> HIDE DEF m
<1>6. room' \in Nat
  BY <1>1, <1>4, <1>5
<1>7. /\ Holds(w, WMax, WLen, Nth(sent, m, WMod), Nth(put, m, WMod), WMod)
      /\ Nth(sent, m, WMod) \in Nat /\ Nth(put, m, WMod) \in Nat
  BY <1>1, <1>2, <1>3, <1>5, PassHolds
<1>8. sent' = Nth(sent, m, WMod)
  BY <1>1 DEF Nth
<1>9. CASE m = n
  <2>1. put' = Nth(put, m, WMod) /\ w' = w /\ UNCHANGED <<epoll, news>>
    BY <1>1, <1>9 DEF Nth
  <2>2. WriteList'
    BY <1>7, <1>8, <2>1, WriteListFrom
  <2>3. Polled' /\ Interests'
    BY <1>1, <2>1, WriteDueKept DEF flags
  <2>4. news' => news /\ (timer \/ w'.data_bytes = 0)
    BY <1>1, <2>1
  <2>5. news' \in BOOLEAN /\ sent' \in Nat /\ put' \in Nat
    BY <1>4, <1>7, <1>8, <2>1
  <2> QED BY <1>1, <1>6, <2>2, <2>3, <2>4, <2>5, WriteOK
<1>10. CASE m # n
  <2>1. Buffer(w, n - m, Nth(put, m, WMod)) /\ ustream_fd_set_uloop(TRUE)
    BY <1>1, <1>10 DEF Nth
  <2>2. /\ Holds(w', WMax, WLen, Nth(sent, m, WMod), put', WMod) /\ put' \in Nat
        /\ news' = (news /\ (timer \/ w'.data_bytes = 0))
    <3> DEFINE f == Nth(sent, m, WMod)
               t == Nth(put, m, WMod)
               k == n - m
    <3>1. f \in Nat /\ k \in Nat /\ Holds(w, WMax, WLen, f, t, WMod) /\ Buffer(w, k, t)
      BY <1>5, <1>7, <2>1
    <3> HIDE DEF f, t, k
    <3>2. /\ Holds(w', WMax, WLen, f, put', WMod) /\ put' \in Nat
          /\ news' = (news /\ (timer \/ w'.data_bytes = 0))
      BY <3>1, BufferOK
    <3> QED BY <3>2 DEF f
  <2>3. WriteList'
    BY <1>8, <2>2, WriteListFrom
  <2>4. Polled' /\ Interests'
    BY <1>4, <2>1, <2>3, Registers, Buffered
  <2>5. news' \in BOOLEAN /\ sent' \in Nat /\ (news' => news /\ (timer \/ w'.data_bytes = 0))
    BY <1>4, <1>7, <1>8, <2>2
  <2> QED BY <1>1, <1>6, <2>2, <2>3, <2>4, <2>5, WriteOK
<1> QED BY <1>9, <1>10

LEMMA WriteFailsOK ==
  ASSUME IInv, alive, WriteFails
  PROVE  IInv'
<1>1. /\ write_error' = TRUE /\ timer' = TRUE /\ news' = TRUE
      /\ UNCHANGED <<socket, epoll, r, w, blocked, eof, pending_cb, alive, stack, got, taken, put, sent>>
  BY DEF WriteFails
<1>2. stack' \in Seq(Frame) /\ Kept
  BY <1>1, SameStack DEF IInv, TypeOK
<1>3. Polled' /\ ReadInterest' /\ ReadDue'
  BY <1>1, <1>2, ReadDueKept DEF Kept
<1> QED BY <1>1, <1>2, <1>3, ErrorOK

LEMMA WriteBehindOK ==
  ASSUME IInv, NEW n \in WriteLens, alive, ~write_error, WriteBehind(n)
  PROVE  IInv'
<1>1. /\ w.data_bytes > 0 /\ Buffer(w, n, put)
      /\ UNCHANGED <<socket, epoll, r, blocked, flags, stack, got, taken, sent>>
  BY DEF WriteBehind
<1>2. Holds(w, WMax, WLen, sent, put, WMod) /\ sent \in Nat
  BY WriteHolds DEF Writing
<1>3. n \in Nat
  BY SizesOK DEF Sizes
<1>4. /\ Holds(w', WMax, WLen, sent, put', WMod) /\ put' \in Nat
      /\ news' = (news /\ (timer \/ w'.data_bytes = 0))
  BY <1>1, <1>2, <1>3, BufferOK
<1>5. WriteList'
  BY <1>1, <1>4, WriteListFrom
<1>6. Polled' /\ Interests'
  BY <1>1, WriteDueKept DEF flags, socket
<1>7. room' \in Nat /\ sent' \in Nat /\ news' \in BOOLEAN
  BY <1>1, <1>2, <1>4 DEF IInv, TypeOK, SocketOK, FlagsOK, socket
<1>8. inq' = inq /\ peer' = peer
  BY <1>1 DEF socket
<1> QED BY <1>1, <1>4, <1>5, <1>6, <1>7, <1>8, WriteOK

LEMMA ustream_writeOK ==
  ASSUME IInv, NEW n \in WriteLens, ustream_write(n)
  PROVE  IInv'
<1>1. alive /\ ~write_error /\ (WriteDirect(n) \/ WriteFails \/ WriteBehind(n))
  BY DEF ustream_write
<1> QED BY <1>1, WriteDirectOK, WriteFailsOK, WriteBehindOK

LEMMA ustream_vprintfOK ==
  ASSUME IInv, NEW n \in WriteLens, ustream_vprintf(n)
  PROVE  IInv'
<1> DEFINE p == ustream_prepare_buf(w, WMax, 1)
           m == Least(n, Fillable(p.l) - 1)
<1>1. /\ alive /\ ~write_error /\ w.data_bytes > 0
      /\ IF p.ok THEN Buffer(Filled(p.l, Bytes(put, m, WMod)), n - m, (put + m) % WMod)
                 ELSE w' = p.l /\ UNCHANGED <<put, news>>
      /\ UNCHANGED <<socket, epoll, r, blocked, flags, stack, got, taken, sent>>
  BY DEF ustream_vprintf
<1>2. /\ Holds(w, WMax, WLen, sent, put, WMod) /\ sent \in Nat /\ put \in Nat /\ Writing
      /\ w.data_bytes \in Nat
  BY <1>1, WriteHolds DEF Writing
<1>3. WMax \in Int /\ WLen \in Nat \ {0} /\ WMod \in Nat \ {0} /\ n \in Nat
  BY SizesOK DEF Sizes
<1>4. Good(w, WMax, WLen, sent, WMod) /\ put = Nth(sent, w.data_bytes, WMod)
  BY <1>2 DEF Holds
<1>5. /\ Good(p.l, WMax, WLen, sent, WMod) /\ p.l.data_bytes = w.data_bytes /\ p.ok \in BOOLEAN
      /\ p.ok => p.l.dt # 0 /\ Fillable(p.l) > 0
  <2>1. Good(w, WMax, WLen, sent, WMod) /\ WMax \in Int /\ WLen \in Nat \ {0}
    BY <1>3, <1>4
  <2>2. LET x == ustream_prepare_buf(w, WMax, 1)
        IN  /\ Good(x.l, WMax, WLen, sent, WMod)
            /\ x.l.data_bytes = w.data_bytes /\ x.ok \in BOOLEAN
            /\ x.ok => x.l.dt # 0 /\ Fillable(x.l) > 0
    BY <2>1, PrepareGood
  <2> QED BY <2>2
<1> HIDE DEF p
<1>6. Holds(p.l, WMax, WLen, sent, put, WMod)
  BY <1>4, <1>5 DEF Holds
<1>7. room' \in Nat /\ sent' \in Nat /\ inq' = inq /\ peer' = peer /\ news \in BOOLEAN
  BY <1>1, <1>2 DEF IInv, TypeOK, SocketOK, FlagsOK, socket
<1>8. Polled' /\ Interests'
  BY <1>1, WriteDueKept DEF flags, socket
<1>9. CASE p.ok
  <2>1. Fillable(p.l) \in Int /\ p.l.dt # 0 /\ Fillable(p.l) > 0
    BY <1>5, <1>9, FillableInt
  <2>2. m \in Nat /\ m <= Fillable(p.l) /\ n - m \in Nat
    BY <1>3, <2>1 DEF Least
  <2>3. Buffer(Filled(p.l, Bytes(put, m, WMod)), n - m, Nth(put, m, WMod))
    BY <1>1, <1>9 DEF Nth
  <2> HIDE DEF m
  <2> DEFINE q == Filled(p.l, Bytes(put, m, WMod))
             t == Nth(put, m, WMod)
             k == n - m
  <2>4. Holds(q, WMax, WLen, sent, t, WMod)
    BY <1>2, <1>3, <1>6, <2>1, <2>2, FillHolds
  <2>5. k \in Nat /\ Buffer(q, k, t)
    BY <2>2, <2>3
  <2> HIDE DEF q, t, k
  <2>6. /\ Holds(w', WMax, WLen, sent, put', WMod) /\ put' \in Nat
        /\ news' = (news /\ (timer \/ w'.data_bytes = 0))
    BY <1>2, <2>4, <2>5, BufferOK
  <2>7. WriteList'
    BY <1>1, <2>6, WriteListFrom
  <2>8. news' \in BOOLEAN
    BY <1>7, <2>6
  <2> QED BY <1>1, <1>7, <1>8, <2>6, <2>7, <2>8, WriteOK
<1>10. CASE ~p.ok
  <2>1. w' = p.l /\ UNCHANGED <<put, news>>
    BY <1>1, <1>10
  <2>2. WriteList'
    BY <1>1, <1>6, <2>1, WriteListFrom
  <2>3. w.data_bytes # 0
    BY <1>1, <1>2
  <2>4. news => timer
    BY <1>1, <2>3 DEF IInv, NewsDue, Emptied
  <2>5. put' \in Nat /\ news' \in BOOLEAN /\ (news' => news /\ (timer \/ w'.data_bytes = 0))
    BY <1>2, <1>7, <2>1, <2>4
  <2> QED BY <1>1, <1>7, <1>8, <2>2, <2>5, WriteOK
<1> QED BY <1>5, <1>9, <1>10

LEMMA ustream_freeOK == IInv /\ ustream_free => IInv'
<1> SUFFICES ASSUME IInv, ustream_free PROVE IInv'
  OBVIOUS
<1>1. /\ alive' = FALSE /\ timer' = FALSE /\ interest' = {} /\ armed' = FALSE
      /\ stack \in {<<>>, <<Callback("notify_state")>>}
      /\ UNCHANGED <<socket, error, blocked, eof, write_error, pending_cb, stack, history>>
  BY DEF ustream_free
<1>2. TypeOK'
  <2>1. SocketOK' /\ Numbers' /\ stack' \in Seq(Frame)
    BY <1>1 DEF IInv, TypeOK, SocketOK, Numbers, socket, history
  <2>2. FlagsOK'
    BY <1>1 DEF IInv, TypeOK, FlagsOK, history
  <2>3. Polled'
    BY <1>1 DEF IInv, TypeOK, Polled
  <2> QED BY <2>1, <2>2, <2>3 DEF TypeOK
<1>3. Idle'
  BY <1>1 DEF Idle
<1>4. /\ ReadList' /\ WriteList' /\ ReadInterest' /\ WriteInterest' /\ ReadDue' /\ WriteDue'
      /\ FullIsFull' /\ NewsDue'
  BY <1>1 DEF ReadList, WriteList, ReadInterest, WriteInterest, ReadDue, WriteDue, Writing,
              FullIsFull, NewsDue
<1> QED BY <1>2, <1>3, <1>4 DEF IInv

LEMMA ustream_fd_initOK == IInv /\ ustream_fd_init => IInv'
<1> SUFFICES ASSUME IInv, ustream_fd_init PROVE IInv'
  OBVIOUS
<1>1. /\ stack = <<>> /\ alive' = TRUE /\ inq' = 0 /\ peer' = "open" /\ room' = MaxOut
      /\ r' = EmptyList(RLen) /\ w' = EmptyList(WLen)
      /\ blocked' = {} /\ eof' = FALSE /\ write_error' = FALSE
      /\ got' = 0 /\ taken' = 0 /\ put' = 0 /\ sent' = 0 /\ news' = FALSE
      /\ UNCHANGED <<pending_cb, timer, stack>> /\ ustream_fd_set_uloop(FALSE)
  BY DEF ustream_fd_init
<1>2. Sizes
  BY SizesOK
<1>3. ReadList'
  <2>1. Good(EmptyList(RLen), RMax, RLen, 0, RMod)
    BY <1>2, EmptyGood DEF Sizes
  <2>2. EmptyList(RLen).data_bytes = 0 /\ 0 = 0 % RMod
    BY <1>2 DEF EmptyList, Sizes
  <2> QED BY <1>1, <2>1, <2>2 DEF ReadList
<1>4. WriteList'
  <2>1. Good(EmptyList(WLen), WMax, WLen, 0, WMod)
    BY <1>2, EmptyGood DEF Sizes
  <2>2. EmptyList(WLen).data_bytes = 0 /\ 0 = 0 % WMod
    BY <1>2 DEF EmptyList, Sizes
  <2> QED BY <1>1, <2>1, <2>2 DEF WriteList
<1>5. Polled' /\ Interests'
  <2>1. error \in BOOLEAN
    BY DEF IInv, TypeOK, Polled
  <2> QED BY <1>1, <1>4, <2>1, Registers, Buffered
<1>6. TypeOK'
  <2>1. SocketOK' /\ Numbers'
    BY <1>1, <1>2 DEF SocketOK, Numbers, Sizes
  <2>2. FlagsOK'
    BY <1>1 DEF IInv, TypeOK, FlagsOK
  <2>3. stack' \in Seq(Frame)
    BY <1>1 DEF IInv, TypeOK
  <2> QED BY <1>5, <2>1, <2>2, <2>3 DEF TypeOK
<1>7. Idle' /\ FullIsFull' /\ NewsDue'
  BY <1>1 DEF Idle, FullIsFull, NewsDue
<1> QED BY <1>3, <1>4, <1>5, <1>6, <1>7 DEF IInv, Interests

-----------------------------------------------------------------------------
(* The theorems. *)

LEMMA StutterOK == IInv /\ UNCHANGED vars => IInv'
<1> SUFFICES ASSUME IInv, UNCHANGED vars PROVE IInv'
  OBVIOUS
<1>1. UNCHANGED <<socket, epoll, r, w, blocked, flags, history, stack>>
  BY DEF vars
<1>2. stack \in Seq(Frame) /\ stack' \in Seq(Frame) /\ Kept
  BY <1>1, SameStack DEF IInv, TypeOK
<1>3. alive \/ stack' \in {<<>>, <<Callback("notify_state")>>}
  BY <1>1 DEF IInv, Idle
<1> QED BY <1>1, <1>2, <1>3, StepKeeps DEF Kept

LEMMA StepOK == IInv /\ [Next]_vars => IInv'
<1> SUFFICES ASSUME IInv, [Next]_vars PROVE IInv'
  OBVIOUS
<1>1. CASE Kernel
  BY <1>1, KernelOK
<1>2. CASE Poll
  BY <1>2, ustream_uloop_cbOK, ReadBlockedOK, ReadFullOK, ReadDataOK, ReadNothingOK, ReadEofOK,
     SkipWriteOK, WritePendingOK, WriteErrorOK, WriteDoneOK, PollDoneOK, NotifyReadReturnOK,
     NotifyReturnOK, ustream_state_change_cbOK DEF Poll
<1>3. CASE Client
  BY <1>3, ustream_consumeOK, ustream_set_read_blockedOK, ustream_writeOK, ustream_vprintfOK,
     ustream_pollOK, ustream_freeOK, ustream_fd_initOK DEF Client
<1>4. CASE UNCHANGED vars
  BY <1>4, StutterOK
<1> QED BY <1>1, <1>2, <1>3, <1>4 DEF Next

\* Every behaviour of a stream keeps the invariant.
THEOREM StreamInvariant == Spec => []IInv
<1>1. Init => IInv
  BY InitOK
<1>2. IInv /\ [Next]_vars => IInv'
  BY StepOK
<1> QED BY <1>1, <1>2, PTL DEF Spec

\* The bytes read and not consumed are in the read buffers, and those accepted
\* and not written in the write buffers, each once and in order, for every size
\* and number of buffers.
THEOREM BytesStayInOrder == Spec => []InOrder
<1>1. IInv => InOrder
  <2> SUFFICES ASSUME IInv PROVE InOrder
    OBVIOUS
  <2>1. RMod \in Nat \ {0} /\ WMod \in Nat \ {0} /\ taken \in Nat /\ sent \in Nat
    BY SizesOK DEF Sizes, IInv, TypeOK, Numbers
  <2>2. ASSUME alive
        PROVE  Content(r) = Bytes(taken, r.data_bytes, RMod) /\ got = (taken + r.data_bytes) % RMod
    <3>1. Good(r, RMax, RLen, taken, RMod) /\ got = (taken + r.data_bytes) % RMod
      BY <2>2 DEF IInv, ReadList
    <3> QED BY <2>1, <3>1, ContentIs
  <2>3. ASSUME Writing
        PROVE  Content(w) = Bytes(sent, w.data_bytes, WMod) /\ put = (sent + w.data_bytes) % WMod
    <3>1. Good(w, WMax, WLen, sent, WMod) /\ put = (sent + w.data_bytes) % WMod
      BY <2>3 DEF IInv, WriteList
    <3> QED BY <2>1, <3>1, ContentIs
  <2> QED BY <2>2, <2>3 DEF InOrder
<1> QED BY <1>1, StreamInvariant, PTL

\* The lists of buffers are as ustream_get_read_buf and ustream_write_pending
\* expect them.
THEOREM BuffersAreOK == Spec => []BuffersOK
<1>1. IInv => BuffersOK
  <2> SUFFICES ASSUME IInv PROVE BuffersOK
    OBVIOUS
  <2>1. RLen \in Nat \ {0} /\ WLen \in Nat \ {0}
    BY SizesOK DEF Sizes
  <2>2. alive => ListOK(r) /\ HeadFirst(r) /\ Counted(r, RMax)
    BY <2>1, GoodBuffers DEF IInv, ReadList
  <2>3. Writing => ListOK(w) /\ HeadFirst(w) /\ Counted(w, WMax)
    BY <2>1, GoodBuffers DEF IInv, WriteList
  <2> QED BY <2>2, <2>3 DEF BuffersOK
<1> QED BY <1>1, StreamInvariant, PTL

\* No sequence of blocking, filling, consuming and writing loses the last edge
\* of the descriptor.
THEOREM NothingStalls == Spec => []NoStall
<1>1. IInv => NoStall
  BY EmptyStack DEF IInv, ReadDue, WriteDue, FullIsFull, NoStall
<1> QED BY <1>1, StreamInvariant, PTL

\* A change of state that was not notified stays due.
THEOREM NewsStaysDue == Spec => []NewsIsDue
<1>1. IInv => NewsIsDue
  BY DEF IInv, NewsDue, Emptied, TellRuns, Tells, NewsIsDue
<1> QED BY <1>1, StreamInvariant, PTL
=============================================================================
