-------------------------- MODULE UloopTimersProofs --------------------------
(* Proofs about UloopTimers, for any number of timers, any delays, any clock *)
(* and any nesting of loops.                                                 *)
EXTENDS UloopTimers, ListLemmas

-----------------------------------------------------------------------------
(* Time arithmetic. *)

\* C's truncating division by 1000: an integer, within 1000 of the exact value.
LEMMA CDivThousand ==
  ASSUME NEW a \in Int
  PROVE  /\ CDiv(a, 1000) \in Int
         /\ a - 1000 < 1000 * CDiv(a, 1000)
         /\ 1000 * CDiv(a, 1000) < a + 1000
         /\ a >= 0 => 1000 * CDiv(a, 1000) <= a
         /\ a <= 0 => 1000 * CDiv(a, 1000) >= a
<1>1. CASE a >= 0
  <2>1. CDiv(a, 1000) = a \div 1000
    BY <1>1 DEF CDiv
  <2> QED BY <1>1, <2>1
<1>2. CASE a < 0
  <2>1. CDiv(a, 1000) = -((-a) \div 1000)
    BY <1>2 DEF CDiv
  <2>2. -a \in Nat /\ (-a) \div 1000 \in Nat
    BY <1>2
  <2> QED BY <1>2, <2>1, <2>2
<1> QED BY <1>1, <1>2

\* tv_diff is the exact distance up to one millisecond, and its sign is right
\* when it is positive.
LEMMA TvDiff ==
  ASSUME NEW a \in TimeVal, NEW b \in TimeVal
  PROVE  /\ tv_diff(a, b) \in Int
         /\ tv_diff(a, b) > 0 => Usecs(a) > Usecs(b)
         /\ tv_diff(a, b) <= 0 => Usecs(a) - Usecs(b) < 1000
         /\ 1000 * tv_diff(a, b) < Usecs(a) - Usecs(b) + 1000
<1> DEFINE d == a.usec - b.usec
<1>1. a.sec \in Int /\ a.usec \in Int /\ b.sec \in Int /\ b.usec \in Int
  BY DEF TimeVal
<1>2. d \in Int
  BY <1>1
<1>4. tv_diff(a, b) = (a.sec - b.sec) * 1000 + CDiv(d, 1000)
  BY DEF tv_diff
<1> HIDE DEF d
<1>3. /\ CDiv(d, 1000) \in Int
      /\ d - 1000 < 1000 * CDiv(d, 1000)
      /\ 1000 * CDiv(d, 1000) < d + 1000
  BY <1>2, CDivThousand
<1>5. Usecs(a) - Usecs(b) = (a.sec - b.sec) * 1000000 + d
  BY <1>1 DEF Usecs, d
<1>6. Usecs(a) \in Int /\ Usecs(b) \in Int
  BY <1>1 DEF Usecs
<1> QED BY <1>1, <1>2, <1>3, <1>4, <1>5, <1>6

\* The two outcomes of the comparison in uloop_timeout_add.
LEMMA TvDiffNotLater ==
  ASSUME NEW a \in TimeVal, NEW b \in TimeVal, tv_diff(a, b) <= 0
  PROVE  Usecs(a) - Usecs(b) < 1000
BY TvDiff

\* A timer that tv_diff finds later has a later deadline.
LEMMA TvDiffLater ==
  ASSUME NEW a \in TimeVal, NEW b \in TimeVal, tv_diff(a, b) > 0
  PROVE  Usecs(a) > Usecs(b)
BY TvDiff

\* uloop_gettime loses nothing.
LEMMA GetTimeType ==
  ASSUME NEW us \in Nat
  PROVE  GetTime(us) \in TimeVal /\ Usecs(GetTime(us)) = us
BY DEF GetTime, TimeVal, Usecs

\* The deadline uloop_timeout_set computes is a timeval.
LEMMA DeadlineType ==
  ASSUME NEW us \in Nat, NEW m \in Int
  PROVE  Deadline(us, m) \in TimeVal
<1>1. CDiv(m, 1000) \in Int
  BY CDivThousand
<1>2. GetTime(us).sec \in Int /\ GetTime(us).usec \in Int
  BY GetTimeType DEF TimeVal
<1>3. CMod(m, 1000) \in Int
  BY <1>1 DEF CMod
<1> QED BY <1>1, <1>2, <1>3 DEF Deadline, TimeVal

-----------------------------------------------------------------------------
(* The list. *)

\* NearlySorted for any list and any deadlines.
SortedBy(list, tm) ==
  \A i, j \in 1..Len(list) : i < j => Usecs(tm[list[i]]) - Usecs(tm[list[j]]) < 1000

\* A deadline in microseconds is an integer.
LEMMA UsecsType ==
  ASSUME NEW tv \in TimeVal
  PROVE  Usecs(tv) \in Int
BY DEF TimeVal, Usecs

\* list_del keeps the order and the links of the other timers.
LEMMA UnlinkedProperties ==
  ASSUME NEW t \in Timers, TypeOK, ListOK, NearlySorted, NEW rest \in Unlinked(t)
  PROVE  /\ rest \in Seq(Timers)
         /\ Distinct(rest)
         /\ SortedBy(rest, time)
         /\ \A x \in Timers : IsIn(x, rest) <=> x # t /\ pending[x]
<1>1. PICK p \in 1..Len(timeouts) : timeouts[p] = t /\ rest = RemoveAt(timeouts, p)
  BY DEF Unlinked
<1>2. timeouts \in Seq(Timers) /\ Distinct(timeouts) /\ \A x \in Timers : IsIn(x, timeouts) <=> pending[x]
  BY DEF TypeOK, ListOK, Distinct, IsIn
<1>3. /\ rest \in Seq(Timers)
      /\ Len(rest) = Len(timeouts) - 1
      /\ \A k \in 1..(Len(timeouts) - 1) : rest[k] = IF k < p THEN timeouts[k] ELSE timeouts[k + 1]
  BY <1>1, <1>2, RemoveAtElements
<1>4. Distinct(rest) /\ \A x : IsIn(x, rest) <=> x # t /\ IsIn(x, timeouts)
  BY <1>1, <1>2, RemoveDistinct
<1>5. SortedBy(rest, time)
  <2>1. SUFFICES ASSUME NEW i \in 1..Len(rest), NEW j \in 1..Len(rest), i < j
                 PROVE  Usecs(time[rest[i]]) - Usecs(time[rest[j]]) < 1000
    BY DEF SortedBy
  <2>2. PICK k \in 1..Len(timeouts), l \in 1..Len(timeouts) :
          k < l /\ rest[i] = timeouts[k] /\ rest[j] = timeouts[l]
    <3>1. PICK k \in 1..Len(timeouts) : k = (IF i < p THEN i ELSE i + 1) /\ rest[i] = timeouts[k]
      BY <1>2, <1>3
    <3>2. PICK l \in 1..Len(timeouts) : l = (IF j < p THEN j ELSE j + 1) /\ rest[j] = timeouts[l]
      BY <1>2, <1>3
    <3>3. k < l
      BY <2>1, <3>1, <3>2
    <3> QED BY <3>1, <3>2, <3>3
  <2> QED BY <2>2 DEF NearlySorted
<1> QED BY <1>2, <1>3, <1>4, <1>5

\* uloop_timeout_add finds a place, and linking there keeps the order.
LEMMA LinkedProperties ==
  ASSUME NEW list \in Seq(Timers), NEW t \in Timers, NEW tm \in [Timers -> TimeVal],
         Distinct(list), ~IsIn(t, list), SortedBy(list, tm), NEW new \in Linked(list, t, tm)
  PROVE  /\ new \in Seq(Timers)
         /\ Distinct(new)
         /\ SortedBy(new, tm)
         /\ \A x : IsIn(x, new) <=> x = t \/ IsIn(x, list)
<1>1. PICK p \in 1..(Len(list) + 1) :
        /\ new = InsertAt(list, p, t)
        /\ \A j \in 1..(p - 1) : tv_diff(tm[list[j]], tm[t]) <= 0
        /\ p <= Len(list) => tv_diff(tm[list[p]], tm[t]) > 0
  BY DEF Linked
<1>2. /\ new \in Seq(Timers)
      /\ Len(new) = Len(list) + 1
      /\ \A k \in 1..(p - 1) : new[k] = list[k]
      /\ new[p] = t
      /\ \A k \in (p + 1)..(Len(list) + 1) : new[k] = list[k - 1]
  <2>1. new = InsertAt(list, p, t)
    BY <1>1
  <2>2. new \in Seq(Timers)
    BY <2>1, InsertAtElements
  <2>3. Len(new) = Len(list) + 1
    BY <2>1, InsertAtElements
  <2>4. new[p] = t
    BY <2>1, InsertAtElements
  <2>5. \A k \in 1..(p - 1) : new[k] = list[k]
    BY <2>1, InsertAtElements
  <2>6. \A k \in (p + 1)..(Len(list) + 1) : new[k] = list[k - 1]
    BY <2>1, InsertAtAfter, Zenon
  <2> QED BY <2>2, <2>3, <2>4, <2>5, <2>6
<1>3. Distinct(new) /\ \A x : IsIn(x, new) <=> x = t \/ IsIn(x, list)
  BY <1>1, InsertDistinct
<1>4. SortedBy(new, tm)
  <2> DEFINE U(x) == Usecs(tm[x])
  <2>1. \A x \in Timers : U(x) \in Int
    BY UsecsType
  <2>2. \A j \in 1..Len(list) : list[j] \in Timers
    OBVIOUS
  <2>3. \A j \in 1..(p - 1) : U(list[j]) - U(t) < 1000
    <3>1. SUFFICES ASSUME NEW j \in 1..(p - 1) PROVE U(list[j]) - U(t) < 1000
      OBVIOUS
    <3>2. tv_diff(tm[list[j]], tm[t]) <= 0
      BY <1>1
    <3>3. tm[list[j]] \in TimeVal /\ tm[t] \in TimeVal
      BY <2>2
    <3>4. Usecs(tm[list[j]]) - Usecs(tm[t]) < 1000
      BY <3>2, <3>3, TvDiffNotLater
    <3> QED BY <3>4
  <2>4. p <= Len(list) => U(list[p]) > U(t)
    <3>1. SUFFICES ASSUME p <= Len(list) PROVE U(list[p]) > U(t)
      OBVIOUS
    <3>4. p \in 1..Len(list)
      BY <1>1, <3>1
    <3>2. tv_diff(tm[list[p]], tm[t]) > 0
      BY <1>1, <3>1
    <3>3. tm[list[p]] \in TimeVal /\ tm[t] \in TimeVal
      BY <2>2, <3>4
    <3> QED BY <3>2, <3>3, TvDiffLater, Zenon
  <2>5. \A i, j \in 1..Len(list) : i < j => U(list[i]) - U(list[j]) < 1000
    BY DEF SortedBy
  <2>6. SUFFICES \A i, j \in 1..Len(new) : i < j => U(new[i]) - U(new[j]) < 1000
    BY DEF SortedBy
  <2> HIDE DEF U
  <2>7. \A j \in p..Len(list) : U(t) - U(list[j]) < 1000
    <3>1. SUFFICES ASSUME NEW j \in p..Len(list) PROVE U(t) - U(list[j]) < 1000
      OBVIOUS
    <3>2. CASE j = p
      BY <2>1, <2>2, <2>4, <3>2
    <3>3. CASE j > p
      <4>1. U(list[p]) - U(list[j]) < 1000 /\ U(list[p]) > U(t)
        BY <2>4, <2>5, <3>3
      <4> QED BY <2>1, <2>2, <4>1
    <3> QED BY <3>2, <3>3
  <2>8. SUFFICES ASSUME NEW i \in 1..Len(new), NEW j \in 1..Len(new), i < j
                 PROVE  U(new[i]) - U(new[j]) < 1000
    OBVIOUS
  <2>9. CASE j < p
    BY <1>2, <2>5, <2>8, <2>9
  <2>10. CASE j = p
    <3>1. i \in 1..(p - 1) /\ new[i] = list[i] /\ new[j] = t
      BY <1>2, <2>8, <2>10
    <3> QED BY <2>3, <3>1
  <2>11. CASE i < p /\ j > p
    <3>1. new[i] = list[i] /\ new[j] = list[j - 1] /\ i < j - 1 /\ i \in 1..Len(list) /\ j - 1 \in 1..Len(list)
      BY <1>2, <2>11
    <3> QED BY <2>5, <3>1
  <2>12. CASE i = p
    <3>1. new[i] = t /\ new[j] = list[j - 1] /\ j - 1 \in p..Len(list)
      BY <1>2, <2>8, <2>12
    <3> QED BY <2>7, <3>1
  <2>13. CASE i > p
    <3>1. /\ new[i] = list[i - 1] /\ new[j] = list[j - 1] /\ i - 1 < j - 1
          /\ i - 1 \in 1..Len(list) /\ j - 1 \in 1..Len(list)
      BY <1>2, <2>8, <2>13
    <3> QED BY <2>5, <3>1
  <2> QED BY <2>8, <2>9, <2>10, <2>11, <2>12, <2>13
<1> QED BY <1>2, <1>3, <1>4

-----------------------------------------------------------------------------
(* The inductive invariant. *)

\* No loop holds a clock value from the future.
FramesOK == \A k \in 1..Len(stack) : stack[k].tv <= now

IInv == TypeOK /\ ListOK /\ NearlySorted /\ FramesOK

\* What a step does to the stack: all the ways it changes keep its frames
\* well-formed and their clock values in the past.
StackOK(st) == st \in Seq(Frame) /\ \A k \in 1..Len(st) : st[k].tv <= now

\* Leaving a loop keeps the frames of the others.
LEMMA FrontOK ==
  ASSUME TypeOK, FramesOK, stack # <<>>
  PROVE  StackOK(Front(stack))
<1>1. stack \in Seq(Frame) /\ Len(stack) \in Nat \ {0}
  BY DEF TypeOK
<1>2. /\ Front(stack) \in Seq(Frame)
      /\ Len(Front(stack)) = Len(stack) - 1
      /\ \A k \in 1..(Len(stack) - 1) : Front(stack)[k] = stack[k]
  BY <1>1, FrontElements
<1> QED BY <1>1, <1>2 DEF StackOK, FramesOK

\* Entering a loop keeps the frames of the others.
LEMMA AppendOK ==
  ASSUME NEW st, StackOK(st), NEW f \in Frame, f.tv <= now
  PROVE  StackOK(Append(st, f)) /\ Append(st, f) # <<>>
BY DEF StackOK

\* The innermost frame is a frame.
LEMMA TopType ==
  ASSUME TypeOK, FramesOK, stack # <<>>
  PROVE  Top \in Frame /\ Top.tv <= now /\ Len(stack) \in 1..Len(stack)
BY DEF TypeOK, FramesOK, Top

\* A change of the innermost frame keeps the others.
LEMMA SetTopOK ==
  ASSUME TypeOK, FramesOK, stack # <<>>, NEW f \in Frame, f.tv <= now
  PROVE  StackOK(SetTop(f)) /\ SetTop(f) # <<>> /\ SetTop(f)[Len(SetTop(f))] = f
BY DEF TypeOK, FramesOK, StackOK, SetTop

\* A new turn of the loop keeps the frames.
LEMMA IterateOK ==
  ASSUME NEW st, StackOK(st), NEW timeout \in RunTimeouts, now \in Nat, Iterate(st, timeout)
  PROVE  StackOK(stack') /\ stack' # <<>> /\ mode' \in {"sigchld", "timeouts"}
<1> DEFINE f == [timeout |-> timeout, tv |-> now, wake |-> Forever, cb |-> "none"]
<1>1. f \in Frame /\ f.tv <= now
  BY DEF Frame
<1>2. stack' = Append(st, f) /\ mode' \in {"sigchld", "timeouts"}
  BY DEF Iterate
<1> HIDE DEF f
<1> QED BY <1>1, <1>2, AppendOK

\* The end of a turn keeps the frames.
LEMMA BottomOK ==
  ASSUME TypeOK, FramesOK, stack # <<>>, Bottom
  PROVE  StackOK(stack') /\ (mode' # "user" => stack' # <<>>) /\ mode' \in Modes
<1>1. now \in Nat /\ StackOK(Front(stack)) /\ Top.timeout \in RunTimeouts
  BY FrontOK, TopType DEF TypeOK, Frame
<1>2. CASE ~cancelled /\ Top.timeout < 0
  <2>1. Iterate(Front(stack), Top.timeout)
    BY <1>2 DEF Bottom
  <2> QED BY <1>1, <2>1, IterateOK DEF Modes
<1>3. CASE ~(~cancelled /\ Top.timeout < 0)
  BY <1>1, <1>3 DEF Bottom, Return, Modes
<1> QED BY <1>2, <1>3

\* uloop_get_next_timeout returns -1 exactly when no timer is pending, and a
\* result that, in microseconds, is less than a millisecond past the first
\* deadline otherwise.
LEMMA NextTimeoutType ==
  ASSUME TypeOK
  PROVE  /\ uloop_get_next_timeout \in Int
         /\ timeouts # <<>> => uloop_get_next_timeout >= 0
         /\ timeouts # <<>> =>
              \/ uloop_get_next_timeout = 0
              \/ now + 1000 * uloop_get_next_timeout < Usecs(time[Head(timeouts)]) + 1000
<1>1. CASE timeouts = <<>>
  BY <1>1 DEF uloop_get_next_timeout, Forever
<1>2. CASE timeouts # <<>>
  <2> DEFINE tm == time[Head(timeouts)]
             diff == tv_diff(tm, GetTime(now))
  <2>1. tm \in TimeVal /\ now \in Nat
    BY <1>2 DEF TypeOK
  <2>2. GetTime(now) \in TimeVal /\ Usecs(GetTime(now)) = now
    BY <2>1, GetTimeType
  <2>3. diff \in Int /\ 1000 * diff < Usecs(tm) - now + 1000
    BY <2>1, <2>2, TvDiff
  <2>4. Usecs(tm) \in Int /\ INT_MAX \in Nat
    BY <2>1, UsecsType, TimersAssumption
  <2>5. uloop_get_next_timeout = IF diff < 0 THEN 0 ELSE IF diff > INT_MAX THEN INT_MAX ELSE diff
    BY <1>2 DEF uloop_get_next_timeout
  <2> HIDE DEF tm, diff
  <2>6. /\ uloop_get_next_timeout \in Int
        /\ uloop_get_next_timeout >= 0
        /\ uloop_get_next_timeout = 0 \/ now + 1000 * uloop_get_next_timeout < Usecs(tm) + 1000
    BY <2>1, <2>3, <2>4, <2>5
  <2> QED BY <1>2, <2>6 DEF tm
<1> QED BY <1>1, <1>2

\* Steps that leave the timers alone.
LEMMA TimersUnchanged ==
  ASSUME IInv, UNCHANGED <<now, timeouts, pending, time>>, cancelled' \in BOOLEAN,
         mode' \in Modes, mode' # "user" => stack' # <<>>, StackOK(stack')
  PROVE  IInv'
<1>1. TypeOK'
  BY DEF IInv, TypeOK, StackOK
<1>2. ListOK' /\ NearlySorted'
  BY DEF IInv, ListOK, NearlySorted
<1>3. FramesOK'
  BY DEF FramesOK, StackOK
<1> QED BY <1>1, <1>2, <1>3 DEF IInv

\* Steps that change the list and leave the loops alone.
LEMMA LoopsUnchanged ==
  ASSUME IInv, UNCHANGED <<now, cancelled, mode, stack>>,
         pending' \in [Timers -> BOOLEAN], time' \in [Timers -> TimeVal],
         timeouts' \in Seq(Timers), Distinct(timeouts'), SortedBy(timeouts', time'),
         \A t \in Timers : IsIn(t, timeouts') <=> pending'[t]
  PROVE  IInv'
<1>1. TypeOK' /\ FramesOK'
  BY DEF IInv, TypeOK, FramesOK
<1>2. ListOK'
  BY DEF ListOK, Distinct, IsIn
<1>3. NearlySorted'
  BY DEF NearlySorted, SortedBy
<1> QED BY <1>1, <1>2, <1>3 DEF IInv

\* The parts of the invariant that are about the list.
LEMMA ListFacts ==
  ASSUME IInv
  PROVE  /\ timeouts \in Seq(Timers) /\ Distinct(timeouts) /\ SortedBy(timeouts, time)
         /\ \A t \in Timers : IsIn(t, timeouts) <=> pending[t]
         /\ pending \in [Timers -> BOOLEAN] /\ time \in [Timers -> TimeVal] /\ now \in Nat
BY DEF IInv, TypeOK, ListOK, NearlySorted, Distinct, IsIn, SortedBy

\* uloop_timeout_add keeps the invariant.
LEMMA AddInv ==
  ASSUME IInv, NEW t \in Timers, uloop_timeout_add(t)
  PROVE  IInv'
<1>1. /\ timeouts' \in Linked(timeouts, t, time) /\ ~pending[t]
      /\ pending' = [pending EXCEPT ![t] = TRUE]
      /\ UNCHANGED <<now, time, cancelled, mode, stack>>
  BY DEF uloop_timeout_add
<1>2. ~IsIn(t, timeouts)
  BY <1>1, ListFacts
<1>3. /\ timeouts' \in Seq(Timers) /\ Distinct(timeouts') /\ SortedBy(timeouts', time)
      /\ \A x : IsIn(x, timeouts') <=> x = t \/ IsIn(x, timeouts)
  BY <1>1, <1>2, ListFacts, LinkedProperties
<1>4. SortedBy(timeouts', time') /\ time' \in [Timers -> TimeVal]
  BY <1>1, <1>3, ListFacts
<1>5. pending' \in [Timers -> BOOLEAN] /\ \A x \in Timers : IsIn(x, timeouts') <=> pending'[x]
  BY <1>1, <1>3, ListFacts
<1> QED BY <1>1, <1>3, <1>4, <1>5, LoopsUnchanged

\* uloop_timeout_set keeps the invariant.
LEMMA SetInv ==
  ASSUME IInv, NEW t \in Timers, NEW m \in Msecs, uloop_timeout_set(t, m)
  PROVE  IInv'
<1>1. /\ time' = [time EXCEPT ![t] = Deadline(now, m)]
      /\ pending' = [pending EXCEPT ![t] = TRUE]
      /\ UNCHANGED <<now, cancelled, mode, stack>>
  BY DEF uloop_timeout_set
<1>2. Deadline(now, m) \in TimeVal
  BY ListFacts, DeadlineType, TimersAssumption
<1>3. time' \in [Timers -> TimeVal] /\ \A x \in Timers : x # t => time'[x] = time[x]
  BY <1>1, <1>2, ListFacts
<1>4. PICK rest : /\ timeouts' \in Linked(rest, t, time')
                  /\ rest \in Seq(Timers) /\ Distinct(rest) /\ SortedBy(rest, time)
                  /\ \A x \in Timers : IsIn(x, rest) <=> x # t /\ pending[x]
  <2>1. CASE pending[t]
    <3>1. PICK rest \in Unlinked(t) : timeouts' \in Linked(rest, t, time')
      BY <2>1 DEF uloop_timeout_set
    <3> QED BY <3>1, UnlinkedProperties DEF IInv
  <2>2. CASE ~pending[t]
    <3>1. timeouts' \in Linked(timeouts, t, time')
      BY <2>2 DEF uloop_timeout_set
    <3>2. \A x \in Timers : IsIn(x, timeouts) <=> x # t /\ pending[x]
      BY <2>2, ListFacts
    <3> QED BY <3>1, <3>2, ListFacts
  <2> QED BY <2>1, <2>2
<1>5. ~IsIn(t, rest)
  BY <1>4
<1>6. SortedBy(rest, time')
  <2>1. \A i \in 1..Len(rest) : rest[i] \in Timers /\ rest[i] # t
    BY <1>4, <1>5 DEF IsIn
  <2>2. \A i \in 1..Len(rest) : time'[rest[i]] = time[rest[i]]
    BY <1>3, <2>1
  <2> QED BY <1>4, <2>2 DEF SortedBy
<1>7. /\ timeouts' \in Seq(Timers) /\ Distinct(timeouts') /\ SortedBy(timeouts', time')
      /\ \A x : IsIn(x, timeouts') <=> x = t \/ IsIn(x, rest)
  BY <1>3, <1>4, <1>5, <1>6, LinkedProperties
<1>8. pending' \in [Timers -> BOOLEAN] /\ \A x \in Timers : IsIn(x, timeouts') <=> pending'[x]
  BY <1>1, <1>4, <1>7, ListFacts
<1> QED BY <1>1, <1>3, <1>7, <1>8, LoopsUnchanged

\* uloop_timeout_cancel keeps the invariant.
LEMMA CancelInv ==
  ASSUME IInv, NEW t \in Timers, uloop_timeout_cancel(t)
  PROVE  IInv'
<1>1. /\ timeouts' \in Unlinked(t) /\ pending' = [pending EXCEPT ![t] = FALSE]
      /\ UNCHANGED <<now, time, cancelled, mode, stack>>
  BY DEF uloop_timeout_cancel
<1>2. /\ timeouts' \in Seq(Timers) /\ Distinct(timeouts') /\ SortedBy(timeouts', time)
      /\ \A x \in Timers : IsIn(x, timeouts') <=> x # t /\ pending[x]
  BY <1>1, UnlinkedProperties DEF IInv
<1>3. SortedBy(timeouts', time') /\ time' \in [Timers -> TimeVal]
  BY <1>1, <1>2, ListFacts
<1>4. pending' \in [Timers -> BOOLEAN] /\ \A x \in Timers : IsIn(x, timeouts') <=> pending'[x]
  BY <1>1, <1>2, ListFacts
<1> QED BY <1>1, <1>2, <1>3, <1>4, LoopsUnchanged

\* uloop_clear_timeouts keeps the invariant.
LEMMA ClearInv ==
  ASSUME IInv, uloop_clear_timeouts
  PROVE  IInv'
<1>1. /\ timeouts' = <<>> /\ pending' = [t \in Timers |-> FALSE]
      /\ UNCHANGED <<now, time, cancelled, mode, stack>>
  BY DEF uloop_clear_timeouts
<1>2. timeouts' \in Seq(Timers) /\ Distinct(timeouts') /\ SortedBy(timeouts', time')
  BY <1>1 DEF Distinct, SortedBy
<1>3. \A t \in Timers : IsIn(t, timeouts') <=> pending'[t]
  BY <1>1 DEF IsIn
<1> QED BY <1>1, <1>2, <1>3, ListFacts, LoopsUnchanged

\* Taking the first timer off the list and calling it keeps the invariant.
LEMMA FireInv ==
  ASSUME IInv, FireTimeout
  PROVE  IInv'
<1>1. /\ mode = "timeouts" /\ timeouts # <<>> /\ timeouts' = Tail(timeouts)
      /\ pending' = [pending EXCEPT ![Head(timeouts)] = FALSE]
      /\ mode' = "user" /\ stack' = SetTop([Top EXCEPT !.cb = "timer"])
      /\ UNCHANGED <<now, time, cancelled>>
  BY DEF FireTimeout
<1>2. stack # <<>> /\ TypeOK /\ FramesOK
  BY <1>1 DEF IInv, TypeOK
<1>3. [Top EXCEPT !.cb = "timer"] \in Frame /\ [Top EXCEPT !.cb = "timer"].tv <= now
  BY <1>2, TopType DEF Frame
<1>4. StackOK(stack')
  BY <1>1, <1>2, <1>3, SetTopOK
<1>5. /\ timeouts' \in Seq(Timers) /\ Len(timeouts') = Len(timeouts) - 1
      /\ \A k \in 1..(Len(timeouts) - 1) : timeouts'[k] = timeouts[k + 1]
      /\ Distinct(timeouts')
      /\ \A x : IsIn(x, timeouts') <=> x # Head(timeouts) /\ IsIn(x, timeouts)
  BY <1>1, ListFacts, TailDistinct
<1>6. NearlySorted'
  <2>1. Len(timeouts) \in Nat
    BY ListFacts
  <2>2. SUFFICES ASSUME NEW i \in 1..Len(timeouts'), NEW j \in 1..Len(timeouts'), i < j
                 PROVE  Usecs(time[timeouts'[i]]) - Usecs(time[timeouts'[j]]) < 1000
    BY <1>1 DEF NearlySorted
  <2>3. i + 1 \in 1..Len(timeouts) /\ j + 1 \in 1..Len(timeouts) /\ i + 1 < j + 1
    BY <1>5, <2>1, <2>2
  <2>4. timeouts'[i] = timeouts[i + 1] /\ timeouts'[j] = timeouts[j + 1]
    BY <1>5, <2>1, <2>2
  <2> QED BY <2>3, <2>4 DEF IInv, NearlySorted
<1>7. Head(timeouts) \in Timers
  BY <1>1, ListFacts
<1>8. pending' \in [Timers -> BOOLEAN] /\ \A x \in Timers : IsIn(x, timeouts') <=> pending'[x]
  BY <1>1, <1>5, <1>7, ListFacts
<1>9. ListOK'
  BY <1>5, <1>8 DEF ListOK, Distinct, IsIn
<1>10. TypeOK' /\ FramesOK'
  BY <1>1, <1>2, <1>4, <1>5, <1>8 DEF TypeOK, FramesOK, StackOK, Modes
<1> QED BY <1>6, <1>9, <1>10 DEF IInv

\* The time to sleep is an integer.
LEMMA NextTimeType ==
  ASSUME TypeOK, FramesOK, stack # <<>>
  PROVE  NextTime \in Int
<1>1. Top.timeout \in Int
  BY TopType, TimersAssumption DEF Frame
<1> QED BY <1>1, NextTimeoutType DEF NextTime

\* Going to sleep keeps the invariant.
LEMMA SleepInv ==
  ASSUME IInv, Sleep
  PROVE  IInv'
<1> DEFINE w == IF NextTime < 0 THEN Forever ELSE now + 1000 * NextTime
<1>1. /\ mode = "sigchld" /\ mode' = "poll" /\ stack' = SetTop([Top EXCEPT !.wake = w])
      /\ UNCHANGED <<now, timeouts, pending, time, cancelled>>
  BY DEF Sleep
<1>2. stack # <<>> /\ TypeOK /\ FramesOK /\ now \in Nat /\ cancelled \in BOOLEAN
  BY <1>1 DEF IInv, TypeOK
<1>3. w \in Nat \cup {Forever}
  BY <1>2, NextTimeType
<1> HIDE DEF w
<1>4. [Top EXCEPT !.wake = w] \in Frame /\ [Top EXCEPT !.wake = w].tv <= now
  BY <1>2, <1>3, TopType DEF Frame
<1>5. StackOK(stack') /\ stack' # <<>>
  BY <1>1, <1>2, <1>4, SetTopOK
<1> QED BY <1>1, <1>2, <1>5, TimersUnchanged DEF Modes

\* Callbacks of children and descriptors keep the invariant.
LEMMA CallbackInv ==
  ASSUME IInv, ProcessCallback \/ EventCallback
  PROVE  IInv'
<1>1. PICK c \in {"process", "event"} :
        /\ mode # "user" /\ mode' = "user" /\ stack' = SetTop([Top EXCEPT !.cb = c])
        /\ UNCHANGED <<now, timeouts, pending, time, cancelled>>
  BY DEF ProcessCallback, EventCallback
<1>2. stack # <<>> /\ TypeOK /\ FramesOK /\ cancelled \in BOOLEAN
  BY <1>1 DEF IInv, TypeOK
<1>3. [Top EXCEPT !.cb = c] \in Frame /\ [Top EXCEPT !.cb = c].tv <= now
  BY <1>2, TopType DEF Frame
<1>4. StackOK(stack')
  BY <1>1, <1>2, <1>3, SetTopOK
<1> QED BY <1>1, <1>2, <1>4, TimersUnchanged DEF Modes

\* The clock keeps the invariant.
LEMMA TickInv ==
  ASSUME IInv, Tick
  PROVE  IInv'
<1>1. now' \in Nat /\ now \in Nat /\ now <= now'
  BY TimersAssumption DEF Tick, IInv, TypeOK
<1>2. UNCHANGED <<timeouts, pending, time, cancelled, mode, stack>>
  BY DEF Tick
<1>3. FramesOK'
  <2>1. \A k \in 1..Len(stack) : stack[k] \in Frame
    BY DEF IInv, TypeOK
  <2>2. \A f \in Frame : f.tv \in Nat
    BY DEF Frame
  <2> QED BY <1>1, <1>2, <2>1, <2>2 DEF IInv, FramesOK
<1> QED BY <1>1, <1>2, <1>3 DEF IInv, TypeOK, ListOK, NearlySorted

\* Every step of the program keeps the invariant.
LEMMA InvStep ==
  ASSUME IInv, [Next]_vars
  PROVE  IInv'
<1>0. TypeOK /\ FramesOK /\ now \in Nat /\ cancelled \in BOOLEAN /\ StackOK(stack)
      /\ (mode # "user" => stack # <<>>)
  BY DEF IInv, TypeOK, FramesOK, StackOK
<1>1. ASSUME NEW t \in Timers, uloop_timeout_add(t) PROVE IInv'
  BY <1>1, AddInv
<1>2. ASSUME NEW t \in Timers, NEW m \in Msecs, uloop_timeout_set(t, m) PROVE IInv'
  BY <1>2, SetInv
<1>3. ASSUME NEW t \in Timers, uloop_timeout_cancel(t) PROVE IInv'
  BY <1>3, CancelInv
<1>4. CASE uloop_clear_timeouts
  BY <1>4, ClearInv
<1>5. ASSUME NEW m \in RunTimeouts, uloop_run_timeout(m) PROVE IInv'
  <2>1. Iterate(stack, m) /\ cancelled' = FALSE /\ UNCHANGED <<now, timeouts, pending, time>>
    BY <1>5 DEF uloop_run_timeout
  <2>2. StackOK(stack') /\ stack' # <<>> /\ mode' \in {"sigchld", "timeouts"}
    BY <1>0, <2>1, IterateOK
  <2> QED BY <2>1, <2>2, TimersUnchanged DEF Modes
<1>6. CASE uloop_end
  <2>1. cancelled' = TRUE /\ UNCHANGED <<now, timeouts, pending, time, mode, stack>>
    BY <1>6 DEF uloop_end
  <2>2. mode' \in Modes /\ StackOK(stack')
    BY <1>0, <2>1 DEF TypeOK, StackOK
  <2> QED BY <1>0, <2>1, <2>2, TimersUnchanged
<1>7. CASE FireTimeout
  BY <1>7, FireInv
<1>8. CASE TimeoutsDone
  <2>1. /\ mode = "timeouts" /\ mode' = "sigchld"
        /\ UNCHANGED <<now, timeouts, pending, time, cancelled, stack>>
    BY <1>8 DEF TimeoutsDone
  <2>2. stack' # <<>> /\ StackOK(stack')
    BY <1>0, <2>1 DEF StackOK
  <2> QED BY <1>0, <2>1, <2>2, TimersUnchanged DEF Modes
<1>9. CASE ProcessCallback \/ EventCallback
  BY <1>9, CallbackInv
<1>10. CASE Sleep
  BY <1>10, SleepInv
<1>11. CASE Break
  <2>1. /\ mode = "sigchld" /\ mode' = "user" /\ stack' = Front(stack)
        /\ UNCHANGED <<now, timeouts, pending, time, cancelled>>
    BY <1>11 DEF Break, Return
  <2>2. StackOK(stack')
    BY <1>0, <2>1, FrontOK
  <2> QED BY <1>0, <2>1, <2>2, TimersUnchanged DEF Modes
<1>12. CASE PollTimeout \/ PollNothing
  <2>1. mode = "poll" /\ Bottom
    BY <1>12 DEF PollTimeout, PollNothing
  <2>2. StackOK(stack') /\ (mode' # "user" => stack' # <<>>) /\ mode' \in Modes
    BY <1>0, <2>1, BottomOK
  <2>3. UNCHANGED <<now, timeouts, pending, time, cancelled>>
    BY <2>1 DEF Bottom
  <2> QED BY <1>0, <2>2, <2>3, TimersUnchanged
<1>13. CASE CallbackReturn
  <2>1. CASE Top.cb = "event" /\ Bottom
    <3>1. stack # <<>>
      BY <1>13 DEF CallbackReturn
    <3>2. StackOK(stack') /\ (mode' # "user" => stack' # <<>>) /\ mode' \in Modes
      BY <1>0, <2>1, <3>1, BottomOK
    <3>3. UNCHANGED <<now, timeouts, pending, time, cancelled>>
      BY <2>1 DEF Bottom
    <3> QED BY <1>0, <3>2, <3>3, TimersUnchanged
  <2>2. CASE ~(Top.cb = "event" /\ Bottom)
    <3>1. /\ stack # <<>> /\ mode' \in {"timeouts", "sigchld"}
          /\ UNCHANGED <<now, timeouts, pending, time, cancelled, stack>>
      BY <1>13, <2>2 DEF CallbackReturn
    <3> QED BY <1>0, <3>1 DEF IInv, TypeOK, ListOK, NearlySorted, FramesOK, Modes
  <2> QED BY <2>1, <2>2
<1>14. CASE Tick
  BY <1>14, TickInv
<1>15. CASE UNCHANGED vars
  BY <1>15 DEF IInv, TypeOK, ListOK, NearlySorted, FramesOK, vars
<1> QED BY <1>1, <1>2, <1>3, <1>4, <1>5, <1>6, <1>7, <1>8, <1>9, <1>10, <1>11, <1>12, <1>13,
           <1>14, <1>15 DEF Next, Client, RelativeClient, Loop

\* The invariant holds before the first call.
LEMMA InvInit == Init => IInv
<1> SUFFICES ASSUME Init PROVE IInv
  OBVIOUS
<1>1. TypeOK
  <2>1. [sec |-> 0, usec |-> 0] \in TimeVal
    BY DEF TimeVal
  <2>2. time \in [Timers -> TimeVal]
    BY <2>1 DEF Init
  <2>3. timeouts \in Seq(Timers) /\ stack \in Seq(Frame)
    BY DEF Init
  <2> QED BY <2>2, <2>3, TimersAssumption DEF Init, TypeOK, Modes
<1>2. ListOK /\ NearlySorted /\ FramesOK
  BY DEF Init, ListOK, NearlySorted, FramesOK
<1> QED BY <1>1, <1>2 DEF IInv

\* The inductive invariant holds in every state of every behaviour.
THEOREM Invariance == Spec => []IInv
<1>1. IInv /\ [Next]_vars => IInv'
  BY InvStep
<1> QED BY InvInit, <1>1, PTL DEF Spec

-----------------------------------------------------------------------------
(* The theorems. *)

\* The variables of the run loop keep their types, and code of uloop.c runs
\* only below a call of uloop_run_timeout.
THEOREM TypeCorrect == Spec => []TypeOK
<1>1. IInv => TypeOK
  BY DEF IInv
<1> QED BY Invariance, <1>1, PTL

\* The pending flags and the links of the list agree at all times.
THEOREM ListCorrect == Spec => []ListOK
<1>1. IInv => ListOK
  BY DEF IInv
<1> QED BY Invariance, <1>1, PTL

\* The list of uloop_timeout_add is sorted to within a millisecond.
THEOREM ListNearlySorted == Spec => []NearlySorted
<1>1. IInv => NearlySorted
  BY DEF IInv
<1> QED BY Invariance, <1>1, PTL

\* The facts an action property needs hold before every step.
LEMMA ActionFacts ==
  ASSUME IInv, mode # "user"
  PROVE  /\ Top.tv \in Nat /\ Top.tv <= now /\ now \in Nat
         /\ \A t \in Timers : time[t] \in TimeVal /\ Usecs(time[t]) \in Int
         /\ timeouts # <<>> => Head(timeouts) \in Timers
         /\ \A t \in Timers : pending[t] =>
              timeouts # <<>> /\ Usecs(time[Head(timeouts)]) - Usecs(time[t]) < 1000
<1>1. TypeOK /\ FramesOK /\ stack # <<>>
  BY DEF IInv, TypeOK
<1>2. Top.tv \in Nat /\ Top.tv <= now /\ now \in Nat
  BY <1>1, TopType DEF Frame, TypeOK
<1>3. \A t \in Timers : time[t] \in TimeVal /\ Usecs(time[t]) \in Int
  BY ListFacts, UsecsType
<1>4. timeouts # <<>> => Head(timeouts) \in Timers
  BY ListFacts
<1>5. ASSUME NEW t \in Timers, pending[t]
      PROVE  timeouts # <<>> /\ Usecs(time[Head(timeouts)]) - Usecs(time[t]) < 1000
  <2>1. PICK i \in 1..Len(timeouts) : timeouts[i] = t
    BY <1>5, ListFacts DEF IsIn
  <2>2. timeouts # <<>> /\ Head(timeouts) = timeouts[1] /\ 1 \in 1..Len(timeouts)
    BY <2>1, ListFacts
  <2>3. CASE i = 1
    BY <1>3, <2>1, <2>2, <2>3
  <2>4. CASE i > 1
    BY <2>1, <2>2, <2>4, ListFacts DEF SortedBy
  <2> QED BY <2>1, <2>2, <2>3, <2>4
<1> QED BY <1>2, <1>3, <1>4, <1>5

\* Leaving uloop_process_timeouts: only the step TimeoutsDone does it.
LEMMA NoOverdueLeftStep ==
  ASSUME IInv, [Next]_vars, mode = "timeouts", mode' = "sigchld", NEW t \in Timers, pending[t]
  PROVE  Usecs(time[t]) > Top.tv - 1000
<1>1. TimeoutsDone
  BY DEF Next, Client, RelativeClient, Loop, vars, uloop_timeout_add, uloop_timeout_set,
         uloop_timeout_cancel, uloop_clear_timeouts, uloop_run_timeout, uloop_end, FireTimeout,
         ProcessCallback, Sleep, Break, EventCallback, PollTimeout, PollNothing, CallbackReturn, Tick
<1> DEFINE h == time[Head(timeouts)]
<1>2. timeouts # <<>> /\ h \in TimeVal /\ Usecs(h) \in Int /\ Usecs(h) - Usecs(time[t]) < 1000
  BY ActionFacts
<1>3. ~(tv_diff(h, GetTime(Top.tv)) <= 0)
  BY <1>1, <1>2 DEF TimeoutsDone, Due
<1>4. Top.tv \in Nat /\ GetTime(Top.tv) \in TimeVal /\ Usecs(GetTime(Top.tv)) = Top.tv
  BY ActionFacts, GetTimeType
<1> HIDE DEF h
<1>5. Usecs(h) > Top.tv
  BY <1>2, <1>3, <1>4, TvDiff
<1>6. Usecs(time[t]) \in Int
  BY ActionFacts
<1> QED BY <1>2, <1>4, <1>5, <1>6

\* uloop_process_timeouts leaves behind no timer that was due a millisecond
\* before the clock was read, however deadlines are rounded.
THEOREM NoOverdueLeftTheorem == Spec => NoOverdueLeft
<1>1. IInv /\ [Next]_vars =>
        [mode = "timeouts" /\ mode' = "sigchld"
           => \A t \in Timers : pending[t] => Usecs(time[t]) > Top.tv - 1000]_vars
  BY NoOverdueLeftStep
<1> QED BY Invariance, <1>1, PTL DEF Spec, NoOverdueLeft

\* Entering a callback from uloop_process_timeouts: only FireTimeout does it.
LEMMA NeverEarlyStep ==
  ASSUME IInv, [Next]_vars, mode = "timeouts", mode' = "user",
         NEW t \in Timers, pending[t], ~pending'[t]
  PROVE  Usecs(time[t]) - now < 1000
<1>1. FireTimeout
  BY DEF Next, Client, RelativeClient, Loop, vars, uloop_timeout_add, uloop_timeout_set,
         uloop_timeout_cancel, uloop_clear_timeouts, uloop_run_timeout, uloop_end, TimeoutsDone,
         ProcessCallback, Sleep, Break, EventCallback, PollTimeout, PollNothing, CallbackReturn, Tick
<1>2. t = Head(timeouts)
  BY <1>1, ListFacts DEF FireTimeout
<1>3. tv_diff(time[t], GetTime(Top.tv)) <= 0
  BY <1>1, <1>2 DEF FireTimeout, Due
<1>4. Top.tv \in Nat /\ Top.tv <= now /\ now \in Nat /\ time[t] \in TimeVal /\ Usecs(time[t]) \in Int
  BY ActionFacts
<1>5. GetTime(Top.tv) \in TimeVal /\ Usecs(GetTime(Top.tv)) = Top.tv
  BY <1>4, GetTimeType
<1>6. Usecs(time[t]) - Top.tv < 1000
  BY <1>3, <1>4, <1>5, TvDiff
<1> QED BY <1>4, <1>6

\* No timer callback runs a millisecond or more before its deadline.
THEOREM NeverEarlyTheorem == Spec => NeverEarly
<1>1. IInv /\ [Next]_vars =>
        [mode = "timeouts" /\ mode' = "user"
           => \A t \in Timers : pending[t] /\ ~pending'[t] => Usecs(time[t]) - now < 1000]_vars
  BY NeverEarlyStep
<1> QED BY Invariance, <1>1, PTL DEF Spec, NeverEarly

\* Going to sleep: only the step Sleep does it.
LEMMA NeverOversleepsStep ==
  ASSUME IInv, [Next]_vars, mode = "sigchld", mode' = "poll", NEW t \in Timers, pending[t],
         NEW wake, wake = stack'[Len(stack')].wake
  PROVE  wake # Forever /\ (wake = now \/ wake < Usecs(time[t]) + 2000)
<1>1. Sleep
  BY DEF Next, Client, RelativeClient, Loop, vars, uloop_timeout_add, uloop_timeout_set,
         uloop_timeout_cancel, uloop_clear_timeouts, uloop_run_timeout, uloop_end, FireTimeout,
         TimeoutsDone, ProcessCallback, Break, Return, EventCallback, PollTimeout, PollNothing,
         CallbackReturn, Tick
<1> DEFINE h == Usecs(time[Head(timeouts)])
           w == IF NextTime < 0 THEN Forever ELSE now + 1000 * NextTime
           next == uloop_get_next_timeout
<1>2. stack # <<>> /\ TypeOK /\ FramesOK
  BY DEF IInv, TypeOK
<1>3. /\ timeouts # <<>> /\ h \in Int /\ Usecs(time[t]) \in Int /\ h - Usecs(time[t]) < 1000
      /\ now \in Nat
  BY ActionFacts
<1>4. next \in Int /\ next >= 0 /\ (next = 0 \/ now + 1000 * next < h + 1000)
  BY <1>2, <1>3, NextTimeoutType
<1>5. Top.timeout \in Int
  BY <1>2, TopType, TimersAssumption DEF Frame
<1>6. NextTime \in Int /\ NextTime >= 0 /\ NextTime <= next
  BY <1>4, <1>5 DEF NextTime
<1>7. wake = w
  <2>1. w \in Nat \cup {Forever}
    BY <1>3, <1>6
  <2>2. stack' = SetTop([Top EXCEPT !.wake = w])
    BY <1>1 DEF Sleep
  <2> HIDE DEF w
  <2>3. /\ [Top EXCEPT !.wake = w] \in Frame /\ [Top EXCEPT !.wake = w].tv <= now
        /\ [Top EXCEPT !.wake = w].wake = w
    BY <1>2, <2>1, TopType DEF Frame
  <2>4. stack'[Len(stack')] = [Top EXCEPT !.wake = w]
    BY <1>2, <2>2, <2>3, SetTopOK
  <2> QED BY <2>3, <2>4
<1>8. w = now + 1000 * NextTime
  BY <1>6
<1> HIDE DEF w, h, next
<1>9. w = now \/ w < Usecs(time[t]) + 2000
  BY <1>3, <1>4, <1>6, <1>8
<1> QED BY <1>3, <1>6, <1>7, <1>8, <1>9 DEF Forever

\* epoll_wait never sleeps two milliseconds past the deadline of a pending
\* timer, wherever in the list it stands.
THEOREM NeverOversleepsTheorem == Spec => NeverOversleeps
<1>1. IInv /\ [Next]_vars =>
        [mode = "sigchld" /\ mode' = "poll"
           => \A t \in Timers : pending[t] =>
                LET wake == stack'[Len(stack')].wake
                IN  wake # Forever /\ (wake = now \/ wake < Usecs(time[t]) + 2000)]_vars
  BY NeverOversleepsStep
<1> QED BY Invariance, <1>1, PTL DEF Spec, NeverOversleeps
=============================================================================
