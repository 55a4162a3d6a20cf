-------------------------- MODULE UloopEventsProofs --------------------------
(***************************************************************************)
(* For any descriptors, any nesting of loops and any report of the kernel: *)
(* callbacks of edge-triggered descriptors are not reentered, no event     *)
(* that was fetched is lost, and no callback runs after its descriptor was *)
(* deleted.                                                                *)
(***************************************************************************)
EXTENDS UloopEvents, ListLemmas, FiniteSetTheorems

-----------------------------------------------------------------------------
(* The inductive invariant. *)

RW == {"READ", "WRITE"}
Entry == [fd : Fds \cup {NoFd}, events : SUBSET RW]

TypeOK ==
  /\ registered \in [Fds -> BOOLEAN] /\ gone \in [Fds -> BOOLEAN] /\ armed \in [Fds -> BOOLEAN]
  /\ flags \in [Fds -> SUBSET Flags]
  /\ interest \in [Fds -> SUBSET Ready] /\ ready \in [Fds -> SUBSET Ready]
  /\ owed \in [Fds -> SUBSET (RW \cup {"ERROR"})]
  /\ cur_fds \in Seq(Entry) /\ stack \in Seq(Frame)

\* A descriptor is edge-triggered or not, whenever the program adds it.
Edge(f) == \E fl \in FlagSets[f] : "EDGE_TRIGGER" \in fl

\* Only a registered descriptor has flags or is watched, and it was not
\* deleted since it was added.
Registered ==
  \A f \in Fds : /\ registered[f] => flags[f] \in FlagSets[f] /\ ~gone[f]
                 /\ ~registered[f] => flags[f] = {} /\ interest[f] = {}

\* A report names a descriptor once, and uloop_fd_delete clears it.
CurOK(c, g) ==
  /\ \A i, j \in 1..Len(c) : c[i].fd = c[j].fd /\ c[i].fd \in Fds => i = j
  /\ \A i \in 1..Len(c) : c[i].fd \in Fds \ Intervals => ~g[c[i].fd]

IsFd(fr) == fr.kind = "fd" /\ fr.fd \in Fds

\* An edge-triggered descriptor has one frame at most, and events wait only in
\* frames of descriptors that are edge-triggered and registered.
FramesOK(st, reg) ==
  /\ \A i, j \in 1..Len(st) :
       IsFd(st[i]) /\ Edge(st[i].fd) /\ IsFd(st[j]) /\ st[j].fd = st[i].fd => i = j
  /\ \A i \in 1..Len(st) : IsFd(st[i]) /\ st[i].events # {} => Edge(st[i].fd) /\ reg[st[i].fd]

\* A fetched descriptor that uloop_fetch_events deleted has no frame: its entry
\* will not be buffered.
FailedOK(c, st, reg) ==
  \A k \in 1..Len(c), i \in 1..Len(st) :
    LET f == c[k].fd
    IN f \in Fds /\ Edge(f) /\ ~reg[f] => ~(IsFd(st[i]) /\ st[i].fd = f)

\* A timerfd becomes readable and nothing else.
IntervalsOK ==
  \A f \in Intervals : /\ ready[f] \subseteq {"in"} /\ "ERROR" \notin owed[f]
                       /\ ~registered[f] => owed[f] = {}

\* NoLostEvent, for any report, stack and debt.
Has(entry, reg, f, e) == entry.fd = f /\ (e \in entry.events \cup {"ERROR"} \/ ~reg[f])
Holds(frame, f, e) ==
  IsFd(frame) /\ frame.fd = f /\ (e \in frame.events \/ (e = "ERROR" /\ frame.events # {}))

Waits(c, st, reg, f, e) ==
  \/ \E i \in 1..Len(c) : Has(c[i], reg, f, e)
  \/ \E i \in 1..Len(st) : Holds(st[i], f, e)

Kept(c, st, reg, ow) == \A f \in Fds : \A e \in ow[f] : Waits(c, st, reg, f, e)

IInv ==
  /\ TypeOK /\ Registered /\ IntervalsOK
  /\ CurOK(cur_fds, gone) /\ FramesOK(stack, registered)
  /\ FailedOK(cur_fds, stack, registered) /\ Kept(cur_fds, stack, registered, owed)

-----------------------------------------------------------------------------
(* Reports. *)

\* The first entry is taken.
LEMMA Taken ==
  ASSUME NEW c \in Seq(Entry), c # <<>>, NEW g, CurOK(c, g)
  PROVE  /\ Tail(c) \in Seq(Entry) /\ CurOK(Tail(c), g)
         /\ Head(c) = c[1] /\ Head(c) \in Entry /\ 1 \in 1..Len(c)
         /\ \A k \in 1..Len(Tail(c)) : k + 1 \in 1..Len(c) /\ Tail(c)[k] = c[k + 1]
         /\ \A k \in 1..Len(c) : k # 1 => k - 1 \in 1..Len(Tail(c)) /\ Tail(c)[k - 1] = c[k]
<1> DEFINE t == Tail(c)
<1>1. /\ t \in Seq(Entry) /\ Len(c) \in Nat \ {0} /\ Len(t) = Len(c) - 1 /\ Head(c) = c[1] /\ c[1] \in Entry
      /\ \A k \in 1..Len(t) : t[k] = c[k + 1]
  OBVIOUS
<1> HIDE DEF t
<1>2. \A k \in 1..Len(t) : k + 1 \in 1..Len(c) /\ t[k] = c[k + 1]
  BY <1>1
<1>3. ASSUME NEW k \in 1..Len(c), k # 1 PROVE k - 1 \in 1..Len(t) /\ t[k - 1] = c[k]
  <2>1. k - 1 \in 1..Len(t) /\ (k - 1) + 1 = k
    BY <1>1, <1>3
  <2> QED BY <1>1, <2>1
<1>4. CurOK(t, g)
  <2>1. ASSUME NEW m \in 1..Len(t), NEW j \in 1..Len(t), t[m].fd = t[j].fd, t[m].fd \in Fds PROVE m = j
    <3>1. m + 1 = j + 1
      BY <1>2, <2>1 DEF CurOK
    <3> QED BY <1>1, <3>1
  <2>2. \A m \in 1..Len(t) : t[m].fd \in Fds \ Intervals => ~g[t[m].fd]
    BY <1>2 DEF CurOK
  <2> QED BY <2>1, <2>2 DEF CurOK
<1> QED BY <1>1, <1>2, <1>3, <1>4 DEF t

\* What waits still waits, if it was not in the entry taken.
LEMMA TakenWaits ==
  ASSUME NEW c \in Seq(Entry), c # <<>>, NEW g, CurOK(c, g), NEW st, NEW reg, NEW f \in Fds, NEW e,
         Waits(c, st, reg, f, e), ~Has(Head(c), reg, f, e)
  PROVE  Waits(Tail(c), st, reg, f, e)
<1>1. /\ Head(c) = c[1]
      /\ \A k \in 1..Len(c) : k # 1 => k - 1 \in 1..Len(Tail(c)) /\ Tail(c)[k - 1] = c[k]
  BY Taken
<1>2. CASE \E k \in 1..Len(c) : Has(c[k], reg, f, e)
  <2>1. PICK k \in 1..Len(c) : Has(c[k], reg, f, e)
    BY <1>2
  <2>2. k # 1
    BY <1>1, <2>1
  <2> QED BY <1>1, <2>1, <2>2 DEF Waits
<1> QED BY <1>2 DEF Waits

\* The descriptor of the entry taken is in no other.
LEMMA TakenOnce ==
  ASSUME NEW c \in Seq(Entry), c # <<>>, NEW g, CurOK(c, g), Head(c).fd \in Fds
  PROVE  \A k \in 1..Len(c) : c[k].fd = Head(c).fd => k = 1
BY Taken DEF CurOK

-----------------------------------------------------------------------------
(* The stack. *)

LEMMA TopPopped ==
  ASSUME NEW st \in Seq(Frame), st # <<>>
  PROVE  LET new == SubSeq(st, 1, Len(st) - 1)
         IN /\ new \in Seq(Frame) /\ Len(st) \in Nat \ {0} /\ Len(new) = Len(st) - 1
            /\ \A i \in 1..(Len(st) - 1) : new[i] = st[i]
BY FrontElements DEF Front

\* The frames of descriptors in the stack new are frames of st, ...
Fewer(st, new) ==
  \A i \in 1..Len(new) : IsFd(new[i]) =>
    /\ i \in 1..Len(st) /\ IsFd(st[i]) /\ new[i].fd = st[i].fd
    /\ new[i].events = {} \/ new[i].events = st[i].events

\* ... and those with events are still there.
Same(st, new) ==
  \A i \in 1..Len(st) : IsFd(st[i]) /\ st[i].events # {} => i \in 1..Len(new) /\ new[i] = st[i]

LEMMA FewerFrames ==
  ASSUME NEW st, NEW new, NEW reg, FramesOK(st, reg), Fewer(st, new)
  PROVE  FramesOK(new, reg) /\ \A c : FailedOK(c, st, reg) => FailedOK(c, new, reg)
<1>1. FramesOK(new, reg)
  BY DEF FramesOK, Fewer
<1>2. ASSUME NEW c, FailedOK(c, st, reg) PROVE FailedOK(c, new, reg)
  BY <1>2 DEF FailedOK, Fewer
<1> QED BY <1>1, <1>2

LEMMA SameWaits ==
  ASSUME NEW st, NEW new, Same(st, new), NEW c, NEW reg, NEW f, NEW e, Waits(c, st, reg, f, e)
  PROVE  Waits(c, new, reg, f, e)
<1>1. \A i \in 1..Len(st) : Holds(st[i], f, e) => i \in 1..Len(new) /\ new[i] = st[i]
  BY DEF Holds, Same
<1> QED BY <1>1 DEF Waits

\* Only the stack changes.
LEMMA StackStep ==
  ASSUME IInv, stack' \in Seq(Frame), Fewer(stack, stack'), Same(stack, stack'),
         UNCHANGED <<registered, flags, cur_fds, kvars, gone, owed>>
  PROVE  IInv'
<1>1. TypeOK' /\ Registered' /\ IntervalsOK'
  BY DEF IInv, TypeOK, Registered, IntervalsOK, kvars
<1>2. FramesOK(stack', registered) /\ FailedOK(cur_fds, stack', registered)
  BY FewerFrames DEF IInv
<1>3. Kept(cur_fds, stack', registered, owed)
  BY SameWaits DEF IInv, Kept
<1> QED BY <1>1, <1>2, <1>3 DEF IInv

LEMMA LoopFrameOK ==
  ASSUME NEW pc \in {"top", "events"}
  PROVE  LoopFrame(pc) \in Frame /\ ~IsFd(LoopFrame(pc))
BY DEF LoopFrame, Frame, IsFd

\* The loop goes on elsewhere.
LEMMA LoopMoves ==
  ASSUME NEW st \in Seq(Frame), st # <<>>, ~IsFd(st[Len(st)]), NEW pc \in {"top", "events"}
  PROVE  LET new == [st EXCEPT ![Len(st)] = LoopFrame(pc)]
         IN new \in Seq(Frame) /\ Len(new) = Len(st) /\ Fewer(st, new) /\ Same(st, new)
<1> DEFINE r == LoopFrame(pc)
           new == [st EXCEPT ![Len(st)] = r]
<1>1. r \in Frame /\ ~IsFd(r)
  BY LoopFrameOK
<1> HIDE DEF r
<1>2. /\ new \in Seq(Frame) /\ Len(new) = Len(st) /\ new[Len(st)] = r
      /\ \A i \in 1..Len(st) : i # Len(st) => new[i] = st[i]
  BY <1>1, TopReplaced
<1> HIDE DEF new
<1>3. Fewer(st, new)
  BY <1>1, <1>2 DEF Fewer
<1>4. Same(st, new)
  BY <1>1, <1>2 DEF Same
<1> QED BY <1>2, <1>3, <1>4 DEF new, r

\* Steps of the loop and calls that only push or pop a frame.
LEMMA LoopInv ==
  ASSUME IInv, uloop_run \/ LoopEnd \/ OtherCallback \/ RunLeftover \/ EventsDone \/ CallbackReturn
  PROVE  IInv'
<1>1. stack \in Seq(Frame) /\ UNCHANGED <<registered, flags, cur_fds, kvars, gone, owed>>
  BY DEF IInv, TypeOK, uloop_run, LoopEnd, OtherCallback, RunLeftover, EventsDone, CallbackReturn, uvars
<1>2. ASSUME NEW r \in Frame, ~IsFd(r), stack' = Append(stack, r) PROVE IInv'
  <2>1. /\ stack' \in Seq(Frame) /\ Len(stack) \in Nat /\ Len(stack') = Len(stack) + 1
        /\ stack'[Len(stack) + 1] = r /\ \A i \in 1..Len(stack) : stack'[i] = stack[i]
    BY <1>1, <1>2, Pushed
  <2>2. Fewer(stack, stack')
    BY <1>2, <2>1 DEF Fewer
  <2>3. Same(stack, stack')
    BY <2>1 DEF Same
  <2> QED BY <1>1, <2>1, <2>2, <2>3, StackStep
<1>3. ASSUME stack # <<>>, ~IsFd(stack[Len(stack)]) \/ stack[Len(stack)].events = {},
             stack' = SubSeq(stack, 1, Len(stack) - 1)
      PROVE  IInv'
  <2>1. /\ stack' \in Seq(Frame) /\ Len(stack) \in Nat \ {0} /\ Len(stack') = Len(stack) - 1
        /\ \A i \in 1..(Len(stack) - 1) : stack'[i] = stack[i]
    BY <1>1, <1>3, TopPopped
  <2>2. Fewer(stack, stack')
    BY <2>1 DEF Fewer
  <2>3. Same(stack, stack')
    BY <1>3, <2>1 DEF Same
  <2> QED BY <1>1, <2>1, <2>2, <2>3, StackStep
<1>4. CASE uloop_run
  <2>1. LoopFrame("top") \in Frame /\ ~IsFd(LoopFrame("top"))
    BY LoopFrameOK
  <2> QED BY <1>2, <1>4, <2>1 DEF uloop_run
<1>5. CASE OtherCallback
  <2>1. OtherFrame \in Frame /\ ~IsFd(OtherFrame)
    BY DEF OtherFrame, Frame, IsFd
  <2> QED BY <1>2, <1>5, <2>1 DEF OtherCallback
<1>6. CASE LoopEnd
  BY <1>3, <1>6 DEF LoopEnd, InLoop, IsFd, Depth
<1>7. CASE CallbackReturn
  <2>1. NoFd \notin Fds
    BY EventsAssumption DEF EventsAssumption
  <2> QED BY <1>3, <1>7, <2>1 DEF CallbackReturn, IsFd, Depth
<1>8. CASE RunLeftover \/ EventsDone
  <2>1. stack # <<>> /\ ~IsFd(stack[Len(stack)])
    BY <1>8 DEF RunLeftover, EventsDone, InLoop, IsFd, Depth
  <2>2. PICK pc \in {"top", "events"} : stack' = [stack EXCEPT ![Len(stack)] = LoopFrame(pc)]
    BY <1>8 DEF RunLeftover, EventsDone, SetTop, Depth
  <2>3. stack' \in Seq(Frame) /\ Fewer(stack, stack') /\ Same(stack, stack')
    BY <1>1, <2>1, <2>2, LoopMoves
  <2> QED BY <1>1, <2>3, StackStep
<1> QED BY <1>4, <1>5, <1>6, <1>7, <1>8

\* uloop_fd_stack_event finds the frame of a registered edge-triggered
\* descriptor, the only one, and no other.
LEMMA FoundIs ==
  ASSUME IInv, NEW f \in Fds
  PROVE  \A i : i \in Found(f) <=>
           registered[f] /\ Edge(f) /\ i \in 1..Len(stack) /\ IsFd(stack[i]) /\ stack[i].fd = f
<1>1. "EDGE_TRIGGER" \in flags[f] <=> registered[f] /\ Edge(f)
  <2>1. CASE registered[f]
    <3>1. flags[f] \in FlagSets[f]
      BY <2>1 DEF IInv, Registered
    <3>2. \A a, b \in FlagSets[f] : "EDGE_TRIGGER" \in a <=> "EDGE_TRIGGER" \in b
      BY EventsAssumption DEF EventsAssumption
    <3> QED BY <2>1, <3>1, <3>2 DEF Edge
  <2>2. CASE ~registered[f]
    BY <2>2 DEF IInv, Registered
  <2> QED BY <2>1, <2>2
<1>2. stack \in Seq(Frame) /\ Len(stack) \in Nat
  BY DEF IInv, TypeOK
<1>3. ASSUME NEW i
      PROVE  i \in OnStack(f) <=> i \in 1..Len(stack) /\ IsFd(stack[i]) /\ stack[i].fd = f
  BY DEF OnStack, Depth, IsFd
<1>4. ASSUME Edge(f), NEW i \in OnStack(f), NEW j \in OnStack(f) PROVE i = j /\ j <= i
  <2>1. i \in Int /\ j \in Int
    BY <1>2, <1>3
  <2>2. i = j
    BY <1>3, <1>4 DEF IInv, FramesOK
  <2> QED BY <2>1, <2>2
<1> HIDE DEF OnStack
<1> QED BY <1>1, <1>3, <1>4 DEF Found

LEMMA DetachedOK ==
  ASSUME IInv, NEW S \in SUBSET Fds, \A f \in S : registered[f]
  PROVE  LET new == Detached(S)
         IN /\ new \in Seq(Frame) /\ Len(new) = Len(stack) /\ Fewer(stack, new)
            /\ \A i \in 1..Len(stack) : IsFd(new[i]) /\ Edge(new[i].fd) => new[i].fd \notin S
            /\ \A i \in 1..Len(stack) : ~IsFd(stack[i]) \/ stack[i].fd \notin S => new[i] = stack[i]
<1> DEFINE new == Detached(S)
           off(i) == IsFd(stack[i]) /\ stack[i].fd \in S /\ Edge(stack[i].fd)
           det(i) == [stack[i] EXCEPT !.fd = NoFd]
<1>1. stack \in Seq(Frame) /\ Len(stack) \in Nat /\ \A i \in 1..Len(stack) : stack[i] \in Frame
  BY DEF IInv, TypeOK
<1>2. ASSUME NEW i \in 1..Len(stack) PROVE (\E f \in S : i \in Found(f)) <=> off(i)
  BY <1>2, FoundIs DEF IsFd
<1>3. NoFd \notin Fds
  BY EventsAssumption DEF EventsAssumption
<1>4. ASSUME NEW i \in 1..Len(stack) PROVE det(i) \in Frame /\ ~IsFd(det(i))
  <2>1. stack[i] \in Frame
    BY <1>1
  <2> QED BY <1>3, <2>1 DEF Frame, IsFd
<1> HIDE DEF det
<1>5. new = [i \in 1..Len(stack) |-> IF \E f \in S : i \in Found(f) THEN det(i) ELSE stack[i]]
  BY DEF Detached, Depth, det
<1>6. \A i \in 1..Len(stack) : (IF \E f \in S : i \in Found(f) THEN det(i) ELSE stack[i]) \in Frame
  BY <1>1, <1>4
<1>7. new \in Seq(Frame) /\ Len(new) = Len(stack)
      /\ \A i \in 1..Len(stack) : new[i] = IF \E f \in S : i \in Found(f) THEN det(i) ELSE stack[i]
  BY <1>1, <1>5, <1>6
<1> HIDE DEF new
<1>8. \A i \in 1..Len(stack) : new[i] = IF off(i) THEN det(i) ELSE stack[i]
  BY <1>2, <1>7
<1>9. Fewer(stack, new)
  BY <1>4, <1>7, <1>8 DEF Fewer
<1>10. \A i \in 1..Len(stack) : IsFd(new[i]) /\ Edge(new[i].fd) => new[i].fd \notin S
  BY <1>4, <1>8
<1>11. \A i \in 1..Len(stack) : ~IsFd(stack[i]) \/ stack[i].fd \notin S => new[i] = stack[i]
  BY <1>8
<1> QED BY <1>7, <1>9, <1>10, <1>11 DEF new

-----------------------------------------------------------------------------
(* The kernel and the operations of the client. *)

LEMMA KernelInv ==
  ASSUME IInv, Kernel \/ \E f \in Fds \ Intervals : \E e \in {"in", "out"} : Consume(f, e)
  PROVE  IInv'
<1>1. /\ UNCHANGED <<registered, flags, cur_fds, stack, interest, gone, owed>>
      /\ ready' \in [Fds -> SUBSET Ready] /\ armed' \in [Fds -> BOOLEAN]
      /\ \A f \in Intervals : ready'[f] \subseteq {"in"}
  <2>1. ready \in [Fds -> SUBSET Ready] /\ armed \in [Fds -> BOOLEAN] /\ \A f \in Intervals : ready[f] \subseteq {"in"}
    BY DEF IInv, TypeOK, IntervalsOK
  <2>2. CASE Kernel
    <3>1. PICK f \in Fds, e \in Ready : e \in KernelEvents[f] /\ Arrive(f, e)
      BY <2>2 DEF Kernel
    <3>2. f \in Intervals => e = "in"
      BY <3>1, EventsAssumption DEF EventsAssumption
    <3>3. Intervals \subseteq Fds
      BY EventsAssumption DEF EventsAssumption
    <3> QED BY <2>1, <3>1, <3>2, <3>3 DEF Arrive, uvars
  <2>3. CASE \E f \in Fds \ Intervals : \E e \in {"in", "out"} : Consume(f, e)
    <3>1. PICK f \in Fds \ Intervals, e \in {"in", "out"} : Consume(f, e)
      BY <2>3
    <3> QED BY <2>1, <3>1 DEF Consume, uvars
  <2> QED BY <2>2, <2>3
<1> QED BY <1>1 DEF IInv, TypeOK, Registered, IntervalsOK

LEMMA AddedInv ==
  ASSUME IInv, NEW f \in Fds, NEW fl \in FlagSets[f],
         interest' = [interest EXCEPT ![f] = Mask(fl)],
         registered' = [registered EXCEPT ![f] = TRUE],
         flags' = [flags EXCEPT ![f] = fl],
         gone' = [gone EXCEPT ![f] = FALSE],
         ready' \in {ready, [ready EXCEPT ![f] = {}]}, armed' \in [Fds -> BOOLEAN],
         owed' \in [Fds -> SUBSET (RW \cup {"ERROR"})], \A x \in Fds : owed'[x] \subseteq owed[x],
         ~registered[f] => owed'[f] = {},
         UNCHANGED <<cur_fds, stack>>
  PROVE  IInv'
<1>1. fl \subseteq Flags /\ Mask(fl) \subseteq Ready /\ Intervals \subseteq Fds
  BY EventsAssumption DEF EventsAssumption, Mask, Ready
<1>2. /\ interest \in [Fds -> SUBSET Ready] /\ ready \in [Fds -> SUBSET Ready]
      /\ registered \in [Fds -> BOOLEAN] /\ gone \in [Fds -> BOOLEAN] /\ flags \in [Fds -> SUBSET Flags]
  BY DEF IInv, TypeOK
<1>3. interest' \in [Fds -> SUBSET Ready] /\ ready' \in [Fds -> SUBSET Ready]
  BY <1>1, <1>2
<1>4. registered' \in [Fds -> BOOLEAN] /\ gone' \in [Fds -> BOOLEAN] /\ flags' \in [Fds -> SUBSET Flags]
  BY <1>1, <1>2
<1>5. \A x \in Fds : (registered[x] => registered'[x]) /\ (gone'[x] => gone[x]) /\ ready'[x] \subseteq ready[x]
  BY <1>2
<1>6. TypeOK'
  BY <1>3, <1>4 DEF IInv, TypeOK
<1>7. Registered'
  BY <1>2 DEF IInv, Registered
<1>8. IntervalsOK'
  BY <1>1, <1>5 DEF IInv, IntervalsOK
<1>9. CurOK(cur_fds, gone') /\ FramesOK(stack, registered') /\ FailedOK(cur_fds, stack, registered')
  <2>1. CurOK(cur_fds, gone')
    BY <1>5 DEF IInv, CurOK
  <2>2. FramesOK(stack, registered')
    BY <1>5 DEF IInv, FramesOK, IsFd
  <2>3. FailedOK(cur_fds, stack, registered')
    BY <1>5 DEF IInv, FailedOK
  <2> QED BY <2>1, <2>2, <2>3
<1>10. Kept(cur_fds, stack, registered', owed')
  <2> SUFFICES ASSUME NEW x \in Fds, NEW e \in owed'[x] PROVE Waits(cur_fds, stack, registered', x, e)
    BY DEF Kept
  <2>1. Waits(cur_fds, stack, registered, x, e)
    BY DEF IInv, Kept
  <2>2. registered'[x] = registered[x]
    <3>1. x = f => registered[x] /\ registered'[x]
      BY <1>2
    <3> QED BY <1>2, <3>1
  <2> QED BY <2>1, <2>2 DEF Waits, Has
<1> QED BY <1>6, <1>7, <1>8, <1>9, <1>10 DEF IInv

LEMMA AddInv ==
  ASSUME IInv, NEW f \in Fds,
         \/ \E fl \in FlagSets[f] : uloop_fd_add(f, fl)
         \/ uloop_interval_set(f)
  PROVE  IInv'
<1>1. armed \in [Fds -> BOOLEAN] /\ owed \in [Fds -> SUBSET (RW \cup {"ERROR"})]
  BY DEF IInv, TypeOK
<1>2. CASE \E fl \in FlagSets[f] : uloop_fd_add(f, fl)
  <2>1. PICK fl \in FlagSets[f] : uloop_fd_add(f, fl)
    BY <1>2
  <2>2. armed' \in [Fds -> BOOLEAN]
    BY <1>1, <2>1 DEF uloop_fd_add
  <2>3. /\ owed' \in [Fds -> SUBSET (RW \cup {"ERROR"})] /\ \A x \in Fds : owed'[x] \subseteq owed[x]
        /\ ~registered[f] => owed'[f] = {}
    <3>1. owed' = [owed EXCEPT ![f] = IF registered[f] THEN @ \ {"ERROR"} ELSE {}]
      BY <2>1 DEF uloop_fd_add
    <3> QED BY <1>1, <3>1
  <2> QED BY <2>1, <2>2, <2>3, AddedInv DEF uloop_fd_add
<1>3. CASE uloop_interval_set(f)
  <2>1. {"READ"} \in FlagSets[f]
    BY <1>3, EventsAssumption DEF EventsAssumption, uloop_interval_set
  <2>2. armed' \in [Fds -> BOOLEAN]
    BY <1>1, <1>3 DEF uloop_interval_set
  <2>3. owed' = owed /\ (~registered[f] => owed[f] = {})
    BY <1>3 DEF IInv, IntervalsOK, uloop_interval_set
  <2> QED BY <1>1, <1>3, <2>1, <2>2, <2>3, AddedInv DEF uloop_interval_set
<1> QED BY <1>2, <1>3

\* What a deletion does to the tables; the stack and the report are the
\* matter of the lemmas below.
LEMMA TablesDeleted ==
  ASSUME IInv, NEW f \in Fds,
         registered' = [registered EXCEPT ![f] = FALSE],
         flags' = [flags EXCEPT ![f] = {}],
         interest' = [interest EXCEPT ![f] = {}],
         armed' = [armed EXCEPT ![f] = FALSE],
         gone' = [gone EXCEPT ![f] = TRUE],
         owed' = [owed EXCEPT ![f] = {}],
         ready' \in {ready, [ready EXCEPT ![f] = {}]},
         cur_fds' \in Seq(Entry), stack' \in Seq(Frame)
  PROVE  /\ TypeOK' /\ Registered' /\ IntervalsOK'
         /\ ~registered'[f] /\ owed'[f] = {} /\ gone'[f]
         /\ \A x \in Fds : x # f => registered'[x] = registered[x] /\ owed'[x] = owed[x] /\ gone'[x] = gone[x]
<1>1. /\ interest \in [Fds -> SUBSET Ready] /\ ready \in [Fds -> SUBSET Ready]
      /\ registered \in [Fds -> BOOLEAN] /\ gone \in [Fds -> BOOLEAN] /\ armed \in [Fds -> BOOLEAN]
      /\ flags \in [Fds -> SUBSET Flags] /\ owed \in [Fds -> SUBSET (RW \cup {"ERROR"})]
  BY DEF IInv, TypeOK
<1>2. registered' \in [Fds -> BOOLEAN] /\ gone' \in [Fds -> BOOLEAN] /\ armed' \in [Fds -> BOOLEAN]
  BY <1>1
<1>3. interest' \in [Fds -> SUBSET Ready] /\ ready' \in [Fds -> SUBSET Ready]
  BY <1>1
<1>4. flags' \in [Fds -> SUBSET Flags] /\ owed' \in [Fds -> SUBSET (RW \cup {"ERROR"})]
  BY <1>1
<1>5. TypeOK'
  BY <1>2, <1>3, <1>4 DEF TypeOK
<1>6. Registered'
  BY <1>1 DEF IInv, Registered
<1>7. \A x \in Fds : ready'[x] \subseteq ready[x]
  BY <1>1
<1>8. /\ ~registered'[f] /\ owed'[f] = {} /\ gone'[f]
      /\ \A x \in Fds : x # f => registered'[x] = registered[x] /\ owed'[x] = owed[x] /\ gone'[x] = gone[x]
  BY <1>1
<1>9. IntervalsOK'
  <2>1. Intervals \subseteq Fds
    BY EventsAssumption DEF EventsAssumption
  <2> QED BY <1>7, <1>8, <2>1 DEF IInv, IntervalsOK
<1> QED BY <1>5, <1>6, <1>8, <1>9

\* uloop_fd_delete.
LEMMA DeleteInv ==
  ASSUME IInv, NEW f \in Fds, Delete(f), ready' \in {ready, [ready EXCEPT ![f] = {}]}
  PROVE  IInv'
<1> DEFINE clr(k) == [cur_fds[k] EXCEPT !.fd = NoFd]
<1>1. /\ cur_fds \in Seq(Entry) /\ Len(cur_fds) \in Nat /\ DOMAIN cur_fds = 1..Len(cur_fds)
      /\ \A k \in 1..Len(cur_fds) : cur_fds[k] \in Entry
      /\ stack \in Seq(Frame) /\ NoFd \notin Fds
  BY EventsAssumption DEF IInv, TypeOK, EventsAssumption
<1>2. ASSUME NEW k \in 1..Len(cur_fds) PROVE clr(k) \in Entry /\ clr(k).fd = NoFd /\ clr(k).events = cur_fds[k].events
  <2>1. cur_fds[k] \in Entry
    BY <1>1
  <2> QED BY <2>1 DEF Entry
<1>3. cur_fds' = [k \in 1..Len(cur_fds) |-> IF cur_fds[k].fd = f THEN clr(k) ELSE cur_fds[k]]
  BY <1>1 DEF Delete
<1> HIDE DEF clr
<1>4. \A k \in 1..Len(cur_fds) : (IF cur_fds[k].fd = f THEN clr(k) ELSE cur_fds[k]) \in Entry
  BY <1>1, <1>2
<1>5. /\ cur_fds' \in Seq(Entry) /\ Len(cur_fds') = Len(cur_fds)
      /\ \A k \in 1..Len(cur_fds) : cur_fds'[k] = IF cur_fds[k].fd = f THEN clr(k) ELSE cur_fds[k]
  BY <1>1, <1>3, <1>4
<1>6. ASSUME NEW k \in 1..Len(cur_fds), cur_fds'[k].fd \in Fds
      PROVE  cur_fds'[k] = cur_fds[k] /\ cur_fds[k].fd # f
  BY <1>1, <1>2, <1>5, <1>6
<1>7. /\ stack' \in Seq(Frame) /\ Len(stack') = Len(stack) /\ Fewer(stack, stack')
      /\ \A j \in 1..Len(stack) : registered[f] /\ IsFd(stack'[j]) /\ Edge(stack'[j].fd) => stack'[j].fd # f
      /\ \A j \in 1..Len(stack) : IsFd(stack[j]) /\ stack[j].fd # f => stack'[j] = stack[j]
  <2>1. CASE registered[f]
    <3> DEFINE new == Detached({f})
    <3>1. /\ new \in Seq(Frame) /\ Len(new) = Len(stack) /\ Fewer(stack, new)
          /\ \A j \in 1..Len(stack) : IsFd(new[j]) /\ Edge(new[j].fd) => new[j].fd \notin {f}
          /\ \A j \in 1..Len(stack) : ~IsFd(stack[j]) \/ stack[j].fd \notin {f} => new[j] = stack[j]
      BY <2>1, DetachedOK
    <3>2. stack' = new
      BY <2>1 DEF Delete
    <3> HIDE DEF new
    <3> QED BY <3>1, <3>2
  <2>2. CASE ~registered[f]
    <3>1. stack' = stack
      BY <2>2 DEF Delete
    <3> QED BY <1>1, <2>2, <3>1 DEF Fewer
  <2> QED BY <2>1, <2>2
<1>8. /\ TypeOK' /\ Registered' /\ IntervalsOK'
      /\ ~registered'[f] /\ owed'[f] = {} /\ gone'[f]
      /\ \A x \in Fds : x # f => registered'[x] = registered[x] /\ owed'[x] = owed[x] /\ gone'[x] = gone[x]
  BY <1>5, <1>7, TablesDeleted DEF Delete
<1>9. CurOK(cur_fds', gone')
  <2>1. ASSUME NEW k \in 1..Len(cur_fds), NEW j \in 1..Len(cur_fds),
               cur_fds'[k].fd = cur_fds'[j].fd, cur_fds'[k].fd \in Fds
        PROVE  k = j
    BY <1>6, <2>1 DEF IInv, CurOK
  <2>2. ASSUME NEW k \in 1..Len(cur_fds), cur_fds'[k].fd \in Fds \ Intervals PROVE ~gone'[cur_fds'[k].fd]
    BY <1>6, <1>8, <2>2 DEF IInv, CurOK
  <2> QED BY <1>5, <2>1, <2>2 DEF CurOK
<1>10. FramesOK(stack', registered')
  <2>1. FramesOK(stack', registered)
    BY <1>7, FewerFrames DEF IInv
  <2>2. ASSUME NEW j \in 1..Len(stack'), IsFd(stack'[j]), stack'[j].events # {}
        PROVE  Edge(stack'[j].fd) /\ registered'[stack'[j].fd]
    <3>1. Edge(stack'[j].fd) /\ registered[stack'[j].fd] /\ stack'[j].fd \in Fds
      BY <2>1, <2>2 DEF FramesOK, IsFd
    <3>2. stack'[j].fd # f
      BY <1>7, <2>2, <3>1
    <3> QED BY <1>8, <3>1, <3>2
  <2> QED BY <2>1, <2>2 DEF FramesOK
<1>11. FailedOK(cur_fds', stack', registered')
  <2>1. FailedOK(cur_fds, stack', registered)
    BY <1>7, FewerFrames DEF IInv
  <2>2. \A k \in 1..Len(cur_fds) : cur_fds'[k].fd \in Fds
          => cur_fds[k].fd = cur_fds'[k].fd /\ registered'[cur_fds'[k].fd] = registered[cur_fds[k].fd]
    BY <1>6, <1>8
  <2> QED BY <1>5, <2>1, <2>2 DEF FailedOK
<1>12. Kept(cur_fds', stack', registered', owed')
  <2> SUFFICES ASSUME NEW x \in Fds, NEW e \in owed'[x] PROVE Waits(cur_fds', stack', registered', x, e)
    BY DEF Kept
  <2>1. x # f /\ e \in owed[x] /\ Waits(cur_fds, stack, registered, x, e) /\ registered'[x] = registered[x]
    BY <1>8 DEF IInv, Kept
  <2>2. CASE \E k \in 1..Len(cur_fds) : Has(cur_fds[k], registered, x, e)
    BY <1>5, <2>1, <2>2 DEF Waits, Has
  <2>3. CASE \E j \in 1..Len(stack) : Holds(stack[j], x, e)
    BY <1>7, <2>1, <2>3 DEF Waits, Holds
  <2> QED BY <2>1, <2>2, <2>3 DEF Waits
<1> QED BY <1>8, <1>9, <1>10, <1>11, <1>12 DEF IInv

LEMMA IntervalsNotEdge == \A f \in Intervals : f \in Fds /\ ~Edge(f)
BY EventsAssumption DEF EventsAssumption, Edge

\* uloop_interval_cancel.
LEMMA IntervalCancelInv ==
  ASSUME IInv, NEW f \in Intervals, uloop_interval_cancel(f)
  PROVE  IInv'
<1>1. f \in Fds /\ ~Edge(f)
  BY IntervalsNotEdge
<1>2. UNCHANGED <<cur_fds, stack>> /\ cur_fds \in Seq(Entry) /\ stack \in Seq(Frame)
  BY DEF IInv, TypeOK, uloop_interval_cancel
<1>3. /\ TypeOK' /\ Registered' /\ IntervalsOK'
      /\ ~registered'[f] /\ owed'[f] = {} /\ gone'[f]
      /\ \A x \in Fds : x # f => registered'[x] = registered[x] /\ owed'[x] = owed[x] /\ gone'[x] = gone[x]
  BY <1>1, <1>2, TablesDeleted DEF uloop_interval_cancel
<1>4. CurOK(cur_fds, gone')
  BY <1>3 DEF IInv, CurOK
<1>5. FramesOK(stack, registered')
  BY <1>1, <1>3 DEF IInv, FramesOK, IsFd
<1>6. FailedOK(cur_fds, stack, registered')
  BY <1>1, <1>3 DEF IInv, FailedOK
<1>7. Kept(cur_fds, stack, registered', owed')
  <2> SUFFICES ASSUME NEW x \in Fds, NEW e \in owed'[x] PROVE Waits(cur_fds, stack, registered', x, e)
    BY DEF Kept
  <2>1. Waits(cur_fds, stack, registered, x, e) /\ registered'[x] = registered[x]
    BY <1>3 DEF IInv, Kept
  <2> QED BY <2>1 DEF Waits, Has
<1> QED BY <1>2, <1>3, <1>4, <1>5, <1>6, <1>7 DEF IInv

-----------------------------------------------------------------------------
(* uloop_fetch_events and the rounds of uloop_run_events. *)

LEMMA FetchInv ==
  ASSUME IInv, NEW fds \in Reports, uloop_fetch_events(fds)
  PROVE  IInv'
<1> DEFINE S == {fds[k] : k \in DOMAIN fds}
           D == Failed(S)
           ent(k) == [fd |-> fds[k], events |-> Events(fds[k])]
<1>1. PICK n \in 1..MaxEvents : fds \in [1..n -> Fds] /\ \A k, j \in 1..n : fds[k] = fds[j] => k = j
  BY DEF Reports
<1>2. /\ n \in Nat /\ DOMAIN fds = 1..n /\ NoFd \notin Fds
      /\ \A k \in 1..n : fds[k] \in Fds /\ fds[k] \in S
      /\ S \subseteq Fds /\ D \subseteq S /\ \A f \in S : \E k \in 1..n : fds[k] = f
  BY <1>1, EventsAssumption DEF EventsAssumption, Failed
<1>3. /\ InLoop("top") /\ cur_fds = <<>> /\ \A f \in S : armed[f] /\ Report(f) # {}
      /\ cur_fds' = [k \in 1..n |-> ent(k)]
      /\ registered' = [f \in Fds |-> registered[f] /\ f \notin D]
      /\ flags' = [f \in Fds |-> IF f \in D THEN {} ELSE flags[f]]
      /\ interest' = [f \in Fds |-> IF f \in D THEN {} ELSE interest[f]]
      /\ armed' = [f \in Fds |-> armed[f] /\ f \notin D /\ ~(f \in S /\ "EDGE_TRIGGER" \in flags[f])]
      /\ stack' = [Detached(D) EXCEPT ![Len(stack)] = LoopFrame("events")]
      /\ owed' = [f \in Fds |-> IF f \in S THEN owed[f] \cup Due(f) ELSE owed[f]]
      /\ UNCHANGED <<ready, gone>>
  BY <1>2 DEF uloop_fetch_events, Depth
<1>4. /\ registered \in [Fds -> BOOLEAN] /\ flags \in [Fds -> SUBSET Flags] /\ interest \in [Fds -> SUBSET Ready]
      /\ armed \in [Fds -> BOOLEAN] /\ owed \in [Fds -> SUBSET (RW \cup {"ERROR"})] /\ stack \in Seq(Frame)
      /\ ready \in [Fds -> SUBSET Ready] /\ gone \in [Fds -> BOOLEAN]
  BY DEF IInv, TypeOK
<1>5. \A f \in S : registered[f] /\ ~gone[f]
  BY <1>2, <1>3 DEF IInv, Registered, Report
<1>6. \A f \in Intervals : f \notin D /\ "ERROR" \notin Due(f)
  BY DEF IInv, IntervalsOK, Failed, Report, Due, Events
<1>7. \A f \in Fds : Events(f) \subseteq RW /\ Due(f) \subseteq Events(f) \cup {"ERROR"}
  BY DEF Events, Due, RW
<1>8. \A k \in 1..n : ent(k) \in Entry /\ ent(k).fd = fds[k] /\ ent(k).events = Events(fds[k])
  BY <1>2, <1>7 DEF Entry
<1> HIDE DEF ent, D, S
<1>9. /\ cur_fds' \in Seq(Entry) /\ Len(cur_fds') = n
      /\ \A k \in 1..n : cur_fds'[k].fd = fds[k] /\ cur_fds'[k].events = Events(fds[k])
  BY <1>2, <1>3, <1>8
<1>10. CurOK(cur_fds', gone')
  BY <1>1, <1>2, <1>3, <1>5, <1>9 DEF CurOK
<1>11. /\ stack' \in Seq(Frame) /\ Len(stack') = Len(stack) /\ Fewer(stack, stack')
       /\ \A j \in 1..Len(stack) : IsFd(stack'[j]) /\ Edge(stack'[j].fd) => stack'[j].fd \notin D
       /\ \A j \in 1..Len(stack) : IsFd(stack[j]) /\ stack[j].fd \notin D => stack'[j] = stack[j]
  <2> DEFINE mid == Detached(D)
  <2>1. D \in SUBSET Fds /\ \A f \in D : registered[f]
    BY <1>2, <1>5
  <2>2. /\ mid \in Seq(Frame) /\ Len(mid) = Len(stack) /\ Fewer(stack, mid)
        /\ \A j \in 1..Len(stack) : IsFd(mid[j]) /\ Edge(mid[j].fd) => mid[j].fd \notin D
        /\ \A j \in 1..Len(stack) : ~IsFd(stack[j]) \/ stack[j].fd \notin D => mid[j] = stack[j]
    BY <2>1, DetachedOK
  <2>3. stack # <<>> /\ ~IsFd(stack[Len(stack)]) /\ Len(stack) \in 1..Len(stack)
    BY <1>3, <1>4 DEF InLoop, IsFd, Depth
  <2> HIDE DEF mid
  <2>4. mid # <<>> /\ ~IsFd(mid[Len(mid)])
    BY <2>2, <2>3
  <2>5. stack' = [mid EXCEPT ![Len(mid)] = LoopFrame("events")]
    BY <1>3, <2>2 DEF mid
  <2>6. /\ stack' \in Seq(Frame) /\ Len(stack') = Len(mid) /\ ~IsFd(stack'[Len(mid)])
        /\ \A j \in 1..Len(mid) : j # Len(mid) => stack'[j] = mid[j]
    BY <2>2, <2>4, <2>5, TopReplaced, LoopFrameOK
  <2>7. Fewer(stack, stack')
    BY <2>2, <2>6 DEF Fewer
  <2> QED BY <2>2, <2>3, <2>6, <2>7
<1>12. /\ \A f \in Fds : registered'[f] <=> registered[f] /\ f \notin D
       /\ \A f \in Fds : owed'[f] = IF f \in S THEN owed[f] \cup Due(f) ELSE owed[f]
  BY <1>3
<1>13. TypeOK'
  <2>1. registered' \in [Fds -> BOOLEAN] /\ armed' \in [Fds -> BOOLEAN]
    BY <1>3
  <2>2. flags' \in [Fds -> SUBSET Flags] /\ interest' \in [Fds -> SUBSET Ready]
    BY <1>3, <1>4
  <2>3. owed' \in [Fds -> SUBSET (RW \cup {"ERROR"})]
    BY <1>3, <1>4, <1>7
  <2> QED BY <1>3, <1>4, <1>9, <1>11, <2>1, <2>2, <2>3 DEF TypeOK
<1>14. Registered'
  BY <1>3 DEF IInv, Registered
<1>15. IntervalsOK'
  <2> SUFFICES ASSUME NEW f \in Intervals
               PROVE  ready'[f] \subseteq {"in"} /\ "ERROR" \notin owed'[f] /\ (~registered'[f] => owed'[f] = {})
    BY DEF IntervalsOK
  <2>1. f \in Fds /\ f \notin D
    BY <1>6, IntervalsNotEdge
  <2>2. "ERROR" \notin Due(f)
    BY <1>6
  <2> QED BY <1>3, <1>5, <1>12, <2>1, <2>2 DEF IInv, IntervalsOK
<1>16. FramesOK(stack', registered')
  <2>1. FramesOK(stack', registered)
    BY <1>11, FewerFrames DEF IInv
  <2>2. ASSUME NEW j \in 1..Len(stack'), IsFd(stack'[j]), stack'[j].events # {}
        PROVE  Edge(stack'[j].fd) /\ registered'[stack'[j].fd]
    BY <1>11, <1>12, <2>1, <2>2 DEF FramesOK, IsFd
  <2> QED BY <2>1, <2>2 DEF FramesOK
<1>17. ASSUME NEW f \in Fds, NEW e \in owed[f]
       PROVE  \E j \in 1..Len(stack) : Holds(stack[j], f, e)
  <2>1. Waits(cur_fds, stack, registered, f, e) /\ Len(cur_fds) = 0
    BY <1>3 DEF IInv, Kept
  <2> QED BY <2>1 DEF Waits
<1>18. FailedOK(cur_fds', stack', registered')
  <2> SUFFICES ASSUME NEW k \in 1..n, NEW j \in 1..Len(stack), Edge(fds[k]), ~registered'[fds[k]]
               PROVE  ~(IsFd(stack'[j]) /\ stack'[j].fd = fds[k])
    BY <1>9, <1>11 DEF FailedOK
  <2>1. fds[k] \in Fds /\ registered[fds[k]]
    BY <1>2, <1>5
  <2>2. fds[k] \in D
    BY <1>12, <2>1
  <2> QED BY <1>11, <2>2
<1>19. Kept(cur_fds', stack', registered', owed')
  <2> SUFFICES ASSUME NEW f \in Fds, NEW e \in owed'[f] PROVE Waits(cur_fds', stack', registered', f, e)
    BY DEF Kept
  <2>1. ASSUME f \in S, e \in Due(f) \/ f \in D PROVE Waits(cur_fds', stack', registered', f, e)
    <3>1. PICK k \in 1..n : fds[k] = f
      BY <1>2, <2>1
    <3>2. e \in Events(f) \cup {"ERROR"} \/ ~registered'[f]
      BY <1>7, <1>12, <2>1
    <3>3. Has(cur_fds'[k], registered', f, e)
      BY <1>9, <3>1, <3>2 DEF Has
    <3> QED BY <1>9, <3>3 DEF Waits
  <2>2. CASE f \in D
    BY <1>2, <2>1, <2>2
  <2>3. CASE f \notin D /\ e \in owed[f]
    <3>1. PICK j \in 1..Len(stack) : Holds(stack[j], f, e)
      BY <1>17, <2>3
    <3>2. stack'[j] = stack[j]
      BY <1>11, <2>3, <3>1 DEF Holds
    <3> QED BY <1>11, <3>1, <3>2 DEF Waits
  <2>4. e \in owed[f] \/ (f \in S /\ e \in Due(f))
    BY <1>12
  <2> QED BY <2>1, <2>2, <2>3, <2>4
<1> QED BY <1>10, <1>13, <1>14, <1>15, <1>16, <1>18, <1>19 DEF IInv

\* A round takes the first entry and changes the stack and the debt.
LEMMA TakenInv ==
  ASSUME IInv, cur_fds # <<>>, cur_fds' = Tail(cur_fds),
         UNCHANGED <<registered, flags, interest, armed, gone>>,
         ready' \in [Fds -> SUBSET Ready], \A f \in Fds : ready'[f] \subseteq ready[f],
         owed' \in [Fds -> SUBSET (RW \cup {"ERROR"})], \A f \in Fds : owed'[f] \subseteq owed[f],
         stack' \in Seq(Frame), FramesOK(stack', registered),
         FailedOK(Tail(cur_fds), stack', registered), Kept(Tail(cur_fds), stack', registered, owed')
  PROVE  IInv'
<1>1. Tail(cur_fds) \in Seq(Entry) /\ CurOK(Tail(cur_fds), gone)
  BY Taken DEF IInv, TypeOK
<1>2. TypeOK'
  BY <1>1 DEF IInv, TypeOK
<1>3. Registered'
  BY DEF IInv, Registered
<1>4. IntervalsOK'
  <2>1. Intervals \subseteq Fds
    BY EventsAssumption DEF EventsAssumption
  <2> QED BY <2>1 DEF IInv, IntervalsOK
<1> QED BY <1>1, <1>2, <1>3, <1>4 DEF IInv

LEMMA FailedTail ==
  ASSUME NEW c \in Seq(Entry), c # <<>>, NEW g, CurOK(c, g), NEW st, NEW reg, FailedOK(c, st, reg)
  PROVE  FailedOK(Tail(c), st, reg)
<1>1. \A k \in 1..Len(Tail(c)) : k + 1 \in 1..Len(c) /\ Tail(c)[k] = c[k + 1]
  BY Taken
<1> QED BY <1>1 DEF FailedOK

LEMMA SkipInv ==
  ASSUME IInv, SkipEntry
  PROVE  IInv'
<1> DEFINE t == Tail(cur_fds)
<1>1. /\ cur_fds # <<>> /\ NoCallback(Head(cur_fds).fd) /\ cur_fds' = t
      /\ UNCHANGED <<registered, flags, interest, armed, gone, stack, ready, owed>>
  BY DEF SkipEntry, uvars, kvars
<1>2. /\ cur_fds \in Seq(Entry) /\ CurOK(cur_fds, gone) /\ NoFd \notin Fds
      /\ ready \in [Fds -> SUBSET Ready] /\ owed \in [Fds -> SUBSET (RW \cup {"ERROR"})] /\ stack \in Seq(Frame)
  BY EventsAssumption DEF EventsAssumption, IInv, TypeOK
<1>3. FailedOK(t, stack, registered)
  BY <1>1, <1>2, FailedTail DEF IInv
<1>4. Kept(t, stack, registered, owed)
  <2> SUFFICES ASSUME NEW f \in Fds, NEW e \in owed[f] PROVE Waits(t, stack, registered, f, e)
    BY DEF Kept
  <2>1. Waits(cur_fds, stack, registered, f, e)
    BY DEF IInv, Kept
  <2>2. ~Has(Head(cur_fds), registered, f, e)
    BY <1>1, <1>2 DEF Has, NoCallback, IInv, IntervalsOK
  <2> QED BY <1>1, <1>2, <2>1, <2>2, TakenWaits
<1>5. FramesOK(stack, registered)
  BY DEF IInv
<1> QED BY <1>1, <1>2, <1>3, <1>4, <1>5, TakenInv

\* An edge-triggered descriptor is waiting in the report and its callback runs:
\* the events go to its frame.
LEMMA BufferInv ==
  ASSUME IInv, BufferEntry
  PROVE  IInv'
<1> DEFINE t == Tail(cur_fds)
           f == Head(cur_fds).fd
           ev == Head(cur_fds).events
           grown(j) == [stack[j] EXCEPT !.events = @ \cup ev]
<1>1. /\ cur_fds # <<>> /\ f # NoFd /\ Found(f) # {} /\ cur_fds' = t /\ stack' = Buffer(f, ev)
      /\ owed' = IF \A k \in Found(f) : stack'[k].events = {}
                 THEN [owed EXCEPT ![f] = @ \ {"ERROR"}] ELSE owed
      /\ UNCHANGED <<registered, flags, interest, armed, gone, ready>>
  BY DEF BufferEntry, uvars, kvars, NoCallback
<1>2. /\ cur_fds \in Seq(Entry) /\ CurOK(cur_fds, gone)
      /\ ready \in [Fds -> SUBSET Ready] /\ owed \in [Fds -> SUBSET (RW \cup {"ERROR"})]
      /\ stack \in Seq(Frame) /\ Len(stack) \in Nat /\ \A j \in 1..Len(stack) : stack[j] \in Frame
  BY DEF IInv, TypeOK
<1>3. Head(cur_fds) = cur_fds[1] /\ Head(cur_fds) \in Entry /\ 1 \in 1..Len(cur_fds)
  BY <1>1, <1>2, Taken
<1>4. f \in Fds /\ ev \in SUBSET RW
  BY <1>1, <1>3 DEF Entry
<1>5. PICK i \in 1..Len(stack) : IsFd(stack[i]) /\ stack[i].fd = f /\ registered[f] /\ Edge(f)
  BY <1>1, <1>4, FoundIs
<1>6. \A j \in 1..Len(stack) : j \in Found(f) <=> j = i
  <2>1. \A j \in 1..Len(stack) : j \in Found(f) <=> IsFd(stack[j]) /\ stack[j].fd = f
    BY <1>4, <1>5, FoundIs
  <2> QED BY <1>5, <2>1 DEF IInv, FramesOK
<1>7. grown(i) \in Frame /\ grown(i).kind = stack[i].kind /\ grown(i).fd = f /\ grown(i).events = stack[i].events \cup ev
  <2>1. stack[i] \in Frame
    BY <1>2
  <2> QED BY <1>4, <1>5, <2>1 DEF Frame, RW
<1>8. stack' = [j \in 1..Len(stack) |-> IF j \in Found(f) THEN grown(j) ELSE stack[j]]
  BY <1>1 DEF Buffer, Depth
<1> HIDE DEF grown, t, f, ev
<1>9. \A j \in 1..Len(stack) : (IF j \in Found(f) THEN grown(j) ELSE stack[j]) \in Frame
  BY <1>2, <1>6, <1>7
<1>10. /\ stack' \in Seq(Frame) /\ Len(stack') = Len(stack) /\ stack'[i] = grown(i)
       /\ \A j \in 1..Len(stack) : j # i => stack'[j] = stack[j]
  BY <1>2, <1>6, <1>8, <1>9
<1>11. IsFd(stack'[i]) /\ stack'[i].fd = f /\ stack'[i].events = stack[i].events \cup ev
  BY <1>4, <1>5, <1>7, <1>10 DEF IsFd
<1>12. \A j \in 1..Len(stack) : IsFd(stack'[j]) => IsFd(stack[j]) /\ stack'[j].fd = stack[j].fd
  BY <1>5, <1>10, <1>11
<1>13. FramesOK(stack', registered)
  <2>1. ASSUME NEW k \in 1..Len(stack'), NEW j \in 1..Len(stack'),
               IsFd(stack'[k]), Edge(stack'[k].fd), IsFd(stack'[j]), stack'[j].fd = stack'[k].fd
        PROVE  k = j
    <3>1. k \in 1..Len(stack) /\ j \in 1..Len(stack)
      BY <1>10
    <3>2. /\ IsFd(stack[k]) /\ IsFd(stack[j]) /\ stack'[k].fd = stack[k].fd /\ stack'[j].fd = stack[j].fd
      BY <1>12, <2>1, <3>1
    <3>3. Edge(stack[k].fd) /\ stack[j].fd = stack[k].fd
      BY <2>1, <3>2
    <3>4. FramesOK(stack, registered)
      BY DEF IInv
    <3> QED BY <3>1, <3>2, <3>3, <3>4 DEF FramesOK
  <2>2. ASSUME NEW j \in 1..Len(stack'), IsFd(stack'[j]), stack'[j].events # {}
        PROVE  Edge(stack'[j].fd) /\ registered[stack'[j].fd]
    BY <1>5, <1>10, <1>11, <2>2 DEF IInv, FramesOK
  <2> QED BY <2>1, <2>2 DEF FramesOK
<1>14. FailedOK(t, stack', registered)
  <2>1. FailedOK(t, stack, registered)
    BY <1>1, <1>2, FailedTail DEF IInv, t
  <2>2. \A j \in 1..Len(stack') : j \in 1..Len(stack) /\ (IsFd(stack'[j]) => IsFd(stack[j]) /\ stack'[j].fd = stack[j].fd)
    BY <1>10, <1>12
  <2> QED BY <2>1, <2>2 DEF FailedOK
<1>15. /\ owed' \in [Fds -> SUBSET (RW \cup {"ERROR"})] /\ \A x \in Fds : owed'[x] \subseteq owed[x]
       /\ stack'[i].events = {} => "ERROR" \notin owed'[f]
  <2>1. (\A k \in Found(f) : stack'[k].events = {}) <=> stack'[i].events = {}
    <3>1. \A k \in Found(f) : k = i
      BY <1>4, <1>6, FoundIs
    <3> QED BY <1>5, <1>6, <3>1
  <2>2. owed' = IF stack'[i].events = {} THEN [owed EXCEPT ![f] = @ \ {"ERROR"}] ELSE owed
    BY <1>1, <2>1
  <2> QED BY <1>2, <1>4, <2>2
<1>16. Kept(t, stack', registered, owed')
  <2> SUFFICES ASSUME NEW x \in Fds, NEW e \in owed'[x] PROVE Waits(t, stack', registered, x, e)
    BY DEF Kept
  <2>1. Waits(cur_fds, stack, registered, x, e)
    BY <1>15 DEF IInv, Kept
  <2>2. CASE x = f /\ (e \in ev \/ e = "ERROR")
    <3>1. e = "ERROR" => stack'[i].events # {}
      BY <1>15, <2>2
    <3>2. Holds(stack'[i], x, e)
      BY <1>11, <2>2, <3>1 DEF Holds
    <3> QED BY <1>10, <3>2 DEF Waits
  <2>3. CASE ~(x = f /\ (e \in ev \/ e = "ERROR"))
    <3>1. ~Has(Head(cur_fds), registered, x, e)
      BY <1>5, <2>3 DEF Has, f, ev
    <3>2. Waits(t, stack, registered, x, e)
      BY <1>1, <1>2, <2>1, <3>1, TakenWaits DEF t
    <3>3. ASSUME NEW j \in 1..Len(stack), Holds(stack[j], x, e)
          PROVE  Holds(stack'[j], x, e)
      <4>1. CASE j = i
        BY <1>5, <1>11, <3>3, <4>1 DEF Holds
      <4>2. CASE j # i
        BY <1>10, <3>3, <4>2
      <4> QED BY <4>1, <4>2
    <3> QED BY <1>10, <3>2, <3>3 DEF Waits
  <2> QED BY <2>2, <2>3
<1> QED BY <1>1, <1>2, <1>10, <1>13, <1>14, <1>15, <1>16, TakenInv DEF t

\* The callback of f starts.
LEMMA CallInv ==
  ASSUME IInv, NEW f \in Fds, Call(f)
  PROVE  IInv'
<1> DEFINE t == Tail(cur_fds)
           hd == Head(cur_fds)
           n == Len(stack)
           mid == [stack EXCEPT ![n] = LoopFrame("top")]
<1>1. /\ InLoop("events") /\ cur_fds # <<>> /\ f = hd.fd /\ Found(f) = {} /\ cur_fds' = t
      /\ ready' = IF f \in Intervals THEN [ready EXCEPT ![f] = {}] ELSE ready
      /\ stack' = Append(mid, FdFrame(f))
      /\ owed' = [owed EXCEPT ![f] = IF registered[f] THEN @ \ (hd.events \cup {"ERROR"}) ELSE {}]
      /\ UNCHANGED <<registered, flags, interest, armed, gone>>
  BY DEF Call, uvars, SetTop, Depth
<1>2. /\ cur_fds \in Seq(Entry) /\ CurOK(cur_fds, gone)
      /\ ready \in [Fds -> SUBSET Ready] /\ owed \in [Fds -> SUBSET (RW \cup {"ERROR"})]
      /\ stack \in Seq(Frame)
  BY DEF IInv, TypeOK
<1>3. stack # <<>> /\ ~IsFd(stack[n])
  BY <1>1 DEF InLoop, IsFd, Depth
<1>4. mid \in Seq(Frame) /\ Len(mid) = n /\ Fewer(stack, mid) /\ Same(stack, mid)
  BY <1>2, <1>3, LoopMoves
<1>5. FdFrame(f) \in Frame /\ FdFrame(f).fd = f /\ FdFrame(f).events = {}
  BY DEF FdFrame, Frame
<1>6. hd = cur_fds[1] /\ 1 \in 1..Len(cur_fds)
  BY <1>1, <1>2, Taken
<1>7. Edge(f) => \A j \in 1..n : ~(IsFd(stack[j]) /\ stack[j].fd = f)
  <2>1. CASE registered[f]
    BY <1>1, <2>1, FoundIs
  <2>2. CASE ~registered[f]
    BY <1>1, <1>6, <2>2 DEF IInv, FailedOK
  <2> QED BY <2>1, <2>2
<1> HIDE DEF t, hd, mid
<1>8. /\ stack' \in Seq(Frame) /\ n \in Nat /\ Len(stack') = n + 1 /\ stack'[n + 1] = FdFrame(f)
      /\ \A j \in 1..n : stack'[j] = mid[j]
  BY <1>1, <1>4, <1>5, Pushed
<1> HIDE DEF n
<1>9. ready' \in [Fds -> SUBSET Ready] /\ \A x \in Fds : ready'[x] \subseteq ready[x]
  BY <1>1, <1>2
<1>10. /\ owed' \in [Fds -> SUBSET (RW \cup {"ERROR"})] /\ \A x \in Fds : owed'[x] \subseteq owed[x]
       /\ owed'[f] = IF registered[f] THEN owed[f] \ (hd.events \cup {"ERROR"}) ELSE {}
  BY <1>1, <1>2
<1>11. \A j \in 1..(n + 1) : j \in 1..n \/ j = n + 1
  BY <1>8
<1>12. FramesOK(mid, registered) /\ FailedOK(cur_fds, mid, registered)
  BY <1>4, FewerFrames DEF IInv
<1>13. Edge(f) => \A j \in 1..n : ~(IsFd(mid[j]) /\ mid[j].fd = f)
  BY <1>4, <1>7 DEF Fewer
<1>14. FramesOK(stack', registered)
  <2>1. ASSUME NEW k \in 1..Len(stack'), NEW j \in 1..Len(stack'),
               IsFd(stack'[k]), Edge(stack'[k].fd), IsFd(stack'[j]), stack'[j].fd = stack'[k].fd
        PROVE  k = j
    <3>1. CASE k \in 1..n /\ j \in 1..n
      BY <1>4, <1>8, <1>12, <2>1, <3>1 DEF FramesOK
    <3>2. CASE k \in 1..n /\ j = n + 1
      BY <1>5, <1>8, <1>13, <2>1, <3>2
    <3>3. CASE k = n + 1 /\ j \in 1..n
      BY <1>5, <1>8, <1>13, <2>1, <3>3
    <3> QED BY <1>8, <1>11, <3>1, <3>2, <3>3
  <2>2. ASSUME NEW j \in 1..Len(stack'), IsFd(stack'[j]), stack'[j].events # {}
        PROVE  Edge(stack'[j].fd) /\ registered[stack'[j].fd]
    <3>1. j \in 1..n
      BY <1>5, <1>8, <1>11, <2>2
    <3> QED BY <1>4, <1>8, <1>12, <2>2, <3>1 DEF FramesOK
  <2> QED BY <2>1, <2>2 DEF FramesOK
<1>15. FailedOK(t, stack', registered)
  <2>1. FailedOK(t, mid, registered)
    BY <1>1, <1>2, <1>10, <1>12, FailedTail DEF t
  <2>2. \A k \in 1..Len(t) : t[k].fd # f
    <3>1. \A k \in 1..Len(cur_fds) : cur_fds[k].fd = f => k = 1
      BY <1>1, <1>2, TakenOnce DEF hd
    <3>2. \A k \in 1..Len(t) : k + 1 \in 1..Len(cur_fds) /\ t[k] = cur_fds[k + 1]
      BY <1>1, <1>2, Taken DEF t
    <3>3. \A k \in 1..Len(t) : k + 1 # 1
      OBVIOUS
    <3> QED BY <3>1, <3>2, <3>3
  <2> SUFFICES ASSUME NEW k \in 1..Len(t), NEW j \in 1..Len(stack'),
                      t[k].fd \in Fds, Edge(t[k].fd), ~registered[t[k].fd],
                      IsFd(stack'[j]), stack'[j].fd = t[k].fd
               PROVE  FALSE
    BY DEF FailedOK
  <2>3. j \in 1..n
    BY <1>5, <1>8, <1>11, <2>2
  <2> QED BY <1>4, <1>8, <2>1, <2>3 DEF FailedOK
<1>16. Kept(t, stack', registered, owed')
  <2> SUFFICES ASSUME NEW x \in Fds, NEW e \in owed'[x] PROVE Waits(t, stack', registered, x, e)
    BY DEF Kept
  <2>1. e \in owed[x] /\ ~Has(hd, registered, x, e)
    BY <1>1, <1>10 DEF Has
  <2>2. Waits(cur_fds, stack, registered, x, e)
    BY <2>1 DEF IInv, Kept
  <2>3. Waits(t, stack, registered, x, e)
    BY <1>1, <1>2, <2>1, <2>2, TakenWaits DEF t, hd
  <2>4. Waits(t, mid, registered, x, e)
    BY <1>4, <2>3, SameWaits
  <2>5. \A j \in 1..n : j \in 1..Len(stack') /\ stack'[j] = mid[j]
    BY <1>8
  <2> QED BY <1>4, <2>4, <2>5 DEF Waits
<1> QED BY <1>1, <1>8, <1>9, <1>10, <1>14, <1>15, <1>16, TakenInv DEF t

LEMMA StaleInv ==
  ASSUME IInv, StaleInterval
  PROVE  IInv'
<1> DEFINE t == Tail(cur_fds)
           hd == Head(cur_fds)
<1>1. /\ InLoop("events") /\ cur_fds # <<>> /\ hd.fd \in Intervals /\ registered[hd.fd] /\ cur_fds' = t
      /\ stack' = [stack EXCEPT ![Len(stack)] = LoopFrame("top")]
      /\ owed' = [owed EXCEPT ![hd.fd] = @ \ hd.events]
      /\ UNCHANGED <<registered, flags, interest, armed, gone, ready>>
  BY DEF StaleInterval, NoCallback, uvars, kvars, SetTop, Depth
<1>2. /\ cur_fds \in Seq(Entry) /\ CurOK(cur_fds, gone) /\ ready \in [Fds -> SUBSET Ready]
      /\ owed \in [Fds -> SUBSET (RW \cup {"ERROR"})] /\ stack \in Seq(Frame)
  BY DEF IInv, TypeOK
<1>3. hd.fd \in Fds /\ "ERROR" \notin owed[hd.fd]
  BY <1>1, IntervalsNotEdge DEF IInv, IntervalsOK
<1>4. stack # <<>> /\ ~IsFd(stack[Len(stack)])
  BY <1>1 DEF InLoop, IsFd, Depth
<1>5. stack' \in Seq(Frame) /\ Fewer(stack, stack') /\ Same(stack, stack')
  BY <1>1, <1>2, <1>4, LoopMoves
<1>6. /\ owed' \in [Fds -> SUBSET (RW \cup {"ERROR"})] /\ \A x \in Fds : owed'[x] \subseteq owed[x]
      /\ owed'[hd.fd] = owed[hd.fd] \ hd.events
  BY <1>1, <1>2, <1>3
<1>7. FramesOK(stack', registered) /\ FailedOK(cur_fds, stack', registered)
  BY <1>5, FewerFrames DEF IInv
<1>8. FailedOK(t, stack', registered)
  BY <1>1, <1>2, <1>6, <1>7, FailedTail
<1>9. Kept(t, stack', registered, owed')
  <2> SUFFICES ASSUME NEW x \in Fds, NEW e \in owed'[x] PROVE Waits(t, stack', registered, x, e)
    BY DEF Kept
  <2>1. e \in owed[x] /\ ~Has(hd, registered, x, e)
    BY <1>1, <1>3, <1>6 DEF Has
  <2>2. Waits(cur_fds, stack, registered, x, e)
    BY <2>1 DEF IInv, Kept
  <2>3. Waits(t, stack, registered, x, e)
    BY <1>1, <1>2, <2>1, <2>2, TakenWaits
  <2> QED BY <1>5, <2>3, SameWaits
<1> QED BY <1>1, <1>2, <1>5, <1>6, <1>7, <1>8, <1>9, TakenInv

\* The callback of f runs again for what was buffered.
LEMMA CallAgainInv ==
  ASSUME IInv, NEW f \in Fds, CallAgain(f)
  PROVE  IInv'
<1> DEFINE n == Len(stack)
           ev == stack[n].events
<1>1. /\ stack # <<>> /\ stack[n].kind = "fd" /\ stack[n].fd = f
      /\ stack' = [stack EXCEPT ![n] = FdFrame(f)]
      /\ owed' = [owed EXCEPT ![f] = @ \ (ev \cup {"ERROR"})]
      /\ UNCHANGED <<registered, flags, cur_fds, interest, ready, armed, gone>>
  BY DEF CallAgain, InLoop, SetTop, Depth, uvars, kvars
<1>2. /\ stack \in Seq(Frame) /\ owed \in [Fds -> SUBSET (RW \cup {"ERROR"})]
  BY DEF IInv, TypeOK
<1>3. FdFrame(f) \in Frame /\ FdFrame(f).events = {} /\ FdFrame(f).fd = f
  BY DEF FdFrame, Frame
<1>4. /\ stack' \in Seq(Frame) /\ Len(stack') = n /\ stack'[n] = FdFrame(f)
      /\ \A j \in 1..n : j # n => stack'[j] = stack[j]
  BY <1>1, <1>2, <1>3, TopReplaced
<1> HIDE DEF n
<1>5. Fewer(stack, stack')
  BY <1>1, <1>3, <1>4 DEF Fewer, n, IsFd
<1>6. /\ owed' \in [Fds -> SUBSET (RW \cup {"ERROR"})] /\ \A x \in Fds : owed'[x] \subseteq owed[x]
      /\ owed'[f] = owed[f] \ (ev \cup {"ERROR"})
  BY <1>1, <1>2
<1>7. FramesOK(stack', registered) /\ FailedOK(cur_fds, stack', registered)
  BY <1>5, FewerFrames DEF IInv
<1>8. FailedOK(cur_fds, stack', registered)
  BY <1>6, <1>7 DEF FailedOK
<1>9. Kept(cur_fds, stack', registered, owed')
  <2> SUFFICES ASSUME NEW x \in Fds, NEW e \in owed'[x] PROVE Waits(cur_fds, stack', registered, x, e)
    BY DEF Kept
  <2>1. e \in owed[x] /\ (x = f => e \notin ev \cup {"ERROR"})
    BY <1>6
  <2>2. Waits(cur_fds, stack, registered, x, e)
    BY <2>1 DEF IInv, Kept
  <2>3. ASSUME NEW j \in 1..Len(stack), Holds(stack[j], x, e)
        PROVE  j \in 1..Len(stack') /\ stack'[j] = stack[j]
    BY <1>1, <1>4, <2>1, <2>3 DEF n, Holds
  <2> QED BY <2>2, <2>3 DEF Waits
<1>10. TypeOK'
  BY <1>1, <1>4, <1>6 DEF IInv, TypeOK
<1>11. Registered'
  BY <1>1 DEF IInv, Registered
<1>12. IntervalsOK'
  <2>1. Intervals \subseteq Fds
    BY EventsAssumption DEF EventsAssumption
  <2> QED BY <1>1, <1>6, <2>1 DEF IInv, IntervalsOK
<1> QED BY <1>1, <1>7, <1>8, <1>9, <1>10, <1>11, <1>12 DEF IInv

-----------------------------------------------------------------------------
(* The theorems. *)

LEMMA InitInv == Init => IInv
<1> SUFFICES ASSUME Init PROVE IInv
  OBVIOUS
<1>1. TypeOK /\ Registered
  BY DEF Init, TypeOK, Registered
<1>2. IntervalsOK
  BY IntervalsNotEdge DEF Init, IntervalsOK
<1>3. Len(cur_fds) = 0 /\ Len(stack) = 0
  BY DEF Init
<1>4. /\ CurOK(cur_fds, gone) /\ FramesOK(stack, registered)
      /\ FailedOK(cur_fds, stack, registered)
  BY <1>3 DEF CurOK, FramesOK, FailedOK
<1>5. Kept(cur_fds, stack, registered, owed)
  BY DEF Init, Kept
<1> QED BY <1>1, <1>2, <1>4, <1>5 DEF IInv

LEMMA NextInv == IInv /\ [Next]_vars => IInv'
<1> SUFFICES ASSUME IInv, [Next]_vars PROVE IInv'
  OBVIOUS
<1>1. CASE Kernel
  BY <1>1, KernelInv
<1>2. CASE Client
  <2>1. CASE \E f \in Fds \ Intervals : \E fl \in FlagSets[f] : uloop_fd_add(f, fl)
    BY <2>1, AddInv
  <2>2. CASE \E f \in Fds \ Intervals : uloop_fd_delete(f)
    BY <2>2, DeleteInv DEF uloop_fd_delete
  <2>3. CASE \E f \in Fds \ Intervals : \E e \in {"in", "out"} : Consume(f, e)
    BY <2>3, KernelInv
  <2>4. CASE \E f \in Intervals : uloop_interval_set(f)
    BY <2>4, AddInv, IntervalsNotEdge
  <2>5. CASE \E f \in Intervals : IntervalSetFails(f)
    BY <2>5, DeleteInv, IntervalsNotEdge DEF IntervalSetFails
  <2>6. CASE \E f \in Intervals : uloop_interval_cancel(f)
    BY <2>6, IntervalCancelInv
  <2>7. CASE uloop_run
    BY <2>7, LoopInv
  <2> QED BY <1>2, <2>1, <2>2, <2>3, <2>4, <2>5, <2>6, <2>7 DEF Client
<1>3. CASE Loop
  <2>1. CASE LoopEnd \/ OtherCallback \/ RunLeftover \/ EventsDone \/ CallbackReturn
    BY <2>1, LoopInv
  <2>2. CASE \E fds \in Reports : uloop_fetch_events(fds)
    BY <2>2, FetchInv
  <2>3. CASE SkipEntry \/ BufferEntry \/ StaleInterval
    BY <2>3, SkipInv, BufferInv, StaleInv
  <2>4. CASE \E f \in Fds : Call(f) \/ CallAgain(f)
    BY <2>4, CallInv, CallAgainInv
  <2> QED BY <1>3, <2>1, <2>2, <2>3, <2>4 DEF Loop
<1>4. CASE UNCHANGED vars
  BY <1>4 DEF vars, IInv, TypeOK, Registered, IntervalsOK
<1> QED BY <1>1, <1>2, <1>3, <1>4 DEF Next

LEMMA Inductive == Spec => []IInv
BY InitInv, NextInv, PTL DEF Spec

\* However deep loops are nested, at most one running callback stands for an
\* edge-triggered descriptor: a second one starts only after the client, or an
\* error, has deleted the descriptor in the meantime.
THEOREM OneFrame == Spec => []NotReentered
<1>1. IInv => NotReentered
  <2> SUFFICES ASSUME IInv, NEW f \in Fds, "EDGE_TRIGGER" \in flags[f]
               PROVE  Cardinality(OnStack(f)) <= 1
    BY DEF NotReentered
  <2>1. Edge(f)
    <3>1. registered[f]
      BY DEF IInv, Registered
    <3>2. flags[f] \in FlagSets[f]
      BY <3>1 DEF IInv, Registered
    <3> QED BY <3>2 DEF Edge
  <2>2. \A i, j \in OnStack(f) : i = j
    BY <2>1 DEF OnStack, Depth, IInv, FramesOK, IsFd
  <2>3. CASE OnStack(f) = {}
    BY <2>3, FS_EmptySet
  <2>4. CASE OnStack(f) # {}
    <3>1. PICK i : i \in OnStack(f)
      BY <2>4
    <3>2. OnStack(f) = {i}
      BY <2>2, <3>1
    <3>3. Cardinality({i}) = 1
      BY FS_Singleton
    <3> QED BY <3>2, <3>3
  <2> QED BY <2>3, <2>4
<1> QED BY <1>1, Inductive, PTL

\* Every event and error that epoll_wait has reported is in the report, on the
\* stack, or was given to a callback, unless the client has deleted its
\* descriptor or it was an error alone that found the callback running.
THEOREM EventsKept == Spec => []NoLostEvent
<1>1. IInv => NoLostEvent
  <2> SUFFICES ASSUME IInv, NEW f \in Fds, NEW e \in owed[f]
               PROVE  \/ \E i \in DOMAIN cur_fds :
                           cur_fds[i].fd = f /\ (e \in cur_fds[i].events \cup {"ERROR"} \/ ~registered[f])
                      \/ \E i \in OnStack(f) :
                           e \in stack[i].events \/ (e = "ERROR" /\ stack[i].events # {})
    BY DEF NoLostEvent
  <2>1. Waits(cur_fds, stack, registered, f, e) /\ DOMAIN cur_fds = 1..Len(cur_fds)
    BY DEF IInv, Kept, TypeOK
  <2> QED BY <2>1 DEF Waits, Has, Holds, OnStack, Depth, IsFd
<1> QED BY <1>1, Inductive, PTL

\* No callback starts, for the first time or again, once the client has deleted
\* its descriptor or cancelled its interval, and a deleted descriptor is not read.
THEOREM DeletedIsSilent == Spec => NoCallAfterDelete
<1>1. ASSUME IInv, NEW f \in Fds, Call(f) PROVE ~gone[f] /\ (f \in Intervals => "in" \in ready[f])
  <2>1. cur_fds # <<>> /\ f = Head(cur_fds).fd /\ ~NoCallback(f) /\ (f \in Intervals => "in" \in ready[f])
    BY <1>1 DEF Call
  <2>2. CASE f \in Intervals
    BY <1>1, <2>1, <2>2 DEF NoCallback, IInv, Registered
  <2>3. CASE f \notin Intervals
    <3>1. 1 \in 1..Len(cur_fds) /\ cur_fds[1].fd = f
      BY <1>1, <2>1, Taken DEF IInv, TypeOK
    <3> QED BY <1>1, <2>3, <3>1 DEF IInv, CurOK
  <2> QED BY <2>1, <2>2, <2>3
<1>2. ASSUME IInv, NEW f \in Fds, CallAgain(f) PROVE ~gone[f] /\ (f \in Intervals => "in" \in ready[f])
  <2>1. stack # <<>> /\ stack[Len(stack)].kind = "fd" /\ stack[Len(stack)].fd = f /\ stack[Len(stack)].events # {}
    BY <1>2 DEF CallAgain, InLoop, Depth
  <2>2. Len(stack) \in 1..Len(stack)
    BY <1>2, <2>1 DEF IInv, TypeOK
  <2>3. Edge(f) /\ registered[f]
    BY <1>2, <2>1, <2>2 DEF IInv, FramesOK, IsFd
  <2> QED BY <1>2, <2>3, IntervalsNotEdge DEF IInv, Registered
<1>3. ASSUME IInv, NEW f \in Fds \ Intervals, Reads(f) PROVE ~gone[f]
  <2>1. cur_fds # <<>> /\ f = Head(cur_fds).fd
    BY <1>3 DEF Reads
  <2>2. 1 \in 1..Len(cur_fds) /\ cur_fds[1].fd = f
    BY <1>3, <2>1, Taken DEF IInv, TypeOK
  <2> QED BY <1>3, <2>2 DEF IInv, CurOK
<1>4. IInv /\ [Next]_vars => [\A f \in Fds :
         /\ Call(f) \/ CallAgain(f) => ~gone[f] /\ (f \in Intervals => "in" \in ready[f])
         /\ Reads(f) /\ f \notin Intervals => ~gone[f]]_vars
  BY <1>1, <1>2, <1>3
<1> QED BY <1>4, Inductive, PTL DEF Spec, NoCallAfterDelete
=============================================================================
