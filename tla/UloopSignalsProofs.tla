------------------------- MODULE UloopSignalsProofs -------------------------
(***************************************************************************)
(* For any watchers, signals and size of the waker pipe: a signal that was *)
(* written is not lost, watched signals stay handled, and the client finds *)
(* its own dispositions again.                                             *)
(***************************************************************************)
EXTENDS UloopSignals, ListLemmas

-----------------------------------------------------------------------------
(* The inductive invariant. *)

Frames ==
  [kind : {"loop"}, at : {"start", "poll", "bottom"}, once : BOOLEAN]
    \cup [kind : {"walk"}, signums : SUBSET Signals, next : Watchers \cup {ListHead}]
    \cup [kind : {"callback"}, w : Watchers \cup {ListHead}]

TypeOK ==
  /\ signals \in Seq(Watchers) /\ Distinct(signals)
  /\ signo \in [Watchers -> Nat]
  /\ pipe \in Seq(Signals)
  /\ stack \in Seq(Frames)
  /\ ~up => signals = <<>>

\* Only the innermost frame walks over the watchers, or the one below it while
\* the callback of a watcher runs, which the walk has left behind.  The watcher
\* it goes on with is in the list.
WalksOK(st, sg) ==
  \A i \in 1..Len(st) : st[i].kind = "walk" =>
    /\ \/ i = Len(st)
       \/ /\ i = Len(st) - 1 /\ st[Len(st)].kind = "callback"
          /\ st[Len(st)].w \notin {ListHead, st[i].next}
    /\ st[i].next = ListHead \/ IsIn(st[i].next, sg)

\* v is at x or behind it.
Behind(sg, x, v) == \E i, j \in 1..Len(sg) : i <= j /\ sg[i] = x /\ sg[j] = v

\* NoLostSignal, for one watcher, and any pipe, stack and list.
Due(pp, st, sg, s, v) ==
  \/ IsIn(s, pp)
  \/ \E i \in 1..Len(st) : /\ st[i].kind = "walk" /\ s \in st[i].signums
                           /\ Behind(sg, st[i].next, v)

Kept ==
  /\ \A v \in owed : v \in Watchers /\ IsIn(v, signals)
  /\ \A v \in owed : Due(pipe, stack, signals, signo[v], v)

IInv == TypeOK /\ WalksOK(stack, signals) /\ Kept

(***************************************************************************)
(* Handlers.  A watcher that found another handler than uloop_signal_wake  *)
(* keeps it in orig.  There is at most one for a signal, and what it keeps *)
(* is the disposition the client chose, or what uloop put in place of the  *)
(* default; without such a watcher that is the signal's handler.           *)
(***************************************************************************)
Base(s, h, ch) ==
  \/ h = ch
  \/ /\ ch = "dfl"
     /\ \/ s \in Ints \cup {SIGCHLD} /\ h = HandlerOf(s)
        \/ s = SIGPIPE /\ h = "ign"

Chosen == {"dfl", "ign", "client"}

HandlersType ==
  /\ handler \in [Signals -> Handlers]
  /\ choice \in [Signals -> Chosen] /\ choice[SIGPIPE] # "ign"
  /\ orig \in [Watchers -> Handlers]
  /\ old = [s \in Ints \cup {SIGCHLD} |-> "dfl"]
  /\ ~up => handler = choice

\* Watcher w keeps the handler that signal s had before.
Keeps(w, s) == signo[w] = s /\ orig[w] # "wake"

Watched ==
  \A w \in Pending :
    /\ signo[w] \in Signals
    /\ orig[w] # "wake" =>
         handler[signo[w]] = "wake" /\ Base(signo[w], orig[w], choice[signo[w]])

OneKeeps ==
  \A v, w \in Pending :
    signo[v] = signo[w] /\ orig[v] # "wake" /\ orig[w] # "wake" => v = w

Unwatched ==
  \A s \in Signals :
    (\A w \in Pending : ~Keeps(w, s)) => Base(s, handler[s], choice[s])

HInv == HandlersType /\ Watched /\ OneKeeps /\ Unwatched

-----------------------------------------------------------------------------
(* Frames and lists. *)

LEMMA FramesAre ==
  /\ \A pc \in {"start", "poll", "bottom"}, once \in BOOLEAN :
       Loop(pc, once) \in Frames /\ Loop(pc, once).kind = "loop"
  /\ \A S \in SUBSET Signals, x \in Watchers \cup {ListHead} :
       /\ Walk(S, x) \in Frames /\ Walk(S, x).kind = "walk"
       /\ Walk(S, x).signums = S /\ Walk(S, x).next = x
  /\ \A v \in Watchers \cup {ListHead} :
       Callback(v) \in Frames /\ Callback(v).kind = "callback" /\ Callback(v).w = v
BY DEF Frames, Loop, Walk, Callback

LEMMA FrameFields ==
  ASSUME NEW r \in Frames
  PROVE  /\ r.kind = "loop" => r.once \in BOOLEAN
         /\ r.kind = "walk" => r.signums \in SUBSET Signals /\ r.next \in Watchers \cup {ListHead}
BY DEF Frames

\* Linking and unlinking watchers keeps the order of the others.
LEMMA InsertBehind ==
  ASSUME NEW S, NEW sg \in Seq(S), NEW p \in 1..(Len(sg) + 1), NEW e \in S, NEW x, NEW v, Behind(sg, x, v)
  PROVE  Behind(InsertAt(sg, p, e), x, v)
<1> DEFINE r == InsertAt(sg, p, e)
           new(k) == IF k < p THEN k ELSE k + 1
<1>1. /\ Len(r) = Len(sg) + 1
      /\ \A k \in 1..(Len(sg) + 1) : (k < p => r[k] = sg[k]) /\ (k > p => r[k] = sg[k - 1])
  BY InsertAtEach
<1> HIDE DEF r
<1>2. Len(sg) \in Nat /\ p \in Int
  OBVIOUS
<1>3. ASSUME NEW k \in 1..Len(sg) PROVE new(k) \in 1..Len(r) /\ r[new(k)] = sg[k]
  <2>1. CASE k < p
    BY <1>1, <1>2, <2>1
  <2>2. CASE k >= p
    <3>1. k + 1 \in 1..(Len(sg) + 1) /\ k + 1 > p /\ (k + 1) - 1 = k /\ new(k) = k + 1
      BY <1>2, <2>2
    <3> QED BY <1>1, <3>1
  <2> QED BY <1>2, <2>1, <2>2
<1>4. PICK i, j \in 1..Len(sg) : i <= j /\ sg[i] = x /\ sg[j] = v
  BY DEF Behind
<1>5. new(i) <= new(j)
  BY <1>2, <1>4
<1> QED BY <1>3, <1>4, <1>5 DEF Behind, r

LEMMA RemoveBehind ==
  ASSUME NEW S, NEW sg \in Seq(S), NEW p \in 1..Len(sg), NEW x, NEW v, Behind(sg, x, v),
         x # sg[p], v # sg[p]
  PROVE  Behind(RemoveAt(sg, p), x, v)
<1> DEFINE r == RemoveAt(sg, p)
           new(k) == IF k < p THEN k ELSE k - 1
<1>1. /\ Len(r) = Len(sg) - 1
      /\ \A k \in 1..(Len(sg) - 1) : r[k] = IF k < p THEN sg[k] ELSE sg[k + 1]
  BY RemoveAtElements
<1> HIDE DEF r
<1>2. Len(sg) \in Nat /\ p \in Int
  OBVIOUS
<1>3. ASSUME NEW k \in 1..Len(sg), k # p PROVE new(k) \in 1..Len(r) /\ r[new(k)] = sg[k]
  <2>1. CASE k < p
    BY <1>1, <1>2, <2>1
  <2>2. CASE k > p
    <3>1. k - 1 \in 1..(Len(sg) - 1) /\ ~(k - 1 < p) /\ (k - 1) + 1 = k /\ new(k) = k - 1
      BY <1>2, <2>2
    <3> QED BY <1>1, <3>1
  <2> QED BY <1>2, <1>3, <2>1, <2>2
<1>4. PICK i, j \in 1..Len(sg) : i <= j /\ sg[i] = x /\ sg[j] = v
  BY DEF Behind
<1>5. i # p /\ j # p
  BY <1>4
<1>6. new(i) <= new(j)
  BY <1>2, <1>4, <1>5
<1> QED BY <1>3, <1>4, <1>5, <1>6 DEF Behind, r

\* Nothing walks below a loop, or below the callback of anything but a watcher.
LEMMA NoWalk ==
  ASSUME NEW st \in Seq(Frames), NEW sg, WalksOK(st, sg),
         \/ st = <<>>
         \/ st[Len(st)].kind = "loop"
         \/ st[Len(st)].kind = "callback" /\ st[Len(st)].w = ListHead
  PROVE  \A i \in 1..Len(st) : st[i].kind # "walk"
<1> SUFFICES ASSUME NEW i \in 1..Len(st), st[i].kind = "walk" PROVE FALSE
  OBVIOUS
<1>1. st # <<>>
  OBVIOUS
<1> QED BY <1>1 DEF WalksOK

\* Where nothing walks, a signal is due only while it is in the pipe.
LEMMA NoWalkDue ==
  ASSUME NEW st, \A i \in 1..Len(st) : st[i].kind # "walk"
  PROVE  /\ \A sg : WalksOK(st, sg)
         /\ \A pp, sg, s, v : Due(pp, st, sg, s, v) <=> IsIn(s, pp)
<1>1. ASSUME NEW sg PROVE WalksOK(st, sg)
  BY DEF WalksOK
<1>2. ASSUME NEW pp, NEW sg, NEW s, NEW v PROVE Due(pp, st, sg, s, v) <=> IsIn(s, pp)
  BY DEF Due, IsIn
<1> QED BY <1>1, <1>2

-----------------------------------------------------------------------------
(* The loop. *)

\* A step of the loop between two places where nothing walks.
LEMMA LoopStep ==
  ASSUME IInv, stack' \in Seq(Frames), UNCHANGED <<pipe, up, signals, signo, owed>>,
         \A i \in 1..Len(stack) : stack[i].kind # "walk",
         \A i \in 1..Len(stack') : stack'[i].kind # "walk"
  PROVE  IInv'
<1>1. TypeOK'
  BY DEF IInv, TypeOK
<1>2. WalksOK(stack', signals)
  BY NoWalkDue
<1>3. \A v \in owed : Due(pipe, stack', signals, signo[v], v)
  <2> SUFFICES ASSUME NEW v \in owed PROVE Due(pipe, stack', signals, signo[v], v)
    OBVIOUS
  <2>1. Due(pipe, stack, signals, signo[v], v)
    BY DEF IInv, Kept
  <2>2. IsIn(signo[v], pipe)
    BY <2>1, NoWalkDue
  <2> QED BY <2>2 DEF Due
<1> QED BY <1>1, <1>2, <1>3 DEF IInv, Kept

LEMMA RunInv ==
  ASSUME IInv, (\E once \in BOOLEAN : uloop_run(once)) \/ Timeouts \/ Poll \/ PollOther \/ LoopAgain \/ LoopEnd
  PROVE  IInv'
<1>1. stack \in Seq(Frames) /\ UNCHANGED <<pipe, up, signals, signo, owed>>
  BY DEF IInv, TypeOK, uloop_run, Timeouts, Poll, PollOther, LoopAgain, LoopEnd, lists, history
<1>2. \/ stack = <<>>
      \/ stack[Len(stack)].kind = "loop"
      \/ stack[Len(stack)].kind = "callback" /\ stack[Len(stack)].w = ListHead
  <2>1. CASE \E once \in BOOLEAN : uloop_run(once)
    <3>1. InClient /\ ~InSignalCallback
      BY <2>1, Zenon DEF uloop_run
    <3> QED BY <3>1 DEF InClient, InSignalCallback, In, Last
  <2>2. CASE Timeouts \/ Poll \/ PollOther \/ LoopAgain \/ LoopEnd
    <3>1. In("loop")
      BY <2>2, Zenon DEF Timeouts, Poll, PollOther, LoopAgain, LoopEnd, At
    <3> QED BY <3>1 DEF In, Last
  <2> QED BY <2>1, <2>2
<1>3. \A i \in 1..Len(stack) : stack[i].kind # "walk"
  BY <1>1, <1>2, NoWalk DEF IInv
<1>4. ASSUME NEW st \in Seq(Frames), NEW r \in Frames, r.kind # "walk",
             \A i \in 1..Len(st) : st[i].kind # "walk"
      PROVE  /\ Append(st, r) \in Seq(Frames)
             /\ \A i \in 1..Len(Append(st, r)) : Append(st, r)[i].kind # "walk"
  <2> DEFINE new == Append(st, r)
  <2>1. /\ new \in Seq(Frames) /\ Len(st) \in Nat /\ Len(new) = Len(st) + 1 /\ new[Len(st) + 1] = r
        /\ \A i \in 1..Len(st) : new[i] = st[i]
    BY <1>4, Pushed
  <2> HIDE DEF new
  <2>2. \A i \in 1..Len(new) : new[i].kind # "walk"
    BY <1>4, <2>1
  <2> QED BY <2>1, <2>2 DEF new
<1>5. ASSUME stack # <<>>, stack[Len(stack)].kind = "loop", NEW pc \in {"start", "poll", "bottom"}
      PROVE  /\ Moved(pc) \in Seq(Frames)
             /\ \A i \in 1..Len(Moved(pc)) : Moved(pc)[i].kind # "walk"
  <2> DEFINE r == Loop(pc, Last(stack).once)
             new == [stack EXCEPT ![Len(stack)] = r]
  <2>1. stack[Len(stack)] \in Frames /\ Last(stack) = stack[Len(stack)]
    BY <1>1, <1>5 DEF Last
  <2>2. r \in Frames /\ r.kind = "loop"
    <3>1. Last(stack).once \in BOOLEAN
      BY <1>5, <2>1, FrameFields
    <3> QED BY <1>5, <3>1, FramesAre, Zenon
  <2>3. Moved(pc) = new
    BY DEF Moved, Top
  <2> HIDE DEF r
  <2>4. /\ new \in Seq(Frames) /\ Len(new) = Len(stack) /\ new[Len(stack)] = r
        /\ \A i \in 1..Len(stack) : i # Len(stack) => new[i] = stack[i]
    BY <1>1, <1>5, <2>2, TopReplaced
  <2> HIDE DEF new
  <2>5. \A i \in 1..Len(new) : new[i].kind # "walk"
    BY <1>3, <2>2, <2>4
  <2> QED BY <2>3, <2>4, <2>5
<1>6. Callback(ListHead) \in Frames /\ Callback(ListHead).kind # "walk"
  BY FramesAre
<1>7. CASE \E once \in BOOLEAN : uloop_run(once)
  <2>1. PICK once \in BOOLEAN : stack' = Append(stack, Loop("start", once))
    BY <1>7 DEF uloop_run
  <2>2. Loop("start", once) \in Frames /\ Loop("start", once).kind # "walk"
    BY FramesAre
  <2>3. stack' \in Seq(Frames) /\ \A i \in 1..Len(stack') : stack'[i].kind # "walk"
    BY <1>1, <1>3, <1>4, <2>1, <2>2
  <2> QED BY <1>1, <1>3, <2>3, LoopStep
<1>8. CASE Timeouts
  <2>1. stack' \in Seq(Frames) /\ \A i \in 1..Len(stack') : stack'[i].kind # "walk"
    BY <1>1, <1>3, <1>4, <1>6, <1>8 DEF Timeouts
  <2> QED BY <1>1, <1>3, <2>1, LoopStep
<1>9. CASE Poll \/ PollOther \/ LoopAgain
  <2>1. stack # <<>> /\ stack[Len(stack)].kind = "loop"
    BY <1>9 DEF Poll, PollOther, LoopAgain, At, In, Last
  <2>2. PICK pc \in {"start", "poll", "bottom"} : stack' \in {Moved(pc), Append(Moved(pc), Callback(ListHead))}
    BY <1>9 DEF Poll, PollOther, LoopAgain, MovedOrCalled
  <2>3. Moved(pc) \in Seq(Frames) /\ \A i \in 1..Len(Moved(pc)) : Moved(pc)[i].kind # "walk"
    BY <1>5, <2>1
  <2>4. stack' \in Seq(Frames) /\ \A i \in 1..Len(stack') : stack'[i].kind # "walk"
    BY <1>4, <1>6, <2>2, <2>3
  <2> QED BY <1>1, <1>3, <2>4, LoopStep
<1>10. CASE LoopEnd
  <2>1. stack # <<>> /\ stack' = Front(stack)
    BY <1>10 DEF LoopEnd, At, In
  <2>2. stack' \in Seq(Frames) /\ Len(stack') = Len(stack) - 1 /\ \A i \in 1..(Len(stack) - 1) : stack'[i] = stack[i]
    BY <1>1, <2>1, FrontElements
  <2>3. \A i \in 1..Len(stack') : stack'[i].kind # "walk"
    BY <1>1, <1>3, <2>2
  <2> QED BY <1>1, <1>3, <2>2, <2>3, LoopStep
<1> QED BY <1>7, <1>8, <1>9, <1>10

LEMMA CallbackReturnInv ==
  ASSUME IInv, CallbackReturn
  PROVE  IInv'
<1> DEFINE n == Len(stack)
<1>1. /\ stack # <<>> /\ stack[n].kind = "callback" /\ stack' = Front(stack)
      /\ UNCHANGED <<pipe, up, signals, signo, owed>> /\ stack \in Seq(Frames)
  BY DEF IInv, TypeOK, CallbackReturn, In, Last, lists, history
<1>2. /\ stack' \in Seq(Frames) /\ Len(stack') = n - 1 /\ n \in Nat \ {0}
      /\ \A i \in 1..(n - 1) : stack'[i] = stack[i]
  BY <1>1, FrontElements
<1>3. TypeOK'
  BY <1>1, <1>2 DEF IInv, TypeOK
<1> HIDE DEF n
<1>4. \A i \in 1..Len(stack') : i \in 1..Len(stack) /\ i # n /\ stack'[i] = stack[i]
  BY <1>2 DEF n
<1>5. WalksOK(stack', signals)
  BY <1>2, <1>4 DEF IInv, WalksOK, n
<1>6. ASSUME NEW i \in 1..Len(stack), stack[i].kind = "walk" PROVE i \in 1..Len(stack') /\ stack'[i] = stack[i]
  BY <1>1, <1>2, <1>6 DEF n
<1>7. \A v \in owed : Due(pipe, stack', signals, signo[v], v)
  BY <1>6 DEF IInv, Kept, Due
<1> QED BY <1>1, <1>3, <1>5, <1>7 DEF IInv, Kept

-----------------------------------------------------------------------------
(* The walk of signal_consume. *)

LEMMA ConsumeInv ==
  ASSUME IInv, signal_consume
  PROVE  IInv'
<1> DEFINE n == Len(stack)
           lp == Loop("bottom", Last(stack).once)
           wk == Walk(Signums, First)
           mid == [stack EXCEPT ![n] = lp]
<1>1. /\ stack # <<>> /\ stack[n].kind = "loop" /\ Last(stack) = stack[n]
      /\ pipe' = <<>> /\ stack' = Append(mid, wk) /\ UNCHANGED <<up, signals, signo, owed>>
  BY DEF signal_consume, At, In, Last, Moved, Top, lists, history
<1>2. /\ stack \in Seq(Frames) /\ pipe \in Seq(Signals) /\ signals \in Seq(Watchers) /\ Len(signals) \in Nat
      /\ ListHead \notin Watchers
  BY SignalsAssumption DEF IInv, TypeOK, SignalsAssumption
<1>3. \A i \in 1..n : stack[i].kind # "walk"
  BY <1>1, <1>2, NoWalk DEF IInv
<1>4. lp \in Frames /\ lp.kind = "loop"
  <2>1. stack[n] \in Frames
    BY <1>1, <1>2
  <2>2. Last(stack).once \in BOOLEAN
    BY <1>1, <2>1, FrameFields
  <2> QED BY <2>2, FramesAre, Zenon
<1>5. Signums \in SUBSET Signals /\ \A s : s \in Signums <=> IsIn(s, pipe)
  BY <1>2 DEF Signums, IsIn
<1>6. /\ First \in Watchers \cup {ListHead}
      /\ First = ListHead \/ IsIn(First, signals)
      /\ \A v : IsIn(v, signals) => Behind(signals, First, v)
  <2>1. CASE signals = <<>>
    BY <2>1 DEF First, IsIn
  <2>2. CASE signals # <<>>
    <3>1. 1 \in 1..Len(signals) /\ First = signals[1] /\ signals[1] \in Watchers
      BY <1>2, <2>2 DEF First
    <3>2. \A j \in 1..Len(signals) : 1 <= j
      BY <1>2
    <3> QED BY <3>1, <3>2 DEF IsIn, Behind
  <2> QED BY <2>1, <2>2
<1>7. wk \in Frames /\ wk.kind = "walk" /\ wk.signums = Signums /\ wk.next = First
  BY <1>5, <1>6, FramesAre
<1> HIDE DEF lp, wk
<1>8. /\ mid \in Seq(Frames) /\ Len(mid) = n /\ mid[n] = lp /\ \A i \in 1..n : i # n => mid[i] = stack[i]
  BY <1>1, <1>2, <1>4, TopReplaced
<1> HIDE DEF mid
<1>9. /\ stack' \in Seq(Frames) /\ n \in Nat /\ Len(stack') = n + 1 /\ stack'[n + 1] = wk
      /\ \A i \in 1..n : stack'[i] = mid[i]
  BY <1>1, <1>7, <1>8, Pushed
<1> HIDE DEF n
<1>10. \A i \in 1..Len(stack') : stack'[i].kind = "walk" => i = n + 1
  BY <1>3, <1>4, <1>8, <1>9
<1>11. TypeOK'
  <2>1. pipe' \in Seq(Signals)
    BY <1>1
  <2> QED BY <1>1, <1>9, <2>1 DEF IInv, TypeOK
<1>12. WalksOK(stack', signals)
  BY <1>6, <1>7, <1>9, <1>10 DEF WalksOK
<1>13. ASSUME NEW v \in owed PROVE Due(pipe', stack', signals, signo[v], v)
  <2>1. IsIn(v, signals) /\ Due(pipe, stack, signals, signo[v], v)
    BY DEF IInv, Kept
  <2>2. IsIn(signo[v], pipe)
    BY <1>3, <2>1, NoWalkDue DEF n
  <2>3. n + 1 \in 1..Len(stack')
    BY <1>9
  <2> QED BY <1>5, <1>6, <1>7, <1>9, <2>1, <2>2, <2>3 DEF Due
<1> QED BY <1>1, <1>11, <1>12, <1>13 DEF IInv, Kept

\* After the watcher at place p comes the one at p + 1.
LEMMA AfterIs ==
  ASSUME NEW v, IsIn(v, signals), signals \in Seq(Watchers), Distinct(signals)
  PROVE  \E p \in 1..Len(signals) :
           /\ signals[p] = v
           /\ p < Len(signals) => After(v) = signals[p + 1]
           /\ p >= Len(signals) => After(v) = ListHead
<1> DEFINE i == CHOOSE j \in 1..Len(signals) : signals[j] = v
<1>1. i \in 1..Len(signals) /\ signals[i] = v
  BY DEF IsIn
<1>2. After(v) = IF i < Len(signals) THEN signals[i + 1] ELSE ListHead
  BY DEF After
<1> HIDE DEF i
<1>3. Len(signals) \in Nat
  OBVIOUS
<1>4. (i < Len(signals) => After(v) = signals[i + 1]) /\ (i >= Len(signals) => After(v) = ListHead)
  BY <1>1, <1>2, <1>3
<1> QED BY <1>1, <1>4

LEMMA VisitInv ==
  ASSUME IInv, NEW w \in Watchers, Visit(w)
  PROVE  IInv'
<1> DEFINE n == Len(stack)
           S == stack[n].signums
           wk == Walk(S, After(w))
           mid == [stack EXCEPT ![n] = wk]
<1>1. /\ stack # <<>> /\ stack[n].kind = "walk" /\ stack[n].next = w /\ IsIn(w, signals)
      /\ UNCHANGED <<pipe, up, signals, signo>>
  BY DEF Visit, In, Last, lists, Pending, IsIn
<1>2. /\ stack \in Seq(Frames) /\ signals \in Seq(Watchers) /\ Distinct(signals) /\ ListHead \notin Watchers
      /\ n \in Nat \ {0} /\ stack[n] \in Frames /\ Len(signals) \in Nat
  BY <1>1, SignalsAssumption DEF IInv, TypeOK, SignalsAssumption
<1>3. S \in SUBSET Signals
  BY <1>1, <1>2, FrameFields
<1>4. PICK p \in 1..Len(signals) :
         /\ signals[p] = w
         /\ p < Len(signals) => After(w) = signals[p + 1]
         /\ p >= Len(signals) => After(w) = ListHead
  BY <1>1, <1>2, AfterIs
<1>5. /\ After(w) \in Watchers \cup {ListHead} /\ After(w) # w
      /\ After(w) = ListHead \/ IsIn(After(w), signals)
  <2>1. CASE p < Len(signals)
    <3>1. p + 1 \in 1..Len(signals) /\ p + 1 # p
      BY <1>2, <2>1
    <3>2. After(w) = signals[p + 1] /\ signals[p + 1] \in Watchers /\ signals[p + 1] # signals[p]
      BY <1>2, <1>4, <2>1, <3>1 DEF Distinct
    <3> QED BY <1>4, <3>1, <3>2 DEF IsIn
  <2>2. CASE p >= Len(signals)
    BY <1>2, <1>4, <2>2
  <2> QED BY <1>2, <2>1, <2>2
<1>6. ASSUME NEW v, v # w, Behind(signals, w, v) PROVE Behind(signals, After(w), v)
  <2>1. PICK i, j \in 1..Len(signals) : i <= j /\ signals[i] = w /\ signals[j] = v
    BY <1>6 DEF Behind
  <2>2. i = p /\ j # p
    BY <1>2, <1>4, <1>6, <2>1 DEF Distinct
  <2>3. p + 1 \in 1..Len(signals) /\ p + 1 <= j /\ p < Len(signals)
    BY <1>2, <2>1, <2>2
  <2> QED BY <1>4, <2>1, <2>3 DEF Behind
<1>7. wk \in Frames /\ wk.kind = "walk" /\ wk.signums = S /\ wk.next = After(w)
  BY <1>3, <1>5, FramesAre
<1>8. \/ signo[w] \in S /\ stack' = Append(mid, Callback(w)) /\ owed' = owed \ {w}
      \/ signo[w] \notin S /\ stack' = mid /\ owed' = owed
  BY <1>7 DEF Visit, Saved, Top, Last
<1>9. Callback(w) \in Frames /\ Callback(w).kind = "callback" /\ Callback(w).w = w
  BY FramesAre
<1> HIDE DEF wk, S
<1>10. /\ mid \in Seq(Frames) /\ Len(mid) = n /\ mid[n] = wk /\ \A i \in 1..n : i # n => mid[i] = stack[i]
  BY <1>1, <1>2, <1>7, TopReplaced
<1> HIDE DEF mid, n
<1>11. ASSUME NEW i \in 1..n, mid[i].kind = "walk" PROVE i = n
  <2>1. ~(i # n /\ stack[i].kind = "walk")
    BY <1>1, <1>2 DEF IInv, WalksOK, n
  <2> QED BY <1>10, <1>11, <2>1
<1>12. ASSUME NEW v \in owed'
       PROVE  IsIn(signo[v], pipe) \/ (signo[v] \in S /\ Behind(signals, After(w), v))
  <2>1. v \in owed /\ ~(v = w /\ signo[w] \in S)
    BY <1>8
  <2>2. Due(pipe, stack, signals, signo[v], v)
    BY <2>1 DEF IInv, Kept
  <2>3. CASE ~IsIn(signo[v], pipe)
    <3>1. PICK i \in 1..Len(stack) :
             stack[i].kind = "walk" /\ signo[v] \in stack[i].signums /\ Behind(signals, stack[i].next, v)
      BY <2>2, <2>3 DEF Due
    <3>2. i = n
      BY <1>1, <1>2, <3>1 DEF IInv, WalksOK, n
    <3>3. signo[v] \in S /\ Behind(signals, w, v)
      BY <1>1, <3>1, <3>2 DEF S
    <3> QED BY <1>6, <2>1, <3>3
  <2> QED BY <2>3
<1>13. /\ stack' \in Seq(Frames) /\ n \in 1..Len(stack') /\ stack'[n] = wk
       /\ WalksOK(stack', signals)
  <2>1. CASE stack' = mid
    <3>1. n \in 1..n
      BY <1>2
    <3> QED BY <1>5, <1>7, <1>10, <1>11, <2>1, <3>1 DEF WalksOK
  <2>2. CASE stack' = Append(mid, Callback(w))
    <3>1. /\ stack' \in Seq(Frames) /\ Len(stack') = n + 1 /\ stack'[n + 1] = Callback(w)
          /\ \A i \in 1..n : stack'[i] = mid[i]
      BY <1>9, <1>10, <2>2, Pushed
    <3>2. n \in 1..n /\ (n + 1) - 1 = n /\ \A i \in 1..(n + 1) : i = n + 1 \/ i \in 1..n
      BY <1>2
    <3>3. n \in 1..Len(stack')
      BY <1>2, <3>1
    <3>4. ASSUME NEW i \in 1..Len(stack'), stack'[i].kind = "walk"
          PROVE  i = Len(stack') - 1 /\ stack'[i] = wk
      BY <1>9, <1>10, <1>11, <3>1, <3>2, <3>4
    <3>5. WalksOK(stack', signals)
      BY <1>2, <1>5, <1>7, <1>9, <3>1, <3>4 DEF WalksOK
    <3> QED BY <1>10, <3>1, <3>2, <3>3, <3>5
  <2> QED BY <1>8, <2>1, <2>2
<1>14. TypeOK'
  BY <1>1, <1>13 DEF IInv, TypeOK
<1>15. \A v \in owed' : Due(pipe, stack', signals, signo[v], v)
  BY <1>7, <1>12, <1>13 DEF Due
<1>16. \A v \in owed' : v \in Watchers /\ IsIn(v, signals)
  BY <1>8 DEF IInv, Kept
<1> QED BY <1>1, <1>13, <1>14, <1>15, <1>16 DEF IInv, Kept

LEMMA WalkDoneInv ==
  ASSUME IInv, WalkDone
  PROVE  IInv'
<1> DEFINE n == Len(stack)
<1>1. /\ stack # <<>> /\ stack[n].kind = "walk" /\ stack[n].next = ListHead /\ stack' = Front(stack)
      /\ UNCHANGED <<pipe, up, signals, signo, owed>>
  BY DEF WalkDone, In, Last, lists, history
<1>2. stack \in Seq(Frames) /\ signals \in Seq(Watchers) /\ ListHead \notin Watchers
  BY SignalsAssumption DEF IInv, TypeOK, SignalsAssumption
<1>3. /\ stack' \in Seq(Frames) /\ Len(stack') = n - 1 /\ n \in Nat \ {0}
      /\ \A i \in 1..(n - 1) : stack'[i] = stack[i]
  BY <1>1, <1>2, FrontElements
<1> HIDE DEF n
<1>4. \A i \in 1..n : stack[i].kind = "walk" => i = n
  BY <1>1, <1>3 DEF IInv, WalksOK, n
<1>5. \A i \in 1..Len(stack') : stack'[i].kind # "walk"
  BY <1>3, <1>4
<1>6. WalksOK(stack', signals)
  BY <1>5, NoWalkDue
<1>7. ASSUME NEW v \in owed PROVE Due(pipe, stack', signals, signo[v], v)
  <2>1. Due(pipe, stack, signals, signo[v], v)
    BY DEF IInv, Kept
  <2>2. ~Behind(signals, ListHead, v)
    BY <1>2 DEF Behind
  <2>3. IsIn(signo[v], pipe)
    BY <1>1, <1>4, <2>1, <2>2 DEF Due, n
  <2> QED BY <2>3 DEF Due
<1>8. TypeOK'
  BY <1>1, <1>3 DEF IInv, TypeOK
<1> QED BY <1>1, <1>6, <1>7, <1>8 DEF IInv, Kept

-----------------------------------------------------------------------------
(* Signals and the operations of the client. *)

LEMMA DeliverInv ==
  ASSUME IInv, NEW s \in Signals, Deliver(s)
  PROVE  IInv'
<1>1. UNCHANGED <<up, signals, signo, stack>> /\ pipe \in Seq(Signals)
  BY DEF Deliver, lists, IInv, TypeOK
<1>2. CASE Len(pipe) < PipeSize
  <2>1. pipe' = Append(pipe, s) /\ owed' = owed \cup {v \in Pending : signo[v] = s}
    BY <1>2 DEF Deliver, Written
  <2>2. /\ pipe' \in Seq(Signals) /\ Len(pipe) \in Nat /\ Len(pipe') = Len(pipe) + 1 /\ pipe'[Len(pipe) + 1] = s
        /\ \A i \in 1..Len(pipe) : pipe'[i] = pipe[i]
    BY <1>1, <2>1, Pushed
  <2>3. \A x : IsIn(x, pipe) => IsIn(x, pipe')
    BY <2>2 DEF IsIn
  <2>4. IsIn(s, pipe')
    <3>1. Len(pipe) + 1 \in 1..Len(pipe')
      BY <2>2
    <3> QED BY <2>2, <3>1 DEF IsIn
  <2>5. TypeOK'
    BY <1>1, <2>2 DEF IInv, TypeOK
  <2>6. ASSUME NEW v \in owed'
        PROVE  v \in Watchers /\ IsIn(v, signals) /\ Due(pipe', stack, signals, signo[v], v)
    <3>1. CASE v \in owed
      BY <2>3, <3>1 DEF IInv, Kept, Due
    <3>2. CASE v \in Pending /\ signo[v] = s
      <4>1. v \in Watchers /\ IsIn(v, signals)
        BY <3>2 DEF Pending, IsIn, IInv, TypeOK
      <4> QED BY <2>4, <3>2, <4>1 DEF Due
    <3> QED BY <2>1, <3>1, <3>2
  <2> QED BY <1>1, <2>5, <2>6 DEF IInv, Kept
<1>3. CASE ~(Len(pipe) < PipeSize)
  <2>1. pipe' = pipe /\ owed' = owed
    BY <1>3 DEF Deliver, Written
  <2> QED BY <1>1, <2>1 DEF IInv, TypeOK, Kept
<1> QED BY <1>2, <1>3

LEMMA AddInv ==
  ASSUME IInv, NEW w \in Watchers, NEW s \in Signals, uloop_signal_add(w, s)
  PROVE  IInv'
<1>1. PICK p \in 1..(Len(signals) + 1) : signals' = InsertAt(signals, p, w)
  BY DEF uloop_signal_add, Linked
<1>2. /\ up /\ ~IsIn(w, signals) /\ signo' = [signo EXCEPT ![w] = s] /\ UNCHANGED <<up, pipe, stack, owed>>
  BY DEF uloop_signal_add, Pending, IsIn, history
<1>3. /\ signals \in Seq(Watchers) /\ Distinct(signals) /\ signo \in [Watchers -> Nat] /\ s \in Nat
      /\ pipe \in Seq(Signals) /\ stack \in Seq(Frames)
  BY SignalsAssumption DEF IInv, TypeOK, SignalsAssumption
<1>4. signals' \in Seq(Watchers)
  BY <1>1, <1>3, InsertAtElements
<1>5. Distinct(signals') /\ \A x : IsIn(x, signals) => IsIn(x, signals')
  BY <1>1, <1>2, <1>3, InsertDistinct
<1>6. signo' \in [Watchers -> Nat] /\ \A v \in Watchers : v # w => signo'[v] = signo[v]
  BY <1>2, <1>3
<1>7. TypeOK'
  BY <1>2, <1>3, <1>4, <1>5, <1>6 DEF TypeOK
<1>8. WalksOK(stack, signals')
  BY <1>5 DEF IInv, WalksOK
<1>9. ASSUME NEW v \in owed
      PROVE  v \in Watchers /\ IsIn(v, signals') /\ Due(pipe, stack, signals', signo'[v], v)
  <2>1. v \in Watchers /\ IsIn(v, signals) /\ Due(pipe, stack, signals, signo[v], v)
    BY DEF IInv, Kept
  <2>2. signo'[v] = signo[v]
    BY <1>2, <1>6, <2>1
  <2>3. \A x : Behind(signals, x, v) => Behind(signals', x, v)
    BY <1>1, <1>3, InsertBehind
  <2>4. Due(pipe, stack, signals', signo[v], v)
    BY <2>1, <2>3 DEF Due
  <2> QED BY <1>5, <2>1, <2>2, <2>4
<1> QED BY <1>2, <1>7, <1>8, <1>9 DEF IInv, Kept

\* The watcher a walk goes on with is not deleted meanwhile.
LEMMA DeleteInv ==
  ASSUME IInv, NEW w \in Watchers, uloop_signal_delete(w)
  PROVE  IInv'
<1>1. PICK p \in 1..Len(signals) : signals[p] = w /\ signals' = RemoveAt(signals, p)
  BY DEF uloop_signal_delete
<1>2. /\ InClient /\ (InSignalCallback => w = Last(stack).w) /\ owed' = owed \ {w}
      /\ UNCHANGED <<up, pipe, signo, stack>>
  BY DEF uloop_signal_delete
<1>3. /\ signals \in Seq(Watchers) /\ Distinct(signals) /\ signo \in [Watchers -> Nat]
      /\ pipe \in Seq(Signals) /\ stack \in Seq(Frames) /\ up
  <2>1. signals # <<>>
    BY <1>1 DEF IInv, TypeOK
  <2> QED BY <2>1 DEF IInv, TypeOK
<1>4. signals' \in Seq(Watchers)
  BY <1>1, <1>3, RemoveAtElements
<1>5. Distinct(signals') /\ \A x : x # w /\ IsIn(x, signals) => IsIn(x, signals')
  BY <1>1, <1>3, RemoveDistinct
<1>6. TypeOK'
  BY <1>2, <1>3, <1>4, <1>5 DEF TypeOK
<1>7. ASSUME NEW i \in 1..Len(stack), stack[i].kind = "walk" PROVE stack[i].next # w
  <2>1. stack # <<>> /\ stack[Len(stack)].kind = "callback"
    BY <1>2, <1>3 DEF InClient, In, Last
  <2>2. stack[Len(stack)].w \notin {ListHead, stack[i].next}
    BY <1>7, <2>1 DEF IInv, WalksOK
  <2>3. w = stack[Len(stack)].w
    BY <1>2, <2>1, <2>2 DEF InSignalCallback, In, Last
  <2> QED BY <2>2, <2>3
<1>8. WalksOK(stack, signals')
  BY <1>5, <1>7 DEF IInv, WalksOK
<1>9. ASSUME NEW v \in owed \ {w}
      PROVE  v \in Watchers /\ IsIn(v, signals') /\ Due(pipe, stack, signals', signo[v], v)
  <2>1. v \in Watchers /\ IsIn(v, signals) /\ Due(pipe, stack, signals, signo[v], v)
    BY DEF IInv, Kept
  <2>2. \A x : x # w /\ Behind(signals, x, v) => Behind(signals', x, v)
    BY <1>1, <1>3, RemoveBehind
  <2>3. Due(pipe, stack, signals', signo[v], v)
    BY <1>7, <2>1, <2>2 DEF Due
  <2> QED BY <1>5, <2>1, <2>3
<1> QED BY <1>2, <1>6, <1>8, <1>9 DEF IInv, Kept

\* uloop_init and uloop_done empty the pipe when there is no watcher.
LEMMA SetupInv ==
  ASSUME IInv, uloop_init \/ uloop_done
  PROVE  IInv'
<1>1. signals = <<>> /\ UNCHANGED <<signals, signo, stack, owed>> /\ pipe' = <<>>
  BY DEF IInv, TypeOK, uloop_init, uloop_done, lists, history
<1>2. owed = {}
  BY <1>1 DEF IInv, Kept, IsIn
<1>3. pipe' \in Seq(Signals)
  BY <1>1
<1> QED BY <1>1, <1>2, <1>3 DEF IInv, TypeOK, Kept

LEMMA InitInv == Init => IInv
<1> SUFFICES ASSUME Init PROVE IInv
  OBVIOUS
<1>1. Len(stack) = 0 /\ Len(signals) = 0 /\ owed = {}
  BY DEF Init
<1>2. TypeOK
  BY <1>1 DEF Init, TypeOK, Distinct
<1> QED BY <1>1, <1>2 DEF IInv, WalksOK, Kept

LEMMA NextInv == IInv /\ [Next]_vars => IInv'
<1> SUFFICES ASSUME IInv, [Next]_vars PROVE IInv'
  OBVIOUS
<1>1. ASSUME UNCHANGED <<pipe, up, signals, signo, stack, owed>> PROVE IInv'
  BY <1>1 DEF IInv, TypeOK, Kept
<1>2. CASE Client
  <2>1. CASE \E d \in Dispositions : SetHandler(d[1], d[2])
    BY <1>1, <2>1 DEF SetHandler, lists
  <2>2. CASE \E w \in Watchers, s \in Signals : uloop_signal_add(w, s)
    BY <2>2, AddInv
  <2>3. CASE \E w \in Watchers : uloop_signal_delete(w)
    BY <2>3, DeleteInv
  <2>4. CASE \E once \in BOOLEAN : uloop_run(once)
    BY <2>4, RunInv
  <2>5. CASE uloop_end
    BY <1>1, <2>5 DEF uloop_end, lists, history
  <2>6. CASE uloop_init \/ uloop_done
    BY <2>6, SetupInv
  <2> QED BY <1>2, <2>1, <2>2, <2>3, <2>4, <2>5, <2>6 DEF Client
<1>3. CASE Run
  <2>1. CASE Timeouts \/ Poll \/ PollOther \/ LoopAgain \/ LoopEnd
    BY <2>1, RunInv
  <2>2. CASE signal_consume
    BY <2>2, ConsumeInv
  <2>3. CASE \E w \in Watchers : Visit(w)
    BY <2>3, VisitInv
  <2>4. CASE WalkDone
    BY <2>4, WalkDoneInv
  <2> QED BY <1>3, <2>1, <2>2, <2>3, <2>4 DEF Run
<1>4. CASE CallbackReturn
  BY <1>4, CallbackReturnInv
<1>5. CASE \E s \in Signals : Deliver(s)
  BY <1>5, DeliverInv
<1>6. CASE UNCHANGED vars
  BY <1>1, <1>6 DEF vars, lists, history
<1> QED BY <1>2, <1>3, <1>4, <1>5, <1>6 DEF Next

LEMMA Inductive == Spec => []IInv
BY InitInv, NextInv, PTL DEF Spec

\* Whenever the handler could write a signal for a watcher, and whatever the
\* callbacks of a walk add and delete, the watcher's callback is still due.
THEOREM SignalsKept == Spec => []NoLostSignal
<1>1. IInv => NoLostSignal
  <2> SUFFICES ASSUME IInv, NEW w \in owed
               PROVE  \/ \E i \in 1..Len(pipe) : pipe[i] = signo[w]
                      \/ \E i \in 1..Len(stack) : /\ stack[i].kind = "walk"
                                                  /\ signo[w] \in stack[i].signums
                                                  /\ w \in Reached(stack[i])
    BY DEF NoLostSignal
  <2>1. Due(pipe, stack, signals, signo[w], w) /\ signals \in Seq(Watchers)
    BY DEF IInv, Kept, TypeOK
  <2>2. ASSUME NEW k \in 1..Len(stack), Behind(signals, stack[k].next, w) PROVE w \in Reached(stack[k])
    <3>1. PICK i, j \in 1..Len(signals) : i <= j /\ signals[i] = stack[k].next /\ signals[j] = w
      BY <2>2 DEF Behind
    <3>2. i \in 1..j
      BY <2>1, <3>1
    <3> QED BY <3>1, <3>2 DEF Reached
  <2> QED BY <2>1, <2>2 DEF Due, IsIn
<1> QED BY <1>1, Inductive, PTL

-----------------------------------------------------------------------------
(* Handlers. *)

LEMMA SetHandlerH ==
  ASSUME IInv, HInv, NEW d \in Dispositions, SetHandler(d[1], d[2]), <<SIGPIPE, "ign">> \notin Dispositions
  PROVE  HInv'
<1> DEFINE s == d[1]
           h == d[2]
<1>1. d = <<s, h>> /\ s \in Signals /\ h \in Chosen /\ SIGPIPE \in Signals
  BY SignalsAssumption DEF SignalsAssumption, Chosen
<1>2. s = SIGPIPE => h # "ign"
  BY <1>1
<1>3. /\ \A v \in Pending : signo[v] # s
      /\ handler' = [handler EXCEPT ![s] = h] /\ choice' = [choice EXCEPT ![s] = h]
      /\ UNCHANGED <<up, old, signals, signo, orig>>
  BY DEF SetHandler, lists
<1>4. Pending' = Pending
  BY <1>3 DEF Pending
<1> HIDE DEF s, h
<1>5. /\ handler \in [Signals -> Handlers] /\ choice \in [Signals -> Chosen] /\ choice[SIGPIPE] # "ign"
      /\ (~up => handler = choice) /\ Chosen \subseteq Handlers
  BY DEF HInv, HandlersType, Chosen, Handlers
<1>6. /\ handler'[s] = h /\ choice'[s] = h
      /\ \A t \in Signals : t # s => handler'[t] = handler[t] /\ choice'[t] = choice[t]
  BY <1>1, <1>3, <1>5
<1>7. HandlersType'
  <2>1. handler' \in [Signals -> Handlers] /\ choice' \in [Signals -> Chosen]
    BY <1>1, <1>3, <1>5
  <2>2. choice'[SIGPIPE] # "ign" /\ (~up => handler' = choice')
    BY <1>1, <1>2, <1>3, <1>5, <1>6
  <2> QED BY <1>3, <2>1, <2>2 DEF HInv, HandlersType
<1>8. Watched' /\ OneKeeps'
  BY <1>3, <1>4, <1>6 DEF HInv, Watched, OneKeeps
<1>9. Unwatched'
  BY <1>3, <1>4, <1>6 DEF HInv, Unwatched, Keeps, Base
<1> QED BY <1>7, <1>8, <1>9 DEF HInv

\* The new watcher finds uloop_signal_wake if another keeps the handler, and
\* what the signal had without watchers if none does.
LEMMA AddH ==
  ASSUME IInv, HInv, NEW w \in Watchers, NEW s \in Signals, uloop_signal_add(w, s)
  PROVE  HInv'
<1>1. PICK p \in 1..(Len(signals) + 1) : signals' = InsertAt(signals, p, w)
  BY DEF uloop_signal_add, Linked
<1>2. /\ up /\ w \notin Pending
      /\ signo' = [signo EXCEPT ![w] = s] /\ orig' = [orig EXCEPT ![w] = handler[s]]
      /\ handler' = [handler EXCEPT ![s] = "wake"] /\ UNCHANGED <<up, old, choice>>
  BY DEF uloop_signal_add, Installed, history
<1>3. /\ signals \in Seq(Watchers) /\ signo \in [Watchers -> Nat] /\ Pending \subseteq Watchers
      /\ handler \in [Signals -> Handlers] /\ orig \in [Watchers -> Handlers]
  BY DEF IInv, TypeOK, HInv, HandlersType, Pending
<1>4. Pending' = Pending \cup {w}
  <2> DEFINE r == InsertAt(signals, p, w)
  <2>0. signals \in Seq(Watchers) /\ Len(signals) \in Nat /\ p \in Int
    BY <1>1, <1>3
  <2>1. /\ Len(r) = Len(signals) + 1
        /\ \A k \in 1..(Len(signals) + 1) :
             (k < p => r[k] = signals[k]) /\ (k = p => r[k] = w) /\ (k > p => r[k] = signals[k - 1])
    BY <2>0, InsertAtEach
  <2> DEFINE n == Len(signals)
  <2>2. signals' = r
    BY <1>1
  <2> HIDE DEF r
  <2>3. n \in Nat /\ p \in Int
    BY <1>1, <1>3
  <2>4. ASSUME NEW k \in 1..(n + 1) PROVE r[k] \in Pending \cup {w}
    <3>1. k < p => k \in 1..n
      BY <1>1, <2>3
    <3>2. k > p => k - 1 \in 1..n
      BY <1>1, <2>3
    <3> QED BY <2>1, <2>3, <3>1, <3>2 DEF Pending
  <2>5. ASSUME NEW k \in 1..n PROVE \E j \in 1..(n + 1) : r[j] = signals[k]
    <3>1. CASE k < p
      BY <2>1, <2>3, <3>1
    <3>2. CASE k >= p
      <4>1. k + 1 \in 1..(n + 1) /\ k + 1 > p /\ (k + 1) - 1 = k
        BY <2>3, <3>2
      <4> QED BY <2>1, <4>1
    <3> QED BY <2>3, <3>1, <3>2
  <2>6. p \in 1..(n + 1) /\ r[p] = w
    BY <1>1, <2>1
  <2>7. Pending' = {r[k] : k \in 1..(n + 1)}
    BY <2>1, <2>2 DEF Pending
  <2>8. ASSUME NEW x \in Pending PROVE x \in Pending'
    <3>1. PICK k \in 1..n : x = signals[k]
      BY DEF Pending
    <3> QED BY <2>5, <2>7, <3>1
  <2> QED BY <2>4, <2>6, <2>7, <2>8
<1>5. /\ signo'[w] = s /\ orig'[w] = handler[s]
      /\ \A v \in Pending : signo'[v] = signo[v] /\ orig'[v] = orig[v]
  BY <1>2, <1>3
<1>6. handler'[s] = "wake" /\ \A t \in Signals : t # s => handler'[t] = handler[t]
  BY <1>2, <1>3
<1>7. HandlersType'
  <2>1. handler' \in [Signals -> Handlers]
    BY <1>2, <1>3 DEF Handlers
  <2>2. orig' \in [Watchers -> Handlers]
    BY <1>2, <1>3
  <2> QED BY <1>2, <2>1, <2>2 DEF HInv, HandlersType
<1>8. orig'[w] # "wake" => \A v \in Pending : ~Keeps(v, s)
  BY <1>5 DEF HInv, Watched, Keeps
<1>9. orig'[w] # "wake" => Base(s, handler[s], choice[s])
  BY <1>8 DEF HInv, Unwatched
<1>10. Watched'
  <2> SUFFICES ASSUME NEW v \in Pending \cup {w}
               PROVE  /\ signo'[v] \in Signals
                      /\ orig'[v] # "wake" =>
                           handler'[signo'[v]] = "wake" /\ Base(signo'[v], orig'[v], choice[signo'[v]])
    BY <1>2, <1>4 DEF Watched
  <2>1. CASE v = w
    BY <1>5, <1>6, <1>9, <2>1
  <2>2. CASE v \in Pending
    BY <1>5, <1>6, <2>2 DEF HInv, Watched
  <2> QED BY <2>1, <2>2
<1>11. OneKeeps'
  BY <1>4, <1>5, <1>8 DEF HInv, OneKeeps, Keeps
<1>12. Unwatched'
  <2> SUFFICES ASSUME NEW t \in Signals, \A v \in Pending \cup {w} : ~Keeps(v, t)'
               PROVE  Base(t, handler'[t], choice[t])
    BY <1>2, <1>4 DEF Unwatched
  <2>1. \A v \in Pending : ~Keeps(v, t)
    BY <1>5 DEF Keeps
  <2>2. Base(t, handler[t], choice[t])
    BY <2>1 DEF HInv, Unwatched
  <2>3. t = s => handler[s] = "wake"
    BY <1>5 DEF Keeps
  <2> QED BY <1>6, <2>2, <2>3
<1> QED BY <1>7, <1>10, <1>11, <1>12 DEF HInv

\* The watcher that keeps the handler hands it back, and no other kept one.
LEMMA DeleteH ==
  ASSUME IInv, HInv, NEW w \in Watchers, uloop_signal_delete(w)
  PROVE  HInv'
<1>1. PICK p \in 1..Len(signals) : signals[p] = w /\ signals' = RemoveAt(signals, p)
  BY DEF uloop_signal_delete
<1>2. /\ w \in Pending
      /\ handler' = IF orig[w] # "wake" THEN [handler EXCEPT ![signo[w]] = orig[w]] ELSE handler
      /\ UNCHANGED <<up, old, signo, orig, choice>>
  BY DEF uloop_signal_delete
<1>3. /\ signals \in Seq(Watchers) /\ Distinct(signals)
      /\ handler \in [Signals -> Handlers] /\ orig \in [Watchers -> Handlers]
  BY DEF IInv, TypeOK, HInv, HandlersType
<1>4. up
  <2>1. signals # <<>>
    BY <1>1, <1>3
  <2> QED BY <2>1 DEF IInv, TypeOK
<1>5. Pending' = Pending \ {w}
  <2> DEFINE r == RemoveAt(signals, p)
             n == Len(signals)
  <2>1. /\ Len(r) = n - 1
        /\ \A k \in 1..(n - 1) : r[k] = IF k < p THEN signals[k] ELSE signals[k + 1]
    BY <1>1, <1>3, RemoveAtElements
  <2>2. signals' = r
    BY <1>1
  <2> HIDE DEF r
  <2>3. n \in Nat /\ p \in Int
    BY <1>1, <1>3
  <2>4. ASSUME NEW k \in 1..(n - 1) PROVE r[k] \in Pending \ {w}
    <3> DEFINE j == IF k < p THEN k ELSE k + 1
    <3>1. j \in 1..n /\ j # p /\ r[k] = signals[j]
      BY <1>1, <2>1, <2>3
    <3> HIDE DEF j
    <3>2. signals[j] # signals[p]
      BY <1>1, <1>3, <3>1 DEF Distinct
    <3> QED BY <1>1, <3>1, <3>2 DEF Pending
  <2>5. ASSUME NEW j \in 1..n, signals[j] # w PROVE \E k \in 1..(n - 1) : r[k] = signals[j]
    <3>1. j # p
      BY <1>1, <2>5
    <3>2. CASE j < p
      BY <1>1, <2>1, <2>3, <3>2
    <3>3. CASE j > p
      <4>1. j - 1 \in 1..(n - 1) /\ ~(j - 1 < p) /\ (j - 1) + 1 = j
        BY <1>1, <2>3, <3>3
      <4> QED BY <2>1, <4>1
    <3> QED BY <2>3, <3>1, <3>2, <3>3
  <2>6. Len(r) = n - 1 /\ \A x \in Pending : \E j \in 1..n : x = signals[j]
    BY <2>1 DEF Pending
  <2> QED BY <2>2, <2>4, <2>5, <2>6 DEF Pending
<1>6. /\ signo[w] \in Signals
      /\ orig[w] # "wake" => handler[signo[w]] = "wake" /\ Base(signo[w], orig[w], choice[signo[w]])
  BY <1>2 DEF HInv, Watched
<1>7. /\ orig[w] # "wake" => handler'[signo[w]] = orig[w]
      /\ \A t \in Signals : t # signo[w] \/ orig[w] = "wake" => handler'[t] = handler[t]
  BY <1>2, <1>3, <1>6
<1>8. HandlersType'
  <2>1. handler' \in [Signals -> Handlers]
    BY <1>2, <1>3, <1>6
  <2> QED BY <1>2, <1>4, <2>1 DEF HInv, HandlersType
<1>9. ASSUME NEW v \in Pending \ {w}, orig[v] # "wake" PROVE handler'[signo[v]] = handler[signo[v]]
  <2>1. signo[v] \in Signals
    BY DEF HInv, Watched
  <2>2. signo[v] # signo[w] \/ orig[w] = "wake"
    BY <1>2, <1>9 DEF HInv, OneKeeps
  <2> QED BY <1>7, <2>1, <2>2
<1>10. Watched'
  BY <1>2, <1>5, <1>9 DEF HInv, Watched
<1>11. OneKeeps'
  BY <1>2, <1>5 DEF HInv, OneKeeps
<1>12. Unwatched'
  <2> SUFFICES ASSUME NEW t \in Signals, \A v \in Pending \ {w} : ~Keeps(v, t)
               PROVE  Base(t, handler'[t], choice[t])
    BY <1>2, <1>5 DEF Unwatched, Keeps
  <2>1. CASE t = signo[w] /\ orig[w] # "wake"
    BY <1>6, <1>7, <2>1
  <2>2. CASE ~(t = signo[w] /\ orig[w] # "wake")
    <3>1. \A v \in Pending : ~Keeps(v, t)
      BY <2>2 DEF Keeps
    <3>2. Base(t, handler[t], choice[t])
      BY <3>1 DEF HInv, Unwatched
    <3> QED BY <1>7, <2>2, <3>2
  <2> QED BY <2>1, <2>2
<1> QED BY <1>8, <1>10, <1>11, <1>12 DEF HInv

LEMMA SetupH ==
  ASSUME IInv, HInv, uloop_init
  PROVE  HInv'
<1>1. /\ ~up /\ up' = TRUE /\ UNCHANGED <<signals, signo, orig, choice>>
      /\ old' = [s \in Ints \cup {SIGCHLD} |-> IF handler[s] = "dfl" THEN handler[s] ELSE old[s]]
      /\ handler' = [s \in Signals |->
           IF handler[s] # "dfl" THEN handler[s]
           ELSE IF s \in Ints \cup {SIGCHLD} THEN HandlerOf(s)
           ELSE IF s = SIGPIPE THEN "ign" ELSE "dfl"]
  BY DEF uloop_init, lists, history
<1>2. /\ handler \in [Signals -> Handlers] /\ handler = choice /\ Len(signals) = 0
      /\ old = [s \in Ints \cup {SIGCHLD} |-> "dfl"] /\ Ints \cup {SIGCHLD} \subseteq Signals
  BY <1>1, SignalsAssumption DEF SignalsAssumption, IInv, TypeOK, HInv, HandlersType
<1>3. \A s \in Signals : HandlerOf(s) \in Handlers
  BY DEF HandlerOf, Handlers
<1>4. handler' \in [Signals -> Handlers]
  BY <1>1, <1>2, <1>3 DEF Handlers
<1>5. old' = [s \in Ints \cup {SIGCHLD} |-> "dfl"]
  BY <1>1, <1>2
<1>6. HandlersType'
  BY <1>1, <1>4, <1>5 DEF HInv, HandlersType
<1>7. \A s \in Signals : Base(s, handler'[s], choice[s])
  BY <1>1, <1>2 DEF Base
<1>8. Watched' /\ OneKeeps' /\ Unwatched'
  BY <1>1, <1>2, <1>7 DEF Watched, OneKeeps, Unwatched, Pending
<1> QED BY <1>6, <1>8 DEF HInv

\* uloop_done finds what uloop put in place of the default, and nothing else.
LEMMA DoneH ==
  ASSUME IInv, HInv, uloop_done
  PROVE  HInv'
<1>1. /\ up' = FALSE /\ handler' = Restored /\ signals = <<>> /\ UNCHANGED <<signals, signo, orig, choice, old>>
  BY DEF uloop_done, lists, history
<1>2. /\ handler \in [Signals -> Handlers] /\ choice \in [Signals -> Chosen] /\ Len(signals) = 0
      /\ choice[SIGPIPE] # "ign" /\ old = [s \in Ints \cup {SIGCHLD} |-> "dfl"]
  BY <1>1 DEF HInv, HandlersType
<1>3. \A s \in Signals : Base(s, handler[s], choice[s])
  BY <1>2 DEF HInv, Unwatched, Pending
<1>4. \A s \in Ints \cup {SIGCHLD} : old[s] = "dfl"
  BY <1>2
<1>5. ASSUME NEW s \in Signals
      PROVE  (IF s \in Ints \cup {SIGCHLD} /\ handler[s] = HandlerOf(s) THEN old[s]
              ELSE IF s = SIGPIPE /\ handler[s] = "ign" THEN "dfl" ELSE handler[s]) = choice[s]
  <2>1. HandlerOf(s) \notin Chosen /\ choice[s] \in Chosen
    BY <1>2 DEF HandlerOf, Chosen
  <2>2. \/ handler[s] = choice[s]
        \/ choice[s] = "dfl" /\ s \in Ints \cup {SIGCHLD} /\ handler[s] = HandlerOf(s)
        \/ choice[s] = "dfl" /\ s = SIGPIPE /\ handler[s] = "ign"
    BY <1>3 DEF Base
  <2>3. CASE s \in Ints \cup {SIGCHLD} /\ handler[s] = HandlerOf(s)
    BY <1>4, <2>1, <2>2, <2>3
  <2>4. CASE ~(s \in Ints \cup {SIGCHLD} /\ handler[s] = HandlerOf(s))
    BY <1>2, <2>2, <2>4
  <2> QED BY <2>3, <2>4
<1>6. handler' = choice
  <2>1. choice = [s \in Signals |-> choice[s]]
    BY <1>2
  <2> QED BY <1>1, <1>5, <2>1 DEF Restored
<1>7. HandlersType'
  BY <1>1, <1>2, <1>6 DEF HInv, HandlersType, Chosen, Handlers
<1>8. Watched' /\ OneKeeps' /\ Unwatched'
  BY <1>1, <1>2, <1>6 DEF Watched, OneKeeps, Unwatched, Base, Pending
<1> QED BY <1>7, <1>8 DEF HInv

LEMMA NextH ==
  ASSUME <<SIGPIPE, "ign">> \notin Dispositions
  PROVE  IInv /\ HInv /\ [Next]_vars => HInv'
<1> SUFFICES ASSUME IInv, HInv, [Next]_vars PROVE HInv'
  OBVIOUS
<1>1. ASSUME UNCHANGED <<handler, up, old, lists, choice>> PROVE HInv'
  BY <1>1 DEF HInv, HandlersType, Watched, OneKeeps, Unwatched, Keeps, Base, Pending, lists
<1>2. CASE Client
  <2>1. CASE \E d \in Dispositions : SetHandler(d[1], d[2])
    BY <2>1, SetHandlerH
  <2>2. CASE \E w \in Watchers, s \in Signals : uloop_signal_add(w, s)
    BY <2>2, AddH
  <2>3. CASE \E w \in Watchers : uloop_signal_delete(w)
    BY <2>3, DeleteH
  <2>4. CASE (\E once \in BOOLEAN : uloop_run(once)) \/ uloop_end
    BY <1>1, <2>4 DEF uloop_run, uloop_end, history
  <2>5. CASE uloop_init
    BY <2>5, SetupH
  <2>6. CASE uloop_done
    BY <2>6, DoneH
  <2> QED BY <1>2, <2>1, <2>2, <2>3, <2>4, <2>5, <2>6 DEF Client
<1>3. CASE Run
  <2>1. CASE Timeouts \/ Poll \/ PollOther \/ LoopAgain \/ LoopEnd \/ signal_consume \/ WalkDone
    BY <1>1, <2>1 DEF Timeouts, Poll, PollOther, LoopAgain, LoopEnd, signal_consume, WalkDone, history
  <2>2. CASE \E w \in Watchers : Visit(w)
    BY <1>1, <2>2 DEF Visit
  <2> QED BY <1>3, <2>1, <2>2 DEF Run
<1>4. CASE CallbackReturn \/ \E s \in Signals : Deliver(s)
  BY <1>1, <1>4 DEF CallbackReturn, Deliver, history
<1>5. CASE UNCHANGED vars
  BY <1>1, <1>5 DEF vars, history
<1> QED BY <1>2, <1>3, <1>4, <1>5 DEF Next

LEMMA InitH == Init => HInv
<1> SUFFICES ASSUME Init PROVE HInv
  OBVIOUS
<1>1. SIGPIPE \in Signals /\ Len(signals) = 0
  BY SignalsAssumption DEF SignalsAssumption, Init
<1>2. HandlersType
  BY <1>1 DEF Init, HandlersType, Chosen, Handlers
<1>3. Watched /\ OneKeeps
  BY <1>1 DEF Watched, OneKeeps, Pending
<1>4. Unwatched
  BY DEF Init, Unwatched, Base
<1> QED BY <1>2, <1>3, <1>4 DEF HInv

\* In whatever order watchers come and go, a signal is handled while the watcher
\* that keeps its old handler is pending, and uloop_done leaves the dispositions
\* the client chose, if the client does not ignore SIGPIPE itself.
THEOREM HandlersRestored ==
  ASSUME <<SIGPIPE, "ign">> \notin Dispositions
  PROVE  Spec => []HandlersOK
<1>1. HInv => HandlersOK
  BY DEF HInv, HandlersType, Watched, HandlersOK
<1>2. Spec => []HInv
  BY InitH, NextH, Inductive, PTL DEF Spec
<1> QED BY <1>1, <1>2, PTL
=============================================================================
