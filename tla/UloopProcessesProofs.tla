------------------------ MODULE UloopProcessesProofs ------------------------
(***************************************************************************)
(* For any children, watchers, size of the pipe and nesting of loops: no   *)
(* SIGCHLD is lost, and the search for a watcher finds it.                 *)
(***************************************************************************)
EXTENDS UloopProcesses, ListLemmas

-----------------------------------------------------------------------------
(* The inductive invariant. *)

\* The list is sorted, and a child has one watcher.
Increasing ==
  /\ \A i \in 1..Len(processes) : pid[processes[i]] \in Pids
  /\ \A i, j \in 1..Len(processes) : i < j => pid[processes[i]] < pid[processes[j]]

\* Loops run and children are watched only between uloop_init and uloop_done.
UpOK == (stack # <<>> \/ processes # <<>>) => up

\* A loop below a callback is not about to call epoll_wait.
BelowOK == \A i \in 1..(Len(stack) - 1) : stack[i] # "poll"

\* A watched child waits to be collected.
Waiting == \E i \in 1..Len(processes) : child[pid[processes[i]]] = "zombie"

\* At any point of the program, the news of a waiting child is on its way.
Signalled == Waiting /\ ~sigchld => do_sigchld \/ \E i \in 1..Len(stack) : stack[i] = "wait"

Asleep ==
  stack # <<>> /\ stack[Len(stack)] = "poll" /\ Waiting /\ ~sigchld
    => (do_sigchld /\ pipe > 0) \/ \E i \in 1..(Len(stack) - 1) : stack[i] = "wait"

Listed == Increasing /\ \A i \in 1..Len(processes) : child[pid[processes[i]]] # "none"

IInv == TypeOK /\ Listed /\ UpOK /\ BelowOK /\ Signalled /\ Asleep

-----------------------------------------------------------------------------
(* The stack. *)

Frames == Points \cup Callbacks

\* The frame on top of a non-empty stack.
LEMMA Tops ==
  ASSUME stack \in Seq(Frames), NEW point \in Points, At(point)
  PROVE  stack # <<>> /\ Len(stack) \in Nat \ {0} /\ stack[Len(stack)] = point
BY DEF At, Last

\* The top frame is replaced.
LEMMA Replaced ==
  ASSUME NEW s \in Seq(Frames), s # <<>>, NEW x \in Frames
  PROVE  /\ Append(Front(s), x) \in Seq(Frames)
         /\ Len(Append(Front(s), x)) = Len(s)
         /\ Append(Front(s), x)[Len(s)] = x
         /\ \A i \in 1..(Len(s) - 1) : Append(Front(s), x)[i] = s[i]
<1> DEFINE f == Front(s)
<1>1. f \in Seq(Frames) /\ Len(f) = Len(s) - 1 /\ \A i \in 1..(Len(s) - 1) : f[i] = s[i]
  BY FrontElements
<1>2. Len(s) \in Nat
  OBVIOUS
<1> HIDE DEF f
<1> SUFFICES /\ Append(f, x) \in Seq(Frames)
             /\ Len(Append(f, x)) = Len(s)
             /\ Append(f, x)[Len(s)] = x
             /\ \A i \in 1..(Len(s) - 1) : Append(f, x)[i] = s[i]
  BY DEF f
<1> QED BY <1>1, <1>2

\* The top frame is replaced, and another one is on top of it.
LEMMA ReplacedPushed ==
  ASSUME NEW s \in Seq(Frames), s # <<>>, NEW x \in Frames, NEW y \in Frames
  PROVE  /\ Front(s) \o <<x, y>> \in Seq(Frames)
         /\ Len(Front(s) \o <<x, y>>) = Len(s) + 1
         /\ (Front(s) \o <<x, y>>)[Len(s) + 1] = y
         /\ (Front(s) \o <<x, y>>)[Len(s)] = x
         /\ \A i \in 1..(Len(s) - 1) : (Front(s) \o <<x, y>>)[i] = s[i]
<1> DEFINE f == Front(s)
           g == <<x, y>>
<1>1. f \in Seq(Frames) /\ Len(f) = Len(s) - 1 /\ \A i \in 1..(Len(s) - 1) : f[i] = s[i]
  BY FrontElements
<1>2. Len(s) \in Nat \ {0}
  OBVIOUS
<1>3. g \in Seq(Frames) /\ Len(g) = 2 /\ g[1] = x /\ g[2] = y
  OBVIOUS
<1> HIDE DEF f, g
<1>4. /\ f \o g \in Seq(Frames)
      /\ Len(f \o g) = Len(f) + Len(g)
      /\ \A k \in 1..(Len(f) + Len(g)) : (f \o g)[k] = IF k <= Len(f) THEN f[k] ELSE g[k - Len(f)]
  BY <1>1, <1>3, ConcatElements
<1>5. Len(f \o g) = Len(s) + 1 /\ \A i \in 1..(Len(s) - 1) : (f \o g)[i] = s[i]
  BY <1>1, <1>2, <1>3, <1>4
<1>6. (f \o g)[Len(s)] = g[1] /\ (f \o g)[Len(s) + 1] = g[2]
  <2>1. Len(s) - Len(f) = 1 /\ Len(s) + 1 - Len(f) = 2
    BY <1>1, <1>2
  <2>2. Len(s) \in 1..(Len(f) + Len(g)) /\ Len(s) + 1 \in 1..(Len(f) + Len(g))
    BY <1>1, <1>2, <1>3
  <2>3. ~(Len(s) <= Len(f)) /\ ~(Len(s) + 1 <= Len(f))
    BY <1>1, <1>2
  <2> QED BY <1>4, <2>1, <2>2, <2>3
<1> QED BY <1>3, <1>4, <1>5, <1>6 DEF f, g

-----------------------------------------------------------------------------
(* The list of watchers. *)

\* Unlinking keeps the order, and leaves only what was there.
LEMMA UnlinkedOK ==
  ASSUME TypeOK, Listed, NEW w \in Watchers, NEW rest \in Unlinked(w)
  PROVE  /\ rest \in Seq(Watchers)
         /\ \A i \in 1..Len(rest) : pid[rest[i]] \in Pids
         /\ \A i, j \in 1..Len(rest) : i < j => pid[rest[i]] < pid[rest[j]]
         /\ \A i \in 1..Len(rest) : \E k \in 1..Len(processes) : rest[i] = processes[k] /\ rest[i] # w
<1>1. PICK p \in 1..Len(processes) : processes[p] = w /\ rest = RemoveAt(processes, p)
  BY DEF Unlinked
<1>2. processes \in Seq(Watchers) /\ Len(processes) \in Nat /\ p \in Int
  BY DEF TypeOK
<1>3. /\ rest \in Seq(Watchers)
      /\ Len(rest) = Len(processes) - 1
      /\ \A k \in 1..(Len(processes) - 1) :
           rest[k] = IF k < p THEN processes[k] ELSE processes[k + 1]
  BY <1>1, <1>2, RemoveAtElements
<1> DEFINE old(k) == IF k < p THEN k ELSE k + 1
<1>4. \A k \in 1..Len(rest) : old(k) \in 1..Len(processes) /\ old(k) # p /\ rest[k] = processes[old(k)]
  BY <1>2, <1>3
<1>5. \A i, j \in 1..Len(rest) : i < j => old(i) < old(j)
  BY <1>2, <1>3
<1>6. \A k \in 1..Len(processes) : pid[processes[k]] \in Nat
  BY ProcessesAssumption DEF Listed, Increasing
<1>7. \A k \in 1..Len(processes) : k # p => processes[k] # w
  <2>1. SUFFICES ASSUME NEW k \in 1..Len(processes), k # p, processes[k] = processes[p] PROVE FALSE
    BY <1>1
  <2>2. k < p \/ p < k
    BY <1>2, <2>1
  <2> QED BY <1>6, <2>1, <2>2 DEF Listed, Increasing
<1> HIDE DEF old
<1>8. \A i \in 1..Len(rest) : pid[rest[i]] \in Pids
  BY <1>4 DEF Listed, Increasing
<1>9. \A i, j \in 1..Len(rest) : i < j => pid[rest[i]] < pid[rest[j]]
  BY <1>4, <1>5 DEF Listed, Increasing
<1> QED BY <1>3, <1>4, <1>7, <1>8, <1>9

\* Linking a watcher for a child that has none keeps the order.
LEMMA LinkedOK ==
  ASSUME TypeOK, Listed, NEW w \in Watchers, NEW c \in Pids,
         \A i \in 1..Len(processes) : processes[i] # w /\ pid[processes[i]] # c,
         NEW new \in Linked(w, c)
  PROVE  LET q == [pid EXCEPT ![w] = c] IN
         /\ new \in Seq(Watchers)
         /\ \A i \in 1..Len(new) : q[new[i]] \in Pids
         /\ \A i, j \in 1..Len(new) : i < j => q[new[i]] < q[new[j]]
         /\ \A i \in 1..Len(new) : \/ q[new[i]] = c
                                   \/ \E k \in 1..Len(processes) : q[new[i]] = pid[processes[k]]
<1> DEFINE q == [pid EXCEPT ![w] = c]
<1>1. PICK p \in 1..(Len(processes) + 1) :
        /\ new = InsertAt(processes, p, w)
        /\ \A j \in 1..(p - 1) : pid[processes[j]] <= c
        /\ p <= Len(processes) => pid[processes[p]] > c
  BY DEF Linked
<1>2. processes \in Seq(Watchers) /\ Len(processes) \in Nat /\ p \in Int /\ pid \in [Watchers -> Pids \cup {0}]
  BY DEF TypeOK
<1>3. new \in Seq(Watchers)
  BY <1>1, <1>2, InsertAtElements
<1>4. Len(new) = Len(processes) + 1
  BY <1>1, <1>2, InsertAtElements
<1>5. new[p] = w
  BY <1>1, <1>2, InsertAtElements
<1>6. \A k \in 1..(p - 1) : new[k] = processes[k]
  BY <1>1, <1>2, InsertAtElements
<1>7. \A k \in (p + 1)..(Len(processes) + 1) : new[k] = processes[k - 1]
  BY <1>1, <1>2, InsertAtAfter, Zenon
<1> DEFINE v(k) == pid[processes[k]]
<1>8. \A k \in 1..Len(processes) : v(k) \in Pids /\ v(k) # c
  BY DEF Listed, Increasing
<1>9. \A i, j \in 1..Len(processes) : i < j => v(i) < v(j)
  BY DEF Listed, Increasing
<1>10. /\ q[w] = c
       /\ \A k \in 1..Len(processes) : q[processes[k]] = v(k)
  BY <1>2
<1>11. Pids \subseteq Nat
  BY ProcessesAssumption
<1>19. c \in Nat
  BY <1>11
<1>20. \A k \in 1..Len(processes) : v(k) \in Nat
  <2> HIDE DEF v
  <2>1. SUFFICES ASSUME NEW k \in 1..Len(processes) PROVE v(k) \in Nat
    OBVIOUS
  <2>2. v(k) \in Pids
    BY <1>8
  <2> QED BY <1>11, <2>2, Zenon
<1> DEFINE u(k) == q[new[k]]
<1>12. u(p) = c
  BY <1>5, <1>10
<1>13. \A k \in 1..(p - 1) : u(k) = v(k) /\ v(k) < c
  <2>1. \A k \in 1..(p - 1) : k \in 1..Len(processes) /\ v(k) <= c
    BY <1>1, <1>2
  <2>2. \A k \in 1..(p - 1) : u(k) = v(k)
    BY <1>6, <1>10, <2>1
  <2> HIDE DEF u, v
  <2> QED BY <1>8, <1>19, <1>20, <2>1, <2>2
<1>14. \A k \in (p + 1)..(Len(processes) + 1) : k - 1 \in 1..Len(processes) /\ u(k) = v(k - 1)
  BY <1>2, <1>7, <1>10
<1>15. \A k \in p..Len(processes) : v(k) > c
  <2>1. p <= Len(processes) => v(p) > c
    BY <1>1
  <2> HIDE DEF v
  <2>2. SUFFICES ASSUME NEW k \in p..Len(processes) PROVE v(k) > c
    OBVIOUS
  <2>3. CASE k = p
    BY <2>1, <2>3
  <2>4. CASE k > p
    <3>1. p \in 1..Len(processes) /\ k \in 1..Len(processes)
      BY <1>2, <2>4
    <3>2. v(p) > c /\ v(p) < v(k) /\ v(p) \in Nat /\ v(k) \in Nat
      BY <1>9, <1>20, <2>1, <2>4, <3>1
    <3> QED BY <1>19, <3>2
  <2> QED BY <1>2, <2>3, <2>4
<1> HIDE DEF u, v, q
<1>16. \A k \in 1..Len(new) : u(k) = c \/ \E m \in 1..Len(processes) : u(k) = v(m)
  <2>1. SUFFICES ASSUME NEW k \in 1..Len(new) PROVE u(k) = c \/ \E m \in 1..Len(processes) : u(k) = v(m)
    OBVIOUS
  <2>2. CASE k < p
    BY <1>2, <1>13, <2>2
  <2>3. CASE k = p
    BY <1>12, <2>3
  <2>4. CASE k > p
    BY <1>2, <1>4, <1>14, <2>4
  <2> QED BY <1>2, <2>2, <2>3, <2>4
<1>17. \A k \in 1..Len(new) : u(k) \in Pids
  BY <1>8, <1>16
<1>18. ASSUME NEW i \in 1..Len(new), NEW j \in 1..Len(new), i < j
       PROVE  u(i) < u(j)
  <2>0. c \in Nat /\ (\A k \in 1..Len(processes) : v(k) \in Nat) /\ i \in Int /\ j \in Int
    BY <1>19, <1>20
  <2>1. CASE j < p
    BY <1>2, <1>9, <1>13, <1>18, <2>0, <2>1
  <2>2. CASE j = p
    BY <1>2, <1>12, <1>13, <1>18, <2>0, <2>2
  <2>3. CASE i < p /\ p < j
    <3>1. u(i) = v(i) /\ v(i) < c
      BY <1>13, <2>0, <2>3
    <3>2. u(j) = v(j - 1) /\ v(j - 1) > c /\ v(j - 1) \in Nat
      BY <1>2, <1>4, <1>14, <1>15, <2>0, <2>3
    <3>3. v(i) \in Nat
      BY <1>2, <1>18, <2>0, <2>3
    <3> QED BY <2>0, <3>1, <3>2, <3>3
  <2>4. CASE i = p
    <3>1. u(j) = v(j - 1) /\ v(j - 1) > c
      BY <1>2, <1>4, <1>14, <1>15, <1>18, <2>0, <2>4
    <3> QED BY <1>12, <2>0, <2>4, <3>1
  <2>5. CASE i > p
    <3>1. u(i) = v(i - 1) /\ u(j) = v(j - 1) /\ i - 1 < j - 1 /\ i - 1 \in 1..Len(processes) /\ j - 1 \in 1..Len(processes)
      BY <1>2, <1>4, <1>14, <1>18, <2>0, <2>5
    <3> QED BY <1>9, <3>1
  <2> QED BY <1>2, <1>18, <2>0, <2>1, <2>2, <2>3, <2>4, <2>5
<1> QED BY <1>3, <1>16, <1>17, <1>18 DEF u, v, q

-----------------------------------------------------------------------------
(* Steps. *)

HasWait(s) == \E i \in 1..Len(s) : s[i] = "wait"

\* Steps that only move the program on, to a point before epoll_wait is near.
LEMMA StackStep ==
  ASSUME IInv, UNCHANGED <<child, sigchld, do_sigchld, up, processes, pid>>,
         pipe' \in 0..PipeSize, stack' \in Seq(Frames), stack' # <<>> => up, BelowOK',
         HasWait(stack) => HasWait(stack'),
         stack' # <<>> => stack'[Len(stack')] # "poll"
  PROVE  IInv'
<1>1. TypeOK'
  BY DEF IInv, TypeOK, Frames
<1>2. Listed' /\ (Waiting' <=> Waiting)
  BY DEF IInv, Listed, Increasing, Waiting
<1>3. UpOK'
  BY DEF IInv, UpOK
<1>4. Signalled'
  BY <1>2 DEF IInv, Signalled, HasWait
<1>5. Asleep'
  BY DEF Asleep
<1> QED BY <1>1, <1>2, <1>3, <1>4, <1>5 DEF IInv

\* A loop moves on from a point other than "wait".
LEMMA GotoStep ==
  ASSUME IInv, UNCHANGED <<child, sigchld, do_sigchld, up, processes, pid>>,
         pipe' \in 0..PipeSize, NEW from \in Points, from # "wait", At(from),
         NEW point \in Points, point # "poll", GotoOrCall(point)
  PROVE  IInv'
<1>1. stack \in Seq(Frames) /\ point \in Frames /\ "other" \in Frames
  BY DEF IInv, TypeOK, Frames, Callbacks
<1>2. stack # <<>> /\ Len(stack) \in Nat \ {0} /\ stack[Len(stack)] = from
  BY <1>1, Tops
<1>3. up
  BY <1>2 DEF IInv, UpOK
<1>4. \A i \in 1..(Len(stack) - 1) : stack[i] # "poll"
  BY DEF IInv, BelowOK
<1>5. HasWait(stack) => \E i \in 1..(Len(stack) - 1) : stack[i] = "wait"
  BY <1>2 DEF HasWait
<1>6. CASE stack' = Append(Front(stack), point)
  <2>1. stack' \in Seq(Frames)
    BY <1>1, <1>2, <1>6, Replaced
  <2>2. Len(stack') = Len(stack)
    BY <1>1, <1>2, <1>6, Replaced
  <2>3. stack'[Len(stack)] = point
    BY <1>1, <1>2, <1>6, Replaced
  <2>4. \A i \in 1..(Len(stack) - 1) : stack'[i] = stack[i]
    BY <1>1, <1>2, <1>6, Replaced
  <2>5. BelowOK'
    BY <1>4, <2>2, <2>4 DEF BelowOK
  <2>6. HasWait(stack) => HasWait(stack')
    BY <1>2, <1>5, <2>2, <2>4 DEF HasWait
  <2> QED BY <1>3, <2>1, <2>2, <2>3, <2>5, <2>6, StackStep
<1>7. CASE stack' = Front(stack) \o <<point, "other">>
  <2>1. stack' \in Seq(Frames)
    BY <1>1, <1>2, <1>7, ReplacedPushed
  <2>2. Len(stack') = Len(stack) + 1
    BY <1>1, <1>2, <1>7, ReplacedPushed
  <2>3. stack'[Len(stack) + 1] = "other"
    BY <1>1, <1>2, <1>7, ReplacedPushed
  <2>4. stack'[Len(stack)] = point
    BY <1>1, <1>2, <1>7, ReplacedPushed
  <2>5. \A i \in 1..(Len(stack) - 1) : stack'[i] = stack[i]
    BY <1>1, <1>2, <1>7, ReplacedPushed
  <2>6. BelowOK'
    BY <1>2, <1>4, <2>2, <2>4, <2>5 DEF BelowOK
  <2>7. HasWait(stack) => HasWait(stack')
    BY <1>2, <1>5, <2>2, <2>5 DEF HasWait
  <2> QED BY <1>3, <2>1, <2>2, <2>3, <2>6, <2>7, StackStep
<1> QED BY <1>6, <1>7 DEF GotoOrCall, Goto

\* A callback or a loop returns.
LEMMA PopStep ==
  ASSUME IInv, UNCHANGED <<child, sigchld, do_sigchld, pipe, up, processes, pid>>,
         stack # <<>>, stack[Len(stack)] # "wait", stack' = Front(stack)
  PROVE  IInv'
<1>1. stack \in Seq(Frames) /\ Len(stack) \in Nat \ {0} /\ pipe \in 0..PipeSize
  BY DEF IInv, TypeOK, Frames
<1>2. /\ stack' \in Seq(Frames)
      /\ Len(stack') = Len(stack) - 1
      /\ \A i \in 1..(Len(stack) - 1) : stack'[i] = stack[i]
  BY <1>1, FrontElements
<1>3. up
  BY DEF IInv, UpOK
<1>4. BelowOK'
  BY <1>1, <1>2 DEF IInv, BelowOK
<1>5. HasWait(stack) => HasWait(stack')
  BY <1>1, <1>2 DEF HasWait
<1>6. stack' # <<>> => stack'[Len(stack')] # "poll"
  <2>1. SUFFICES ASSUME stack' # <<>> PROVE stack'[Len(stack')] # "poll"
    OBVIOUS
  <2>2. Len(stack') \in 1..(Len(stack) - 1)
    BY <1>1, <1>2, <2>1
  <2> QED BY <1>2, <2>2 DEF IInv, BelowOK
<1> QED BY <1>1, <1>2, <1>3, <1>4, <1>5, <1>6, StackStep

\* A frame is pushed.
LEMMA PushStep ==
  ASSUME IInv, UNCHANGED <<child, sigchld, do_sigchld, pipe, up, processes, pid>>, up,
         stack # <<>> => stack[Len(stack)] # "poll", stack' = Append(stack, "timeouts")
  PROVE  IInv'
<1>1. stack \in Seq(Frames) /\ Len(stack) \in Nat /\ pipe \in 0..PipeSize /\ "timeouts" \in Frames
  BY DEF IInv, TypeOK, Frames, Points
<1>2. /\ stack' \in Seq(Frames)
      /\ Len(stack') = Len(stack) + 1
      /\ stack'[Len(stack) + 1] = "timeouts"
      /\ \A i \in 1..Len(stack) : stack'[i] = stack[i]
  BY <1>1
<1>3. BelowOK'
  <2>1. \A i \in 1..Len(stack) : stack[i] # "poll"
    BY <1>1 DEF IInv, BelowOK
  <2> QED BY <1>1, <1>2, <2>1 DEF BelowOK
<1>4. HasWait(stack) => HasWait(stack')
  BY <1>1, <1>2 DEF HasWait
<1> QED BY <1>1, <1>2, <1>3, <1>4, StackStep

\* Client code runs, so no loop is about to sleep.
LEMMA ClientTop ==
  ASSUME InClient, stack \in Seq(Frames)
  PROVE  stack # <<>> => stack[Len(stack)] # "poll"
BY DEF InClient, Last, Callbacks

\* Steps of client code on the list of watchers and on children.
LEMMA ListStep ==
  ASSUME IInv, InClient, UNCHANGED <<sigchld, do_sigchld, pipe, up, stack>>,
         TypeOK', Listed', processes' # <<>> => up, Waiting' => Waiting
  PROVE  IInv'
<1>1. stack \in Seq(Frames)
  BY DEF IInv, TypeOK, Frames
<1>2. stack # <<>> => stack[Len(stack)] # "poll"
  BY <1>1, ClientTop
<1>3. UpOK' /\ BelowOK'
  BY DEF IInv, UpOK, BelowOK
<1>4. Signalled'
  BY DEF IInv, Signalled
<1>5. Asleep'
  BY <1>2 DEF Asleep
<1> QED BY <1>3, <1>4, <1>5 DEF IInv

\* A child exits: while there are watchers or loops, the signal follows.
LEMMA ExitStep ==
  ASSUME IInv, NEW c \in Pids, Exit(c)
  PROVE  IInv'
<1>1. TypeOK'
  BY DEF IInv, TypeOK, Exit, waker
<1>2. Listed'
  <2>1. \A i \in 1..Len(processes) : pid[processes[i]] \in Pids /\ child[pid[processes[i]]] # "none"
    BY DEF IInv, Listed, Increasing
  <2>2. \A d \in Pids : child[d] # "none" => child'[d] # "none"
    BY DEF IInv, TypeOK, Exit
  <2> QED BY <2>1, <2>2 DEF IInv, Listed, Increasing, Exit
<1>3. UpOK' /\ BelowOK'
  BY DEF IInv, UpOK, BelowOK, Exit
<1>4. (stack # <<>> \/ processes # <<>>) => sigchld'
  BY DEF IInv, UpOK, Exit
<1>5. Waiting' => processes # <<>>
  BY DEF Waiting, Exit
<1>6. Signalled' /\ Asleep'
  BY <1>4, <1>5 DEF Signalled, Asleep
<1> QED BY <1>1, <1>2, <1>3, <1>6 DEF IInv

\* The handler: the flag is set, and there is a byte in the pipe.
LEMMA WakeStep ==
  ASSUME IInv, uloop_signal_wake
  PROVE  IInv'
<1>1. pipe \in 0..PipeSize /\ PipeSize \in Nat \ {0}
  BY ProcessesAssumption DEF IInv, TypeOK
<1>2. pipe' \in 0..PipeSize /\ pipe' > 0
  BY <1>1 DEF uloop_signal_wake, Written
<1>3. TypeOK'
  BY <1>2 DEF IInv, TypeOK, uloop_signal_wake
<1>4. Listed' /\ UpOK' /\ BelowOK'
  BY DEF IInv, Listed, Increasing, UpOK, BelowOK, uloop_signal_wake
<1>5. Signalled' /\ Asleep'
  BY <1>2 DEF Signalled, Asleep, uloop_signal_wake
<1> QED BY <1>3, <1>4, <1>5 DEF IInv

\* A signal other than SIGCHLD only fills the pipe.
LEMMA OtherSignalStep ==
  ASSUME IInv, OtherSignal
  PROVE  IInv'
<1>1. pipe \in 0..PipeSize /\ PipeSize \in Nat \ {0}
  BY ProcessesAssumption DEF IInv, TypeOK
<1>2. pipe' \in 0..PipeSize /\ pipe' > 0
  BY <1>1 DEF OtherSignal
<1>3. TypeOK'
  BY <1>2 DEF IInv, TypeOK, OtherSignal, kernel
<1>4. Listed' /\ UpOK' /\ BelowOK' /\ (Waiting' <=> Waiting)
  BY DEF IInv, Listed, Increasing, UpOK, BelowOK, Waiting, OtherSignal, kernel
<1>5. Signalled' /\ Asleep'
  BY <1>2, <1>4 DEF IInv, Signalled, Asleep, OtherSignal, kernel
<1> QED BY <1>3, <1>4, <1>5 DEF IInv

\* uloop_process_add keeps the invariant.
LEMMA AddStep ==
  ASSUME IInv, NEW w \in Watchers, NEW c \in Pids, uloop_process_add(w, c)
  PROVE  IInv'
<1> USE DEF uloop_process_add
<1>1. TypeOK /\ Listed
  BY DEF IInv
<1>2. \A i \in 1..Len(processes) : processes[i] # w /\ pid[processes[i]] # c
  BY DEF Pending
<1>3. PICK new \in Linked(w, c) : processes' = new
  OBVIOUS
<1>4. pid' = [pid EXCEPT ![w] = c] /\ child' = [child EXCEPT ![c] = "running"] /\ child[c] = "none"
  OBVIOUS
<1>5. new \in Seq(Watchers) /\ \A i \in 1..Len(new) : pid'[new[i]] \in Pids
  BY <1>1, <1>2, <1>4, LinkedOK
<1>6. \A i, j \in 1..Len(new) : i < j => pid'[new[i]] < pid'[new[j]]
  BY <1>1, <1>2, <1>4, LinkedOK
<1>7. \A i \in 1..Len(new) : \/ pid'[new[i]] = c
                             \/ \E k \in 1..Len(processes) : pid'[new[i]] = pid[processes[k]]
  BY <1>1, <1>2, <1>4, LinkedOK
<1>8. TypeOK'
  BY <1>1, <1>3, <1>4, <1>5 DEF TypeOK, waker
<1>9. child'[c] = "running" /\ \A d \in Pids \ {c} : child'[d] = child[d]
  BY <1>1, <1>4 DEF TypeOK
<1>10. \A k \in 1..Len(processes) : pid[processes[k]] \in Pids \ {c} /\ child[pid[processes[k]]] # "none"
  BY <1>1, <1>2 DEF Listed, Increasing
<1>11. Listed'
  <2>1. \A i \in 1..Len(new) : child'[pid'[new[i]]] # "none"
    BY <1>7, <1>9, <1>10
  <2> QED BY <1>3, <1>5, <1>6, <2>1 DEF Listed, Increasing
<1>12. Waiting' => Waiting
  BY <1>3, <1>7, <1>9, <1>10 DEF Waiting
<1>13. InClient /\ up /\ UNCHANGED <<sigchld, do_sigchld, pipe, up, stack>>
  BY DEF waker
<1> HIDE DEF uloop_process_add
<1> QED BY <1>8, <1>11, <1>12, <1>13, ListStep

\* Forking and watching a child keeps the invariant.
LEMMA ForkStep ==
  ASSUME IInv, NEW c \in Pids, Fork(c)
  PROVE  IInv'
<1>1. TypeOK'
  BY DEF IInv, TypeOK, Fork, waker
<1>2. child'[c] = "running" /\ child[c] = "none" /\ \A d \in Pids \ {c} : child'[d] = child[d]
  BY DEF IInv, TypeOK, Fork
<1>3. \A k \in 1..Len(processes) : pid[processes[k]] \in Pids \ {c}
  BY DEF IInv, Listed, Increasing, Fork, Pending
<1>4. Listed'
  BY <1>2, <1>3 DEF IInv, Listed, Increasing, Fork
<1>5. Waiting' => Waiting
  BY <1>2, <1>3 DEF Waiting, Fork
<1>6. InClient /\ UNCHANGED <<sigchld, do_sigchld, pipe, up, stack>> /\ (processes' # <<>> => up)
  BY DEF IInv, UpOK, Fork, waker
<1> QED BY <1>1, <1>4, <1>5, <1>6, ListStep

\* What unlinking leaves is listed, and waits if it waited before.
LEMMA UnlinkListed ==
  ASSUME TypeOK, Listed, NEW w \in Watchers, processes' \in Unlinked(w), UNCHANGED pid,
         \A i \in 1..Len(processes) : processes[i] # w => child'[pid[processes[i]]] = child[pid[processes[i]]]
  PROVE  /\ processes' \in Seq(Watchers)
         /\ Listed'
         /\ Waiting' => Waiting
         /\ processes # <<>>
<1>1. PICK rest \in Unlinked(w) : processes' = rest
  OBVIOUS
<1>2. rest \in Seq(Watchers) /\ \A i \in 1..Len(rest) : pid[rest[i]] \in Pids
  BY UnlinkedOK
<1>3. \A i, j \in 1..Len(rest) : i < j => pid[rest[i]] < pid[rest[j]]
  BY UnlinkedOK
<1>4. \A i \in 1..Len(rest) : \E k \in 1..Len(processes) : rest[i] = processes[k] /\ rest[i] # w
  BY UnlinkedOK
<1>5. Listed'
  BY <1>1, <1>2, <1>3, <1>4 DEF Listed, Increasing
<1>6. Waiting' => Waiting
  BY <1>1, <1>4 DEF Waiting
<1>7. processes # <<>>
  BY DEF Unlinked
<1> QED BY <1>1, <1>2, <1>5, <1>6, <1>7

\* uloop_process_delete keeps the invariant.
LEMMA DeleteStep ==
  ASSUME IInv, NEW w \in Watchers, uloop_process_delete(w)
  PROVE  IInv'
<1>1. TypeOK /\ Listed /\ InClient /\ processes' \in Unlinked(w)
      /\ UNCHANGED <<child, sigchld, do_sigchld, pipe, up, pid, stack>>
  BY DEF IInv, uloop_process_delete, kernel, waker
<1>2. processes' \in Seq(Watchers) /\ Listed' /\ (Waiting' => Waiting) /\ processes # <<>>
  BY <1>1, UnlinkListed
<1>3. TypeOK'
  BY <1>1, <1>2 DEF TypeOK
<1>4. up
  BY <1>2 DEF IInv, UpOK
<1> QED BY <1>1, <1>2, <1>3, <1>4, ListStep

\* The empty list is a list of anything.
LEMMA EmptyInSeq == \A S : <<>> \in Seq(S)
OBVIOUS

\* uloop_init and uloop_done keep the invariant.
LEMMA InitDoneStep ==
  ASSUME IInv, uloop_init \/ uloop_done
  PROVE  IInv'
<1>1. PipeSize \in Nat \ {0}
  BY ProcessesAssumption
<1>2. CASE uloop_init
  <2>1. processes = <<>> /\ Len(processes) = 0
    BY <1>2 DEF IInv, UpOK, uloop_init
  <2>2. TypeOK' /\ Listed'
    BY <1>1, <1>2 DEF IInv, TypeOK, Listed, Increasing, uloop_init, kernel
  <2>3. ~Waiting'
    BY <1>2, <2>1 DEF Waiting, uloop_init, kernel
  <2> QED BY <1>2, <2>2, <2>3 DEF IInv, UpOK, BelowOK, Signalled, Asleep, uloop_init, kernel
<1>3. CASE uloop_done
  <2>1. processes' = <<>> /\ Len(processes') = 0
    BY <1>3 DEF uloop_done
  <2>5. processes' \in Seq(Watchers)
    BY <2>1, EmptyInSeq
  <2>6. pipe' \in 0..PipeSize
    BY <1>1, <1>3 DEF IInv, TypeOK, uloop_done
  <2>2. TypeOK'
    BY <1>3, <2>5, <2>6 DEF IInv, TypeOK, uloop_done, kernel
  <2>4. Listed'
    BY <2>1 DEF Listed, Increasing
  <2>3. ~Waiting'
    BY <2>1 DEF Waiting
  <2> QED BY <1>3, <2>1, <2>2, <2>3, <2>4 DEF IInv, UpOK, BelowOK, Signalled, Asleep, uloop_done
<1> QED BY <1>2, <1>3

\* do_sigchld is cleared: a loop that has seen it set collects children, and a
\* loop that has not has nothing to collect.
LEMMA CheckStep ==
  ASSUME IInv, CheckSigchld
  PROVE  IInv'
<1> DEFINE point == IF do_sigchld THEN "wait" ELSE "poll"
<1>1. /\ At("sigchld") /\ stack' = Append(Front(stack), point) /\ do_sigchld' = FALSE
      /\ UNCHANGED <<child, sigchld, pipe, up, processes, pid>>
  BY DEF CheckSigchld, Goto, kernel
<1>2. stack \in Seq(Frames) /\ point \in Frames /\ "sigchld" \in Points
  BY DEF IInv, TypeOK, Frames, Points
<1>3. stack # <<>> /\ Len(stack) \in Nat \ {0} /\ stack[Len(stack)] = "sigchld"
  BY <1>1, <1>2, Tops
<1> HIDE DEF point
<1>4. stack' \in Seq(Frames)
  BY <1>1, <1>2, <1>3, Replaced
<1>5. Len(stack') = Len(stack)
  BY <1>1, <1>2, <1>3, Replaced
<1>6. stack'[Len(stack)] = point
  BY <1>1, <1>2, <1>3, Replaced
<1>7. \A i \in 1..(Len(stack) - 1) : stack'[i] = stack[i]
  BY <1>1, <1>2, <1>3, Replaced
<1>8. TypeOK'
  BY <1>1, <1>4 DEF IInv, TypeOK, Frames
<1>9. Listed' /\ (Waiting' <=> Waiting)
  BY <1>1 DEF IInv, Listed, Increasing, Waiting
<1>10. UpOK' /\ BelowOK'
  BY <1>1, <1>3, <1>5, <1>7 DEF IInv, UpOK, BelowOK
<1>11. CASE do_sigchld
  <2>1. stack'[Len(stack')] = "wait" /\ Len(stack') \in 1..Len(stack')
    BY <1>3, <1>5, <1>6, <1>11 DEF point
  <2> QED BY <1>8, <1>9, <1>10, <2>1 DEF IInv, Signalled, Asleep
<1>12. CASE ~do_sigchld
  <2>1. Waiting /\ ~sigchld => \E i \in 1..Len(stack) : stack[i] = "wait"
    BY <1>12 DEF IInv, Signalled
  <2>2. Waiting /\ ~sigchld => \E i \in 1..(Len(stack) - 1) : stack[i] = "wait"
    BY <1>3, <2>1
  <2>3. Waiting' /\ ~sigchld' => \E i \in 1..(Len(stack') - 1) : stack'[i] = "wait"
    BY <1>1, <1>5, <1>7, <1>9, <2>2
  <2>4. Waiting' /\ ~sigchld' => \E i \in 1..Len(stack') : stack'[i] = "wait"
    BY <1>3, <1>5, <2>3
  <2>5. Signalled' /\ Asleep'
    BY <2>3, <2>4 DEF Signalled, Asleep
  <2> QED BY <1>8, <1>9, <1>10, <2>5 DEF IInv
<1> QED BY <1>11, <1>12

\* A child is collected, its watcher is unlinked and called.
LEMMA ReapStep ==
  ASSUME IInv, NEW c \in Pids, Reap(c)
  PROVE  IInv'
<1>1. /\ At("wait") /\ child[c] = "zombie" /\ child' = [child EXCEPT ![c] = "none"]
      /\ UNCHANGED <<sigchld, do_sigchld, pipe, up, pid>>
  BY DEF Reap, waker
<1>2. stack \in Seq(Frames) /\ "process" \in Frames /\ "wait" \in Points
  BY DEF IInv, TypeOK, Frames, Points, Callbacks
<1>3. stack # <<>> /\ Len(stack) \in Nat \ {0} /\ stack[Len(stack)] = "wait"
  BY <1>1, <1>2, Tops
<1>4. up
  BY <1>3 DEF IInv, UpOK
<1>5. \A d \in Pids : d # c => child'[d] = child[d]
  BY <1>1 DEF IInv, TypeOK
<1>6. child' \in [Pids -> {"none", "running", "zombie"}]
  BY <1>1 DEF IInv, TypeOK
<1>7. \A i \in 1..Len(processes) : pid[processes[i]] \in Pids
  BY DEF IInv, Listed, Increasing
<1>8. \A i \in 1..Len(stack) : stack[i] # "poll"
  BY <1>3 DEF IInv, BelowOK
<1>9. CASE Found(c) = {}
  <2>1. UNCHANGED <<processes, stack>>
    BY <1>9 DEF Reap
  <2>2. \A j \in 1..Len(processes) : pid[processes[j]] # c
    <3>1. SUFFICES ASSUME NEW j \in 1..Len(processes), pid[processes[j]] = c PROVE FALSE
      OBVIOUS
    <3>2. \A k \in 1..j : pid[processes[k]] <= c
      <4>1. SUFFICES ASSUME NEW k \in 1..j PROVE pid[processes[k]] <= c
        OBVIOUS
      <4>2. k \in 1..Len(processes) /\ (k < j \/ k = j)
        BY <3>1
      <4>3. pid[processes[k]] \in Nat /\ c \in Nat
        BY <1>7, <4>2, ProcessesAssumption
      <4>4. k < j => pid[processes[k]] < pid[processes[j]]
        BY <4>2 DEF IInv, Listed, Increasing
      <4> QED BY <3>1, <4>2, <4>3, <4>4
    <3>3. processes[j] \in Found(c)
      BY <3>1, <3>2 DEF Found
    <3> QED BY <1>9, <3>3
  <2>3. TypeOK'
    BY <1>1, <1>6, <2>1 DEF IInv, TypeOK
  <2>4. Listed' /\ (Waiting' => Waiting)
    BY <1>1, <1>5, <1>7, <2>1, <2>2 DEF IInv, Listed, Increasing, Waiting
  <2>5. UpOK' /\ BelowOK' /\ Signalled' /\ Asleep'
    BY <1>1, <1>3, <2>1, <2>4 DEF IInv, UpOK, BelowOK, Signalled, Asleep
  <2> QED BY <2>3, <2>4, <2>5 DEF IInv
<1>10. CASE Found(c) # {}
  <2>1. PICK w \in Found(c) : processes' \in Unlinked(w) /\ stack' = Append(stack, "process")
    BY <1>10 DEF Reap
  <2>2. PICK p \in 1..Len(processes) : processes[p] = w /\ pid[w] = c
    BY DEF Found
  <2>3. w \in Watchers /\ TypeOK /\ Listed
    BY <2>2 DEF IInv, TypeOK
  <2>4. \A i \in 1..Len(processes) : processes[i] # w => pid[processes[i]] # c
    <3>1. SUFFICES ASSUME NEW i \in 1..Len(processes), processes[i] # w, pid[processes[i]] = c PROVE FALSE
      OBVIOUS
    <3>2. i < p \/ p < i
      BY <2>2, <3>1
    <3>3. pid[processes[i]] < pid[processes[p]] \/ pid[processes[p]] < pid[processes[i]]
      BY <2>2, <3>2 DEF IInv, Listed, Increasing
    <3>4. c \in Nat
      BY ProcessesAssumption
    <3> QED BY <2>2, <3>1, <3>3, <3>4
  <2>5. \A i \in 1..Len(processes) : processes[i] # w => child'[pid[processes[i]]] = child[pid[processes[i]]]
    BY <1>5, <1>7, <2>4
  <2>6. UNCHANGED pid
    BY <1>1
  <2>7. processes' \in Seq(Watchers) /\ Listed' /\ (Waiting' => Waiting)
    BY <2>1, <2>3, <2>5, <2>6, UnlinkListed
  <2>8. /\ stack' \in Seq(Frames)
        /\ Len(stack') = Len(stack) + 1
        /\ stack'[Len(stack) + 1] = "process"
        /\ \A i \in 1..Len(stack) : stack'[i] = stack[i]
    BY <1>2, <2>1
  <2>9. TypeOK'
    BY <1>1, <1>6, <2>7, <2>8 DEF IInv, TypeOK, Frames
  <2>10. UpOK' /\ BelowOK'
    BY <1>1, <1>4, <1>8, <2>8 DEF UpOK, BelowOK
  <2>11. Signalled' /\ Asleep'
    BY <1>3, <2>8 DEF Signalled, Asleep
  <2> QED BY <2>7, <2>9, <2>10, <2>11 DEF IInv
<1> QED BY <1>9, <1>10

\* No child is left to collect.
LEMMA ReapDoneStep ==
  ASSUME IInv, ReapDone
  PROVE  IInv'
<1>1. /\ At("wait") /\ stack' = Append(Front(stack), "poll")
      /\ UNCHANGED <<child, sigchld, do_sigchld, pipe, up, processes, pid>>
  BY DEF ReapDone, Goto, kernel, waker
<1>2. stack \in Seq(Frames) /\ "poll" \in Frames /\ "wait" \in Points
  BY DEF IInv, TypeOK, Frames, Points
<1>3. stack # <<>> /\ Len(stack) \in Nat \ {0}
  BY <1>1, <1>2, Tops
<1>4. stack' \in Seq(Frames)
  BY <1>1, <1>2, <1>3, Replaced
<1>5. Len(stack') = Len(stack)
  BY <1>1, <1>2, <1>3, Replaced
<1>6. \A i \in 1..(Len(stack) - 1) : stack'[i] = stack[i]
  BY <1>1, <1>2, <1>3, Replaced
<1>7. TypeOK'
  BY <1>1, <1>4 DEF IInv, TypeOK, Frames
<1>8. Listed' /\ UpOK' /\ BelowOK'
  BY <1>1, <1>3, <1>5, <1>6 DEF IInv, Listed, Increasing, UpOK, BelowOK
<1>9. ~Waiting'
  BY <1>1 DEF IInv, Listed, Increasing, Waiting, ReapDone
<1>10. Signalled' /\ Asleep'
  BY <1>9 DEF Signalled, Asleep
<1> QED BY <1>7, <1>8, <1>10 DEF IInv

\* Every step of uloop_run_timeout keeps the invariant.
LEMMA LoopStep ==
  ASSUME IInv, Loop
  PROVE  IInv'
<1>1. stack \in Seq(Frames) /\ pipe \in 0..PipeSize /\ 0 \in 0..PipeSize
  BY ProcessesAssumption DEF IInv, TypeOK, Frames
<1>2. CASE TimeoutsDone
  <2>1. At("timeouts") /\ GotoOrCall("sigchld") /\ pipe' \in 0..PipeSize
        /\ UNCHANGED <<child, sigchld, do_sigchld, up, processes, pid>>
    BY <1>1, <1>2 DEF TimeoutsDone, kernel, waker
  <2>2. "timeouts" \in Points /\ "sigchld" \in Points /\ "timeouts" # "wait" /\ "sigchld" # "poll"
    BY DEF Points
  <2> QED BY <2>1, <2>2, GotoStep
<1>3. CASE CheckSigchld
  BY <1>3, CheckStep
<1>4. CASE \E c \in Pids : Reap(c)
  BY <1>4, ReapStep
<1>5. CASE ReapDone
  BY <1>5, ReapDoneStep
<1>6. CASE signal_consume \/ PollOther
  <2>1. At("poll") /\ GotoOrCall("bottom") /\ pipe' \in 0..PipeSize
        /\ UNCHANGED <<child, sigchld, do_sigchld, up, processes, pid>>
    BY <1>1, <1>6 DEF signal_consume, PollOther, kernel, waker
  <2>2. "poll" \in Points /\ "bottom" \in Points /\ "poll" # "wait" /\ "bottom" # "poll"
    BY DEF Points
  <2> QED BY <2>1, <2>2, GotoStep
<1>7. CASE LoopAgain
  <2>1. At("bottom") /\ GotoOrCall("timeouts") /\ pipe' \in 0..PipeSize
        /\ UNCHANGED <<child, sigchld, do_sigchld, up, processes, pid>>
    BY <1>1, <1>7 DEF LoopAgain, GotoOrCall, kernel, waker
  <2>2. "bottom" \in Points /\ "timeouts" \in Points /\ "bottom" # "wait" /\ "timeouts" # "poll"
    BY DEF Points
  <2> QED BY <2>1, <2>2, GotoStep
<1>8. CASE LoopEnd
  <2>1. stack # <<>> /\ stack[Len(stack)] # "wait" /\ stack' = Front(stack)
        /\ UNCHANGED <<child, sigchld, do_sigchld, pipe, up, processes, pid>>
    BY <1>8 DEF LoopEnd, At, Last, kernel, waker
  <2> QED BY <2>1, PopStep
<1> QED BY <1>2, <1>3, <1>4, <1>5, <1>6, <1>7, <1>8 DEF Loop

\* Every step of the program keeps the invariant.
LEMMA InvStep == IInv /\ [Next]_vars => IInv'
<1>1. SUFFICES ASSUME IInv, [Next]_vars PROVE IInv'
  OBVIOUS
<1>2. CASE UNCHANGED vars
  BY <1>1, <1>2 DEF vars, IInv, TypeOK, Listed, Increasing, UpOK, BelowOK, Waiting, Signalled, Asleep
<1>3. CASE Kernel
  BY <1>1, <1>3, ExitStep, WakeStep, OtherSignalStep DEF Kernel
<1>4. CASE Client
  <2>1. CASE uloop_run
    <3>1. stack \in Seq(Frames)
      BY <1>1 DEF IInv, TypeOK, Frames
    <3>2. InClient /\ up /\ stack' = Append(stack, "timeouts")
          /\ UNCHANGED <<child, sigchld, do_sigchld, pipe, up, processes, pid>>
      BY <2>1 DEF uloop_run, kernel, waker
    <3> QED BY <1>1, <3>1, <3>2, ClientTop, PushStep
  <2> QED BY <1>1, <1>4, <2>1, AddStep, ForkStep, DeleteStep, InitDoneStep DEF Client
<1>5. CASE Loop
  BY <1>1, <1>5, LoopStep
<1>6. CASE CallbackReturn
  <2>1. stack # <<>> /\ stack[Len(stack)] # "wait" /\ stack' = Front(stack)
        /\ UNCHANGED <<child, sigchld, do_sigchld, pipe, up, processes, pid>>
    BY <1>6 DEF CallbackReturn, Last, Callbacks, kernel, waker
  <2> QED BY <1>1, <2>1, PopStep
<1> QED BY <1>1, <1>2, <1>3, <1>4, <1>5, <1>6 DEF Next

\* The invariant holds before the first call.
LEMMA InvInit == Init => IInv
<1>1. SUFFICES ASSUME Init PROVE IInv
  OBVIOUS
<1>2. PipeSize \in Nat \ {0}
  BY ProcessesAssumption
<1>6. processes \in Seq(Watchers) /\ stack \in Seq(Points \cup Callbacks)
  BY <1>1, EmptyInSeq DEF Init
<1>7. pipe \in 0..PipeSize
  BY <1>1, <1>2 DEF Init
<1>3. TypeOK
  BY <1>1, <1>6, <1>7 DEF Init, TypeOK
<1>4. Len(processes) = 0 /\ Len(stack) = 0
  BY <1>1 DEF Init
<1>5. Listed /\ UpOK /\ BelowOK /\ ~Waiting
  BY <1>1, <1>4 DEF Init, Listed, Increasing, UpOK, BelowOK, Waiting
<1> QED BY <1>3, <1>5 DEF IInv, Signalled, Asleep

\* The inductive invariant holds of every behaviour.
THEOREM Invariance == Spec => []IInv
BY InvInit, InvStep, PTL DEF Spec

-----------------------------------------------------------------------------
(* What follows from it. *)

\* The state of the model keeps its types: the pipe never overflows, and the
\* call stack is made of loops and callbacks.
THEOREM TypeCorrect == Spec => []TypeOK
<1>1. IInv => TypeOK
  BY DEF IInv
<1> QED BY <1>1, Invariance, PTL

\* uloop_handle_processes finds the watcher of every child it collects, so no
\* pending watcher is left without a child.
THEOREM WatchersHaveChildrenTheorem == Spec => []WatchersHaveChildren
<1>1. IInv => WatchersHaveChildren
  BY DEF IInv, Listed, WatchersHaveChildren, Pending
<1> QED BY <1>1, Invariance, PTL

\* The loop never goes to sleep in epoll_wait on a watched child that has
\* exited, wherever the signal arrives and however full the pipe is.
THEOREM NoLostChildTheorem == Spec => []NoLostChild
<1>1. IInv => NoLostChild
  <2>1. SUFFICES ASSUME IInv, At("poll"), ~Collecting,
                        \E w \in Pending : child[pid[w]] = "zombie", ~sigchld
                 PROVE  do_sigchld /\ pipe > 0
    BY DEF NoLostChild
  <2>2. stack \in Seq(Frames) /\ "poll" \in Points
    BY <2>1 DEF IInv, TypeOK, Frames, Points
  <2>3. stack # <<>> /\ Len(stack) \in Nat \ {0} /\ stack[Len(stack)] = "poll"
    BY <2>1, <2>2, Tops
  <2>4. Waiting
    BY <2>1 DEF Waiting, Pending
  <2>5. ~ \E i \in 1..(Len(stack) - 1) : stack[i] = "wait"
    BY <2>1, <2>3 DEF Collecting, Loops, Points
  <2> QED BY <2>1, <2>3, <2>4, <2>5 DEF IInv, Asleep
<1> QED BY <1>1, Invariance, PTL
=============================================================================
