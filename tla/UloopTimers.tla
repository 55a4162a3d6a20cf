----------------------------- MODULE UloopTimers -----------------------------
(***************************************************************************)
(* The run loop of uloop.c and its one-shot timers (struct uloop_timeout). *)
(*                                                                         *)
(* A timer is kept in the list "timeouts" while its "pending" flag is set. *)
(* uloop_run_timeout fires the due timers, runs the child handlers, sleeps *)
(* in epoll_wait no longer than the first timer of the list allows, runs   *)
(* at most one descriptor callback and starts over.  Callbacks are client  *)
(* code: they may call every timer operation and start a nested loop.      *)
(*                                                                         *)
(* Deadlines are struct timeval records and are compared by tv_diff, which *)
(* rounds to milliseconds towards zero separately for the seconds and the  *)
(* microseconds, so the list is only nearly sorted.                        *)
(***************************************************************************)
EXTENDS Integers, Sequences, SequencesExt

CONSTANTS
  Timers,       \* the struct uloop_timeout objects of the program
  Msecs,        \* arguments of uloop_timeout_set (int, may be negative)
  RunTimeouts,  \* arguments of uloop_run_timeout (-1: until cancelled)
  Ticks,        \* how far the monotonic clock may move in a step, in usec
  StartTime,    \* clock when the program starts, in usec
  MaxTime,      \* bound: the clock stops here
  MaxDepth,     \* bound: nesting of uloop_run_timeout
  INT_MAX

ASSUME TimersAssumption ==
  /\ Msecs \subseteq Int
  /\ RunTimeouts \subseteq Int
  /\ Ticks \subseteq Nat
  /\ StartTime \in Nat
  /\ MaxTime \in Nat
  /\ MaxDepth \in Nat
  /\ INT_MAX \in Nat

VARIABLES
  now,        \* CLOCK_MONOTONIC, in usec
  timeouts,   \* the list of pending timers, first to last
  pending,    \* uloop_timeout.pending
  time,       \* uloop_timeout.time
  cancelled,  \* uloop_cancelled
  mode,       \* which code runs: see Modes
  stack       \* the active uloop_run_timeout calls, outermost first

vars == <<now, timeouts, pending, time, cancelled, mode, stack>>

(***************************************************************************)
(* "user": client code, the main program or a callback of the innermost    *)
(* loop.  The other modes are places of the innermost uloop_run_timeout.   *)
(***************************************************************************)
Modes == {"user", "timeouts", "sigchld", "poll"}

Forever == -1

TimeVal == [sec : Int, usec : Int]

(***************************************************************************)
(* A call of uloop_run_timeout: its argument, the clock value read by      *)
(* uloop_process_timeouts, the time at which epoll_wait gives up, and the  *)
(* kind of callback it is running when client code is on top of it.        *)
(***************************************************************************)
Frame == [timeout : RunTimeouts, tv : Nat, wake : Nat \cup {Forever},
          cb : {"none", "timer", "process", "event"}]

Top == stack[Len(stack)]
SetTop(f) == [stack EXCEPT ![Len(stack)] = f]

-----------------------------------------------------------------------------
(* Time arithmetic. *)

\* C's integer division truncates towards zero.
CDiv(a, b) == IF a >= 0 THEN a \div b ELSE -((-a) \div b)
CMod(a, b) == a - b * CDiv(a, b)

\* uloop_gettime: the clock as a struct timeval.
GetTime(us) == [sec |-> us \div 1000000, usec |-> us % 1000000]

Usecs(tv) == tv.sec * 1000000 + tv.usec

tv_diff(t1, t2) ==
  (t1.sec - t2.sec) * 1000 + CDiv(t1.usec - t2.usec, 1000)

\* The deadline uloop_timeout_set computes; tv_usec may stay at 1000000.
Deadline(us, msecs) ==
  LET sec  == GetTime(us).sec + CDiv(msecs, 1000)
      usec == GetTime(us).usec + CMod(msecs, 1000) * 1000
  IN  IF usec > 1000000
      THEN [sec |-> sec + 1, usec |-> usec - 1000000]
      ELSE [sec |-> sec, usec |-> usec]

-----------------------------------------------------------------------------
(* The list. *)

\* list_del of timer t: the list without it.
Unlinked(t) == {RemoveAt(timeouts, p) : p \in {i \in 1..Len(timeouts) : timeouts[i] = t}}

\* Mutant: the comparison is the wrong way round.
Linked_Reversed(list, t, tm) ==
  {InsertAt(list, p, t) : p \in
     {i \in 1..(Len(list) + 1) :
        /\ \A j \in 1..(i - 1) : tv_diff(tm[t], tm[list[j]]) <= 0
        /\ i <= Len(list) => tv_diff(tm[t], tm[list[i]]) > 0}}

\* uloop_timeout_add links a timer before the first one that is later by
\* tv_diff, at the end if there is none.
Linked(list, t, tm) ==
  {InsertAt(list, p, t) : p \in
     {i \in 1..(Len(list) + 1) :
        /\ \A j \in 1..(i - 1) : tv_diff(tm[list[j]], tm[t]) <= 0
        /\ i <= Len(list) => tv_diff(tm[list[i]], tm[t]) > 0}}

-----------------------------------------------------------------------------
(* Timer operations, called by client code. *)

uloop_timeout_add(t) ==
  /\ mode = "user"
  /\ ~pending[t]
  /\ timeouts' \in Linked(timeouts, t, time)
  /\ pending' = [pending EXCEPT ![t] = TRUE]
  /\ UNCHANGED <<now, time, cancelled, mode, stack>>

\* Mutant: a pending timer is not cancelled first.
uloop_timeout_set_NoCancel(t, msecs) ==
  /\ mode = "user"
  /\ time' = [time EXCEPT ![t] = Deadline(now, msecs)]
  /\ timeouts' \in Linked(timeouts, t, time')
  /\ pending' = [pending EXCEPT ![t] = TRUE]
  /\ UNCHANGED <<now, cancelled, mode, stack>>

uloop_timeout_set(t, msecs) ==
  /\ mode = "user"
  /\ time' = [time EXCEPT ![t] = Deadline(now, msecs)]
  /\ \E rest \in (IF pending[t] THEN Unlinked(t) ELSE {timeouts}) :
        timeouts' \in Linked(rest, t, time')
  /\ pending' = [pending EXCEPT ![t] = TRUE]
  /\ UNCHANGED <<now, cancelled, mode, stack>>

uloop_timeout_cancel(t) ==
  /\ mode = "user"
  /\ pending[t]
  /\ timeouts' \in Unlinked(t)
  /\ pending' = [pending EXCEPT ![t] = FALSE]
  /\ UNCHANGED <<now, time, cancelled, mode, stack>>

\* uloop_done, as far as the timers are concerned.
uloop_clear_timeouts ==
  /\ mode = "user"
  /\ timeouts # <<>>
  /\ timeouts' = <<>>
  /\ pending' = [t \in Timers |-> FALSE]
  /\ UNCHANGED <<now, time, cancelled, mode, stack>>

\* uloop_end in client code, or uloop_handle_sigint in a signal handler:
\* the flag may rise at any moment.
uloop_end ==
  /\ cancelled' = TRUE
  /\ UNCHANGED <<now, timeouts, pending, time, mode, stack>>

-----------------------------------------------------------------------------
(* The loop. *)

\* The top of the do-while body: enter uloop_process_timeouts, which returns
\* at once when the list is empty, and reads the clock once otherwise.
Iterate(lower, timeout) ==
  /\ mode' = IF timeouts = <<>> THEN "sigchld" ELSE "timeouts"
  /\ stack' = Append(lower, [timeout |-> timeout, tv |-> now, wake |-> Forever, cb |-> "none"])

\* Leaving the innermost loop resumes the client code that called it.
Return == mode' = "user" /\ stack' = Front(stack)

uloop_run_timeout(timeout) ==
  /\ mode = "user"
  /\ Len(stack) < MaxDepth
  /\ cancelled' = FALSE
  /\ Iterate(stack, timeout)
  /\ UNCHANGED <<now, timeouts, pending, time>>

\* Mutants: the boundary of the test is off by one millisecond.
Due_Late(t) == tv_diff(time[t], GetTime(Top.tv)) < 0
Due_Early(t) == tv_diff(time[t], GetTime(Top.tv)) <= 1

Due(t) == tv_diff(time[t], GetTime(Top.tv)) <= 0

\* One round of the while loop of uloop_process_timeouts.
FireTimeout ==
  /\ mode = "timeouts"
  /\ timeouts # <<>>
  /\ Due(Head(timeouts))
  /\ pending' = [pending EXCEPT ![Head(timeouts)] = FALSE]
  /\ timeouts' = Tail(timeouts)
  /\ mode' = "user"
  /\ stack' = SetTop([Top EXCEPT !.cb = "timer"])
  /\ UNCHANGED <<now, time, cancelled>>

TimeoutsDone ==
  /\ mode = "timeouts"
  /\ timeouts # <<>> => ~Due(Head(timeouts))
  /\ mode' = "sigchld"
  /\ UNCHANGED <<now, timeouts, pending, time, cancelled, stack>>

\* uloop_handle_processes runs the callback of an exited child.
ProcessCallback ==
  /\ mode = "sigchld"
  /\ mode' = "user"
  /\ stack' = SetTop([Top EXCEPT !.cb = "process"])
  /\ UNCHANGED <<now, timeouts, pending, time, cancelled>>

uloop_get_next_timeout ==
  IF timeouts = <<>> THEN Forever
  ELSE LET diff == tv_diff(time[Head(timeouts)], GetTime(now))
       IN  IF diff < 0 THEN 0 ELSE IF diff > INT_MAX THEN INT_MAX ELSE diff

\* Mutant: the argument of the call replaces the next deadline.
NextTime_ArgumentOnly ==
  IF Top.timeout >= 0 THEN Top.timeout ELSE uloop_get_next_timeout

\* The time uloop_run_timeout gives to uloop_run_events.
NextTime ==
  LET next == uloop_get_next_timeout
  IN  IF Top.timeout >= 0 /\ (next < 0 \/ Top.timeout < next)
      THEN Top.timeout ELSE next

\* The rest of the body up to epoll_wait.
Sleep ==
  /\ mode = "sigchld"
  /\ ~cancelled
  /\ mode' = "poll"
  /\ stack' = SetTop([Top EXCEPT !.wake =
                        IF NextTime < 0 THEN Forever ELSE now + 1000 * NextTime])
  /\ UNCHANGED <<now, timeouts, pending, time, cancelled>>

\* if (uloop_cancelled) break;
Break ==
  /\ mode = "sigchld"
  /\ cancelled
  /\ Return
  /\ UNCHANGED <<now, timeouts, pending, time, cancelled>>

\* Mutant: timers are processed before the loop, not in each round of it.
Bottom_Once ==
  /\ IF ~cancelled /\ Top.timeout < 0 THEN mode' = "sigchld" /\ UNCHANGED stack ELSE Return
  /\ UNCHANGED <<now, timeouts, pending, time, cancelled>>

\* while (!uloop_cancelled && timeout < 0)
Bottom ==
  /\ IF ~cancelled /\ Top.timeout < 0 THEN Iterate(Front(stack), Top.timeout) ELSE Return
  /\ UNCHANGED <<now, timeouts, pending, time, cancelled>>

\* epoll_wait reports a descriptor, at any time, and uloop_run_events runs its
\* callback.
EventCallback ==
  /\ mode = "poll"
  /\ mode' = "user"
  /\ stack' = SetTop([Top EXCEPT !.cb = "event"])
  /\ UNCHANGED <<now, timeouts, pending, time, cancelled>>

\* epoll_wait times out.
PollTimeout == mode = "poll" /\ Top.wake # Forever /\ now >= Top.wake /\ Bottom

\* epoll_wait is interrupted by a signal, or every event it reports is for a
\* descriptor without a callback.
PollNothing == mode = "poll" /\ Bottom

CallbackReturn ==
  /\ mode = "user"
  /\ stack # <<>>
  /\ \/ /\ Top.cb = "timer"
        /\ mode' = "timeouts"
        /\ UNCHANGED <<now, timeouts, pending, time, cancelled, stack>>
     \/ /\ Top.cb = "process"
        /\ mode' = "sigchld"
        /\ UNCHANGED <<now, timeouts, pending, time, cancelled, stack>>
     \/ /\ Top.cb = "event"
        /\ Bottom

\* The clock is not controlled by the program.
Tick ==
  /\ \E d \in Ticks : now + d <= MaxTime /\ now' = now + d
  /\ UNCHANGED <<timeouts, pending, time, cancelled, mode, stack>>

-----------------------------------------------------------------------------
Init ==
  /\ now = StartTime
  /\ timeouts = <<>>
  /\ pending = [t \in Timers |-> FALSE]
  /\ time = [t \in Timers |-> [sec |-> 0, usec |-> 0]]
  /\ cancelled = FALSE
  /\ mode = "user"
  /\ stack = <<>>

\* Timers that are armed relative to the current time, as almost all are, or for
\* a time that is still to come.
RelativeClient ==
  \/ \E t \in Timers : \/ \E m \in Msecs : uloop_timeout_set(t, m)
                       \/ uloop_timeout_cancel(t)
  \/ uloop_clear_timeouts
  \/ \E m \in RunTimeouts : uloop_run_timeout(m)
  \/ uloop_end
  \/ \E t \in Timers : Usecs(time[t]) > now /\ uloop_timeout_add(t)

Client == RelativeClient \/ \E t \in Timers : uloop_timeout_add(t)

Loop ==
  \/ FireTimeout \/ TimeoutsDone \/ ProcessCallback \/ Sleep \/ Break
  \/ EventCallback \/ PollTimeout \/ PollNothing
  \/ CallbackReturn

Next == Client \/ Loop \/ Tick

Spec == Init /\ [][Next]_vars

(***************************************************************************)
(* The process is scheduled, the clock runs, callbacks return, and waitpid *)
(* runs out of exited children, so that the loop gets past                 *)
(* uloop_handle_processes however often it is entered.  A client that adds *)
(* a timer again and again with a deadline in the past starves the others, *)
(* so timers are added only with deadlines that are still to come here.    *)
(***************************************************************************)
Fairness ==
  /\ WF_vars(FireTimeout \/ TimeoutsDone \/ PollTimeout)
  /\ WF_vars(CallbackReturn)
  /\ SF_vars(Sleep \/ Break)
  /\ WF_vars(Tick)

FairSpec == Init /\ [][RelativeClient \/ Loop \/ Tick]_vars /\ Fairness

-----------------------------------------------------------------------------
(* Properties. *)

\* Every variable has its type, and inside a loop there is a frame.
TypeOK ==
  /\ now \in Nat
  /\ timeouts \in Seq(Timers)
  /\ pending \in [Timers -> BOOLEAN]
  /\ time \in [Timers -> TimeVal]
  /\ cancelled \in BOOLEAN
  /\ mode \in Modes
  /\ stack \in Seq(Frame)
  /\ mode # "user" => stack # <<>>

\* The pending flag says whether a timer is linked, and no timer is linked
\* twice: list_del and list_add_tail always act on the right nodes.
ListOK ==
  /\ \A i, j \in 1..Len(timeouts) : timeouts[i] = timeouts[j] => i = j
  /\ \A t \in Timers : pending[t] <=> \E i \in 1..Len(timeouts) : timeouts[i] = t

\* The list is sorted up to the rounding of tv_diff: a timer never stands
\* before one that is due a millisecond or more earlier, in spite of
\* tv_usec values that are negative or equal to 1000000.
NearlySorted ==
  \A i, j \in 1..Len(timeouts) :
    i < j => Usecs(time[timeouts[i]]) - Usecs(time[timeouts[j]]) < 1000

\* uloop_process_timeouts stops at the first timer that is not due, and still
\* leaves behind no timer that was due a millisecond ago or earlier.
NoOverdueLeft ==
  [][mode = "timeouts" /\ mode' = "sigchld"
       => \A t \in Timers : pending[t] => Usecs(time[t]) > Top.tv - 1000]_vars

\* A callback runs less than a millisecond before its deadline, also when the
\* clock value it is compared with was read before other callbacks ran.
NeverEarly ==
  [][mode = "timeouts" /\ mode' = "user"
       => \A t \in Timers : pending[t] /\ ~pending'[t] => Usecs(time[t]) - now < 1000]_vars

\* epoll_wait is never told to sleep two milliseconds past the deadline of any
\* pending timer, not only of the first one, and never without limit.
NeverOversleeps ==
  [][mode = "sigchld" /\ mode' = "poll"
       => \A t \in Timers : pending[t] =>
            LET wake == stack'[Len(stack')].wake
            IN  wake # Forever /\ (wake = now \/ wake < Usecs(time[t]) + 2000)]_vars

Overdue(t) == pending[t] /\ Usecs(time[t]) + 2000 <= now /\ stack # <<>>

\* A timer that is due is fired (or cancelled or postponed by the client), or
\* all loops end: timers that keep re-arming themselves do not starve it.
OverdueFires == \A t \in Timers : Overdue(t) ~> ~Overdue(t)
=============================================================================
