------------------------------ MODULE Runqueue ------------------------------
(***************************************************************************)
(* runqueue.c: a queue of tasks of which max_running_tasks run at a time.  *)
(*                                                                         *)
(* The queue starts tasks from a uloop timer, and calls back into client   *)
(* code to run, cancel, kill and complete a task.  Client code may call    *)
(* every operation of the queue from a callback, also while an operation   *)
(* further down the call stack walks one of the lists with                 *)
(* safe_list_for_each (module SafeList); the stack below keeps what each   *)
(* interrupted operation still has to do.                                  *)
(***************************************************************************)
EXTENDS Integers, Sequences, SequencesExt

CONSTANTS
  Tasks,             \* the struct runqueue_task objects
  Processes,         \* those inside a struct runqueue_process
  RunTimeout,        \* those with a run_timeout
  CancelTimeout,     \* those with a cancel_timeout
  MaxRunning,        \* max_running_tasks, 0: no limit
  MaxStack,          \* bound: nested operations and callbacks
  NoTask, HeadNode   \* no task; the list head, as an iterator's next

ASSUME RunqueueAssumption ==
  /\ Processes \subseteq Tasks
  /\ RunTimeout \subseteq Tasks
  /\ CancelTimeout \subseteq Tasks
  /\ MaxRunning \in Nat
  /\ MaxStack \in Nat
  /\ NoTask \notin Tasks
  /\ HeadNode \notin Tasks
  /\ NoTask # HeadNode

VARIABLES
  lists,          \* tasks_active and tasks_inactive
  queued,         \* runqueue_task.queued
  running,        \* runqueue_task.running
  cancelled,      \* runqueue_task.cancelled
  timer,          \* runqueue_task.timeout.pending
  proc,           \* runqueue_process.proc.pending
  running_tasks,  \* runqueue.running_tasks
  stopped,        \* runqueue.stopped
  empty,          \* runqueue.empty
  q_timer,        \* runqueue.timeout: not pending, or which callback it has
  stack,          \* the call stack, outermost first
  quiet,          \* history: runqueue_kill has cancelled the timer
  early           \* history: watched while they waited, and not run since

tvars == <<queued, running, cancelled, timer>>
qvars == <<stopped, empty, q_timer, quiet, early>>
vars == <<lists, queued, running, cancelled, timer, proc, running_tasks, stopped, empty,
          q_timer, stack, quiet, early>>

ListNames == {"active", "inactive"}
Callbacks == {"run", "cancel", "kill", "complete", "empty"}

(***************************************************************************)
(* A frame is a callback into client code for task t, or an operation that *)
(* goes on when the frames above it are gone: "start" is the loop of       *)
(* __runqueue_start_next, "active" and "inactive" are safe_list_for_each   *)
(* over that list with t the element it visits next (NoTask: it has not    *)
(* begun), "killall" and "killed" are the two halves of runqueue_kill.     *)
(***************************************************************************)
Frame == [k : Callbacks \cup ListNames \cup {"start", "killall", "killed"},
          t : Tasks \cup {NoTask, HeadNode}]

F(k, t) == [k |-> k, t |-> t]
Top == stack[Len(stack)]
Popped == Front(stack)

\* Client code runs: a callback, or what uloop calls.
InClient == stack # <<>> => Top.k \in Callbacks
Executing(k) == stack # <<>> /\ Top.k = k

Room == Len(stack) < MaxStack

-----------------------------------------------------------------------------
(* Lists. *)

Where(t) == IF running[t] THEN "active" ELSE "inactive"

\* The element after position p.
Successor(list, p) == IF p < Len(list) THEN list[p + 1] ELSE HeadNode

\* Mutant: list_del in place of safe_list_del.
Advanced_Plain(st, l, t, next) == st

\* safe_list_del: iterators about to visit t move on to its successor.
Advanced(st, l, t, next) ==
  [i \in 1..Len(st) |-> IF st[i].k = l /\ st[i].t = t THEN F(l, next) ELSE st[i]]

-----------------------------------------------------------------------------
(* Operations, as they are called with the stack st below them. *)

\* running_tasks without t.
StillRunning(t) == IF running[t] THEN running_tasks - 1 ELSE running_tasks

\* Mutant: the timer of the task is not cancelled.
TimerCancelled_Not(t) == timer

\* uloop_timeout_cancel(&t->timeout).
TimerCancelled(t) == [timer EXCEPT ![t] = FALSE]

\* The start of runqueue_task_complete, up to the callback.
Complete(t, st) ==
  /\ \E p \in 1..Len(lists[Where(t)]) :
       /\ lists[Where(t)][p] = t
       /\ lists' = [lists EXCEPT ![Where(t)] = RemoveAt(@, p)]
       /\ stack' = Append(Advanced(st, Where(t), t, Successor(lists[Where(t)], p)), F("complete", t))
  /\ running_tasks' = StillRunning(t)
  /\ timer' = TimerCancelled(t)
  /\ queued' = [queued EXCEPT ![t] = FALSE]
  /\ running' = [running EXCEPT ![t] = FALSE]
  /\ cancelled' = [cancelled EXCEPT ![t] = FALSE]

\* runqueue_task_cancel of a queued task; pending: its timer is still set.
Cancel(t, st, pending) ==
  /\ IF running[t]
     THEN /\ cancelled' = [cancelled EXCEPT ![t] = TRUE]
          /\ timer' = [timer EXCEPT ![t] = pending \/ t \in CancelTimeout]
          /\ stack' = Append(st, F("cancel", t))
          /\ UNCHANGED <<lists, queued, running, running_tasks>>
     ELSE Complete(t, st)
  /\ UNCHANGED <<proc, qvars>>

\* runqueue_task_kill of a queued task.  The kill callback of a process is
\* runqueue_process_kill_cb, possibly wrapped: it drops the watch first.
Kill(t, st, pending) ==
  /\ IF running[t]
     THEN /\ stack' = Append(st, F("kill", t))
          /\ proc' = [proc EXCEPT ![t] = FALSE]
          /\ timer' = [timer EXCEPT ![t] = pending]
          /\ UNCHANGED <<lists, queued, running, cancelled, running_tasks>>
     ELSE Complete(t, st) /\ UNCHANGED proc
  /\ UNCHANGED qvars

\* runqueue_start_next.
StartNext(isempty) ==
  /\ q_timer' = IF isempty THEN q_timer ELSE "start"
  /\ quiet' = IF isempty THEN quiet ELSE FALSE

-----------------------------------------------------------------------------
(* Calls of client code. *)

\* A kill callback must not complete its task, says runqueue.h.
Killing == {stack[i].t : i \in {j \in 1..Len(stack) : stack[j].k = "kill"}}

\* Mutant: a queued task is added again.
CanAdd_Twice(t) == TRUE

CanAdd(t) == ~queued[t]

\* _runqueue_task_add of a task that is not queued.
Add(t, isrunning, first) ==
  /\ CanAdd(t)
  /\ LET l == IF isrunning THEN "active" ELSE "inactive" IN
       lists' = [lists EXCEPT ![l] = IF first THEN <<t>> \o @ ELSE Append(@, t)]
  /\ running_tasks' = IF isrunning THEN running_tasks + 1 ELSE running_tasks
  /\ cancelled' = [cancelled EXCEPT ![t] = FALSE]
  /\ queued' = [queued EXCEPT ![t] = TRUE]
  /\ running' = [running EXCEPT ![t] = isrunning]
  /\ empty' = FALSE
  /\ StartNext(FALSE)
  /\ UNCHANGED <<timer, stopped, stack>>

runqueue_task_add(t, isrunning, first) ==
  /\ InClient
  /\ Add(t, isrunning, first)
  /\ early' = IF isrunning THEN early \ {t} ELSE early
  /\ UNCHANGED proc

\* The watch of a process completes its task; other tasks complete themselves.
runqueue_task_complete(t) ==
  /\ InClient /\ Room
  /\ queued[t] /\ ~proc[t] /\ t \notin Killing
  /\ Complete(t, stack)
  /\ UNCHANGED <<proc, qvars>>

runqueue_task_cancel(t) ==
  /\ InClient /\ Room
  /\ queued[t]
  /\ Cancel(t, stack, timer[t])

runqueue_task_kill(t) ==
  /\ InClient /\ Room
  /\ queued[t] /\ t \notin Killing
  /\ Kill(t, stack, timer[t])

runqueue_cancel_active ==
  /\ InClient /\ Room
  /\ stack' = Append(stack, F("active", NoTask))
  /\ UNCHANGED <<lists, tvars, proc, running_tasks, qvars>>

runqueue_cancel_pending ==
  /\ InClient /\ Room
  /\ stack' = Append(stack, F("inactive", NoTask))
  /\ UNCHANGED <<lists, tvars, proc, running_tasks, qvars>>

runqueue_cancel ==
  /\ InClient /\ Room
  /\ stack' = stack \o <<F("active", NoTask), F("inactive", NoTask)>>
  /\ UNCHANGED <<lists, tvars, proc, running_tasks, qvars>>

runqueue_kill ==
  /\ InClient /\ Room
  /\ Killing = {}
  /\ stack' = Append(stack, F("killall", NoTask))
  /\ UNCHANGED <<lists, tvars, proc, running_tasks, qvars>>

runqueue_stop ==
  /\ InClient
  /\ stopped' = TRUE
  /\ UNCHANGED <<lists, tvars, proc, running_tasks, empty, q_timer, stack, quiet, early>>

runqueue_resume ==
  /\ InClient
  /\ stopped' = FALSE
  /\ StartNext(empty)
  /\ UNCHANGED <<lists, tvars, proc, running_tasks, empty, stack, early>>

\* The task runs already, or it is not queued and runs from here on.  For one
\* that waits in the queue runqueue_task_add does nothing: it waits on, and its
\* child is watched.
runqueue_process_add(t) ==
  /\ InClient
  /\ t \in Processes \ Killing
  /\ ~proc[t]
  /\ proc' = [proc EXCEPT ![t] = TRUE]
  /\ \/ /\ queued[t]
        /\ early' = IF running[t] THEN early ELSE early \cup {t}
        /\ UNCHANGED <<lists, tvars, running_tasks, stopped, empty, q_timer, quiet, stack>>
     \/ Add(t, TRUE, FALSE) /\ UNCHANGED early

-----------------------------------------------------------------------------
(* What uloop calls. *)

\* q->timeout fires as __runqueue_start_next.
StartTimer ==
  /\ stack = <<>>
  /\ q_timer = "start"
  /\ q_timer' = "off"
  /\ stack' = <<F("start", NoTask)>>
  /\ UNCHANGED <<lists, tvars, proc, running_tasks, stopped, empty, quiet, early>>

\* q->timeout fires as __runqueue_empty_cb.
EmptyTimer ==
  /\ stack = <<>>
  /\ q_timer = "empty"
  /\ q_timer' = "off"
  /\ stack' = <<F("empty", NoTask)>>
  /\ UNCHANGED <<lists, tvars, proc, running_tasks, stopped, empty, quiet, early>>

\* Mutant: a timeout only ever cancels.
TaskTimer_NeverKills(t) ==
  /\ stack = <<>>
  /\ timer[t]
  /\ queued[t]
  /\ Cancel(t, stack, FALSE)

\* __runqueue_task_timeout of a queued task; the timer is not pending any more.
TaskTimer(t) ==
  /\ stack = <<>>
  /\ timer[t]
  /\ queued[t]
  /\ IF cancelled[t] THEN Kill(t, stack, FALSE) ELSE Cancel(t, stack, FALSE)

\* __runqueue_proc_cb: the child has exited.  Its task may be off the queue: one
\* that waited and was cancelled.
ProcessExit(t) ==
  /\ stack = <<>>
  /\ proc[t]
  /\ proc' = [proc EXCEPT ![t] = FALSE]
  /\ IF queued[t] THEN Complete(t, stack)
     ELSE UNCHANGED <<lists, tvars, running_tasks, stack>>
  /\ early' = early \ {t}
  /\ UNCHANGED <<stopped, empty, q_timer, quiet>>

-----------------------------------------------------------------------------
(* The operations go on. *)

CanStart ==
  /\ ~stopped
  /\ lists["inactive"] # <<>>
  /\ MaxRunning = 0 \/ running_tasks < MaxRunning

\* A round of the loop of __runqueue_start_next.
StartTask(t) ==
  /\ Executing("start")
  /\ CanStart
  /\ t = Head(lists["inactive"])
  /\ lists' = [active |-> Append(lists["active"], t), inactive |-> Tail(lists["inactive"])]
  /\ running' = [running EXCEPT ![t] = TRUE]
  /\ running_tasks' = running_tasks + 1
  /\ timer' = [timer EXCEPT ![t] = @ \/ t \in RunTimeout]
  /\ stack' = Append(Advanced(stack, "inactive", t, Successor(lists["inactive"], 1)), F("run", t))
  /\ early' = early \ {t}
  /\ UNCHANGED <<queued, cancelled, proc, stopped, empty, q_timer, quiet>>

\* The end of __runqueue_start_next.
StartDone ==
  /\ Executing("start")
  /\ ~CanStart
  /\ IF ~empty /\ lists["active"] = <<>> /\ lists["inactive"] = <<>>
     THEN empty' = TRUE /\ q_timer' = "empty"
     ELSE UNCHANGED <<empty, q_timer>>
  /\ stack' = Popped
  /\ UNCHANGED <<lists, tvars, proc, running_tasks, stopped, quiet, early>>

\* A round of safe_list_for_each with __runqueue_cancel.
VisitNext(l) ==
  /\ Executing(l)
  /\ \E p \in 1..Len(lists[l]) :
       /\ IF Top.t = NoTask THEN p = 1 ELSE lists[l][p] = Top.t
       /\ Cancel(lists[l][p], Append(Popped, F(l, Successor(lists[l], p))), timer[lists[l][p]])

VisitDone(l) ==
  /\ Executing(l)
  /\ IF Top.t = NoTask THEN lists[l] = <<>> ELSE Top.t = HeadNode
  /\ stack' = Popped
  /\ UNCHANGED <<lists, tvars, proc, running_tasks, qvars>>

\* The while loop of runqueue_kill.
KillFirst ==
  /\ Executing("killall")
  /\ lists["active"] # <<>>
  /\ Kill(Head(lists["active"]), stack, timer[Head(lists["active"])])

KillPending ==
  /\ Executing("killall")
  /\ lists["active"] = <<>>
  /\ stack' = Popped \o <<F("killed", NoTask), F("inactive", NoTask)>>
  /\ UNCHANGED <<lists, tvars, proc, running_tasks, qvars>>

KillDone ==
  /\ Executing("killed")
  /\ q_timer' = "off"
  /\ quiet' = TRUE
  /\ stack' = Popped
  /\ UNCHANGED <<lists, tvars, proc, running_tasks, stopped, empty, early>>

\* run, cancel and empty callbacks return.
CallbackReturn ==
  /\ stack # <<>>
  /\ Top.k \in {"run", "cancel", "empty"}
  /\ stack' = Popped
  /\ UNCHANGED <<lists, tvars, proc, running_tasks, qvars>>

\* runqueue_task_kill goes on after the kill callback.
KillReturn ==
  /\ Executing("kill")
  /\ IF queued[Top.t] THEN Complete(Top.t, Popped)
     ELSE stack' = Popped /\ UNCHANGED <<lists, tvars, running_tasks>>
  /\ UNCHANGED <<proc, qvars>>

\* Mutant: the queue looks for the next task only before the callback.
CompleteReturn_NoStart ==
  /\ Executing("complete")
  /\ stack' = Popped
  /\ UNCHANGED <<lists, tvars, proc, running_tasks, qvars>>

\* Mutant: nothing to start, no timer.
CompleteReturn_IfPending ==
  /\ Executing("complete")
  /\ stack' = Popped
  /\ StartNext(empty \/ lists["inactive"] = <<>>)
  /\ UNCHANGED <<lists, tvars, proc, running_tasks, stopped, empty, early>>

\* runqueue_task_complete goes on after the complete callback.
CompleteReturn ==
  /\ Executing("complete")
  /\ stack' = Popped
  /\ StartNext(empty)
  /\ UNCHANGED <<lists, tvars, proc, running_tasks, stopped, empty, early>>

-----------------------------------------------------------------------------
Init ==
  /\ lists = [active |-> <<>>, inactive |-> <<>>]
  /\ queued = [t \in Tasks |-> FALSE]
  /\ running = [t \in Tasks |-> FALSE]
  /\ cancelled = [t \in Tasks |-> FALSE]
  /\ timer = [t \in Tasks |-> FALSE]
  /\ proc = [t \in Tasks |-> FALSE]
  /\ running_tasks = 0
  /\ stopped = FALSE
  /\ empty = FALSE
  /\ q_timer = "off"
  /\ stack = <<>>
  /\ quiet = FALSE
  /\ early = {}

Client ==
  \/ \E t \in Tasks : \/ \E isrunning, first \in BOOLEAN : runqueue_task_add(t, isrunning, first)
                      \/ runqueue_task_complete(t)
                      \/ runqueue_task_cancel(t)
                      \/ runqueue_task_kill(t)
                      \/ runqueue_process_add(t)
  \/ runqueue_cancel_active \/ runqueue_cancel_pending \/ runqueue_cancel
  \/ runqueue_kill \/ runqueue_stop \/ runqueue_resume

Uloop ==
  \/ StartTimer \/ EmptyTimer
  \/ \E t \in Tasks : TaskTimer(t) \/ ProcessExit(t)

Library ==
  \/ \E t \in Tasks : StartTask(t)
  \/ \E l \in ListNames : VisitNext(l) \/ VisitDone(l)
  \/ StartDone \/ KillFirst \/ KillPending \/ KillDone
  \/ CallbackReturn \/ KillReturn \/ CompleteReturn

Next == Client \/ Uloop \/ Library

Spec == Init /\ [][Next]_vars

\* A client that lets the operations end: it adds no task from the callbacks of
\* an operation that works until no task is left.
InOperation == \E i \in 1..Len(stack) : stack[i].k \notin Callbacks
LastingClient == InOperation => \A t \in Tasks : queued'[t] => queued[t]

\* The operations go on, and every callback returns after finitely many calls.
\* uloop runs the timers, and no client pushes a deadline out for ever.
Fairness ==
  /\ WF_vars(Library)
  /\ \A n \in 1..(MaxStack + 2) :
       SF_vars(Len(stack) = n /\ (CallbackReturn \/ KillReturn \/ CompleteReturn))
  /\ SF_vars(StartTimer) /\ SF_vars(EmptyTimer)
  /\ \A t \in Tasks : SF_vars(TaskTimer(t))

FairSpec == Init /\ [][Next /\ LastingClient]_vars /\ Fairness

-----------------------------------------------------------------------------
(* Properties. *)

On(t, list) == \E p \in 1..Len(list) : list[p] = t

\* The flags of a task say which list it is on, it is there once, and
\* running_tasks counts the active list: whatever callbacks do inside the
\* operations, a slot is neither lost nor used twice.  empty and the empty
\* callback are only for a queue without tasks.
Accounting ==
  /\ \A l \in ListNames : \A p, q \in 1..Len(lists[l]) : lists[l][p] = lists[l][q] => p = q
  /\ \A t \in Tasks : On(t, lists["active"]) <=> queued[t] /\ running[t]
  /\ \A t \in Tasks : On(t, lists["inactive"]) <=> queued[t] /\ ~running[t]
  /\ running_tasks = Len(lists["active"])
  /\ empty => lists["active"] = <<>> /\ lists["inactive"] = <<>>
  /\ q_timer = "empty" => empty
  /\ q_timer = "start" => ~empty

\* A task that is off the queue has no timer, no watched process and no flag
\* left: its owner may free it in the complete callback.  The exception is a
\* child that was watched while its task waited and never ran: the end of such a
\* task does not call its kill callback, which would drop the watch.
NothingLeftBehind ==
  \A t \in Tasks : /\ running[t] \/ cancelled[t] \/ timer[t] => queued[t]
                   /\ proc[t] => queued[t] \/ t \in early

\* What an interrupted operation goes on with is still there: the next task of
\* a walk is on the list it walks, and a task whose kill callback runs is on
\* the active list.
Resumable ==
  \A i \in 1..Len(stack) :
    /\ stack[i].k \in ListNames /\ stack[i].t \in Tasks => On(stack[i].t, lists[stack[i].k])
    /\ stack[i].k = "kill" => On(stack[i].t, lists["active"])

\* When uloop has control and a task can start, the timer that starts it is
\* set, unless runqueue_kill has cancelled it since.
NoLostWakeup ==
  stack = <<>> /\ CanStart /\ ~quiet => q_timer = "start"

HasTasks == \E t \in Tasks : queued[t]

\* A queue that is emptied and stays empty calls empty_cb, unless it was
\* runqueue_kill that emptied it.
EmptyIsReported ==
  [](HasTasks => <>(Executing("empty")) \/ []<>HasTasks \/ <>[]quiet)

\* A running task with a timer and a cancel timeout gets cancelled, then
\* killed, and leaves the queue, whether or not it reacts to the cancel
\* callback.
TimeoutsEndTasks ==
  \A t \in CancelTimeout : running[t] /\ timer[t] ~> ~queued[t]

=============================================================================
