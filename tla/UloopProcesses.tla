--------------------------- MODULE UloopProcesses ---------------------------
(***************************************************************************)
(* uloop.c: children and SIGCHLD.                                          *)
(*                                                                         *)
(* The signal handler runs between any two steps of the program.  It sets  *)
(* do_sigchld and writes to the waker pipe; the loop clears do_sigchld,    *)
(* collects children with waitpid until there is none, and calls back for  *)
(* those that are watched.  Callbacks start and watch children and run     *)
(* nested loops.  Timers and descriptors are modules UloopTimers and       *)
(* UloopEvents: here they only call back now and then.                     *)
(***************************************************************************)
EXTENDS Naturals, Sequences, SequencesExt, FiniteSets

CONSTANTS
  Watchers,   \* the struct uloop_process objects
  Pids,       \* process ids
  PipeSize,   \* bytes the waker pipe holds
  MaxDepth    \* bound: nested loops

ASSUME ProcessesAssumption ==
  /\ Pids \subseteq Nat \ {0}
  /\ PipeSize \in Nat \ {0}
  /\ MaxDepth \in Nat

VARIABLES
  child,       \* kernel: the state of each process id
  sigchld,     \* kernel: a SIGCHLD is pending
  pipe,        \* bytes in the waker pipe
  up,          \* between uloop_init and uloop_done
  do_sigchld,
  processes,   \* the list of watchers
  pid,         \* uloop_process.pid
  stack        \* the call stack, outermost first

kernel == <<child, sigchld>>
waker == <<pipe, do_sigchld>>
vars == <<child, sigchld, pipe, up, do_sigchld, processes, pid, stack>>

(***************************************************************************)
(* A frame is a call of uloop_run_timeout, by the point it has reached, or *)
(* a callback into client code: "process" for a child, "other" for a       *)
(* timer, a descriptor or a signal.                                        *)
(***************************************************************************)
Points == {"timeouts", "sigchld", "wait", "poll", "bottom"}
Callbacks == {"process", "other"}

At(point) == stack # <<>> /\ Last(stack) = point
Goto(point) == stack' = Append(Front(stack), point)

\* On to a point, after callbacks of timers, descriptors or signals perhaps;
\* one frame stands for all of them.
GotoOrCall(point) == Goto(point) \/ stack' = Front(stack) \o <<point, "other">>

\* Client code runs: main, or a callback.
InClient == stack # <<>> => Last(stack) \in Callbacks

Loops == {i \in 1..Len(stack) : stack[i] \in Points}
Pending == {processes[i] : i \in 1..Len(processes)}

-----------------------------------------------------------------------------
(* The kernel. *)

Exit(c) ==
  /\ child[c] = "running"
  /\ child' = [child EXCEPT ![c] = "zombie"]
  /\ sigchld' = up
  /\ UNCHANGED <<waker, up, processes, pid, stack>>

\* Mutant: nothing is written.
Written_Not == pipe

\* A full pipe takes no byte: the write fails with EAGAIN.
Written == IF pipe < PipeSize THEN pipe + 1 ELSE pipe

\* uloop_signal_wake as the handler of SIGCHLD, at any point of the program.
uloop_signal_wake ==
  /\ sigchld
  /\ sigchld' = FALSE
  /\ do_sigchld' = TRUE
  /\ pipe' = Written
  /\ UNCHANGED <<child, up, processes, pid, stack>>

\* Other signals write to the pipe as well.
OtherSignal ==
  /\ up /\ pipe < PipeSize
  /\ pipe' = pipe + 1
  /\ UNCHANGED <<kernel, do_sigchld, up, processes, pid, stack>>

-----------------------------------------------------------------------------
(* Client code. *)

\* Mutant: the new watcher goes to the end.
Linked_Tail(w, c) == {Append(processes, w)}

\* The list with w linked before the first larger process id, or at the end.
Linked(w, c) ==
  {InsertAt(processes, p, w) : p \in
     {i \in 1..(Len(processes) + 1) :
        /\ \A j \in 1..(i - 1) : pid[processes[j]] <= c
        /\ i <= Len(processes) => pid[processes[i]] > c}}

\* A child is forked and watched; a child has one watcher.
uloop_process_add(w, c) ==
  /\ InClient /\ up
  /\ child[c] = "none" /\ \A v \in Pending : pid[v] # c
  /\ w \notin Pending
  /\ child' = [child EXCEPT ![c] = "running"]
  /\ processes' \in Linked(w, c)
  /\ pid' = [pid EXCEPT ![w] = c]
  /\ UNCHANGED <<sigchld, waker, up, stack>>

\* A child is forked, and nobody watches it.
Fork(c) ==
  /\ InClient
  /\ child[c] = "none" /\ \A v \in Pending : pid[v] # c
  /\ child' = [child EXCEPT ![c] = "running"]
  /\ UNCHANGED <<sigchld, waker, up, processes, pid, stack>>

Unlinked(w) ==
  {RemoveAt(processes, p) : p \in {i \in 1..Len(processes) : processes[i] = w}}

uloop_process_delete(w) ==
  /\ InClient
  /\ w \in Pending
  /\ processes' \in Unlinked(w)
  /\ UNCHANGED <<kernel, waker, up, pid, stack>>

uloop_run ==
  /\ InClient /\ up
  /\ Cardinality(Loops) < MaxDepth
  /\ stack' = Append(stack, "timeouts")
  /\ UNCHANGED <<kernel, waker, up, processes, pid>>

\* The pipe is new; do_sigchld and unwatched children are left from before.
uloop_init ==
  /\ ~up /\ stack = <<>>
  /\ up' = TRUE
  /\ pipe' = 0
  /\ UNCHANGED <<kernel, do_sigchld, processes, pid, stack>>

uloop_done ==
  /\ up /\ stack = <<>>
  /\ up' = FALSE
  /\ pipe' = 0
  /\ sigchld' = FALSE
  /\ processes' = <<>>
  /\ UNCHANGED <<child, do_sigchld, pid, stack>>

CallbackReturn ==
  /\ stack # <<>> /\ Last(stack) \in Callbacks
  /\ stack' = Front(stack)
  /\ UNCHANGED <<kernel, waker, up, processes, pid>>

-----------------------------------------------------------------------------
(* uloop_run_timeout. *)

\* uloop_process_timeouts.
TimeoutsDone ==
  /\ At("timeouts")
  /\ GotoOrCall("sigchld")
  /\ UNCHANGED <<kernel, waker, up, processes, pid>>

\* The flag is cleared before the first waitpid.
CheckSigchld ==
  /\ At("sigchld")
  /\ Goto(IF do_sigchld THEN "wait" ELSE "poll")
  /\ do_sigchld' = FALSE
  /\ UNCHANGED <<kernel, pipe, up, processes, pid>>

\* The watchers that the search through the sorted list finds.
Found(c) ==
  {processes[i] : i \in {j \in 1..Len(processes) :
     /\ pid[processes[j]] = c
     /\ \A k \in 1..j : pid[processes[k]] <= c}}

\* Mutant: one child for each signal.
Reap_Once(c) ==
  /\ At("wait")
  /\ child[c] = "zombie"
  /\ child' = [child EXCEPT ![c] = "none"]
  /\ IF Found(c) = {} THEN Goto("poll") /\ UNCHANGED processes
     ELSE \E w \in Found(c) : /\ processes' \in Unlinked(w)
                              /\ stack' = Front(stack) \o <<"poll", "process">>
  /\ UNCHANGED <<sigchld, waker, up, pid>>

\* waitpid returns a child; its watcher is dropped, then called.  What follows
\* in the list has a larger id, so the walk ends when the callback returns.  Left
\* out: a callback that deletes the next watcher and gives it to a child with
\* the id just collected; the walk has saved it, and would call it at once.
Reap(c) ==
  /\ At("wait")
  /\ child[c] = "zombie"
  /\ child' = [child EXCEPT ![c] = "none"]
  /\ IF Found(c) = {} THEN UNCHANGED <<processes, stack>>
     ELSE \E w \in Found(c) : /\ processes' \in Unlinked(w)
                              /\ stack' = Append(stack, "process")
  /\ UNCHANGED <<sigchld, waker, up, pid>>

\* waitpid returns no child: none has exited, or there is none.
ReapDone ==
  /\ At("wait")
  /\ \A c \in Pids : child[c] # "zombie"
  /\ Goto("poll")
  /\ UNCHANGED <<kernel, waker, up, processes, pid>>

\* epoll_wait returns for the pipe: signal_consume reads all of it.
signal_consume ==
  /\ At("poll")
  /\ pipe > 0
  /\ pipe' = 0
  /\ GotoOrCall("bottom")
  /\ UNCHANGED <<kernel, do_sigchld, up, processes, pid>>

\* epoll_wait returns for other reasons.
PollOther ==
  /\ At("poll")
  /\ GotoOrCall("bottom")
  /\ UNCHANGED <<kernel, waker, up, processes, pid>>

LoopAgain ==
  /\ At("bottom")
  /\ Goto("timeouts")
  /\ UNCHANGED <<kernel, waker, up, processes, pid>>

\* uloop_cancelled is set, or the loop was for one round.
LoopEnd ==
  /\ At("poll") \/ At("bottom")
  /\ stack' = Front(stack)
  /\ UNCHANGED <<kernel, waker, up, processes, pid>>

-----------------------------------------------------------------------------
Init ==
  /\ child = [c \in Pids |-> "none"]
  /\ sigchld = FALSE
  /\ pipe = 0
  /\ up = FALSE
  /\ do_sigchld = FALSE
  /\ processes = <<>>
  /\ pid = [w \in Watchers |-> 0]
  /\ stack = <<>>

Kernel ==
  \/ \E c \in Pids : Exit(c)
  \/ uloop_signal_wake \/ OtherSignal

Client ==
  \/ \E w \in Watchers, c \in Pids : uloop_process_add(w, c)
  \/ \E c \in Pids : Fork(c)
  \/ \E w \in Watchers : uloop_process_delete(w)
  \/ uloop_run \/ uloop_init \/ uloop_done

Loop ==
  \/ TimeoutsDone \/ CheckSigchld
  \/ \E c \in Pids : Reap(c)
  \/ ReapDone \/ signal_consume \/ PollOther \/ LoopAgain \/ LoopEnd

Next == Kernel \/ Client \/ Loop \/ CallbackReturn

Spec == Init /\ [][Next]_vars

\* The handler runs, and the loop goes on.  A callback returns after finitely
\* many calls and nested loops, and a nested loop ends.  waitpid returns every
\* child sooner or later, and epoll_wait reports the pipe also when other
\* descriptors are busy.
Fairness ==
  /\ WF_vars(uloop_signal_wake)
  /\ WF_vars(TimeoutsDone \/ CheckSigchld \/ ReapDone \/ LoopAgain)
  /\ \A d \in 1..MaxDepth : SF_vars(Len(stack) = 2 * d /\ CallbackReturn)
  /\ \A d \in 2..MaxDepth : SF_vars(Len(stack) = 2 * d - 1 /\ LoopEnd)
  /\ \A c \in Pids : SF_vars(Reap(c))
  /\ SF_vars(Len(stack) = 1 /\ signal_consume)

FairSpec == Spec /\ Fairness

-----------------------------------------------------------------------------
(* Properties. *)

\* Every variable has its type.
TypeOK ==
  /\ child \in [Pids -> {"none", "running", "zombie"}]
  /\ sigchld \in BOOLEAN
  /\ pipe \in 0..PipeSize
  /\ up \in BOOLEAN
  /\ do_sigchld \in BOOLEAN
  /\ processes \in Seq(Watchers)
  /\ pid \in [Watchers -> Pids \cup {0}]
  /\ stack \in Seq(Points \cup Callbacks)

\* A pending watcher has a child that has not been collected: none is left
\* behind by the search for it, to be called for a later child with that id.
WatchersHaveChildren ==
  \A w \in Pending : child[pid[w]] # "none"

\* The callbacks of an outer loop that is collecting children have not returned.
Collecting == \E i \in Loops : i < Len(stack) /\ stack[i] = "wait"

\* The loop does not sleep while a watched child waits to be collected, unless
\* a signal that makes it collect is on its way.  This is about the window
\* between the last waitpid and epoll_wait, and about a full pipe.  A loop
\* nested inside the callback of a child is the exception: the loop outside it
\* has cleared do_sigchld and will go on collecting.
NoLostChild ==
  At("poll") /\ ~Collecting /\ (\E w \in Pending : child[pid[w]] = "zombie")
    => sigchld \/ (do_sigchld /\ pipe > 0)

\* A watched child that has exited is reported, unless the outermost loop ends.
ChildIsReported ==
  \A w \in Watchers, c \in Pids :
    w \in Pending /\ pid[w] = c /\ child[c] = "zombie" ~> w \notin Pending \/ stack = <<>>
=============================================================================
