----------------------------- MODULE UloopEvents -----------------------------
(***************************************************************************)
(* Descriptor events in uloop.c and uloop-epoll.c: uloop_fd_add,           *)
(* uloop_fd_delete, uloop_run_events, the stack of running callbacks that  *)
(* buffers events of edge-triggered descriptors, and interval timers,      *)
(* which are timerfd descriptors.                                          *)
(*                                                                         *)
(* epoll_wait reports up to ULOOP_MAX_EVENTS descriptors into cur_fds, and *)
(* every round of the loop runs one callback.  A callback may add and      *)
(* delete any descriptor, its own and those waiting in cur_fds included,   *)
(* and may run a nested loop, which goes on with the same cur_fds.         *)
(***************************************************************************)
EXTENDS Integers, Sequences, FiniteSets

CONSTANTS
  Fds,          \* the struct uloop_fd objects of the program
  Intervals,    \* those inside a struct uloop_interval
  FlagSets,     \* FlagSets[f]: the flags the program adds f with
  KernelEvents, \* KernelEvents[f]: what can happen on f, see Ready
  NoFd,         \* NULL
  MaxEvents,    \* ULOOP_MAX_EVENTS
  MaxStack      \* bound: nested loops and callbacks together

Flags == {"READ", "WRITE", "EDGE_TRIGGER", "ERROR_CB"}
Ready == {"in", "out", "rdhup", "err"}

ASSUME EventsAssumption ==
  /\ Intervals \subseteq Fds
  /\ FlagSets \in [Fds -> SUBSET SUBSET Flags]
  /\ \A f \in Intervals : FlagSets[f] = {{"READ"}}
  /\ \A f \in Fds : \A a, b \in FlagSets[f] :
        "EDGE_TRIGGER" \in a <=> "EDGE_TRIGGER" \in b
  /\ KernelEvents \in [Fds -> SUBSET Ready]
  /\ \A f \in Intervals : KernelEvents[f] = {"in"}
  /\ NoFd \notin Fds
  /\ MaxEvents \in Nat \ {0}
  /\ MaxStack \in Nat

VARIABLES
  registered,  \* uloop_fd.registered
  flags,       \* uloop_fd.flags
  eof,         \* uloop_fd.eof
  error,       \* uloop_fd.error
  cur_fds,     \* the part of cur_fds not yet consumed (cur_fd, cur_nfds)
  stack,       \* the call stack of loops and callbacks, outermost first
  interest,    \* kernel: what epoll watches each descriptor for
  ready,       \* kernel: what each descriptor is ready for
  armed,       \* kernel: the descriptor is on epoll's ready list
  gone,        \* history: deleted by the client and not added since
  owed         \* history: reported by epoll_wait, not yet given to a callback

uvars == <<registered, flags, eof, error>>
kvars == <<interest, ready, armed>>
vars == <<registered, flags, eof, error, cur_fds, stack, interest, ready, armed, gone, owed>>

(***************************************************************************)
(* A frame is a running loop ("top": outside uloop_run_events, "events":   *)
(* in it), a descriptor callback (struct uloop_fd_stack, fd is NULL once   *)
(* the descriptor is deleted), or a timer or child callback.               *)
(***************************************************************************)
Frame == [kind : {"top", "events", "fd", "other"}, fd : Fds \cup {NoFd},
          events : SUBSET {"READ", "WRITE"}]

LoopFrame(pc) == [kind |-> pc, fd |-> NoFd, events |-> {}]
FdFrame(f) == [kind |-> "fd", fd |-> f, events |-> {}]
OtherFrame == [kind |-> "other", fd |-> NoFd, events |-> {}]

Depth == Len(stack)

\* Client code runs: the main program, or the innermost callback.
InClient == stack # <<>> => stack[Depth].kind \in {"fd", "other"}

InLoop(pc) == stack # <<>> /\ stack[Depth].kind = pc

SetTop(frame) == [stack EXCEPT ![Depth] = frame]

-----------------------------------------------------------------------------
(* The kernel. *)

\* register_poll translates the flags; errors are always reported.
Mask(fl) ==
  (IF "READ" \in fl THEN {"in", "rdhup"} ELSE {}) \cup
  (IF "WRITE" \in fl THEN {"out"} ELSE {}) \cup {"err"}

\* What epoll_wait would report for f now.
Report(f) == ready[f] \cap interest[f]

\* Something happens on a descriptor.
Arrive(f, e) ==
  /\ ready' = [ready EXCEPT ![f] = @ \cup {e}]
  /\ armed' = [armed EXCEPT ![f] = e \in interest[f] \/ @]
  /\ UNCHANGED <<uvars, cur_fds, stack, interest, gone, owed>>

\* Client code reads or writes until the descriptor would block.
Consume(f, e) ==
  /\ InClient
  /\ f \notin Intervals
  /\ e \in ready[f]
  /\ ready' = [ready EXCEPT ![f] = @ \ {e}]
  /\ UNCHANGED <<uvars, cur_fds, stack, interest, armed, gone, owed>>

-----------------------------------------------------------------------------
(* The stack of running callbacks. *)

OnStack(f) == {i \in 1..Depth : stack[i].kind = "fd" /\ stack[i].fd = f}

\* Mutant: the test of the flag is inverted.
Found_LevelOnly(f) ==
  {i \in OnStack(f) : "EDGE_TRIGGER" \notin flags[f] /\ \A j \in OnStack(f) : j <= i}

\* The frame that uloop_fd_stack_event finds for f: the innermost one.
Found(f) == {i \in OnStack(f) : "EDGE_TRIGGER" \in flags[f] /\ \A j \in OnStack(f) : j <= i}

\* uloop_fd_stack_event(f, -1) for every f of a set.
Detached(S) ==
  [i \in 1..Depth |-> IF \E f \in S : i \in Found(f) THEN [stack[i] EXCEPT !.fd = NoFd] ELSE stack[i]]

\* uloop_fd_stack_event(f, ev).
Buffer(f, ev) ==
  [i \in 1..Depth |->
     IF i \in Found(f) THEN [stack[i] EXCEPT !.events = @ \cup ev] ELSE stack[i]]

-----------------------------------------------------------------------------
(* Operations of the client. *)

\* epoll_ctl makes epoll report anew what f is ready for, an error included.
uloop_fd_add(f, fl) ==
  /\ InClient
  /\ fl \cap {"READ", "WRITE"} # {}
  /\ interest' = [interest EXCEPT ![f] = Mask(fl)]
  /\ armed' = [armed EXCEPT ![f] = ready[f] \cap Mask(fl) # {}]
  /\ registered' = [registered EXCEPT ![f] = TRUE]
  /\ flags' = [flags EXCEPT ![f] = fl]
  /\ eof' = [eof EXCEPT ![f] = FALSE]
  /\ error' = [error EXCEPT ![f] = FALSE]
  /\ gone' = [gone EXCEPT ![f] = FALSE]
  /\ owed' = [owed EXCEPT ![f] = IF registered[f] THEN @ \ {"ERROR"} ELSE {}]
  /\ UNCHANGED <<cur_fds, stack, ready>>

\* Mutant: the test of "registered" comes first.
Delete_EarlyReturn(f) ==
  /\ InClient
  /\ cur_fds' = [i \in DOMAIN cur_fds |->
                   IF registered[f] /\ cur_fds[i].fd = f
                   THEN [cur_fds[i] EXCEPT !.fd = NoFd] ELSE cur_fds[i]]
  /\ stack' = IF registered[f] THEN Detached({f}) ELSE stack
  /\ registered' = [registered EXCEPT ![f] = FALSE]
  /\ flags' = [flags EXCEPT ![f] = {}]
  /\ interest' = [interest EXCEPT ![f] = {}]
  /\ armed' = [armed EXCEPT ![f] = FALSE]
  /\ gone' = [gone EXCEPT ![f] = TRUE]
  /\ owed' = [owed EXCEPT ![f] = {}]
  /\ UNCHANGED <<eof, error>>

\* The entries of f in cur_fds are cleared whether or not f is registered.
Delete(f) ==
  /\ InClient
  /\ cur_fds' = [i \in DOMAIN cur_fds |->
                   IF cur_fds[i].fd = f THEN [cur_fds[i] EXCEPT !.fd = NoFd] ELSE cur_fds[i]]
  /\ stack' = IF registered[f] THEN Detached({f}) ELSE stack
  /\ registered' = [registered EXCEPT ![f] = FALSE]
  /\ flags' = [flags EXCEPT ![f] = {}]
  /\ interest' = [interest EXCEPT ![f] = {}]
  /\ armed' = [armed EXCEPT ![f] = FALSE]
  /\ gone' = [gone EXCEPT ![f] = TRUE]
  /\ owed' = [owed EXCEPT ![f] = {}]
  /\ UNCHANGED <<eof, error>>

uloop_fd_delete(f) == Delete(f) /\ UNCHANGED ready

\* uloop_interval_set: a new timerfd unless one is registered, set to zero.
uloop_interval_set(f) ==
  /\ f \in Intervals
  /\ InClient
  /\ ready' = [ready EXCEPT ![f] = {}]
  /\ armed' = [armed EXCEPT ![f] = FALSE]
  /\ interest' = [interest EXCEPT ![f] = Mask({"READ"})]
  /\ registered' = [registered EXCEPT ![f] = TRUE]
  /\ flags' = [flags EXCEPT ![f] = {"READ"}]
  /\ eof' = [eof EXCEPT ![f] = FALSE]
  /\ error' = [error EXCEPT ![f] = FALSE]
  /\ gone' = [gone EXCEPT ![f] = FALSE]
  /\ UNCHANGED <<cur_fds, stack, owed>>

\* uloop_interval_set when timerfd_settime or uloop_fd_add fails.
IntervalSetFails(f) ==
  /\ f \in Intervals
  /\ Delete(f)
  /\ ready' = [ready EXCEPT ![f] = {}]

\* uloop_interval_cancel of an armed interval: __uloop_fd_delete, close and
\* memset.  cur_fds may still name the interval, whose cb is NULL now, if the
\* client keeps the object: the contract that SkipEntry relies on.
uloop_interval_cancel(f) ==
  /\ f \in Intervals
  /\ InClient
  /\ registered[f]
  /\ registered' = [registered EXCEPT ![f] = FALSE]
  /\ flags' = [flags EXCEPT ![f] = {}]
  /\ interest' = [interest EXCEPT ![f] = {}]
  /\ armed' = [armed EXCEPT ![f] = FALSE]
  /\ ready' = [ready EXCEPT ![f] = {}]
  /\ gone' = [gone EXCEPT ![f] = TRUE]
  /\ owed' = [owed EXCEPT ![f] = {}]
  /\ UNCHANGED <<eof, error, cur_fds, stack>>

\* uloop_run or uloop_run_timeout, in the main program or in a callback.
uloop_run ==
  /\ InClient
  /\ Depth + 1 < MaxStack
  /\ stack' = Append(stack, LoopFrame("top"))
  /\ UNCHANGED <<uvars, cur_fds, kvars, gone, owed>>

-----------------------------------------------------------------------------
(* The loop. *)

LoopEnd ==
  /\ InLoop("top")
  /\ stack' = SubSeq(stack, 1, Depth - 1)
  /\ UNCHANGED <<uvars, cur_fds, kvars, gone, owed>>

\* A timer or a child callback.
OtherCallback ==
  /\ InLoop("top")
  /\ stack' = Append(stack, OtherFrame)
  /\ UNCHANGED <<uvars, cur_fds, kvars, gone, owed>>

\* uloop_run_events with entries left over from an earlier round.
RunLeftover ==
  /\ InLoop("top")
  /\ cur_fds # <<>>
  /\ stack' = SetTop(LoopFrame("events"))
  /\ UNCHANGED <<uvars, cur_fds, kvars, gone, owed>>

\* The part of the kernel's report that becomes cur->events.
Events(f) ==
  (IF "in" \in Report(f) THEN {"READ"} ELSE {}) \cup
  (IF "out" \in Report(f) THEN {"WRITE"} ELSE {})

\* What the report owes to the callback: the events, and fd->error.
Due(f) == Events(f) \cup (IF "err" \in Report(f) THEN {"ERROR"} ELSE {})

\* The descriptors that uloop_fetch_events deletes because of an error.
Failed(S) == {f \in S : "err" \in Report(f) /\ "ERROR_CB" \notin flags[f]}

\* uloop_fetch_events: epoll_wait reports the descriptors of a sequence.
uloop_fetch_events(fds) ==
  LET S == {fds[i] : i \in DOMAIN fds}
      D == Failed(S)
  IN  /\ InLoop("top")
      /\ cur_fds = <<>>
      /\ \A f \in S : armed[f] /\ Report(f) # {}
      /\ cur_fds' = [i \in DOMAIN fds |-> [fd |-> fds[i], events |-> Events(fds[i])]]
      /\ eof' = [f \in Fds |-> eof[f] \/ (f \in S /\ "rdhup" \in Report(f))]
      /\ error' = [f \in Fds |-> error[f] \/ (f \in S /\ "err" \in Report(f))]
      /\ registered' = [f \in Fds |-> registered[f] /\ f \notin D]
      /\ flags' = [f \in Fds |-> IF f \in D THEN {} ELSE flags[f]]
      /\ interest' = [f \in Fds |-> IF f \in D THEN {} ELSE interest[f]]
      /\ armed' = [f \in Fds |->
                     armed[f] /\ f \notin D /\ ~(f \in S /\ "EDGE_TRIGGER" \in flags[f])]
      /\ stack' = [Detached(D) EXCEPT ![Depth] = LoopFrame("events")]
      /\ owed' = [f \in Fds |-> IF f \in S THEN owed[f] \cup Due(f) ELSE owed[f]]
      /\ UNCHANGED <<ready, gone>>

\* fd->cb is NULL in a cleared interval only.
NoCallback(f) == f = NoFd \/ (f \in Intervals /\ ~registered[f])

\* The rounds of the while loop of uloop_run_events.
SkipEntry ==
  /\ InLoop("events")
  /\ cur_fds # <<>>
  /\ NoCallback(Head(cur_fds).fd)
  /\ cur_fds' = Tail(cur_fds)
  /\ UNCHANGED <<uvars, stack, kvars, gone, owed>>

\* A callback of the descriptor is running already.  ULOOP_EVENT_BUFFERED is
\* masked off when it returns: an error alone does not make it run again, and
\* is owed no longer.
BufferEntry ==
  /\ InLoop("events")
  /\ cur_fds # <<>>
  /\ LET f == Head(cur_fds).fd IN
       /\ ~NoCallback(f)
       /\ Found(f) # {}
       /\ stack' = Buffer(f, Head(cur_fds).events)
       /\ owed' = IF \A i \in Found(f) : stack'[i].events = {}
                  THEN [owed EXCEPT ![f] = @ \ {"ERROR"}] ELSE owed
  /\ cur_fds' = Tail(cur_fds)
  /\ UNCHANGED <<uvars, kvars, gone>>

\* stack_cur is pushed, the client's callback of f starts, and the loop will
\* be outside uloop_run_events when it returns.
Call(f) ==
  /\ InLoop("events")
  /\ cur_fds # <<>>
  /\ f = Head(cur_fds).fd
  /\ ~NoCallback(f)
  /\ Found(f) = {}
  /\ f \in Intervals => "READ" \in Head(cur_fds).events /\ "in" \in ready[f]
  /\ ready' = IF f \in Intervals THEN [ready EXCEPT ![f] = {}] ELSE ready
  /\ cur_fds' = Tail(cur_fds)
  /\ stack' = Append(SetTop(LoopFrame("top")), FdFrame(f))
  /\ owed' = [owed EXCEPT ![f] = IF registered[f]
                                 THEN @ \ (Head(cur_fds).events \cup {"ERROR"}) ELSE {}]
  /\ UNCHANGED <<uvars, interest, armed, gone>>

\* dispatch_timer of an interval without a read event, or whose timerfd has
\* nothing to read: nothing else happens.
StaleInterval ==
  /\ InLoop("events")
  /\ cur_fds # <<>>
  /\ LET f == Head(cur_fds).fd IN
       /\ f \in Intervals
       /\ ~NoCallback(f)
       /\ ~("READ" \in Head(cur_fds).events /\ "in" \in ready[f])
       /\ owed' = [owed EXCEPT ![f] = @ \ Head(cur_fds).events]
  /\ cur_fds' = Tail(cur_fds)
  /\ stack' = SetTop(LoopFrame("top"))
  /\ UNCHANGED <<uvars, kvars, gone>>

EventsDone ==
  /\ InLoop("events")
  /\ cur_fds = <<>>
  /\ stack' = SetTop(LoopFrame("top"))
  /\ UNCHANGED <<uvars, cur_fds, kvars, gone, owed>>

\* The callback returns, and is run again for the events buffered meanwhile.
CallAgain(f) ==
  /\ InLoop("fd")
  /\ stack[Depth].fd = f
  /\ stack[Depth].events # {}
  /\ stack' = SetTop(FdFrame(f))
  /\ owed' = [owed EXCEPT ![f] = @ \ (stack[Depth].events \cup {"ERROR"})]
  /\ UNCHANGED <<uvars, cur_fds, kvars, gone>>

\* Mutant: the callback is run once, whatever was buffered.
CallbackReturn_Once ==
  /\ stack # <<>>
  /\ stack[Depth].kind \in {"fd", "other"}
  /\ stack' = SubSeq(stack, 1, Depth - 1)
  /\ UNCHANGED <<uvars, cur_fds, kvars, gone, owed>>

CallbackReturn ==
  /\ stack # <<>>
  /\ \/ stack[Depth].kind = "other"
     \/ stack[Depth].kind = "fd" /\ (stack[Depth].fd = NoFd \/ stack[Depth].events = {})
  /\ stack' = SubSeq(stack, 1, Depth - 1)
  /\ UNCHANGED <<uvars, cur_fds, kvars, gone, owed>>

-----------------------------------------------------------------------------
Init ==
  /\ registered = [f \in Fds |-> FALSE]
  /\ flags = [f \in Fds |-> {}]
  /\ eof = [f \in Fds |-> FALSE]
  /\ error = [f \in Fds |-> FALSE]
  /\ cur_fds = <<>>
  /\ stack = <<>>
  /\ interest = [f \in Fds |-> {}]
  /\ ready = [f \in Fds |-> {}]
  /\ armed = [f \in Fds |-> FALSE]
  /\ gone = [f \in Fds |-> TRUE]
  /\ owed = [f \in Fds |-> {}]

\* The reports epoll_wait may deliver: distinct descriptors, in any order.
Reports ==
  UNION {{s \in [1..n -> Fds] : \A i, j \in 1..n : s[i] = s[j] => i = j} :
           n \in 1..MaxEvents}

Kernel ==
  \E f \in Fds, e \in Ready :
    /\ e \in KernelEvents[f]
    /\ f \in Intervals => registered[f]
    /\ Arrive(f, e)

Client ==
  \/ \E f \in Fds \ Intervals : \/ \E fl \in FlagSets[f] : uloop_fd_add(f, fl)
                                \/ uloop_fd_delete(f)
                                \/ \E e \in {"in", "out"} : Consume(f, e)
  \/ \E f \in Intervals : \/ uloop_interval_set(f)
                          \/ IntervalSetFails(f)
                          \/ uloop_interval_cancel(f)
  \/ uloop_run

Loop ==
  \/ LoopEnd \/ OtherCallback \/ RunLeftover
  \/ \E fds \in Reports : uloop_fetch_events(fds)
  \/ SkipEntry \/ BufferEntry \/ StaleInterval \/ EventsDone \/ CallbackReturn
  \/ \E f \in Fds : Call(f) \/ CallAgain(f)

Next == Kernel \/ Client \/ Loop

Spec == Init /\ [][Next]_vars

-----------------------------------------------------------------------------
(* Properties. *)

\* The callback of an edge-triggered descriptor is not entered again from a
\* nested loop while it runs: at most one frame of the stack stands for the
\* descriptor.  Unless it was deleted since that call began: uloop_fd_delete takes
\* the frame off the descriptor, and once it is added again a nested loop enters
\* the callback a second time, under the first call.
NotReentered ==
  \A f \in Fds : "EDGE_TRIGGER" \in flags[f] => Cardinality(OnStack(f)) <= 1

\* An event that epoll_wait has reported (for an edge-triggered descriptor it
\* does so once) is given to a callback, waits in cur_fds, or is buffered on
\* the stack, until the client deletes the descriptor or epoll watches it anew.
\* So does an error, which the callback finds in fd->error.  The entry of
\* a descriptor that uloop_fetch_events deleted stands for all that was buffered
\* before.  One report is excepted: an error without other events, of an
\* edge-triggered descriptor with ULOOP_ERROR_CB whose callback is running and
\* has nothing buffered, is dropped (BufferEntry); the callback is not run for it.
NoLostEvent ==
  \A f \in Fds : \A e \in owed[f] :
    \/ \E i \in DOMAIN cur_fds :
         cur_fds[i].fd = f /\ (e \in cur_fds[i].events \cup {"ERROR"} \/ ~registered[f])
    \/ \E i \in OnStack(f) :
         e \in stack[i].events \/ (e = "ERROR" /\ stack[i].events # {})

\* uloop_run_events takes the entry of f and reads the object.
Reads(f) ==
  InLoop("events") /\ cur_fds # <<>> /\ Head(cur_fds).fd = f /\ cur_fds' = Tail(cur_fds)

\* After uloop_fd_delete the client may free the object: uloop_run_events does
\* not read it any more, and does not run its callback, not even for an event
\* that was fetched or buffered before.  After uloop_interval_cancel the callback
\* is not run either, but the object may still be read (cur_fds keeps the
\* pointer), so that the client must keep it until cur_fds is used up.  An
\* interval that was set anew is not run before its timer has expired anew.
NoCallAfterDelete ==
  [][\A f \in Fds :
       /\ Call(f) \/ CallAgain(f) => ~gone[f] /\ (f \in Intervals => "in" \in ready[f])
       /\ Reads(f) /\ f \notin Intervals => ~gone[f]]_vars
=============================================================================
