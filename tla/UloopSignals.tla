---------------------------- MODULE UloopSignals ----------------------------
(***************************************************************************)
(* uloop.c: signal watchers, the handlers uloop installs for itself, and   *)
(* the end of loops by SIGINT or uloop_end.                                *)
(*                                                                         *)
(* A handler runs between any two steps of the program.  It writes the     *)
(* number of the signal to the waker pipe; the loop reads the pipe and     *)
(* walks over the list of watchers.  Children, timers and descriptors are  *)
(* other modules: here they only call back now and then.                   *)
(***************************************************************************)
EXTENDS Naturals, Sequences, SequencesExt, FiniteSets

CONSTANTS
  Watchers,    \* the struct uloop_signal objects
  Signals,     \* signal numbers
  Ints,        \* SIGINT and SIGTERM
  SIGCHLD,
  SIGPIPE,
  Dispositions,   \* what the client itself sets: pairs of signal and disposition
  ListHead,    \* the list head, which ends a walk
  PipeSize,    \* bytes the waker pipe holds
  MaxDepth     \* bound: nested loops

ASSUME SignalsAssumption ==
  /\ Signals \subseteq 1..32
  /\ Ints \cup {SIGCHLD, SIGPIPE} \subseteq Signals
  /\ Dispositions \subseteq Signals \X {"dfl", "ign", "client"}
  /\ ListHead \notin Watchers
  /\ PipeSize \in Nat \ {0}
  /\ MaxDepth \in Nat

VARIABLES
  handler,     \* kernel: the disposition of each signal
  pipe,        \* the bytes in the waker pipe
  up,          \* between uloop_init and uloop_done
  old,         \* old_sigint, old_sigterm, old_sigchld
  signals,     \* the list of watchers
  signo,       \* uloop_signal.signo
  orig,        \* uloop_signal.orig
  cancelled,   \* uloop_cancelled
  stack,       \* the call stack, outermost first
  choice,      \* history: the disposition the client last asked for
  owed         \* history: watchers whose signal was written and not reported

lists == <<signals, signo, orig>>
history == <<choice, owed>>
vars == <<handler, pipe, up, old, lists, cancelled, stack, history>>

\* "sigint" and "wake" are uloop_handle_sigint and uloop_signal_wake.
Handlers == {"dfl", "ign", "client", "sigint", "wake"}

(***************************************************************************)
(* Frames: a call of uloop_run_timeout, a walk of signal_consume, and      *)
(* callbacks: of a watcher, or of anything else (w is the list head).      *)
(***************************************************************************)
Loop(at, once) == [kind |-> "loop", at |-> at, once |-> once]
Walk(signums, next) == [kind |-> "walk", signums |-> signums, next |-> next]
Callback(w) == [kind |-> "callback", w |-> w]

In(kind) == stack # <<>> /\ Last(stack).kind = kind
At(point) == In("loop") /\ Last(stack).at = point
Loops == {i \in 1..Len(stack) : stack[i].kind = "loop"}

\* The innermost frame goes on as another.
Top(frame) == [stack EXCEPT ![Len(stack)] = frame]

Moved(point) == Top(Loop(point, Last(stack).once))

\* On to a point, after callbacks of timers, children or descriptors perhaps;
\* one frame stands for all of them.
MovedOrCalled(point) == {Moved(point), Append(Moved(point), Callback(ListHead))}

\* Client code runs: main, or a callback.
InClient == stack = <<>> \/ In("callback")
InSignalCallback == In("callback") /\ Last(stack).w # ListHead

Pending == {signals[i] : i \in 1..Len(signals)}

-----------------------------------------------------------------------------
(* The handlers. *)

\* Mutant: the handler does not write.
Written_Not(s) == pipe

\* uloop_signal_wake: a full pipe takes no byte.
Written(s) == IF Len(pipe) < PipeSize THEN Append(pipe, s) ELSE pipe

\* A signal arrives that uloop handles.
Deliver(s) ==
  /\ handler[s] \in {"sigint", "wake"}
  /\ cancelled' = (cancelled \/ handler[s] = "sigint")
  /\ pipe' = Written(s)
  /\ owed' = IF Len(pipe) < PipeSize
             THEN owed \cup {w \in Pending : signo[w] = s} ELSE owed
  /\ UNCHANGED <<handler, up, old, lists, stack, choice>>

-----------------------------------------------------------------------------
(* Client code. *)

\* The client sets the disposition of a signal it does not watch.
SetHandler(s, h) ==
  /\ InClient
  /\ \A w \in Pending : signo[w] # s
  /\ handler' = [handler EXCEPT ![s] = h]
  /\ choice' = [choice EXCEPT ![s] = h]
  /\ UNCHANGED <<pipe, up, old, lists, cancelled, stack, owed>>

\* The list with w linked before the first larger signal, or at the end.
Linked(w, s) ==
  {InsertAt(signals, p, w) : p \in
     {i \in 1..(Len(signals) + 1) :
        /\ \A j \in 1..(i - 1) : signo[signals[j]] <= s
        /\ i <= Len(signals) => signo[signals[i]] > s}}

\* Mutant: as uloop_install_handler, only in place of the default.
Installed_OverDefault(s) ==
  IF handler[s] = "dfl" THEN [handler EXCEPT ![s] = "wake"] ELSE handler

\* Any handler is replaced, and kept in orig.
Installed(s) == [handler EXCEPT ![s] = "wake"]

uloop_signal_add(w, s) ==
  /\ InClient /\ up
  /\ w \notin Pending
  /\ signals' \in Linked(w, s)
  /\ signo' = [signo EXCEPT ![w] = s]
  /\ orig' = [orig EXCEPT ![w] = handler[s]]
  /\ handler' = Installed(s)
  /\ UNCHANGED <<pipe, up, old, cancelled, stack, history>>

\* The contract of the client: a signal's callback deletes no watcher but its own.
uloop_signal_delete(w) ==
  /\ InClient
  /\ w \in Pending
  /\ InSignalCallback => w = Last(stack).w
  /\ \E p \in 1..Len(signals) : signals[p] = w /\ signals' = RemoveAt(signals, p)
  /\ handler' = IF orig[w] # "wake" THEN [handler EXCEPT ![signo[w]] = orig[w]]
                                    ELSE handler
  /\ owed' = owed \ {w}
  /\ UNCHANGED <<pipe, up, old, signo, orig, cancelled, stack, choice>>

\* Loops are not nested inside the callback of a signal.
uloop_run(once) ==
  /\ InClient /\ up /\ ~InSignalCallback
  /\ Cardinality(Loops) < MaxDepth
  /\ cancelled' = FALSE
  /\ stack' = Append(stack, Loop("start", once))
  /\ UNCHANGED <<handler, pipe, up, old, lists, history>>

uloop_end ==
  /\ InClient
  /\ cancelled' = TRUE
  /\ UNCHANGED <<handler, pipe, up, old, lists, stack, history>>

\* uloop_setup_signals(true): handlers and SIG_IGN in place of defaults.
HandlerOf(s) == IF s \in Ints THEN "sigint" ELSE "wake"

uloop_init ==
  /\ ~up /\ stack = <<>>
  /\ up' = TRUE
  /\ pipe' = <<>>
  /\ old' = [s \in Ints \cup {SIGCHLD} |-> IF handler[s] = "dfl" THEN handler[s] ELSE old[s]]
  /\ handler' = [s \in Signals |->
       IF handler[s] # "dfl" THEN handler[s]
       ELSE IF s \in Ints \cup {SIGCHLD} THEN HandlerOf(s)
       ELSE IF s = SIGPIPE THEN "ign" ELSE "dfl"]
  /\ UNCHANGED <<lists, cancelled, stack, history>>

\* uloop_setup_signals(false): only uloop's own handlers are restored, and
\* SIG_IGN of SIGPIPE.
Restored ==
  [s \in Signals |->
     IF s \in Ints \cup {SIGCHLD} /\ handler[s] = HandlerOf(s) THEN old[s]
     ELSE IF s = SIGPIPE /\ handler[s] = "ign" THEN "dfl" ELSE handler[s]]

\* uloop_done keeps the watchers; the client has deleted them.
uloop_done ==
  /\ up /\ stack = <<>> /\ signals = <<>>
  /\ up' = FALSE
  /\ pipe' = <<>>
  /\ handler' = Restored
  /\ UNCHANGED <<old, lists, cancelled, stack, history>>

CallbackReturn ==
  /\ In("callback")
  /\ stack' = Front(stack)
  /\ UNCHANGED <<handler, pipe, up, old, lists, cancelled, history>>

-----------------------------------------------------------------------------
(* uloop_run_timeout. *)

\* Timers and children, with their callbacks; then uloop_cancelled is tested.
Timeouts ==
  /\ At("start")
  /\ stack' = Append(stack, Callback(ListHead))
  /\ UNCHANGED <<handler, pipe, up, old, lists, cancelled, history>>

\* Mutant: uloop_cancelled is tested at the end of the loop only.
Poll_Untested ==
  /\ At("start")
  /\ stack' = Moved("poll")
  /\ UNCHANGED <<handler, pipe, up, old, lists, cancelled, history>>

Poll ==
  /\ At("start") /\ ~cancelled
  /\ stack' = Moved("poll")
  /\ UNCHANGED <<handler, pipe, up, old, lists, cancelled, history>>

\* epoll_wait returns for something else than the pipe.
PollOther ==
  /\ At("poll")
  /\ stack' \in MovedOrCalled("bottom")
  /\ UNCHANGED <<handler, pipe, up, old, lists, cancelled, history>>

First == IF signals = <<>> THEN ListHead ELSE signals[1]

\* set_signo for all that is read.
Signums == {pipe[i] : i \in 1..Len(pipe)}

\* epoll_wait returns for the pipe, and signal_consume reads all of it.
signal_consume ==
  /\ At("poll") /\ pipe # <<>>
  /\ pipe' = <<>>
  /\ stack' = Append(Moved("bottom"), Walk(Signums, First))
  /\ UNCHANGED <<handler, up, old, lists, cancelled, history>>

\* The watcher after w.
After(w) ==
  LET i == CHOOSE j \in 1..Len(signals) : signals[j] = w
  IN  IF i < Len(signals) THEN signals[i + 1] ELSE ListHead

\* list_for_each_entry_safe keeps the next watcher before it calls this one.
Saved(w) == After(w)

\* The walk visits w and calls it if its signal was read.
Visit(w) ==
  /\ In("walk") /\ Last(stack).next = w
  /\ w \in Pending
  /\ LET walk == Walk(Last(stack).signums, Saved(w))
     IN  IF signo[w] \in walk.signums
         THEN /\ stack' = Append(Top(walk), Callback(w))
              /\ owed' = owed \ {w}
         ELSE /\ stack' = Top(walk)
              /\ UNCHANGED owed
  /\ UNCHANGED <<handler, pipe, up, old, lists, cancelled, choice>>

WalkDone ==
  /\ In("walk") /\ Last(stack).next = ListHead
  /\ stack' = Front(stack)
  /\ UNCHANGED <<handler, pipe, up, old, lists, cancelled, history>>

LoopAgain ==
  /\ At("bottom") /\ ~cancelled /\ ~Last(stack).once
  /\ stack' = Moved("start")
  /\ UNCHANGED <<handler, pipe, up, old, lists, cancelled, history>>

LoopEnd ==
  /\ \/ At("start") /\ cancelled
     \/ At("bottom") /\ (cancelled \/ Last(stack).once)
  /\ stack' = Front(stack)
  /\ UNCHANGED <<handler, pipe, up, old, lists, cancelled, history>>

-----------------------------------------------------------------------------
Init ==
  /\ handler = [s \in Signals |-> "dfl"]
  /\ pipe = <<>>
  /\ up = FALSE
  /\ old = [s \in Ints \cup {SIGCHLD} |-> "dfl"]
  /\ signals = <<>>
  /\ signo = [w \in Watchers |-> 0]
  /\ orig = [w \in Watchers |-> "dfl"]
  /\ cancelled = FALSE
  /\ stack = <<>>
  /\ choice = handler
  /\ owed = {}

Client ==
  \/ \E d \in Dispositions : SetHandler(d[1], d[2])
  \/ \E w \in Watchers, s \in Signals : uloop_signal_add(w, s)
  \/ \E w \in Watchers : uloop_signal_delete(w)
  \/ \E once \in BOOLEAN : uloop_run(once)
  \/ uloop_end \/ uloop_init \/ uloop_done

Run ==
  \/ Timeouts \/ Poll \/ PollOther \/ signal_consume
  \/ \E w \in Watchers : Visit(w)
  \/ WalkDone \/ LoopAgain \/ LoopEnd

Next == Client \/ Run \/ CallbackReturn \/ \E s \in Signals : Deliver(s)

Spec == Init /\ [][Next]_vars

\* The loop goes on, epoll_wait returns when there is a byte in the pipe,
\* callbacks return after finitely many nested loops, and those of timers and
\* children come to an end.
Fairness ==
  /\ WF_vars(signal_consume \/ (\E w \in Watchers : Visit(w)) \/ WalkDone \/ LoopAgain)
  /\ \A d \in 1..MaxDepth :
       /\ SF_vars(Cardinality(Loops) = d /\ (Poll \/ LoopEnd))
       /\ SF_vars(Cardinality(Loops) = d /\ CallbackReturn)

FairSpec == Spec /\ Fairness

-----------------------------------------------------------------------------
(* Properties. *)

\* As long as the watcher is pending that found another handler in place, and
\* keeps it, its signal is handled by uloop, whatever other watchers of the same
\* signal come and go; and after uloop_done every signal has the disposition the
\* client gave it, whatever uloop and the watchers installed in between, and in
\* whatever order they were deleted.  Two cases are excepted, in which the code
\* does not keep the handler: once that watcher is deleted the old handler is back,
\* also under the other watchers of the signal, which are then no longer called;
\* and a SIGPIPE the client ignores itself is taken for uloop's own SIG_IGN.
HandlersOK ==
  /\ \A w \in Pending : orig[w] # "wake" => handler[signo[w]] = "wake"
  /\ ~up => handler = choice

Reached(walk) ==
  {signals[j] : j \in {k \in 1..Len(signals) :
     \E i \in 1..k : signals[i] = walk.next}}

\* A signal that was written to the pipe for a watcher is still in the pipe, or
\* in a walk that has the watcher before it, until the watcher is called.
NoLostSignal ==
  \A w \in owed :
    \/ \E i \in 1..Len(pipe) : pipe[i] = signo[w]
    \/ \E i \in 1..Len(stack) : /\ stack[i].kind = "walk"
                                /\ signo[w] \in stack[i].signums
                                /\ w \in Reached(stack[i])

\* After SIGINT or uloop_end the loops end, also when the signal came between the
\* test of uloop_cancelled and epoll_wait: its byte wakes the loop.  Unless
\* a callback runs another loop, which forgets it, or the callbacks of signals add
\* watchers for ever: two watchers of one signal that each delete themselves and
\* add themselves again are linked behind one another, and the walk never ends.
CancelEndsLoops ==
  \/ cancelled ~> stack = <<>> \/ ~cancelled
  \/ []<><<InSignalCallback /\ \E w \in Watchers, s \in Signals : uloop_signal_add(w, s)>>_vars
=============================================================================
