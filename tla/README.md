# A TLA+ verification of libubox

libubox is the C utility library below OpenWrt's daemons. This directory holds
TLA+ models of the parts of it that carry control logic, TLC runs that check
them on small instances, and TLAPS proofs that establish the main invariants
for every instance. Paths and line numbers refer to `src/`.

## 1. The system

libubox is single-threaded. What makes it hard is not parallelism but
*re-entrancy*: nearly every operation calls back into client code, client code
may call every operation again, may delete the object the operation is working
on, and may run a nested event loop. The only true asynchrony is the signal
handlers of `uloop.c`, the kernel's side of epoll, and the shared-memory rings
of `udebug.c`.

| Component | State | Operations | Interaction |
|---|---|---|---|
| run loop and timers (`uloop.c`) | `timeouts` list, `uloop_cancelled`, `uloop_run_depth` | `uloop_timeout_add/set/cancel/remaining`, `uloop_run_timeout`, `uloop_end` | calls timer callbacks; asks epoll to sleep until the first deadline |
| descriptors and intervals (`uloop.c`, `uloop-epoll.c`) | `cur_fds`, `fd_stack`, `registered`, `flags`, `eof`, `error` | `uloop_fd_add/delete`, `uloop_interval_set/cancel`, `uloop_run_events` | epoll, timerfd; nested loops share `cur_fds` |
| children and signals (`uloop.c`) | `processes`, `signals`, `do_sigchld`, waker pipe, old handlers | `uloop_process_add/delete`, `uloop_signal_add/delete`, `uloop_init/done` | signal handlers, `waitpid` |
| task queue (`runqueue.c`) | two safe lists, `running_tasks`, `empty`, `stopped`, per-task flags | `runqueue_task_add/complete/cancel/kill`, `runqueue_cancel/kill/stop/resume`, `runqueue_process_add` | timers and children of uloop, safe_list |
| safe list (`safe_list.c`) | list links, chains of iterators on the C stack | `safe_list_for_each/add/add_first/del` | callbacks of the walk change the list |
| buffered streams (`ustream.c`, `ustream-fd.c`) | read and write buffer lists, flags, counters | reserve, fill, consume, write, poll | uloop descriptors, notify callbacks |
| debug rings (`udebug.c`, `udebug-remote.c`) | shared-memory head and data, notify mask, snapshots | entry init/append/add, remote snapshot, start time and offset, poll | two processes without locks |
| debug connection (`udebug.c`, `udebug-remote.c`) | local and remote rings, poll handle, reconnect timer | connect, buf add/free, remote map/unmap, poll | requests and answers over a socket; uloop |
| AVL tree (`avl.c`) | nodes with balance factors, list of equal keys | insert, delete, find | used by vlist, kvlist, json_script |
| vlist, kvlist | an AVL tree, a version | update/flush, set/delete | update callbacks |
| blob, blobmsg, blobmsg_json | an attribute buffer | put, nest, parse, format | jshn, json_script, udebug |
| json_script, jshn, `jshn.sh` | parsed scripts, shell variables | run, convert | blobmsg |
| usock, ulog, utils, base64, md5, Lua binding, kqueue backend | little or none | | system calls |

Behaviours that are hard to get right, and where they are:

* nested loops and callbacks that delete their own or other objects
  (`uloop.c:165-289`, `runqueue.c`, `safe_list.c`);
* a signal at any point (`uloop.c:423-489`);
* rounding and unnormalised values in time arithmetic (`uloop.c:291-346`);
* escalation of timeouts while a task ends by itself (`runqueue.c:120-146`);
* wakeups that one step sets and another cancels (`runqueue.c:73-80,117`);
* counters that wrap, and memory that is overwritten while it is copied
  (`udebug.c:475-560`, `udebug-remote.c:110-280`);
* answers that come late, and state that belongs to an earlier connection
  (`udebug.c:340-440`);
* rebalancing after deletion, takeovers among equal keys (`avl.c:280-480`), and
  callbacks that change the tree during a flush (`vlist.c`);
* lengths that nested attributes share and pointers that `realloc` moves
  (`blob.c:50-200`, `blobmsg.c:250-390`).

`PROJECT.json` lists the hazards one by one, each at its line, with the
properties that cover it.

## 2. Modules

| Module | Models | Kind |
|---|---|---|
| `UloopTimers` | run loop, timers, time arithmetic, nested loops | state machine |
| `ListLemmas` | facts about sequences as lists, induction | lemmas |
| `UloopTimersProofs` | theorems about `UloopTimers` | proofs |
| `UloopEvents` | descriptors, intervals, event buffering | state machine |
| `UloopEventsProofs` | theorems about `UloopEvents` | proofs |
| `UloopProcesses` | children, SIGCHLD, waker pipe | state machine |
| `UloopProcessesProofs` | theorems about `UloopProcesses` | proofs |
| `UloopSignals` | signal watchers, handlers, end of loops | state machine |
| `UloopSignalsProofs` | theorems about `UloopSignals` | proofs |
| `UstreamBuffers` | lists of buffers of `ustream.c` | operators |
| `Ustream` | `ustream.c` over `ustream-fd.c` | state machine |
| `UstreamProofs` | theorems about `Ustream` | proofs |
| `SafeListSpec` | what `safe_list_for_each` promises | abstract specification |
| `SafeList` | `safe_list.c`, pointer by pointer | state machine, refines `SafeListSpec` |
| `Runqueue` | `runqueue.c` | state machine |
| `QueueProofs` | theorems about `SafeList`, the refinement included, and `Runqueue` | proofs |
| `SortedList` | what `avl.h` promises of a tree | abstract specification |
| `Avl` | `avl.c` | operators on trees |
| `Vlist`, `Kvlist` | `vlist.c`, `kvlist.c` | actions on a tree |
| `Containers` | composes the three: every user of a tree | state machine, refines `SortedList` |
| `UdebugRing` | writer and reader of one ring | state machine |
| `UdebugConnection` | a client and its connection to the server | state machine |
| `UdebugProofs` | theorems about `UdebugRing` and `UdebugConnection` | proofs |
| `Blob` | `blob.c`, `blob.h` | operators on buffers |
| `Blobmsg` | building, checking and parsing messages | state machine |
| `MC*` | instances for TLC | |

In all state machines the C call stack is explicit: a variable `stack` (or
`cur` in `SafeList`) holds a frame for every loop, callback or interrupted
operation. An operation is one action up to its first callback; what follows
the callback is an action of its own that goes on from the frame. Between the
two, client code may take any step it could take in C. Client actions are
enabled when the top frame is a callback, or the stack is empty.

`UdebugRing` and `SafeList` name their specifications `RingSpec` and `ListSpec`
(with `RingInit`, `ListNext` and so on): a module of proofs extends each together
with the specification of the part that uses it.

### UloopTimers

`timeouts`, `pending`, `time` are the C variables, `now` is the monotonic clock
in microseconds, `mode` is the program counter of the innermost
`uloop_run_timeout` and `stack` has one frame for each nested call, with its
argument, the clock value `uloop_process_timeouts` has read, and the time at
which `epoll_wait` gives up. `tv_diff` is modelled with C's truncating division
separately on seconds and microseconds, and `uloop_timeout_set` with its
carry and borrow (`tv_usec > 1000000`), so that `tv_usec` may be negative or
equal to 1000000, as in the code. Descriptor and child callbacks are opaque
here: client code that runs at the right place of the loop.

### UloopEvents

The kernel's part of epoll is modelled from how `uloop-epoll.c` uses it:
`interest` (what `register_poll` asked for), `ready`, and `armed` (an entry on
the ready list: edge-triggered descriptors leave it when they are reported).
`cur_fds` is the unconsumed part of the array; entries of deleted descriptors
are NULL. A descriptor frame on the stack is a `struct uloop_fd_stack`: its
`events` buffer what a nested loop fetched for it. An interval's descriptor has
the callback `dispatch_timer`, which reads the timerfd first. Two history
variables serve the properties: `gone` (deleted by the client), `owed`
(reported and not yet passed on: read and write events, and errors).

Contract of the client: the EDGE_TRIGGER flag of a descriptor does not change
from one `uloop_fd_add` to the next.

### UloopProcesses

`child` and `sigchld` are the kernel's: the state of every process id and
whether a SIGCHLD is pending (several exits are one signal). The handler
`uloop_signal_wake` is an action that is enabled at any point of the program.
The loop goes through the points timeouts, sigchld, wait, poll and bottom;
`uloop_handle_processes` is the point "wait". Callbacks of timers, descriptors
and signals are folded into one "other" frame for each place where they run.
Contract of the client: a child is forked and watched in one callback, after
`uloop_init`, and has one watcher.

### UloopSignals

`handler` is the kernel's table of dispositions, `pipe` the bytes in the waker
pipe, `signals`, `signo` and `orig` the list of watchers and their fields,
`old` the three saved dispositions. `Deliver` is the handler, enabled at any
point. `signal_consume` empties the pipe and then walks with the saved next
watcher, one action for each visit. Timers, children and other descriptors
only contribute callbacks. History: `choice` (what the client asked for),
`owed` (watchers whose signal was written and not reported).

Contract of the client: watchers are deleted, in any order, before `uloop_done`;
a signal callback deletes no watcher but its own and runs no loop; signal numbers
are at most 32.

### UstreamBuffers and Ustream

A buffer is its offset `data` and its bytes; a list is the sequence of buffers,
the index of `data_tail` and the two counters. The loops of `ustream_consume`
and `ustream_write_pending` are the operator `Removed`, which frees or recycles
buffer by buffer. Bytes are numbers modulo `RMod` and `WMod`, which in the run are
larger than what fits in the buffers, so that a lost, repeated or exchanged byte shows.

`Ustream` puts the two lists over a socket (`inq`, `room`, `peer`) and an
edge-triggered epoll entry (`interest`, `armed`): `Register` is `uloop_fd_add`,
which reports again what is ready. A frame of the stack is a call of
`__ustream_fd_poll` at one of its points, or a callback of the client.
`notify_read`, `notify_write` and `notify_state` may consume, write, block, and
call `ustream_poll` again. History: `got`, `taken`, `put`, `sent` count bytes,
`news` is a change of state that `notify_state` has not been told.

Contract of the client: `ustream_free` is not called from `notify_read` and
`notify_write` (`ustream.h:58,66`). Allocation succeeds; `EINTR` and `ENOTCONN`
are the cases "again" and "nothing"; no loop is nested in a callback.

### SafeList and SafeListSpec

`SafeList` keeps `next` and `prev` of every node, `first` (the pointer `i` of a
node, and `next_i` of an iterator), `head` (the back pointer of an iterator:
the address of the pointer that points at it) and `nextNode` (`i->next`).
Iterator *n* is the local variable of the *n*th nested call. The `for` loop of
`safe_list_del`, which follows the iterators of a node to the last one, is a
sequence of iterators that the pointers spell out (`IsChain`). `SafeListSpec`
says what a client relies on: a walk visits every element that stays linked
exactly once, may visit one that was added on the way, never visits one that is
not linked, and returns 0 only when nothing is left to visit. The mapping takes
`linked` to the elements with a non-null `next`; what is left to visit is a
history variable. Contract of the client: add only what is off the list, delete
only what is on it.

### Runqueue

The two lists are sequences; walks over them are frames with the element they
visit next, which `safe_list_del` moves on, as `SafeListSpec` allows. `timer`
and `proc` are the pending flags of the task's timer and child watch, `q_timer`
says whether the timer of the queue is set and to which of its two callbacks.
History: `quiet` (`runqueue_kill` has cancelled the timer and nobody has set it
since), `early` (tasks for which `runqueue_process_add` was called while they
waited in the queue, and which have not run since: the child is watched, the task
waits on).

Contract of the client: what `runqueue.h` says of the kill callback (no
`runqueue_task_complete`), the kill callback of a process task drops its watch
as `runqueue_process_kill_cb` does, and a process task is completed by the exit
of its child.

### Avl, Vlist, Kvlist, Containers and SortedList

A tree is a record of the fields of `struct avl_tree` and, as functions over the
nodes, of `struct avl_node`; the list is a sequence. The operations of `avl.c`
are operators from trees to trees, one per C function, because `vlist.c` and
`kvlist.c` chain them in one call. The source has every rotation and
rebalancing step twice, mirrored; the operators take the side as a parameter.
Nodes outside the tree hold their initial values, which nothing reads.

`Vlist` adds the version of the list and of each node. `vlist_flush` is a walk
with the node that `avl_for_each_element_safe` has saved; between two of its
steps the update callback may add and delete nodes. Contract of the client: the
callback does not remove the saved node (`avl.h`: "Other elements should not be
removed during the loop"). `Kvlist` is a map over the tree.

`Containers` chooses, once, who uses the tree, and is shown to implement
`SortedList`: the list of nodes with the operations insert behind equal keys,
delete, exchange and clear. The mapping is the list of the tree itself; what
keeps it right is that the search path through left and right pointers finds the
neighbours in the list, for every shape rotations can produce.

### UdebugRing

One action is what lies between two accesses to the shared memory that the
other process may come between. The writer announces the bytes it will clobber
(`data_used`), writes them, and moves `head` when the entry is complete; the
reader copies descriptors and bytes and finds out afterwards from `data_used`
what of the copy was clobbered. Head and data offset wrap at `HeadMod` and
`DataMod`, and differences are signed, as `u32_sub`. A byte is the number of the
entry it belongs to. The writer never waits: when it begins an entry in a
descriptor of the snapshot that is being taken, the reader may copy any mixture of
the old fields and the new ones, and the snapshot counts as lapped. `head` and
`head_hi` are stored one after the other. The notify mask, the message to the
server and the reader's poll bit are part of the model, and `Handle` is the poll
handle the server gave the reader, while `udebug_remote_buf_set_poll` sets bit 0.
History: `log` (completed entries), `seen` (what snapshots have shown that were not
lapped), `note` (the bit the reader set last, and whether the writer has sent it
since).

Assumption: stores of one process are seen in the order of the program (the
code uses barriers).

### UdebugConnection

`ctx` is `struct udebug`, `local` and `remote` its lists, `call` the operation
in progress with the requests it still has to send and the one it waits for. The
server is external: a queue in each direction, the rings it knows, the handle it
gave; it may vanish at any step and come back empty. A request may time out
before its answer comes. `udebug_connect` and `udebug_auto_connect` may be called
at any time: on a client that is connected they close the connection and leave
`poll_handle`, the `registered` flag and a pending timer as they are, which the
history field `ctx.kept` records. Contract of the client: the API is not called
from inside a request. A message is sent whole or not at all.

### Blob and Blobmsg

`Blob` has the operations of `blob.c` on a buffer: its length, the head, and the
memory as a function from offsets to what was written there (header words, names,
payloads), which survives when the buffer is used again. Payloads are abstract
beyond their length and whether they end in NUL. `head.fresh` is false when
`realloc` has moved the memory and the pointer was not adjusted; an access
through it, or one beyond `buflen`, sets `wild`. Lengths are taken modulo
`LenMod`, which stands for 2^24; a message of exactly that size is stored with
length 0, as in the code. Allocations may fail at any call.

`Blobmsg` has one action per function that builds a message, with the cookies of
open containers and the string buffer of `blobmsg_alloc_string_buffer`, and
the validating and parsing functions as operators. History: `tree`, what the
client asked for. `RoundTrip` reads the memory back with `blob_next` and the
validity checks and compares; `ParseOK` compares the parsers with their
declarative reading (which attribute a policy entry selects). Contract of the
client: `blob_put_raw` gets a whole attribute with its padding.

## 3. Runs

| Run | Bounds | What it shows |
|---|---|---|
| `timers` | 2 timers that callbacks re-arm, delays -1, 0, 2 ms, clock in steps of 0.5 ms across a full second, loops nested 2 deep, with and without a time limit | the list is consistent and sorted within 1 ms; no due timer is left, none fires early, the loop never oversleeps; due timers fire |
| `events` | an edge-triggered descriptor (with and without ERROR_CB), a level-triggered one, an interval; 2 entries in `cur_fds`; 4 frames | no event that was fetched is lost, but for an error that comes alone; no callback and no read after deletion; an edge-triggered callback is entered again only after a deletion |
| `processes` | 2 watchers, 2 process ids, pipe of 1 byte, loops nested 2 deep | no lost SIGCHLD; watchers are found; exits are reported |
| `signals` | 2 watchers, pipe of 1 byte, loops nested 2 deep, a handler of the client's | no written signal is lost; a signal stays handled while the watcher that replaced its handler is pending, and the client's dispositions come back, in every order of deletions; loops end |
| `ustream` | a read buffer of 3 bytes, 2 to 3 write buffers of 1 byte, writes of 3 bytes, 1 byte in the socket each way, polls nested in callbacks | bytes in order; buffers found and counted; no lost event, and blocked only while full; changes of state due |
| `safe_list` | 3 elements, walks nested 3 deep | pointers consistent; refinement of `SafeListSpec` |
| `runqueue` | 3 tasks (one a process), one slot, 3 frames before an operation is called | slot accounting, nothing left behind but a child that was watched too early, resumable walks, no lost wakeup |
| `runqueue_live` | 2 tasks, both with a cancel timeout, one slot | the queue reports that it is empty; timeouts end tasks |
| `containers` | a tree of 12 unique keys, of 9 nodes with duplicates, a vlist of 4 nodes and 2 versions in all modes, a kvlist of 8 nodes | trees balanced and threaded, searches right, flush deletes exactly what is out of date; refinement of `SortedList` |
| `udebug_ring` | 4 descriptors, 8 bytes, entries of 1 and 3 bytes, both counters wrap, 4 entries, 2 reads, poll handle 0 | what a snapshot that is not lapped shows was written; in order, nothing twice; no lost notification |
| `udebug_connection` | 2 own rings, 1 of another, 2 losses of the server, 1 early timeout | the server knows the rings; the handle is of this connection and the client reconnects, until `udebug_connect` closes an open connection |
| `blobmsg` | chunks of 16 bytes, messages up to 60, 2 names, containers 2 deep, 4 operations, 2 messages in one buffer | nothing outside the buffer; what is put is read back and parsed, unless the message has exactly the largest size |

Why the bounds are enough. The operations look at a list through its first or
last element, a neighbour, or the element given, so three elements show every
relative position (before, at, after) of two others. A frame disturbs another
one directly above or below it, and the runs allow at least two library
operations with a callback between them. The clock of `timers` starts 1 ms
before a full second, where `tv_usec` wraps; that more timers and all other
times behave alike is what the proofs show. The read side of
`ustream` has several bytes in a buffer, which move inside it, and its write side
several buffers, which are freed and recycled; both use the same operators. A
pipe of one byte fills up at once, which is
the interesting case. Two process ids are enough for one watcher before and one
after the other in the sorted list; that longer lists behave alike is proved.
Twelve keys make the smallest tree in which one deletion rotates on two levels.
The ring of `udebug_ring` starts two entries before `head` wraps and four before
the data offset does, and an entry of 3 bytes overwrites two older ones; the
counters are wide enough (64 and 128) for the instance to satisfy the hypothesis
`Roomy` of the proof (section 5). Four entries are enough for the writer to come
round to every descriptor a snapshot takes, at every point of the snapshot. With
handle 0 both parts of `NoLostNotify` are at stake; that it holds for every other
handle is proved. The
chunk and the limit of `blobmsg` are so small that a buffer is moved while
containers are open and that the limit is reached within four operations.

Every property has a mutant of the code in `PROJECT.json` that breaks it: a
dropped check, a swapped comparison, a missing reset.

## 4. Fairness

* `UloopTimers`: the process is scheduled and the clock runs (weak fairness on
  the loop and on `Tick`), callbacks return (weak), and the loop gets past
  `uloop_handle_processes` (strong: that loop ends when no child has exited).
  `uloop_timeout_add` with a deadline in the past can starve other timers, so
  `FairSpec` has only clients whose deadlines are still to come.
* `UloopProcesses`: the handler runs (weak), the loop goes on (weak), callbacks
  return in spite of nested loops and nested loops end (strong, by level of the
  stack: clients write them so), `waitpid` does not pass over a child for ever
  and `epoll_wait` reports a readable pipe although other descriptors are
  readable too (strong: the kernel serves its lists in order).
* `UloopSignals`: `signal_consume`, its walk and the loop go on (weak);
  callbacks return, and a loop that is cancelled gets back to its end or to
  `epoll_wait` (strong, by level of nesting, for the same reasons).
* `UdebugConnection`: a call goes on (weak); the reconnect timer and the end of
  the connection are served although the client makes other calls meanwhile
  (strong: uloop gets its turn between calls); a server that is up answers
  (weak).
* `Runqueue`: operations go on (weak), callbacks return (strong, by level), the
  timers of the queue and of tasks fire (strong). The last is an assumption on
  the client too: cancelling a task again sets its cancel timer anew, and a
  client that does so for ever keeps it from firing. `LastingClient` also says
  that callbacks do not add tasks to an operation that works until none is left
  (`runqueue_kill`, the start loop): those would run for ever.

## 5. Proofs

`UloopTimersProofs` proves for all sets of timers, delays, ticks, start times
and depths: `TypeOK`, `ListOK`, `NearlySorted`, `NoOverdueLeft`, `NeverEarly`
and `NeverOversleeps`. The inductive invariant `IInv` joins the first three
with bounds on deadlines. The core is the lemma `TvDiff`: truncating seconds
and microseconds separately is off by less than a millisecond, so an insertion
before the first later timer keeps the list sorted up to one millisecond,
although "later" is not transitive. From this the action properties follow for
*all* pending timers, not only for the first.

`UloopProcessesProofs` proves `TypeOK`, `WatchersHaveChildren` and `NoLostChild`
for all sets of children and watchers, every pipe size and depth.
`WatchersHaveChildren` rests on the order of the list (`Increasing`): the search
that stops at the first larger id finds the one watcher there is. `NoLostChild`
speaks of the moment before `epoll_wait` and is not inductive. The invariant adds: while a
loop is on the stack uloop is initialised; a frame below the top is never at
the point "poll", so the loop gets there only by its own steps; and, anywhere
in the program, a watched child that has exited implies a pending signal, the
flag, or a loop that is collecting. The second and third hold because
`do_sigchld` is cleared *before* the first `waitpid`.

`UloopEventsProofs` proves `NotReentered`, `NoLostEvent` and
`NoCallAfterDelete` for all sets of descriptors, flags and sizes of `cur_fds`.
`NotReentered` alone is not inductive: a fetched entry could name a descriptor
that has a frame. What keeps it right is spread over `cur_fds` and the stack,
and the invariant names it. `CurOK`: one report names a descriptor once and
never one the client has deleted. `FramesOK`: an edge-triggered descriptor has
at most one frame, and events wait only in the frame of a registered one.
`FailedOK`: a descriptor that `uloop_fetch_events` has deleted after an error
has no frame, so its error is called and not buffered. `IntervalsOK`: a timerfd
is only ever readable. `NoCallAfterDelete` follows for the step of the call:
neither an entry of `cur_fds` nor a frame with events names a deleted
descriptor. `NoLostEvent` includes errors: what is owed lies in an entry, or in a
frame that has something buffered and so will call again.

`UloopSignalsProofs` proves `NoLostSignal` for all watchers, signals, pipe sizes
and depths, and `HandlersOK` if the client does not ignore SIGPIPE itself
(section 6). The first needs to know where a walk can be when the list changes
(`WalksOK`): on top, or directly below the callback of a watcher it has left
behind, and its next watcher is in the list; so the deletion a callback may
make leaves the rest of the walk alone. The second holds for every order of
deletions, and needs what the `orig` fields hold: a watcher has saved uloop's own
handler, or what was there before uloop's, and then the handler is uloop's
(`Watched`); of the watchers of one signal at most one has saved the latter
(`OneKeeps`); and where none has, the disposition is the client's choice or what
`uloop_setup_signals` put in its place (`Unwatched`).

`UstreamProofs` proves `InOrder`, `BuffersOK`, `NoStall` and `NewsIsDue` for
buffers of any length and number, any limits and any nesting of callbacks and
polls. The invariant says of each list that it is `Good`: buffers before
`data_tail` have data, those behind it are as new, none is overfull, and byte *j*
of buffer *i* is the one whose number is that of the bytes in the buffers before
*i*, plus *j* (`Numbered`). It names positions instead of concatenating buffers, so that
moving data inside a buffer, appending and recycling each change a few sums. The
loops over buffers (`Fill`, `FreeBufs`, the sums themselves) are recursive
functions; what they compute is proved by induction on the number of turns.
`NoStall` speaks of the moment when nothing runs. For all others `ReadDue` and
`WriteDue` say that an event is due or a call on the stack has yet to read or
write, and `ReadInterest` and `WriteInterest` that the descriptor is registered
for what the stream can use, since that is what makes `uloop_fd_add` report again.
`NewsDue` says which call still has to report: the one that emptied the write
buffers after the end of input.

`QueueProofs` is about the safe list and the queue on top of it. For lists of any
length and walks nested to any depth it proves `IteratorsOK`, and that `SafeList`
implements `SafeListSpec` (`Refinement`). The invariant `ListInv` says that there
are a sequence of elements and for each node a sequence of iterators that the
pointers spell out in both directions (`LinksOK`, `ChainsOK`); every pointer
operation is shown to be an operation on the sequences: insert, remove, put in
front, hand one chain over to another. Reachability along `next` then follows by
induction along the sequence. The refinement needs `WalkOK`: what a walk must
visit lies from its next node on, and whatever lies from there on it must or may
visit.

Of the queue it proves `Accounting`, `NothingLeftBehind`, `Resumable` and
`NoLostWakeup` for all sets of tasks, numbers of slots, and depths of nested
operations. Added are `Watched` (a process is watched only while its task
runs, or was watched while it waited), `StackOK` (what each frame may rely on while callbacks above it change
the queue: the task a walk visits next is on its list, a task in its kill
callback is active and not killed again) and `Wakeup`, which says of *every*
point of an operation what `NoLostWakeup` says of the end: a task that can start
has the timer set, or an operation on the stack has yet to look for one.

`UdebugProofs` proves `NoLostNotify` for all ring sizes, entries, poll handles and
interleavings. The bit that a reader which polls has set is in the mask, or was sent
since (`RingArmed`); if it was sent and is the reader's own, the message is still to
be handled (`RingTold`); and at any point of the two processes, what the reader does
not know of and is not about to look for is announced, or the writer is about to
take the mask (`RingInformed`).

Of the same ring it proves `Genuine`: whatever the interleaving, an entry that a
snapshot shows that is not lapped has the offset, the length, the time and every
byte of one completed entry. Lapping is not excluded: the writer is free, and the
theorem says what the other snapshots show. The hypothesis `Roomy` says that no
entry with what is announced for it covers the whole
buffer, and that one round of descriptors, each for an entry as long as the writer
takes (half the buffer, plus `UDEBUG_MIN_ALLOC_LEN` and the NUL), advances the data
offset by at most half its range. The first holds for every buffer the code
creates (at least a page, and 128 bytes are announced in advance); the second
for 128 descriptors with up to 16 MB and for 32768 descriptors with 64 KB, and it can
fail for larger rings that are filled with the largest entries, because a signed
32-bit difference then takes an old entry for a new one.

The invariant `GInv` undoes the wrapping: there are numbers *A[j]*, where entry *j*
begins when offsets are counted on for ever, *U*, the end of what the writer has
announced, and *V*, what *U* was when the reader looked at `data_used`. The header and
the descriptors are these numbers modulo `DataMod`; entries follow each other without
gap (`Starts`), each byte to be written is below *U* (`Announced`), and an entry that
begins at *U* - `DataSize` or later is intact in memory (`BytesOK`). Since data is
announced before it is written, bytes copied earlier are still good when they lie
above *V* - `DataSize` (`CopiedOK`, `UsedOK`). Of a lapped snapshot in progress the
invariant says nothing but that it is one (`Lapped`). The descriptors of another one
are those of consecutive entries (`EntriesOK`); one that is being
written can only be the one place that the reader's copy takes too many, and the
length check of `udebug_remote_buf_snapshot` rejects that copy (`WholeRing`). A torn
copy of a descriptor that did not change is the descriptor. What remains is that
the signed differences of the wrapped offsets order entries as *A* does
(`SubDataOf`, `Span`), which is where `Roomy` is used.

It also proves `ServerKnows` and `HandleFresh` for all sets of
rings and any number of lost connections and timeouts. `ServerKnows` speaks of
quiet moments. The invariant `Informed` speaks of all others: the last request
about a ring, in the server's queue or still to be sent by the call in progress,
agrees with the client's list; where there is none, the server's set does.
`HandleFresh` needs `AnswersFresh`, that handles in answers on their way are
those of this connection, and `Offline`, that nothing of an old one is left, unless
`udebug_connect` closed it while it was open (`ctx.kept`).

`ListLemmas` has the facts about `InsertAt`, `RemoveAt`, `Front`, `Append`,
distinctness, the top of a stack and numbers modulo *M* that the proofs cite, and
induction over the natural numbers for a set (`Induction`), from the least element the library's
well-founded orders provide: it takes no operator as a parameter, so the provers
can use it. Assumptions are only
those named in the modules (`TimersAssumption`, `EventsAssumption`,
`ProcessesAssumption`, `SignalsAssumption`, `RunqueueAssumption`,
`RingAssumption`, `ConnectionAssumption`, `StreamAssumption`,
`SafeListAssumption`) and the hypotheses above. `RingAssumption` asks that the
sizes divide the moduli (powers of two), for at least 4 descriptors, and that both
rings are full when the model begins.

The invariants were checked with TLC on the instances of section 3 before they
were proved. `TypeOK` is part of the inductive invariants; no run checks it
separately.

Left to TLC:

* all liveness properties: fairness is out of the prover's reach;
* `Containers` and `Blobmsg`, whose operators and properties recurse over trees
  and nested attributes with RECURSIVE operators, which the prover does not take;
* `InOrder` of `UdebugRing`: it relates entries of different snapshots, and needs
  besides `GInv` what every snapshot so far left of the read position. That is not
  worked out.

## 6. What the checks say about the code

Every run passes. Comments of the repository that the code does not follow:

* `runqueue.h:48-51` says that a task is off the list when `run` is called and
  can re-arm itself with `runqueue_task_add`. The code has moved it to the active
  list (`runqueue.c:53-56`), it is still queued, and `runqueue_task_add` returns
  at once (`runqueue.c:152`).
* `runqueue.h:40` says that `empty_cb` is called when the queue is emptied.
  `runqueue_kill` (`runqueue.c:117`) cancels the timer that would call it.
* `tests/cram/test_blob_buflen.t:1` is about the largest buffer: `blob_buf_grow`
  (`blob.c:61`) compares the limit with the length asked for and rounds up
  afterwards, so `buflen` may become 2^24, and the length of a message of that
  size is stored as 0. `blob_len` of it wraps, and the loops over its attributes
  do not end where it does. `RoundTrip` and `ParseOK` except messages of exactly
  that size (`Full`), which the run builds; `InBuffer` does not.
* `udebug-remote.c:123` speaks of a final check for what was overwritten. It looks at
  `data_used`, which protects bytes and not descriptors: a writer that comes round
  while the descriptors are copied stores into one of them (`udebug.c:540`), and
  the reader may show an entry that was never written.

The properties also have exceptions that a reader of the code should know:

* `NoLostChild` excepts a loop nested inside the callback of a child. The outer
  loop has cleared `do_sigchld` and is not done with `waitpid`, so the nested
  loop does not see a second child that exited with the same signal, and sleeps.
* `NoLostWakeup` excepts a queue after `runqueue_kill`: a task that a complete
  callback adds during `runqueue_kill` stays pending without a timer until the
  next operation.
* `NothingLeftBehind` excepts a child that `runqueue_process_add` watched while its
  task waited in the queue (`runqueue.c:278`): the task waits on, and ending it does
  not drop the watch.
* `CancelEndsLoops` excepts a callback that runs another loop after SIGINT or
  `uloop_end`: `uloop_run_timeout` clears `uloop_cancelled`. It also excepts
  signal callbacks that add watchers without end: the walk of `signal_consume`
  comes to each of them.
* `NoLostSignal` speaks of signals whose byte was written. The pipe holds many,
  but a signal that finds it full is lost for its watcher.
* `HandlersOK` speaks of a signal while the watcher that replaced its handler is
  pending. When that one is deleted before other watchers of the signal, the old
  handler is back and the others are not called any more (`uloop.c:589`).
* `HandlersOK` is checked for clients that do not ignore SIGPIPE themselves:
  `uloop_done` takes their SIG_IGN for its own and resets it.
* `NotReentered` excepts a descriptor that was deleted since the call began:
  `uloop_fd_delete` clears the frame (`uloop.c:180`), and after it is added again a
  nested loop may enter the callback under the first call.
* `NoLostEvent` excepts an error without other events that finds the callback of an
  edge-triggered descriptor with ULOOP_ERROR_CB running and nothing buffered: it
  is stored as an empty set, and no call follows (`uloop.c:183,227`).
* `NoCallAfterDelete` says that a deleted descriptor is not even read. An interval
  is: `timer_remove` (`uloop-epoll.c:163`) leaves the pointer in `cur_fds`, so
  a client must keep the object until the entries that were fetched are used up.
* The loop of `ustream_fd_read_pending` serves an endless input for ever if the
  client consumes as fast as it comes; `Ustream` states safety only.
* `InOrder` and `BuffersOK` except the write side after an error: the
  buffers are freed, `data_bytes` and `buffers` keep their values.
* The client contracts above are not checked by the code. Deleting the *next*
  watcher from a signal callback breaks the walk of `signal_consume`
  (`list_for_each_entry_safe` keeps a pointer to it); changing EDGE_TRIGGER while
  the callback runs breaks the event buffer.
* `Genuine` and `InOrder` speak of snapshots that are not lapped (see above).
* In the first round of `head` (`head_hi` 0), `rbuf_advance_read_head`
  (`udebug-remote.c:120`) takes a `min_head` above 2^31 for one below zero
  and uses 0: from then until `head` wraps, the distance to the read position is
  more than the ring and snapshots show nothing. `udebug_ring` starts there, and
  its snapshots show entries once `head` has wrapped.
* `udebug_remote_buf_set_start_time` (`udebug-remote.c:159`) computes an unsigned
  difference; `InOrder` is about what is shown, not about which entries the
  search skips.
* Answers are matched by their type only (`udebug.c:383`): the answer to a
  `RING_GET` that timed out is taken for that of the next one.
* `udebug_connect` of a client that is connected closes the connection without
  `__udebug_disconnect` (`udebug.c:779`), so that the poll handle of the old one
  stays, and uloop does not watch the new one. A second `udebug_auto_connect` gets
  there too: it connects and leaves a pending reconnect timer set (`udebug.c:771`).
  `HandleFresh` and `Reconnects` except a client that has done so.
* `udebug_remote_get_handle` (`udebug-remote.c:29,36`) returns 0 and not the
  handle the server gave, so `udebug_remote_buf_set_poll` (line 107) arms bit 0 of
  the mask. `NoLostNotify` says for every handle that the bit which was set is
  sent, and that this tells the reader if it is its own; with another handle
  it tells a client that did not ask.
* The rest of the walk of `uloop_handle_processes` after a callback is left out: the
  watchers that follow have larger ids. A callback that deletes the next watcher
  and gives it to a new child with the id just collected would have it called at once.
* `Ustream` assumes that allocation succeeds. If the first read buffer cannot
  be had, READ_BLOCKED_FULL is set with nothing to consume (`ustream.c:280,292`), and
  nothing clears it.
* `blob_nest_start` that fails leaves the head NULL (`blob.c:178`); a client that
  ignores the result must not use the buffer again. `blob_put_raw` sets the length
  of the head without padding (`blob.c:155`), so an attribute that is not a
  multiple of four bytes is not found until another one follows.
* The length of a name in a policy is kept in a `uint8_t` (`blobmsg.c:171`): names
  of 256 bytes and more do not match. The run has short names.

## 7. Not modelled, and the plan

Worth proving next: of `UdebugRing`, `InOrder`, on top of the invariant for
`Genuine`; of `Containers`, the refinement of `SortedList`, with trees as sets of paths in
place of recursion.

Left out of what is modelled: merging the snapshots of several rings
(`udebug_iter_start`, `udebug_iter_next`), which is sequential once the copies
are taken; messages to the udebug server that are written in parts
(`writev_retry` sends the descriptor again with the rest); custom `grow` and
allocation callbacks; malformed blobs; the length functions of kvlist.

Not modelled:

* `blobmsg_json.c`, `jshn.c`, `sh/jshn.sh`: conversion of text; the control is
  recursion over values of an external JSON parser.
* `json_script.c`: a sequential interpreter of JSON; what matters is text,
  variable expansion and regular expressions.
* `usock.c`, `ulog.c`, `utils.c`: thin wrappers of system calls.
* `md5.c`, `base64.c`: pure computations with published test vectors.
* `lua/uloop.c`: glue between the Lua stack and the operations modelled here.
* `uloop-kqueue.c`: not built on Linux; its model would be `UloopEvents` over
  another kernel interface.
