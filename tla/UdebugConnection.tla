-------------------------- MODULE UdebugConnection --------------------------
(***************************************************************************)
(* A udebug client and its connection to the udebug server: the rings it   *)
(* announces, the rings of others that it maps and polls, the requests     *)
(* that wait for an answer of the same type, and the reconnect timer.  The *)
(* server is another program: it is external, modelled by what the client  *)
(* relies on.  It answers requests in order, may go away at any time, with *)
(* everything it knew, and come back.                                      *)
(*                                                                         *)
(* The client is one thread: a call of the API, or a callback of uloop,    *)
(* runs to its end before another begins, but while it waits for an answer *)
(* the server moves on, notifications arrive, the second of                *)
(* UDEBUG_TIMEOUT passes or the connection breaks.                         *)
(***************************************************************************)
EXTENDS Integers, SequencesExt, FiniteSetsExt

CONSTANTS Local, Remote,    \* rings of this client, rings of others
          Handles,          \* the poll handles the server gives out
          MaxCrashes,       \* bound: times the server goes away
          MaxEarly,         \* bound: timeouts of requests whose answer is still to come
          MaxNews           \* bound: unread messages beyond which no notification is sent

ASSUME ConnectionAssumption ==
    /\ Local \cap Remote = {} /\ IsFiniteSet(Local) /\ IsFiniteSet(Remote)
    /\ Handles \subseteq Nat /\ Handles # {}
    /\ {MaxCrashes, MaxEarly, MaxNews} \subseteq Nat

VARIABLES ctx,      \* struct udebug
          local,    \* local_rings, in the order of the list
          remote,   \* remote_rings: what is mapped, and polled
          bits,     \* the notify mask in the header of each remote ring
          call,     \* what the client is doing: requests to send, the one it waits for
          srv,      \* the server and the two directions of the connection
          faults    \* what the bounds count

vars == <<ctx, local, remote, bits, call, srv, faults>>

Req(type, ring) == [type |-> type, ring |-> ring]
NoReq == Req("none", "none")
AddMsg(b) == Req("ADD", b)             \* __udebug_buf_add
RemoveMsg(b) == Req("REMOVE", b)       \* udebug_buf_msg
NoCall == [op |-> "none", todo |-> <<>>, wait |-> NoReq]
Call(op, todo) == [op |-> op, todo |-> todo, wait |-> NoReq]

\* What the server knows of a client: nothing, or a connection just made
Gone(up) == [up |-> up, open |-> FALSE, rings |-> {}, handle |-> -1, in |-> <<>>, out |-> <<>>]
Accepted(h) == [up |-> TRUE, open |-> TRUE, rings |-> {}, handle |-> h, in |-> <<>>, out |-> <<>>]

\* udebug_init
Init ==
    /\ ctx = [fd |-> FALSE, registered |-> FALSE, handle |-> -1, auto |-> FALSE,
              timer |-> FALSE, freed |-> FALSE, kept |-> FALSE]
    /\ local = <<>>
    /\ remote = [r \in Remote |-> [mapped |-> FALSE, poll |-> FALSE]]
    /\ bits = [r \in Remote |-> {}]
    /\ call = NoCall
    /\ srv \in {Gone(up) : up \in BOOLEAN}
    /\ faults = [crashes |-> 0, early |-> 0]

Free == call = NoCall /\ ~ctx.freed      \* the client may call the API

-----------------------------------------------------------------------------
(* Connecting.                                                             *)

\* __udebug_disconnect; the server's side goes with it
Disconnected_Quiet(c, reconnect) ==   \* mutant: the timer is not set
    [c EXCEPT !.fd = FALSE, !.registered = FALSE, !.handle = -1, !.kept = FALSE]
Disconnected_KeepHandle(c, reconnect) ==   \* mutant: the handle is kept
    [c EXCEPT !.fd = FALSE, !.registered = FALSE, !.kept = FALSE,
              !.timer = @ \/ (c.auto /\ reconnect)]
Disconnected(c, reconnect) ==
    [c EXCEPT !.fd = FALSE, !.registered = FALSE, !.handle = -1, !.kept = FALSE,
              !.timer = @ \/ (c.auto /\ reconnect)]

\* udebug_connect closes a connection that is open, and leaves the handle and
\* the registered flag as they are.  History: kept says that they are those of
\* a connection closed this way.
Closed(c) == [c EXCEPT !.fd = FALSE, !.kept = @ \/ c.fd]

\* udebug_connect, of a client that may be connected: all local rings are added, and polling starts over for the
\* remote ones
Requests_NoAdd ==     \* mutant: the rings are not announced again
    LET polled == {r \in Remote : remote[r].mapped /\ remote[r].poll}
    IN SetToSeq({Req("HANDLE", r) : r \in polled})
Requests ==
    LET polled == {r \in Remote : remote[r].mapped /\ remote[r].poll}
    IN [k \in DOMAIN local |-> AddMsg(local[k])] \o SetToSeq({Req("HANDLE", r) : r \in polled})

udebug_connect(c) ==
    /\ srv.up
    /\ \E h \in Handles : srv' = Accepted(h)
    /\ ctx' = [Closed(c) EXCEPT !.fd = TRUE]
    /\ call' = Call("connect", Requests)
    /\ UNCHANGED <<local, remote, bits, faults>>

\* usock finds no server
ConnectFails(c) ==
    /\ ~srv.up
    /\ ctx' = Closed(c)
    /\ srv' = Gone(FALSE)
    /\ UNCHANGED <<local, remote, bits, call, faults>>

\* Without a server, try again in a second
udebug_reconnect_cb(c) == udebug_connect(c) \/ ConnectFails([c EXCEPT !.timer = TRUE])

\* A second call may leave the timer pending while connected
udebug_auto_connect ==
    /\ Free
    /\ LET c == [ctx EXCEPT !.auto = TRUE]
       IN IF ctx.fd THEN ctx' = c /\ UNCHANGED <<local, remote, bits, call, srv, faults>>
                    ELSE udebug_reconnect_cb(c)

\* A client that connects by itself, and calls udebug_add_uloop next
ConnectByHand == Free /\ (udebug_connect(ctx) \/ ConnectFails(ctx))

TimerFires == Free /\ ctx.timer /\ udebug_reconnect_cb([ctx EXCEPT !.timer = FALSE])

\* udebug_free: no ring is left, and none of the messages is sent
udebug_free ==
    /\ Free
    /\ ctx' = [Disconnected(ctx, FALSE) EXCEPT !.timer = FALSE, !.freed = TRUE]
    /\ srv' = Gone(srv.up)
    /\ local' = <<>>
    /\ remote' = [r \in Remote |-> [mapped |-> FALSE, poll |-> FALSE]]
    /\ UNCHANGED <<bits, call, faults>>

-----------------------------------------------------------------------------
(* The calls of the API that may need the server.                          *)

Ask(req) == call' = IF ctx.fd THEN Call("api", <<req>>) ELSE NoCall

udebug_buf_add(b) ==
    /\ Free /\ b \notin Range(local)
    /\ local' = Append(local, b)
    /\ Ask(AddMsg(b))
    /\ UNCHANGED <<ctx, remote, bits, srv, faults>>

udebug_buf_free(b) ==
    /\ Free /\ b \in Range(local)
    /\ \E p \in DOMAIN local : local[p] = b /\ local' = RemoveAt(local, p)
    /\ Ask(RemoveMsg(b))
    /\ UNCHANGED <<ctx, remote, bits, srv, faults>>

udebug_remote_buf_map(r) ==
    /\ Free /\ ctx.fd /\ ~remote[r].mapped
    /\ Ask(Req("GET", r))
    /\ UNCHANGED <<ctx, local, remote, bits, srv, faults>>

udebug_remote_buf_unmap(r) ==
    /\ Free /\ remote[r].mapped
    /\ remote' = [remote EXCEPT ![r] = [mapped |-> FALSE, poll |-> FALSE]]
    /\ UNCHANGED <<ctx, local, bits, call, srv, faults>>

udebug_remote_buf_set_poll(r, val) ==
    /\ Free /\ remote[r].mapped /\ remote[r].poll # val
    /\ remote' = [remote EXCEPT ![r].poll = val]
    /\ call' = IF val THEN Call("api", <<Req("HANDLE", r)>>) ELSE NoCall
    /\ UNCHANGED <<ctx, local, bits, srv, faults>>

Api ==
    \/ udebug_auto_connect \/ ConnectByHand \/ udebug_free
    \/ \E b \in Local : udebug_buf_add(b) \/ udebug_buf_free(b)
    \/ \E r \in Remote : udebug_remote_buf_map(r) \/ udebug_remote_buf_unmap(r)
    \/ \E r \in Remote, val \in BOOLEAN : udebug_remote_buf_set_poll(r, val)

-----------------------------------------------------------------------------
(* Requests and answers.                                                   *)

Waiting == call.wait # NoReq
Next_(todo) == [call EXCEPT !.todo = todo, !.wait = NoReq]

\* set_poll ends; udebug_remote_get_handle returned 0, not the handle
Armed(r) == [bits EXCEPT ![r] = @ \cup {0}]

\* udebug_remote_get_handle asks only for a handle it does not have
HaveHandle ==
    /\ ~Waiting /\ call.todo # <<>> /\ Head(call.todo).type = "HANDLE"
    /\ ctx.handle >= 0 \/ ~ctx.fd
    /\ bits' = Armed(Head(call.todo).ring)
    /\ call' = Next_(Tail(call.todo))
    /\ UNCHANGED <<ctx, local, remote, srv, faults>>

\* writev_retry waits and tries again until all is written, or fails, and
\* then nobody looks
writev_retry(req) ==
    IF ctx.fd /\ srv.open THEN [srv EXCEPT !.in = Append(@, req)] ELSE srv

\* udebug_send_msg
Send ==
    /\ ~Waiting /\ call.todo # <<>>
    /\ Head(call.todo).type = "HANDLE" => ctx.handle < 0 /\ ctx.fd
    /\ srv' = writev_retry(Head(call.todo))
    /\ call' = [call EXCEPT !.todo = Tail(@), !.wait = Head(call.todo)]
    /\ UNCHANGED <<ctx, local, remote, bits, faults>>

\* A notification, whoever reads it: a ring that is polled is armed again and
\* notify_cb reads it
Notified(r) ==
    bits' = IF remote[r].mapped /\ remote[r].poll /\ ctx.handle >= 0
            THEN [bits EXCEPT ![r] = @ \cup {ctx.handle}] ELSE bits

Received == srv' = [srv EXCEPT !.out = Tail(@)]

\* __udebug_poll and udebug_wait_for_response: a notification is handled on
\* the way and a message of another type is lost
Skip ==
    /\ Waiting /\ ctx.fd /\ srv.out # <<>>
    /\ LET msg == Head(srv.out)
       IN /\ msg.type # call.wait.type
          /\ IF msg.type = "NOTIFY" THEN Notified(msg.ring) ELSE UNCHANGED bits
    /\ Received
    /\ UNCHANGED <<ctx, local, remote, call, faults>>

\* A ring is opened if it can be mapped and its header has the sizes the
\* server told; sizes do not matter here, so both may fail
udebug_buf_map == BOOLEAN
udebug_buf_open == {mapped /\ sizes : mapped \in udebug_buf_map, sizes \in BOOLEAN}

\* The answer, or the one to an earlier request of the same type.  A ring
\* that cannot be opened is not mapped.
Answered ==
    /\ Waiting /\ ctx.fd /\ srv.out # <<>>
    /\ Head(srv.out).type = call.wait.type
    /\ Received
    /\ call' = Next_(call.todo)
    /\ \/ /\ call.wait.type = "GET"
          /\ \E opened \in udebug_buf_open :
                remote' = [remote EXCEPT ![call.wait.ring].mapped = opened]
          /\ UNCHANGED <<ctx, bits>>
       \/ /\ call.wait.type = "HANDLE"
          /\ ctx' = [ctx EXCEPT !.handle = Head(srv.out).handle]
          /\ bits' = Armed(call.wait.ring)
          /\ UNCHANGED remote
       \/ call.wait.type \in {"ADD", "REMOVE"} /\ UNCHANGED <<ctx, remote, bits>>
    /\ UNCHANGED <<local, faults>>

\* recv_retry finds the connection closed, by the server or before
Hangup ==
    /\ Waiting /\ (ctx.fd => ~srv.open /\ srv.out = <<>>)
    /\ ctx' = Disconnected(ctx, TRUE)
    /\ call' = Next_(call.todo)
    /\ UNCHANGED <<local, remote, bits, srv, faults>>

\* Nothing for UDEBUG_TIMEOUT: the request was dropped, or the answer is late
Timeout ==
    /\ Waiting /\ ctx.fd /\ srv.open /\ srv.out = <<>> /\ srv.in = <<>>
    /\ call' = Next_(call.todo)
    /\ UNCHANGED <<ctx, local, remote, bits, srv, faults>>

TimeoutEarly ==
    /\ Waiting /\ ctx.fd /\ srv.open /\ srv.out = <<>> /\ srv.in # <<>>
    /\ faults.early < MaxEarly
    /\ faults' = [faults EXCEPT !.early = @ + 1]
    /\ call' = Next_(call.todo)
    /\ UNCHANGED <<ctx, local, remote, bits, srv>>

\* The call returns; udebug_add_uloop follows a connect, and registers
\* nothing if the connection was lost meanwhile, or if the flag is set
Return ==
    /\ call.op \in {"connect", "api"} /\ call.todo = <<>> /\ ~Waiting
    /\ ctx' = IF call.op = "connect" THEN [ctx EXCEPT !.registered = @ \/ ctx.fd] ELSE ctx
    /\ call' = NoCall
    /\ UNCHANGED <<local, remote, bits, srv, faults>>

-----------------------------------------------------------------------------
(* uloop calls udebug_fd_cb.                                               *)

\* close took the descriptor that was registered out of epoll's set
Watched == ctx.registered /\ ~ctx.kept
Readable == Free /\ ctx.fd /\ Watched

\* The connection is closed: what is still to be read is lost, and udebug_poll
\* on no descriptor disconnects once more
Eof ==
    /\ Readable /\ ~srv.open
    /\ ctx' = Disconnected(ctx, TRUE)
    /\ srv' = [srv EXCEPT !.out = <<>>]
    /\ UNCHANGED <<local, remote, bits, call, faults>>

udebug_fd_cb ==
    /\ Readable /\ srv.open /\ srv.out # <<>>
    /\ call' = Call("poll", <<>>)
    /\ UNCHANGED <<ctx, local, remote, bits, srv, faults>>

\* udebug_poll: notifications are handled, late answers are lost
PollMessage ==
    /\ call.op = "poll" /\ srv.out # <<>>
    /\ LET msg == Head(srv.out)
       IN IF msg.type = "NOTIFY" THEN Notified(msg.ring) ELSE UNCHANGED bits
    /\ Received
    /\ UNCHANGED <<ctx, local, remote, call, faults>>

PollEnds ==
    /\ call.op = "poll" /\ srv.out = <<>>
    /\ ctx' = IF srv.open THEN ctx ELSE Disconnected(ctx, TRUE)
    /\ call' = NoCall
    /\ UNCHANGED <<local, remote, bits, srv, faults>>

Running ==
    \/ HaveHandle \/ Send \/ Skip \/ Answered \/ Hangup \/ Timeout \/ Return
    \/ PollMessage \/ PollEnds
Uloop == TimerFires \/ Eof \/ udebug_fd_cb

-----------------------------------------------------------------------------
(* The server and the owners of the remote rings (external).               *)

Reply(msg) == [srv EXCEPT !.in = Tail(@), !.out = Append(@, msg)]

ServerAnswers ==
    /\ srv.in # <<>>
    /\ LET req == Head(srv.in)
           reply == [type |-> req.type, ring |-> req.ring, handle |-> srv.handle]
       IN CASE req.type = "ADD" -> srv' = [Reply(reply) EXCEPT !.rings = @ \cup {req.ring}]
            [] req.type = "REMOVE" -> srv' = [Reply(reply) EXCEPT !.rings = @ \ {req.ring}]
            [] req.type = "HANDLE" -> srv' = Reply(reply)
            [] req.type = "GET" -> \E type \in {"GET", "ERROR"} : srv' = Reply([reply EXCEPT !.type = type])
    /\ UNCHANGED <<ctx, local, remote, bits, call, faults>>

\* udebug_entry_add in the process that owns a ring; the server passes the
\* notification on
RemoteEntry(r) ==
    /\ Len(srv.out) < MaxNews
    /\ bits' = [bits EXCEPT ![r] = {}]
    /\ srv' = IF srv.open /\ srv.handle \in bits[r]
              THEN [srv EXCEPT !.out = Append(@, [type |-> "NOTIFY", ring |-> r, handle |-> -1])]
              ELSE srv
    /\ UNCHANGED <<ctx, local, remote, call, faults>>

ServerGone ==
    /\ srv.up /\ faults.crashes < MaxCrashes
    /\ srv' = [Gone(FALSE) EXCEPT !.out = srv.out]
    /\ faults' = [faults EXCEPT !.crashes = @ + 1]
    /\ UNCHANGED <<ctx, local, remote, bits, call>>

ServerBack ==
    /\ ~srv.up
    /\ srv' = [srv EXCEPT !.up = TRUE]
    /\ UNCHANGED <<ctx, local, remote, bits, call, faults>>

Environment == ServerAnswers \/ ServerGone \/ ServerBack \/ \E r \in Remote : RemoteEntry(r)

Next == Api \/ Running \/ Uloop \/ TimeoutEarly \/ Environment
Spec == Init /\ [][Next]_vars

\* A call goes on; uloop gets its turn between the calls, however many there
\* are; a server that is there answers
FairSpec == Spec /\ WF_vars(Running) /\ SF_vars(TimerFires) /\ SF_vars(Eof) /\ WF_vars(ServerAnswers)

-----------------------------------------------------------------------------
(* Once everything sent has been dealt with, a connected client's rings    *)
(* are what the server knows: through lost connections, answers that never *)
(* came, and rings that came and went while there was no server.           *)
ServerKnows ==
    ctx.fd /\ srv.open /\ call = NoCall /\ srv.in = <<>> => srv.rings = Range(local)

(* The handle under which the client is notified is the one the server     *)
(* gave it on this very connection (__udebug_disconnect).  The exception:  *)
(* since udebug_connect closed a connection that was open and until the    *)
(* next __udebug_disconnect, it is the handle of that other connection.    *)
HandleFresh == ctx.fd /\ srv.open /\ ctx.handle >= 0 /\ ~ctx.kept => ctx.handle = srv.handle

(* A client that called udebug_auto_connect is, if the server stays, in    *)
(* the end connected to it and watched by uloop.  The exception is again a *)
(* client that has closed an open connection in udebug_connect, by its own *)
(* call or by a timer that was left pending: uloop does not watch the new  *)
(* one, and nobody notices when it ends.                                   *)
Reconnects ==
    <>[](srv.up /\ ctx.auto /\ ~ctx.freed /\ ~ctx.kept)
        => <>[](ctx.fd /\ srv.open /\ (call = NoCall => Watched))

=============================================================================
