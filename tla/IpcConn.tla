------------------------------ MODULE IpcConn ------------------------------
(***************************************************************************)
(* The connections of getd's pair socket over the ipc transport: the       *)
(* listener (bipc) with the list of connections it accepted, and for each  *)
(* of them the machines of IpcMachines.                                    *)
(*                                                                         *)
(* All of them share one context.  A thread that enters it, the worker     *)
(* with an event of the poller, a timer or a task, or main's thread in     *)
(* nn_send, nn_recv or nn_shutdown, makes one step of the model, which may *)
(* raise events; nn_ctx_leave then hands the queued events to their        *)
(* machines one by one before it releases the lock.  So these first steps  *)
(* require an empty queue, and each handler takes the event at its head.   *)
(* Peers connect, send and leave at any moment.                            *)
(*                                                                         *)
(* Abstractions.  unread counts what the peer sent and getd has not read:  *)
(* the protocol header first, then header and body of each message; what a *)
(* header says is chosen when it is read, and peers are nanomsg's own: the *)
(* type of a message is the one there is.  A part of one of these that     *)
(* arrives changes nothing.  nn_usock_send always reports by an event, so  *)
(* nn_pipe_send and nn_pipe_recv always leave the pipe ASYNC.              *)
(***************************************************************************)
EXTENDS IpcMachines, SequencesExt

CONSTANTS
    MaxUnread,   \* bound: parts of messages a peer sends ahead
    Stops        \* does main call nn_shutdown (handleQuit)?

ASSUME BoundsAssumption ==
    /\ MaxUnread \in Nat \ {0}
    /\ Stops \in BOOLEAN
    /\ IsFiniteSet(Conn)

VARIABLES
    conn,      \* conn[c]: the machines of a connection, and its peer
    bipc,      \* the listener's machine, its accepting aipc, its list
    listener,  \* bipc's usock
    backlog,   \* connections waiting in the kernel
    excl,      \* the pair socket's pipe, and its ready directions
    events,    \* the context's queue of events
    tasks,     \* the worker's queue of tasks
    batch      \* the tasks the worker took from it and has not run

vars == <<conn, bipc, listener, backlog, excl, events, tasks, batch>>

\* The world of connection c: events without the one that is being handled.
World(c) ==
    [c |-> c, r |-> conn[c], listener |-> listener, backlog |-> backlog,
     excl |-> excl, tasks |-> tasks,
     events |-> IF events = <<>> THEN <<>> ELSE Tail(events)]

\* The step ends in this world; bipc is the action's.
Enter(world) ==
    \E w \in {world} :
        /\ conn' = [conn EXCEPT ![w.c] = w.r]
        /\ listener' = w.listener
        /\ backlog' = w.backlog
        /\ excl' = w.excl
        /\ events' = w.events
        /\ tasks' = w.tasks

\* A handler's step.
Leave(w) == Enter(w) /\ UNCHANGED <<bipc, batch>>

\* A first step, by main's thread or by the worker.
Unlocked == events = <<>>
WorkerReady == Unlocked /\ batch = <<>>

\* The event at the head is for machine to, from src, of one of these types.
On(to, src, types) ==
    /\ events # <<>>
    /\ Head(events).to = to
    /\ Head(events).src = src
    /\ Head(events).type \in types

\* Its connection, and its world.
C == Head(events).c
W == World(C)

-----------------------------------------------------------------------------
\* Peers.

\* The connections that will need a new aipc to accept the next one.
ToReplace ==
    backlog + (IF conn[bipc.aipc].usock = "BEING_ACCEPTED" THEN 0 ELSE 1)

\* A new connection, bounded by the aipcs there are to accept the next.
Connect ==
    /\ bipc.state = "ACTIVE"
    /\ ToReplace < Cardinality({c \in Conn : conn[c].aipc = "FREE"})
    /\ backlog' = backlog + 1
    /\ UNCHANGED <<conn, bipc, listener, excl, events, tasks, batch>>

PeerSends(c) ==
    /\ conn[c].usock = "ACTIVE"
    /\ conn[c].peer = "open"
    /\ conn[c].unread < MaxUnread
    /\ conn' = [conn EXCEPT ![c].unread = @ + 1]
    /\ UNCHANGED <<bipc, listener, backlog, excl, events, tasks, batch>>

PeerLeaves(c) ==
    /\ conn[c].usock = "ACTIVE"
    /\ conn[c].peer = "open"
    /\ LeavesEarly \/ conn[c].sipc = "ACTIVE"
    /\ conn' = [conn EXCEPT ![c].peer = "closed"]
    /\ UNCHANGED <<bipc, listener, backlog, excl, events, tasks, batch>>

-----------------------------------------------------------------------------
\* The worker: poller, timers, tasks.

\* Faulty variant of FdIn: the descriptor is still polled for more.
FdInKeepsPolling(c) ==
    /\ WorkerReady
    /\ conn[c].usock = "ACTIVE"
    /\ conn[c].in
    /\ LET w == World(c)
       IN  \/ /\ w.r.unread > 0
              /\ Leave(RaiseUsock([w EXCEPT !.r.unread = @ - 1], "RECEIVED"))
           \/ /\ w.r.unread = 0
              /\ w.r.peer = "closed"
              /\ Leave(UsockDone(w))

\* FD_IN in ACTIVE.
FdIn(c) ==
    /\ WorkerReady
    /\ conn[c].usock = "ACTIVE"
    /\ conn[c].in
    /\ LET w == World(c)
       IN  \/ /\ w.r.unread > 0
              /\ Leave(RaiseUsock([w EXCEPT !.r.unread = @ - 1,
                                            !.r.in = FALSE], "RECEIVED"))
           \/ /\ w.r.unread = 0
              /\ w.r.peer = "closed"
              /\ Leave(UsockDone(w))

\* FD_OUT in ACTIVE, when it changes anything.
FdOut(c) ==
    /\ WorkerReady
    /\ conn[c].usock = "ACTIVE"
    /\ conn[c].out
    /\ LET w == World(c)
       IN  Leave(IF w.r.peer = "open"
                 THEN RaiseUsock([w EXCEPT !.r.out = FALSE], "SENT")
                 ELSE UsockDone(w))

\* FD_ERR in ACTIVE: epoll reports a peer that left, asked or not.
FdErr(c) ==
    /\ WorkerReady
    /\ conn[c].usock = "ACTIVE"
    /\ conn[c].peer = "closed"
    /\ Leave(UsockDone(World(c)))

\* FD_IN of the listener in ACCEPTING.
ListenerIn ==
    /\ WorkerReady
    /\ listener.state = "ACCEPTING"
    /\ listener.polled
    /\ backlog > 0
    /\ LET w == World(bipc.aipc)
       IN  \/ \E v \in Accepted(w) : Leave(v)
           \/ AcceptFails /\ Leave(AcceptError(w))

\* The timer of connection c expires; one that is being stopped ignores it.
TimerExpires(c) ==
    /\ WorkerReady
    /\ conn[c].armed
    /\ LET w == [World(c) EXCEPT !.r.armed = FALSE]
       IN  Leave(IF w.r.timer = "ACTIVE"
                 THEN Raise(w, "streamhdr", "timer", "TIMEOUT")
                 ELSE w)

\* The worker makes a local copy of the task queue.
TakeTasks ==
    /\ WorkerReady
    /\ tasks # <<>>
    /\ batch' = tasks
    /\ tasks' = <<>>
    /\ UNCHANGED <<conn, bipc, listener, backlog, excl, events>>

\* The task at the head of the batch is this one.
Task(fsm, task) ==
    /\ Unlocked
    /\ batch # <<>>
    /\ Head(batch).fsm = fsm
    /\ Head(batch).task = task

\* It leads to w.
Ran(w) == Enter(w) /\ batch' = Tail(batch) /\ UNCHANGED bipc

T == World(Head(batch).c)

UsockSendTask == Task("usock", "SEND") /\ Ran([T EXCEPT !.r.out = TRUE])

UsockRecvTask == Task("usock", "RECV") /\ Ran([T EXCEPT !.r.in = TRUE])

UsockStopTask ==
    /\ Task("usock", "STOP")
    /\ \/ T.r.usock = "REMOVING_FD" /\ Ran(UsockDone(T))
       \/ T.r.usock = "STOPPING" /\ Ran(UsockStopped(T))

TimerStartTask ==
    /\ Task("timer", "START")
    /\ T.r.timer \in {"ACTIVE", "STOPPING"}
    /\ Ran([T EXCEPT !.r.armed = (T.r.timer = "ACTIVE")])

TimerStopTask ==
    /\ Task("timer", "STOP")
    /\ T.r.timer = "STOPPING"
    /\ Ran(Raise([T EXCEPT !.r.armed = FALSE, !.r.timer = "IDLE"],
                 "streamhdr", "timer", "STOPPED"))

\* Faulty variant of ListenerAcceptTask: the descriptor is added, not polled.
ListenerAcceptTaskAdds ==
    /\ Task("listener", "ACCEPT")
    /\ Ran(World(bipc.aipc))

\* The listener polls for a connection.
ListenerAcceptTask ==
    /\ Task("listener", "ACCEPT")
    /\ Ran([World(bipc.aipc) EXCEPT !.listener.polled = TRUE])

\* Faulty variant of ListenerStopTask: the listener's state is not set back.
ListenerStopTaskKeeps ==
    /\ Task("listener", "STOP")
    /\ listener.state = "CANCELLING"
    /\ Ran(UsockStopped([World(bipc.aipc) EXCEPT !.listener.polled = FALSE]))

\* The listener gives up accepting: the usock that waited for it stops.
ListenerStopTask ==
    /\ Task("listener", "STOP")
    /\ listener.state = "CANCELLING"
    /\ Ran(UsockStopped([World(bipc.aipc) EXCEPT
                            !.listener.polled = FALSE,
                            !.listener.state = "LISTENING"]))

RunTask ==
    \/ UsockSendTask \/ UsockRecvTask \/ UsockStopTask
    \/ TimerStartTask \/ TimerStopTask
    \/ ListenerAcceptTask \/ ListenerStopTask

-----------------------------------------------------------------------------
\* main's thread.

\* Faulty variant of NnSend: the pipe still counts as ready.
NnSendKeeps ==
    /\ Unlocked
    /\ excl.outpipe # None
    /\ \E w \in UsockSend(World(excl.outpipe)) :
          Leave([w EXCEPT !.r.outstate = "SENDING", !.r.pipeout = "ASYNC"])

\* nn_send, when a pipe takes the message at once.
NnSend ==
    /\ Unlocked
    /\ excl.outpipe # None
    /\ \E w \in UsockSend(World(excl.outpipe)) :
          Leave([w EXCEPT !.r.outstate = "SENDING",
                          !.r.pipeout = "ASYNC",
                          !.excl.outpipe = None])

\* nn_recv, when a pipe has a message.
NnRecv ==
    /\ Unlocked
    /\ excl.inpipe # None
    /\ Leave([UsockRecv(World(excl.inpipe)) EXCEPT
                    !.r.instate = "HDR",
                    !.r.pipein = "ASYNC",
                    !.excl.inpipe = None])

\* nn_shutdown: bipc stops the aipc that is accepting first.
NnShutdown ==
    /\ Stops
    /\ Unlocked
    /\ bipc.state = "ACTIVE"
    /\ Enter(AipcStop(World(bipc.aipc)))
    /\ bipc' = [bipc EXCEPT !.state = "STOPPING_AIPC"]
    /\ UNCHANGED batch

-----------------------------------------------------------------------------
\* streamhdr's handler.

StreamhdrSent ==
    /\ On("streamhdr", "usock", {"SENT"})
    /\ W.r.streamhdr = "SENDING"
    /\ Leave([UsockRecv(W) EXCEPT !.r.streamhdr = "RECEIVING"])

\* The peer's header may be that of another protocol.
StreamhdrReceived ==
    /\ On("streamhdr", "usock", {"RECEIVED"})
    /\ W.r.streamhdr = "RECEIVING"
    /\ \E next \in {"STOPPING_TIMER_DONE", "STOPPING_TIMER_ERROR"} :
          Leave([TimerStop(W) EXCEPT !.r.streamhdr = next])

\* An ERROR follows.
StreamhdrShutdown ==
    /\ On("streamhdr", "usock", {"SHUTDOWN"})
    /\ W.r.streamhdr \in {"SENDING", "RECEIVING"}
    /\ Leave(W)

\* Faulty variant of StreamhdrFails: the timer goes on.
StreamhdrFailsWithTimer ==
    /\ \/ On("streamhdr", "usock", {"ERROR"})
       \/ On("streamhdr", "timer", {"TIMEOUT"})
    /\ W.r.streamhdr \in {"SENDING", "RECEIVING"}
    /\ Leave([W EXCEPT !.r.streamhdr = "STOPPING_TIMER_ERROR"])

StreamhdrFails ==
    /\ \/ On("streamhdr", "usock", {"ERROR"})
       \/ On("streamhdr", "timer", {"TIMEOUT"})
    /\ W.r.streamhdr \in {"SENDING", "RECEIVING"}
    /\ Leave([TimerStop(W) EXCEPT !.r.streamhdr = "STOPPING_TIMER_ERROR"])

\* "It's safe to ignore usock event when we are stopping."
StreamhdrIgnores ==
    /\ On("streamhdr", "usock", {"SENT", "RECEIVED", "SHUTDOWN", "ERROR"})
    /\ W.r.streamhdr \in {"STOPPING_TIMER_DONE", "STOPPING_TIMER_ERROR"}
    /\ Leave(W)

StreamhdrTimerStopped ==
    /\ On("streamhdr", "timer", {"STOPPED"})
    /\ W.r.streamhdr \in {"STOPPING_TIMER_DONE", "STOPPING_TIMER_ERROR"}
    /\ Leave(Raise([W EXCEPT !.r.streamhdr = "DONE", !.r.owner = "sipc"],
                   "sipc", "streamhdr",
                   IF W.r.streamhdr = "STOPPING_TIMER_DONE"
                   THEN "OK" ELSE "ERROR"))

StreamhdrStops ==
    /\ events # <<>>
    /\ Head(events).to = "streamhdr"
    /\ W.r.streamhdr = "STOPPING"
    /\ Leave(StreamhdrStopping(W))

StreamhdrHandler ==
    \/ StreamhdrSent \/ StreamhdrReceived \/ StreamhdrShutdown
    \/ StreamhdrFails \/ StreamhdrIgnores \/ StreamhdrTimerStopped
    \/ StreamhdrStops

-----------------------------------------------------------------------------
\* sipc's handler.

SipcHeaderExchanged ==
    /\ On("sipc", "streamhdr", {"OK"})
    /\ W.r.sipc = "PROTOHDR"
    /\ Leave([StreamhdrStop(W) EXCEPT !.r.sipc = "STOPPING_STREAMHDR"])

SipcHeaderFailed ==
    /\ On("sipc", "streamhdr", {"ERROR"})
    /\ W.r.sipc = "PROTOHDR"
    /\ Leave(SipcDone(W))

\* The pipe starts, unless the pair socket has one: nn_excl_add refuses then.
SipcStartsPipe ==
    /\ On("sipc", "streamhdr", {"STOPPED"})
    /\ W.r.sipc = "STOPPING_STREAMHDR"
    /\ W.r.pipe = "IDLE"
    /\ \/ /\ excl.pipe = None
          /\ Leave([UsockRecv(PipeStart(W)) EXCEPT
                        !.r.instate = "HDR",
                        !.r.outstate = "IDLE",
                        !.r.sipc = "ACTIVE"])
       \/ /\ excl.pipe # None
          /\ Leave(SipcDone([W EXCEPT !.r.pipe = "FAILED",
                                      !.r.pipein = "ASYNC",
                                      !.r.pipeout = "IDLE"]))

SipcSent ==
    /\ On("sipc", "usock", {"SENT"})
    /\ W.r.sipc = "ACTIVE"
    /\ W.r.outstate = "SENDING"
    /\ W.r.pipeout = "ASYNC"
    /\ Leave(Raise([W EXCEPT !.r.outstate = "IDLE", !.r.pipeout = "IDLE"],
                   "sock", "pipe", "OUT"))

\* nn_pipebase_received: the message is complete.
Complete(w) ==
    Raise([w EXCEPT !.r.instate = "HASMSG", !.r.pipein = "IDLE"],
          "sock", "pipe", "IN")

\* The header of a message: its size may be too large, zero, or of a body that
\* is to be received.  Its first byte is what nanomsg's sipc_send writes there.
SipcReceivedHdr ==
    /\ On("sipc", "usock", {"RECEIVED"})
    /\ W.r.sipc = "ACTIVE"
    /\ W.r.instate = "HDR"
    /\ \/ Leave(SipcDone(W))
       \/ W.r.pipein = "ASYNC" /\ Leave(Complete(W))
       \/ Leave(UsockRecv([W EXCEPT !.r.instate = "BODY"]))

SipcReceivedBody ==
    /\ On("sipc", "usock", {"RECEIVED"})
    /\ W.r.sipc = "ACTIVE"
    /\ W.r.instate = "BODY"
    /\ W.r.pipein = "ASYNC"
    /\ Leave(Complete(W))

\* Faulty variant of SipcShutdown: the pipe is left for the ERROR to stop.
SipcShutdownLater ==
    /\ On("sipc", "usock", {"SHUTDOWN"})
    /\ W.r.sipc = "ACTIVE"
    /\ Leave([W EXCEPT !.r.sipc = "SHUTTING_DOWN"])

SipcShutdown ==
    /\ On("sipc", "usock", {"SHUTDOWN"})
    /\ W.r.sipc = "ACTIVE"
    /\ Leave([PipeStop(W) EXCEPT !.r.sipc = "SHUTTING_DOWN"])

\* Faulty variant of SipcError: the pipe stops, the machine goes on.
SipcErrorStays ==
    /\ On("sipc", "usock", {"ERROR"})
    /\ \/ W.r.sipc = "ACTIVE" /\ Leave(PipeStop(W))
       \/ W.r.sipc = "SHUTTING_DOWN" /\ Leave(SipcDone(W))

SipcError ==
    /\ On("sipc", "usock", {"ERROR"})
    /\ \/ W.r.sipc = "ACTIVE" /\ Leave(SipcDone(PipeStop(W)))
       \/ W.r.sipc = "SHUTTING_DOWN" /\ Leave(SipcDone(W))

SipcStops ==
    /\ events # <<>>
    /\ Head(events).to = "sipc"
    /\ W.r.sipc = "STOPPING"
    /\ Leave(SipcStopping(W))

SipcHandler ==
    \/ SipcHeaderExchanged \/ SipcHeaderFailed \/ SipcStartsPipe
    \/ SipcSent \/ SipcReceivedHdr \/ SipcReceivedBody
    \/ SipcShutdown \/ SipcError \/ SipcStops

-----------------------------------------------------------------------------
\* The pair socket's handler: excl asserts that the pipe is the one it has.

SockIn ==
    /\ On("sock", "pipe", {"IN"})
    /\ excl.inpipe = None
    /\ excl.pipe = C
    /\ Leave([W EXCEPT !.excl.inpipe = C])

SockOut ==
    /\ On("sock", "pipe", {"OUT"})
    /\ excl.outpipe = None
    /\ excl.pipe = C
    /\ Leave([W EXCEPT !.excl.outpipe = C])

SockHandler == SockIn \/ SockOut

-----------------------------------------------------------------------------
\* aipc's handler.

\* The listener goes back to bipc, and sipc and streamhdr start.
AipcAccepted ==
    /\ On("aipc", "usock", {"ACCEPTED"})
    /\ W.r.aipc = "ACCEPTING"
    /\ \E w \in StreamhdrStart(Raise([W EXCEPT !.r.aipc = "ACTIVE",
                                               !.r.usock = "ACTIVE",
                                               !.r.sipc = "PROTOHDR"],
                                     "bipc", "aipc", "ACCEPTED")) : Leave(w)

AipcAcceptError ==
    /\ On("aipc", "listener", {"ACCEPT_ERROR"})
    /\ W.r.aipc = "ACCEPTING"
    /\ \E w \in Accept(W) : Leave(w)

AipcBroken ==
    /\ On("aipc", "sipc", {"ERROR"})
    /\ W.r.aipc = "ACTIVE"
    /\ Leave([SipcStop(W) EXCEPT !.r.aipc = "STOPPING_SIPC"])

AipcSipcStopped ==
    /\ On("aipc", "sipc", {"STOPPED"})
    /\ W.r.aipc = "STOPPING_SIPC"
    /\ Leave([UsockStop(W) EXCEPT !.r.aipc = "STOPPING_USOCK"])

AipcShutdown ==
    /\ On("aipc", "usock", {"SHUTDOWN"})
    /\ W.r.aipc = "STOPPING_USOCK"
    /\ Leave(W)

AipcUsockStopped ==
    /\ On("aipc", "usock", {"STOPPED"})
    /\ W.r.aipc = "STOPPING_USOCK"
    /\ Leave(Raise([W EXCEPT !.r.aipc = "DONE"], "bipc", "aipc", "ERROR"))

AipcStops ==
    /\ events # <<>>
    /\ Head(events).to = "aipc"
    /\ \/ W.r.aipc = "STOPPING_SIPC_FINAL" /\ Leave(AipcStoppingSipc(W))
       \/ W.r.aipc = "STOPPING" /\ Leave(AipcStopping(W))

AipcHandler ==
    \/ AipcAccepted \/ AipcAcceptError \/ AipcBroken \/ AipcSipcStopped
    \/ AipcShutdown \/ AipcUsockStopped \/ AipcStops

-----------------------------------------------------------------------------
\* bipc's handler.

\* nn_aipc_term: every machine is stopped, no task of its timer is queued and
\* none of its usock is in the worker's own copy; those in the worker's queue
\* are cancelled.
CanFree(w) ==
    /\ \A m \in {"aipc", "sipc", "streamhdr", "timer", "usock"} : Idle(w, m)
    /\ w.r.pipe = "IDLE"
    /\ \A i \in DOMAIN batch : batch[i].c # w.c
    /\ \A i \in DOMAIN w.tasks : w.tasks[i].c = w.c => w.tasks[i].fsm = "usock"

\* Faulty variant of Free: no task is cancelled.
FreeKeepsTasks(w) == [w EXCEPT !.r = Fresh]

\* The tasks in q of other connections than c, in their order.
Others(q, c) ==
    LET kept[i \in 0..Len(q)] ==
            IF i = 0 THEN <<>>
            ELSE IF q[i].c = c THEN kept[i - 1]
                               ELSE Append(kept[i - 1], q[i])
    IN  kept[Len(q)]

Free(w) == [w EXCEPT !.r = Fresh, !.tasks = Others(@, w.c)]

\* Where the connection of the event is in the list.
Places == {i \in DOMAIN bipc.aipcs : bipc.aipcs[i] = C}

\* The accepted connection joins the list and a new aipc starts accepting.
BipcAccepted ==
    /\ On("bipc", "aipc", {"ACCEPTED"})
    /\ bipc.state = "ACTIVE"
    /\ \E d \in {d \in Conn : conn[d].aipc = "FREE"} :
          /\ \E w \in AipcStart(World(d)) : Enter(w)
          /\ bipc' = [bipc EXCEPT !.aipc = d, !.aipcs = Append(@, C)]
    /\ UNCHANGED batch

BipcError ==
    /\ On("bipc", "aipc", {"ERROR"})
    /\ bipc.state = "ACTIVE"
    /\ Leave(AipcStop(W))

\* Faulty variant of BipcStopped: the connection stays in the list.
BipcStoppedKeeps ==
    /\ On("bipc", "aipc", {"STOPPED"})
    /\ bipc.state = "ACTIVE"
    /\ CanFree(W)
    /\ Leave(Free(W))

BipcStopped ==
    /\ On("bipc", "aipc", {"STOPPED"})
    /\ bipc.state = "ACTIVE"
    /\ CanFree(W)
    /\ Enter(Free(W))
    /\ \E i \in Places : bipc' = [bipc EXCEPT !.aipcs = RemoveAt(@, i)]
    /\ UNCHANGED batch

\* nn_bipc_shutdown in STOPPING_AIPC: only the accepting aipc counts, the
\* events of others are dropped.
BipcDrops ==
    /\ events # <<>>
    /\ Head(events).to = "bipc"
    /\ bipc.state = "STOPPING_AIPC"
    /\ ~Idle(World(bipc.aipc), "aipc")
    /\ Leave(W)

\* Then the file is unlinked and the listening socket closed.
BipcAipcStopped ==
    /\ events # <<>>
    /\ Head(events).to = "bipc"
    /\ bipc.state = "STOPPING_AIPC"
    /\ LET w == World(bipc.aipc)
       IN  /\ Idle(w, "aipc")
           /\ CanFree(w)
           /\ w.listener.state \notin {"ACCEPTING", "CANCELLING"}
           /\ Enter(Raise([Free(w) EXCEPT !.listener.state = "IDLE"],
                          "bipc", "listener", "STOPPED"))
    /\ bipc' = [bipc EXCEPT !.aipc = None, !.state = "STOPPING_USOCK"]
    /\ UNCHANGED batch

\* Stopping the next connection of the list: w is the world so far, conn the
\* connections.
StopNext(a, c) ==
    LET w == AipcStop([a.w EXCEPT !.c = c, !.r = a.conn[c]])
    IN  [w |-> w, conn |-> [a.conn EXCEPT ![c] = w.r]]

\* All of them stopped, in the order of the list.
ListStopped ==
    LET stopped[i \in 0..Len(bipc.aipcs)] ==
            IF i = 0 THEN [w |-> W, conn |-> conn]
                     ELSE StopNext(stopped[i - 1], bipc.aipcs[i])
    IN  stopped[Len(bipc.aipcs)]

StopList ==
    \E a \in {ListStopped} :
        /\ conn' = a.conn
        /\ excl' = a.w.excl
        /\ events' = a.w.events
        /\ tasks' = a.w.tasks

\* Faulty variant of BipcUsockStopped: an empty list is not noticed.
BipcUsockStoppedWaits ==
    /\ On("bipc", "listener", {"STOPPED"})
    /\ bipc.state = "STOPPING_USOCK"
    /\ StopList
    /\ bipc' = [bipc EXCEPT !.state = "STOPPING_AIPCS"]
    /\ UNCHANGED <<listener, backlog, batch>>

\* The listening socket is closed: the accepted connections are stopped.
BipcUsockStopped ==
    /\ On("bipc", "listener", {"STOPPED"})
    /\ bipc.state = "STOPPING_USOCK"
    /\ StopList
    /\ bipc' = [bipc EXCEPT !.state = IF bipc.aipcs = <<>> THEN "IDLE"
                                      ELSE "STOPPING_AIPCS"]
    /\ UNCHANGED <<listener, backlog, batch>>

\* One of them has stopped; bipc has with the last.
BipcAipcsStopped ==
    /\ On("bipc", "aipc", {"STOPPED"})
    /\ bipc.state = "STOPPING_AIPCS"
    /\ CanFree(W)
    /\ Enter(Free(W))
    /\ \E i \in Places :
          bipc' = [bipc EXCEPT !.aipcs = RemoveAt(@, i),
                               !.state = IF Len(bipc.aipcs) = 1 THEN "IDLE"
                                         ELSE @]
    /\ UNCHANGED batch

BipcHandler ==
    \/ BipcAccepted \/ BipcError \/ BipcStopped \/ BipcDrops
    \/ BipcAipcStopped \/ BipcUsockStopped \/ BipcAipcsStopped

-----------------------------------------------------------------------------
\* Behaviours.

\* getd has bound its socket: nn_accept found no connection, and the worker was
\* asked to wait for one.
Init ==
    /\ \E c \in Conn :
          /\ bipc = [state |-> "ACTIVE", aipc |-> c, aipcs |-> <<>>]
          /\ conn = [d \in Conn |->
                        IF d = c THEN [Fresh EXCEPT !.aipc = "ACCEPTING",
                                                    !.usock = "BEING_ACCEPTED"]
                                 ELSE Fresh]
    /\ listener = [state |-> "ACCEPTING", polled |-> FALSE, errnum |-> FALSE]
    /\ backlog = 0
    /\ excl = NoPipes
    /\ events = <<>>
    /\ tasks = <<[fsm |-> "listener", task |-> "ACCEPT", c |-> None]>>
    /\ batch = <<>>

\* nn_ctx_leave: the machine the next event is for handles it.
Process ==
    \/ StreamhdrHandler \/ SipcHandler \/ SockHandler
    \/ AipcHandler \/ BipcHandler

Next ==
    \/ Process
    \/ RunTask
    \/ TakeTasks
    \/ ListenerIn
    \/ \E c \in Conn : FdIn(c) \/ FdOut(c) \/ FdErr(c) \/ TimerExpires(c)
    \/ Connect
    \/ \E c \in Conn : PeerSends(c) \/ PeerLeaves(c)
    \/ NnSend
    \/ NnRecv
    \/ NnShutdown

Spec == Init /\ [][Next]_vars

\* A thread that holds the lock goes on.  The worker gets the lock in the end,
\* and after each epoll_wait serves all that is ready: tasks, descriptors and
\* timers.
Fairness ==
    /\ WF_vars(Process)
    /\ SF_vars(RunTask)
    /\ SF_vars(TakeTasks)
    /\ SF_vars(ListenerIn)
    /\ \A c \in Conn : SF_vars(FdIn(c)) /\ SF_vars(FdErr(c))
                       /\ SF_vars(TimerExpires(c))

FairSpec == Spec /\ Fairness

-----------------------------------------------------------------------------
\* Properties.

Record == [aipc : {"FREE", "IDLE", "ACCEPTING", "ACTIVE", "STOPPING_SIPC",
                   "STOPPING_USOCK", "DONE", "STOPPING_SIPC_FINAL",
                   "STOPPING"},
           sipc : {"IDLE", "PROTOHDR", "STOPPING_STREAMHDR", "ACTIVE",
                   "SHUTTING_DOWN", "DONE", "STOPPING"},
           streamhdr : {"IDLE", "SENDING", "RECEIVING", "DONE", "STOPPING",
                        "STOPPING_TIMER_ERROR", "STOPPING_TIMER_DONE"},
           timer : {"IDLE", "ACTIVE", "STOPPING"},
           armed : BOOLEAN,
           usock : {"IDLE", "BEING_ACCEPTED", "ACCEPTED", "ACTIVE",
                    "REMOVING_FD", "DONE", "STOPPING", "STOPPING_ACCEPT"},
           owner : {"aipc", "sipc", "streamhdr"},
           in : BOOLEAN,
           out : BOOLEAN,
           instate : {"NONE", "HDR", "BODY", "HASMSG"},
           outstate : {"NONE", "IDLE", "SENDING"},
           pipe : {"IDLE", "ACTIVE", "FAILED"},
           pipein : {"DEACTIVATED", "IDLE", "ASYNC"},
           pipeout : {"DEACTIVATED", "IDLE", "ASYNC"},
           peer : {"none", "open", "closed"},
           unread : 0..MaxUnread]

\* Every machine is in one of its states, and connections are in bipc's list
\* at most once.
TypeOK ==
    /\ conn \in [Conn -> Record]
    /\ bipc.state \in {"ACTIVE", "STOPPING_AIPC", "STOPPING_USOCK",
                       "STOPPING_AIPCS", "IDLE"}
    /\ bipc.aipc \in Conn \cup {None}
    /\ IsInjective(bipc.aipcs) /\ ToSet(bipc.aipcs) \subseteq Conn
    /\ listener \in [state : {"ACCEPTING", "ACCEPTING_ERROR", "CANCELLING",
                              "LISTENING", "IDLE"},
                     polled : BOOLEAN, errnum : BOOLEAN]
    /\ backlog \in 0..Cardinality(Conn)
    /\ {excl.pipe, excl.inpipe, excl.outpipe} \subseteq Conn \cup {None}

\* No event and no task reaches a machine in a state that has no case for it,
\* and no assertion of a handler fails (nn_fsm_bad_action, nn_fsm_bad_source
\* and nn_assert abort the process): excl's pipe is the one an IN or OUT event
\* is from, a pipe is started and freed when idle, a usock is freed when the
\* worker holds none of its tasks.  (The stopping of the whole list is asked
\* for by name: ENABLED would take TLC too long, and it can only succeed.)
NoAssertFails ==
    /\ events # <<>> => \/ On("bipc", "listener", {"STOPPED"})
                        \/ ENABLED Process
    /\ Unlocked /\ batch # <<>> => ENABLED RunTask

\* bipc is about to free a connection of which the worker has a task in its
\* own copy of the queue.
TermBeforeTask ==
    /\ On("bipc", "aipc", {"STOPPED"})
    /\ \E i \in DOMAIN batch : batch[i].c = C

\* A usock is freed when none of its tasks is queued: nn_queue_item_term asserts
\* it, and nn_usock_term cancels only those in the worker's queue.
UsockTermAfterTasks == ~TermBeforeTask

\* nn_shutdown raises nothing its machines do not expect either; the assertion
\* in nn_usock_term is the only one that can fail.
OnlyTermFails == TermBeforeTask \/ NoAssertFails

\* The event object an event is raised with: usock has one for its errors and
\* its shutdown, streamhdr one for both its outcomes.
Object(e) ==
    CASE e.src = "usock" /\ e.type \in {"SHUTDOWN", "ERROR"} ->
            <<e.c, "usock", "error">>
      [] e.src = "streamhdr" /\ e.type \in {"OK", "ERROR"} ->
            <<e.c, "streamhdr", "done">>
      [] OTHER -> <<e.c, e.src, e.type>>

\* No event object and no task is queued while it is queued (nn_queue_push
\* asserts it): the task queue and the worker's copy are one as to that.
QueuedOnce ==
    /\ \A i, j \in DOMAIN events :
          Object(events[i]) = Object(events[j]) => i = j
    /\ LET all == batch \o tasks
       IN  \A i, j \in DOMAIN all : all[i] = all[j] => i = j

\* When nobody holds the lock, excl has the one pipe that is attached, and its
\* ready directions are ready down to sipc: nn_pipe_send, nn_pipe_recv and
\* sipc's send and recv assert it of what nn_send and nn_recv give them.
ReadyDirections ==
    Unlocked =>
        /\ \A c \in Conn : conn[c].pipe = "ACTIVE" <=> excl.pipe = c
        /\ excl.outpipe # None =>
              /\ excl.outpipe = excl.pipe
              /\ conn[excl.pipe].sipc = "ACTIVE"
              /\ conn[excl.pipe].outstate = "IDLE"
              /\ conn[excl.pipe].pipeout = "IDLE"
        /\ excl.inpipe # None =>
              /\ excl.inpipe = excl.pipe
              /\ conn[excl.pipe].sipc = "ACTIVE"
              /\ conn[excl.pipe].instate = "HASMSG"
              /\ conn[excl.pipe].pipein = "IDLE"

Queued(c, task) ==
    \E i \in DOMAIN (batch \o tasks) :
        (batch \o tasks)[i] = [fsm |-> "usock", task |-> task, c |-> c]

\* When nobody holds the lock, a connection in use is not forgotten in either
\* direction: it is offered to nn_recv or nn_send, or the descriptor is polled
\* for what it waits for, or the worker was asked to.
NothingForgotten ==
    Unlocked =>
        \A c \in Conn : conn[c].sipc = "ACTIVE" /\ conn[c].usock = "ACTIVE" =>
            /\ excl.inpipe = c \/ conn[c].in \/ Queued(c, "RECV")
            /\ excl.outpipe = c \/ conn[c].out \/ Queued(c, "SEND")

\* When nobody holds the lock, sipc is active only on a socket that is open.
ActiveOnOpenSocket ==
    Unlocked => \A c \in Conn : conn[c].sipc = "ACTIVE"
                                    => conn[c].usock = "ACTIVE"

\* A freed connection has no event or task left that would reach its memory.
FreedIsForgotten ==
    \A c \in Conn : conn[c].aipc = "FREE" =>
        /\ \A i \in DOMAIN events : events[i].c = c => events[i].to = "bipc"
        /\ \A i \in DOMAIN tasks : tasks[i].c # c
        /\ \A i \in DOMAIN batch : batch[i].c # c

\* The pair socket loses its peer only when that peer's own pipe stops: a
\* second client that is turned away does not cut off the first (nn_excl_rm
\* does not look at the pipe it is given).
OnlyItsOwnPipe ==
    [][\A c \in Conn : excl.pipe = c /\ excl'.pipe # c
                          => conn[c].pipe = "ACTIVE" /\ conn'[c].pipe = "IDLE"]_vars

\* What the machines do to the pair socket, whoever has the lock and in whatever
\* order their events come, is what PairSocket promises to the calls above it:
\* a peer follows another only when that one was taken out (excl.c:46), and no
\* direction of a lost peer stays ready (excl.c:59).
Pair == INSTANCE PairSocket WITH
            Peers <- Conn, NoPeer <- None, peer <- excl.pipe,
            ready <- [d \in {"in", "out"} |->
                         IF d = "in" THEN excl.inpipe # None
                                     ELSE excl.outpipe # None]

ImplementsPair == Pair!PairSpec

\* A connection whose peer has left is taken down, and its aipc freed (or the
\* process aborts in nn_usock_term, here and below).
BrokenIsTakenDown ==
    \A c \in Conn : conn[c].peer = "closed" ~>
        conn[c].peer # "closed" \/ TermBeforeTask

\* The exchange of headers comes to an end even if the peer never sends one.
HandshakeEnds ==
    \A c \in Conn : conn[c].sipc = "PROTOHDR" ~>
        conn[c].sipc # "PROTOHDR" \/ TermBeforeTask

\* A client that connects is accepted or refused in the end, as long as accept
\* does not fail and nobody calls nn_shutdown.
BacklogServed ==
    backlog > 0 ~> \/ backlog = 0
                   \/ listener.errnum
                   \/ bipc.state # "ACTIVE"

\* nn_shutdown comes to its end, with all connections freed and no pipe left.
ShutdownCompletes ==
    bipc.state # "ACTIVE" ~>
        \/ /\ bipc.state = "IDLE"
           /\ excl = NoPipes
           /\ \A c \in Conn : conn[c] = Fresh
        \/ TermBeforeTask
=============================================================================
