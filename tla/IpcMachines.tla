---------------------------- MODULE IpcMachines ----------------------------
(***************************************************************************)
(* What the state machines of one accepted ipc connection do to each other *)
(* when one calls another: aipc owns a usock (the OS socket) and an sipc,  *)
(* sipc owns a streamhdr and a pipe, streamhdr owns a timer.               *)
(*                                                                         *)
(* An operation is an operator from a world to a world.  A world is the    *)
(* part of the state it may touch: the connection's record r, the          *)
(* listening usock and its backlog, the pair socket's excl, the context's  *)
(* queue of events and the worker's queue of tasks; c is the connection.   *)
(* IpcConn makes actions of them.                                          *)
(*                                                                         *)
(* A machine's nn_fsm state follows from its own: it is IDLE in "IDLE",    *)
(* STOPPING in the states only its shutdown function assigns, else ACTIVE. *)
(* The owner of usock, which nn_usock_swap_owner hands from aipc to sipc   *)
(* to streamhdr and back, says where its events go.                        *)
(***************************************************************************)
EXTENDS Naturals, Sequences

CONSTANTS
    Conn,         \* the connections (aipc objects) there can be at a time
    None,         \* no connection
    LeavesEarly,  \* may a peer be gone before its connection is set up?
    AcceptFails   \* may accept fail for want of a descriptor or of memory?

ASSUME IpcAssumption ==
    /\ None \notin Conn
    /\ LeavesEarly \in BOOLEAN
    /\ AcceptFails \in BOOLEAN

NoPipes == [pipe |-> None, inpipe |-> None, outpipe |-> None]

\* A connection nobody uses: its memory is not allocated, or initialised only.
Fresh ==
    [aipc |-> "FREE", sipc |-> "IDLE", streamhdr |-> "IDLE",
     timer |-> "IDLE", armed |-> FALSE,
     usock |-> "IDLE", owner |-> "aipc", in |-> FALSE, out |-> FALSE,
     instate |-> "NONE", outstate |-> "NONE",
     pipe |-> "IDLE", pipein |-> "DEACTIVATED", pipeout |-> "DEACTIVATED",
     peer |-> "none", unread |-> 0]

-----------------------------------------------------------------------------
\* Queues.

\* nn_fsm_raise: the event goes to the machine that owns its source now.
Raise(w, to, src, type) ==
    [w EXCEPT !.events =
        Append(@, [to |-> to, src |-> src, type |-> type, c |-> w.c])]

\* nn_worker_execute.
Execute(w, fsm, task) ==
    [w EXCEPT !.tasks = Append(@, [fsm |-> fsm, task |-> task, c |-> w.c])]

ListenerTask(w, task) ==
    [w EXCEPT !.tasks =
        Append(@, [fsm |-> "listener", task |-> task, c |-> None])]

\* nn_fsm_isidle: stopped, and the owner was told.
Idle(w, m) ==
    /\ w.r[m] = "IDLE"
    /\ \A i \in DOMAIN w.events : ~ /\ w.events[i].c = w.c
                                    /\ w.events[i].src = m
                                    /\ w.events[i].type = "STOPPED"

-----------------------------------------------------------------------------
\* usock.

RaiseUsock(w, type) == Raise(w, w.r.owner, "usock", type)

AsyncStop(w) == RaiseUsock(Execute(w, "usock", "STOP"), "SHUTDOWN")

\* NN_USOCK_ACTION_ERROR: the states after ACTIVE ignore it.
UsockFails(w) ==
    IF w.r.usock = "ACTIVE"
    THEN AsyncStop([w EXCEPT !.r.usock = "REMOVING_FD"])
    ELSE w

\* Faulty variant of UsockDone: the owner is not told.
UsockDoneSilently(w) == [w EXCEPT !.r.usock = "DONE"]

\* The descriptor is taken out of the poll set and closed.
UsockDone(w) == RaiseUsock([w EXCEPT !.r.usock = "DONE"], "ERROR")

\* nn_usock_send: sent at once, or left to the worker when the socket's buffer
\* is full; sendmsg fails when the peer is gone.
UsockSend(w) ==
    IF w.r.usock # "ACTIVE" \/ w.r.peer = "closed"
    THEN {UsockFails(w)}
    ELSE {RaiseUsock(w, "SENT"), Execute(w, "usock", "SEND")}

\* Faulty variant of UsockRecv: the worker is not asked for what is missing.
UsockRecvForgets(w) ==
    IF w.r.usock = "ACTIVE" /\ w.r.unread > 0
    THEN RaiseUsock([w EXCEPT !.r.unread = @ - 1], "RECEIVED")
    ELSE IF w.r.usock # "ACTIVE" \/ w.r.peer = "closed" THEN UsockFails(w)
                                                         ELSE w

\* nn_usock_recv: what was asked for is there, or the peer is gone, or the
\* worker waits for it.
UsockRecv(w) ==
    IF w.r.usock = "ACTIVE" /\ w.r.unread > 0
    THEN RaiseUsock([w EXCEPT !.r.unread = @ - 1], "RECEIVED")
    ELSE IF w.r.usock # "ACTIVE" \/ w.r.peer = "closed"
         THEN UsockFails(w)
         ELSE Execute(w, "usock", "RECV")

UsockStopped(w) == RaiseUsock([w EXCEPT !.r.usock = "IDLE"], "STOPPED")

\* nn_usock_stop: at once without a descriptor, by the worker with one, by the
\* listener's worker task when the socket waits to be accepted.
UsockStop(w) ==
    CASE w.r.usock = "DONE" -> UsockStopped(w)
      [] w.r.usock = "BEING_ACCEPTED" ->
            ListenerTask([w EXCEPT !.r.usock = "STOPPING_ACCEPT",
                                   !.listener.state = "CANCELLING"], "STOP")
      [] w.r.usock = "ACTIVE" -> AsyncStop([w EXCEPT !.r.usock = "STOPPING"])
      [] w.r.usock = "REMOVING_FD" -> [w EXCEPT !.r.usock = "STOPPING"]
      [] OTHER -> w

\* accept succeeds.  The peer may have sent its header since it connected.
AcceptedFrom(w, peer, unread) ==
    RaiseUsock([w EXCEPT !.r.usock = "ACCEPTED",
                         !.r.peer = peer,
                         !.r.unread = unread,
                         !.listener.state = "LISTENING",
                         !.listener.polled = FALSE,
                         !.backlog = @ - 1], "ACCEPTED")

Accepted(w) ==
    {AcceptedFrom(w, peer, unread) :
        peer \in {"open"} \cup (IF LeavesEarly THEN {"closed"} ELSE {}),
        unread \in 0..1}

\* accept fails: the aipc that owns the listener is told.
AcceptError(w) ==
    Raise([w EXCEPT !.listener = [state |-> "ACCEPTING_ERROR",
                                  polled |-> FALSE, errnum |-> TRUE]],
          "aipc", "listener", "ACCEPT_ERROR")

\* nn_usock_accept.  The error that was reported last is not reported again:
\* the worker waits for the next connection.
Accept(w) ==
    LET v == [w EXCEPT !.r.usock = "BEING_ACCEPTED",
                       !.listener.state = "ACCEPTING"]
        waiting == ListenerTask(v, "ACCEPT")
    IN  (IF v.backlog > 0 THEN Accepted(v) ELSE {waiting})
        \cup (IF AcceptFails THEN {AcceptError(v)} ELSE {})
        \cup (IF AcceptFails /\ v.listener.errnum THEN {waiting} ELSE {})

-----------------------------------------------------------------------------
\* timer, streamhdr.

TimerStart(w) == Execute([w EXCEPT !.r.timer = "ACTIVE"], "timer", "START")

TimerStop(w) ==
    IF w.r.timer = "ACTIVE"
    THEN Execute([w EXCEPT !.r.timer = "STOPPING"], "timer", "STOP")
    ELSE w

\* nn_streamhdr_start: takes usock over and sends the header.
StreamhdrStart(w) ==
    {[v EXCEPT !.r.streamhdr = "SENDING"] :
        v \in UsockSend(TimerStart([w EXCEPT !.r.owner = "streamhdr"]))}

\* nn_streamhdr_shutdown in STOPPING.
StreamhdrStopping(w) ==
    IF Idle(w, "timer")
    THEN Raise([w EXCEPT !.r.streamhdr = "IDLE"],
               "sipc", "streamhdr", "STOPPED")
    ELSE w

StreamhdrStop(w) ==
    IF w.r.streamhdr \in {"IDLE", "STOPPING"}
    THEN w
    ELSE StreamhdrStopping([TimerStop(w) EXCEPT !.r.streamhdr = "STOPPING"])

-----------------------------------------------------------------------------
\* excl and pipe.

\* Faulty variant of PipeStop: the pipe is removed without asking its state.
PipeStopAlways(w) == [w EXCEPT !.excl = NoPipes, !.r.pipe = "IDLE"]

\* Faulty variant of PipeStop: excl forgets the pipe but not that it was ready.
PipeStopStaysReady(w) ==
    [w EXCEPT !.excl.pipe = IF w.r.pipe = "ACTIVE" THEN None ELSE @,
              !.r.pipe = "IDLE"]

\* nn_pipebase_stop, with excl's rm.
PipeStop(w) ==
    [w EXCEPT !.excl = IF w.r.pipe = "ACTIVE" THEN NoPipes ELSE @,
              !.r.pipe = "IDLE"]

\* nn_pipebase_start, when excl has no pipe yet.
PipeStart(w) ==
    Raise([w EXCEPT !.excl.pipe = w.c, !.r.pipe = "ACTIVE",
                    !.r.pipein = "ASYNC", !.r.pipeout = "IDLE"],
          "sock", "pipe", "OUT")

-----------------------------------------------------------------------------
\* sipc, aipc.

SipcDone(w) == Raise([w EXCEPT !.r.sipc = "DONE"], "aipc", "sipc", "ERROR")

\* nn_sipc_shutdown in STOPPING.
SipcStopping(w) ==
    IF Idle(w, "streamhdr")
    THEN Raise([w EXCEPT !.r.sipc = "IDLE", !.r.owner = "aipc"],
               "aipc", "sipc", "STOPPED")
    ELSE w

SipcStop(w) ==
    IF w.r.sipc \in {"IDLE", "STOPPING"}
    THEN w
    ELSE SipcStopping([StreamhdrStop(PipeStop(w)) EXCEPT
                            !.r.sipc = "STOPPING"])

\* nn_bipc_start_accepting, nn_aipc_start: a new aipc, which owns the listener
\* until a connection is accepted.
AipcStart(w) == Accept([w EXCEPT !.r = [Fresh EXCEPT !.aipc = "ACCEPTING"]])

\* nn_aipc_shutdown in STOPPING: the listener goes back to bipc as well.
AipcStopping(w) ==
    IF Idle(w, "usock")
    THEN Raise([w EXCEPT !.r.aipc = "IDLE"], "bipc", "aipc", "STOPPED")
    ELSE w

\* nn_aipc_shutdown in STOPPING_SIPC_FINAL.
AipcStoppingSipc(w) ==
    IF Idle(w, "sipc")
    THEN AipcStopping([UsockStop(w) EXCEPT !.r.aipc = "STOPPING"])
    ELSE w

AipcStop(w) ==
    IF w.r.aipc \in {"IDLE", "STOPPING_SIPC_FINAL", "STOPPING"}
    THEN w
    ELSE AipcStoppingSipc([SipcStop(w) EXCEPT
                                !.r.aipc = "STOPPING_SIPC_FINAL"])
=============================================================================
