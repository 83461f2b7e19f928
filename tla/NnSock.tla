------------------------------- MODULE NnSock -------------------------------
(***************************************************************************)
(* Who runs when in getd: main's thread in its calls of nn_socket, nn_bind,*)
(* nn_recv and nn_send, nanomsg's worker thread, and handleQuit, which a   *)
(* signal starts between any two steps of main's thread and which never    *)
(* returns to it.  Steps are those between two operations on a lock: the   *)
(* mutex of the library's global state (global.c), the socket's context    *)
(* (aio/ctx.c), both of which abort the program when a thread takes one it *)
(* has, and the lock inside malloc and free, which blocks then.            *)
(*                                                                         *)
(* A call that finds nothing to do leaves the context, waits for the       *)
(* direction's eventfd and looks again: the eventfds say outside of the    *)
(* context what the pair socket knows in it.  What happens on connections  *)
(* is module IpcConn's; here it is what PairSocket says of it, which       *)
(* IpcConn is shown to implement.                                          *)
(***************************************************************************)
EXTENDS Naturals, PairSocket

CONSTANT MaxSignals  \* the signals handleQuit is installed for: each is
                     \* blocked while its handler runs

ASSUME SockAssumption == MaxSignals \in Nat

VARIABLES
    pc,        \* where main's thread is, or was when a signal came
    op,        \* the call it makes
    ctx,       \* the thread inside the socket's context
    global,    \* the thread that holds the global mutex
    heap,      \* the code of main's thread that is in malloc or free
    flag,      \* NN_SOCK_FLAG_IN, NN_SOCK_FLAG_OUT
    efd,       \* rcvfd, sndfd: is the eventfd signalled?
    ep,        \* the endpoint
    bound,     \* is the endpoint's id in main.c's bind?
    out,       \* what main.c's outMessage points to
    hpc,       \* where the last handleQuit started is
    depth,     \* handleQuits started
    fate       \* of the process

call == <<pc, op>>
locks == <<ctx, global, heap>>
fds == <<flag, efd>>
static == <<bound, out>>
handler == <<hpc, depth>>
vars == <<call, locks, pair, fds, ep, static, handler, fate>>

Dir == IF op = "send" THEN "out" ELSE "in"

Init ==
    /\ pc = "start" /\ op = "bind"
    /\ ctx = "free" /\ global = "free" /\ heap = "free"
    /\ PairInit
    /\ flag = NoneReady /\ efd = NoneReady
    /\ ep = "none"
    /\ bound = FALSE /\ out = "null"
    /\ hpc = "none" /\ depth = 0
    /\ fate = "running"

-----------------------------------------------------------------------------
(* nn_sock_onleave and the end of nn_ctx_leave: the eventfds follow the    *)
(* pair socket.  Emptying an eventfd that is not signalled fails.          *)
Unsignals(d) == flag[d] /\ ~ready[d]

(* One that signals only and never empties.                                *)
OnLeaveKeepsSignal ==
    /\ ctx' = "free"
    /\ flag' = ready
    /\ efd' = [d \in Dirs |-> ready[d] \/ efd[d]]
    /\ UNCHANGED fate

OnLeave ==
    /\ ctx' = "free"
    /\ flag' = ready
    /\ efd' = [d \in Dirs |-> \/ ready[d]
                              \/ efd[d] /\ ~Unsignals(d)]
    /\ fate' = IF \E d \in Dirs : Unsignals(d) /\ ~efd[d]
               THEN "aborted" ELSE "running"

-----------------------------------------------------------------------------
(* main's thread, while no signal came.                                    *)

Main(from, to) ==
    /\ fate = "running" /\ depth = 0 /\ heap = "free"
    /\ pc = from /\ pc' = to
    /\ UNCHANGED <<heap, handler>>

(* nn_socket, and the two halves of the hold and of the release of the     *)
(* socket every other call makes.                                          *)
MTakesGlobal ==
    /\ global = "free"
    /\ \/ Main("start", "inSocket")
       \/ Main("hold", "held")
       \/ Main("rele", "released")
    /\ global' = "main"
    /\ UNCHANGED <<op, ctx, pair, fds, ep, static, fate>>

MGivesGlobal ==
    /\ \/ Main("inSocket", "hold")
       \/ Main("held", "enter")
       \/ Main("released", "user")
    /\ global' = "free"
    /\ UNCHANGED <<op, ctx, pair, fds, ep, static, fate>>

MEnter ==
    /\ ctx = "free"
    /\ \/ Main("enter", "try")
       \/ Main("reenter", "check")
    /\ ctx' = "main"
    /\ UNCHANGED <<op, global, pair, fds, ep, static, fate>>

(* nn_sock_add_ep: the endpoint listens, or nn_bipc_listen failed.         *)
MBind ==
    /\ op = "bind" /\ Main("try", "leave")
    /\ ep' \in {"none", "active"}
    /\ UNCHANGED <<op, ctx, global, pair, fds, static, fate>>

(* The pipe takes the message or gives the one it has, and is released.    *)
MTransfers ==
    /\ op # "bind" /\ Main("try", "leave")
    /\ Take(Dir)
    /\ UNCHANGED <<op, ctx, global, fds, ep, static, fate>>

MFindsNothing ==
    /\ op # "bind" /\ ~ready[Dir] /\ Main("try", "again")
    /\ UNCHANGED <<op, ctx, global, pair, fds, ep, static, fate>>

(* The events the transfer raised are handled on leaving: it may be done   *)
(* already, or have found that the peer is gone.                           *)
MEvent ==
    /\ op # "bind" /\ Main("leave", "leave")
    /\ Offer(Dir) \/ Rm
    /\ UNCHANGED <<op, ctx, global, fds, ep, static, fate>>

MLeave ==
    /\ \/ Main("leave", "rele")
       \/ Main("again", "poll")
    /\ OnLeave
    /\ UNCHANGED <<op, global, pair, ep, static>>

(* nn_efd_wait, and, in the context again, the second look at the eventfd. *)
MPoll ==
    /\ efd[Dir] /\ Main("poll", "reenter")
    /\ UNCHANGED <<op, ctx, global, pair, fds, ep, static, fate>>

(* One that trusts the poll it made outside of the context.                *)
MCheckTrustsPoll ==
    /\ Main("check", "try")
    /\ flag' = [flag EXCEPT ![Dir] = TRUE]
    /\ UNCHANGED <<op, ctx, global, pair, efd, ep, static, fate>>

MCheck ==
    /\ Main("check", "try")
    /\ flag' = [flag EXCEPT ![Dir] = @ \/ efd[Dir]]
    /\ UNCHANGED <<op, ctx, global, pair, efd, ep, static, fate>>

(* main: bind is assigned, then outMessage is allocated.                   *)
MAssignsBind ==
    /\ op = "bind" /\ Main("user", "outbuf")
    /\ bound' = (ep = "active")
    /\ UNCHANGED <<op, ctx, global, pair, fds, ep, out, fate>>

MAssignsOut ==
    /\ Main("outbuf", "hold")
    /\ out' = "allocated" /\ op' = "recv"
    /\ UNCHANGED <<ctx, global, pair, fds, ep, bound, fate>>

(* The loop: what was received may need no reply.                          *)
MNextCall ==
    /\ op # "bind" /\ Main("user", "hold")
    /\ op' \in IF op = "recv" THEN {"send", "recv"} ELSE {"recv"}
    /\ UNCHANGED <<ctx, global, pair, fds, ep, static, fate>>

(* main's thread is in malloc or free: for nanomsg's structures and        *)
(* messages, or for main's buffer and files.                               *)
MAllocates ==
    /\ fate = "running" /\ depth = 0
    /\ pc \in {"inSocket", "enter", "try", "leave", "rele", "user", "outbuf"}
    /\ heap' = IF heap = "free" THEN "main" ELSE "free"
    /\ UNCHANGED <<call, ctx, global, pair, fds, ep, static, handler, fate>>

-----------------------------------------------------------------------------
(* The worker thread: it blocks every signal.                              *)

Worker == fate = "running" /\ UNCHANGED <<call, global, heap, static, handler>>

WEnter ==
    /\ Worker /\ ctx = "free" /\ ep # "none"
    /\ ctx' = "worker"
    /\ UNCHANGED <<pair, fds, ep, fate>>

WEvent ==
    /\ Worker /\ ctx = "worker"
    /\ \/ ep # "stopped" /\ \E p \in Peers : Add(p)
       \/ \E d \in Dirs : Offer(d)
       \/ Rm
    /\ UNCHANGED <<ctx, fds, ep, fate>>

(* One that does not tell main's thread.                                   *)
WLeaveSilently ==
    /\ Worker /\ ctx = "worker"
    /\ ctx' = "free"
    /\ UNCHANGED <<pair, fds, ep, fate>>

(* The rest of what nn_shutdown began: the accept that waits is cancelled  *)
(* and the file unlinked; the connections are stopped.                     *)
WStops ==
    /\ Worker /\ ctx = "worker"
    /\ \/ ep = "stopping" /\ ep' = "unlinked"
       \/ ep = "unlinked" /\ peer = NoPeer /\ ep' = "stopped"
    /\ UNCHANGED <<ctx, pair, fds, fate>>

WLeave ==
    /\ Worker /\ ctx = "worker"
    /\ OnLeave
    /\ UNCHANGED <<pair, ep>>

-----------------------------------------------------------------------------
(* handleQuit, in main's thread.                                           *)

(* One that also comes while its own handler runs.                         *)
SignalNotBlocked ==
    /\ fate = "running" /\ depth <= MaxSignals
    /\ depth' = depth + 1 /\ hpc' = "free"
    /\ UNCHANGED <<call, locks, pair, fds, ep, static, fate>>

Signal ==
    /\ fate = "running" /\ depth < MaxSignals
    /\ depth' = depth + 1 /\ hpc' = "free"
    /\ UNCHANGED <<call, locks, pair, fds, ep, static, fate>>

H(from, to) ==
    /\ fate = "running"
    /\ hpc = from /\ hpc' = to
    /\ UNCHANGED <<call, pair, bound, depth>>

(* A step that cannot go on.                                               *)
HFails(from, how) ==
    /\ H(from, from)
    /\ fate' = how
    /\ UNCHANGED <<locks, fds, ep, out>>

HFree ==
    \/ /\ out = "null" /\ H("free", "global")
       /\ UNCHANGED <<locks, fds, ep, out, fate>>
    \/ /\ out # "null" /\ heap = "free" /\ H("free", "freeing")
       /\ heap' = "handler"
       /\ UNCHANGED <<ctx, global, fds, ep, out, fate>>
    \/ /\ out # "null" /\ heap # "free"
       /\ HFails("free", "hung")

(* What is freed twice is noticed, or not.                                 *)
HFreed ==
    \/ /\ H("freeing", "global")
       /\ heap' = "free" /\ out' = "freed"
       /\ UNCHANGED <<ctx, global, fds, ep, fate>>
    \/ /\ out = "freed"
       /\ HFails("freeing", "aborted")

(* nn_shutdown holds the socket, when there is one.                        *)
HTakesGlobal ==
    IF global = "main"
    THEN \E at \in {"global", "rele"} : HFails(at, "aborted")
    ELSE /\ H("global", "hold") \/ H("rele", "released")
         /\ global' = "main"
         /\ UNCHANGED <<ctx, heap, fds, ep, out, fate>>

(* A hold that is refused while another call holds the socket.             *)
HGivesGlobalRefused ==
    /\ \/ H("hold", IF pc = "poll" THEN "exit" ELSE "enter")
       \/ H("released", "exit")
    /\ global' = "free"
    /\ UNCHANGED <<ctx, heap, fds, ep, out, fate>>

HGivesGlobal ==
    /\ \/ H("hold", IF pc = "start" THEN "exit" ELSE "enter")
       \/ H("released", "exit")
    /\ global' = "free"
    /\ UNCHANGED <<ctx, heap, fds, ep, out, fate>>

(* With a mutex that does not know its owner.                              *)
HEnterWaits ==
    /\ ctx = "free" /\ H("enter", "rm")
    /\ ctx' = "main"
    /\ UNCHANGED <<global, heap, fds, ep, out, fate>>

HEnter ==
    \/ /\ ctx = "main" /\ HFails("enter", "aborted")
    \/ /\ ctx = "free" /\ H("enter", "rm")
       /\ ctx' = "main"
       /\ UNCHANGED <<global, heap, fds, ep, out, fate>>

(* nn_sock_rm_ep: an id that is not, or not yet, an endpoint's is refused. *)
HRemoves ==
    /\ H("rm", "leave")
    /\ ep' = IF bound /\ ep = "active" THEN "stopping" ELSE ep
    /\ UNCHANGED <<locks, fds, out, fate>>

HLeave ==
    /\ H("leave", "rele")
    /\ OnLeave
    /\ UNCHANGED <<global, heap, ep, out>>

(* The process is gone whatever the worker has still to do.                *)
HExit == HFails("exit", "exited")

-----------------------------------------------------------------------------
MainStep ==
    \/ MTakesGlobal \/ MGivesGlobal \/ MEnter \/ MBind
    \/ MTransfers \/ MFindsNothing \/ MEvent \/ MLeave \/ MPoll \/ MCheck
    \/ MAssignsBind \/ MAssignsOut \/ MNextCall

HandlerStep ==
    \/ HFree \/ HFreed \/ HTakesGlobal \/ HGivesGlobal \/ HEnter
    \/ HRemoves \/ HLeave \/ HExit

Next ==
    \/ MainStep \/ MAllocates
    \/ WEnter \/ WEvent \/ WStops \/ WLeave
    \/ Signal \/ HandlerStep

Spec == Init /\ [][Next]_vars

(* Both threads run, main's thread is not in malloc and free for ever, and *)
(* a thread that waits for the context gets it some time though the other  *)
(* takes it again and again.                                               *)
Fairness ==
    /\ SF_vars(MainStep) /\ WF_vars(MAllocates /\ heap = "main")
    /\ SF_vars(HandlerStep) /\ WF_vars(WLeave)

FairSpec == Spec /\ Fairness

-----------------------------------------------------------------------------
(* Properties.                                                             *)

(* Every variable of main's thread, the worker and the handlers, of the    *)
(* locks, the eventfds and the endpoint has a value of its type; no more   *)
(* handlers are nested than there are signals.                             *)
TypeOK ==
    /\ pc \in {"start", "inSocket", "hold", "held", "enter", "try", "leave",
               "again", "poll", "reenter", "check", "rele", "released",
               "user", "outbuf"}
    /\ op \in {"bind", "recv", "send"}
    /\ ctx \in {"free", "main", "worker"}
    /\ global \in {"free", "main"} /\ heap \in {"free", "main", "handler"}
    /\ peer \in Peers \cup {NoPeer}
    /\ ready \in [Dirs -> BOOLEAN]
    /\ flag \in [Dirs -> BOOLEAN] /\ efd \in [Dirs -> BOOLEAN]
    /\ ep \in {"none", "active", "stopping", "unlinked", "stopped"}
    /\ bound \in BOOLEAN
    /\ out \in {"null", "allocated", "freed"}
    /\ hpc \in {"none", "free", "freeing", "global", "hold", "enter", "rm",
                "leave", "rele", "released", "exit"}
    /\ depth \in 0 .. MaxSignals
    /\ fate \in {"running", "exited", "aborted", "hung"}

(* Whenever no thread is in the context, the eventfds and the socket's     *)
(* flags say what the pair socket can do (sock.c:766, sock.c:631): main    *)
(* looks at an eventfd after it left the context, the worker changes it    *)
(* in between, and main sets the flag again in the context.                *)
ReadyIsSignalled ==
    ctx = "free" /\ fate # "aborted" => flag = ready /\ efd = ready

(* handleQuit (main.c:28) cannot end the program only when the signal came *)
(* while main's thread was inside the global mutex, the context or the     *)
(* heap, or when it was itself interrupted by another signal: a signal     *)
(* that finds getd waiting for a message, where it is nearly all the time, *)
(* or for the context ends it with exit(0).                                *)
Inside ==
    \/ pc \in {"inSocket", "held", "released"}
    \/ pc \in {"try", "check", "leave", "again"}
    \/ heap = "main"

FailsOnlyInside ==
    fate \in {"aborted", "hung"} => depth > 0 /\ (Inside \/ depth > 1)

(* Once main has the endpoint's id, the program does not exit without      *)
(* having asked the endpoint to stop (main.c:31): a hold main's own call   *)
(* has on the socket is not in the way.                                    *)
ExitEndsConnection == fate = "exited" /\ bound => ep # "active"

(* A call of nn_recv or nn_send that waits ends once there is something to *)
(* receive or the peer can be sent to, unless that peer goes away again    *)
(* (sock.c:632, sock.c:724): the eventfd is not missed.                    *)
BlockedCallReturns ==
    pc = "poll" /\ ready[Dir] ~> pc = "rele" \/ ~ready[Dir] \/ depth > 0

(* After a signal the program ends: by exit, or by the failed assertion or *)
(* the deadlock of FailsOnlyInside (main.c:28-33).                         *)
QuitEnds == depth > 0 ~> fate # "running"
=============================================================================
