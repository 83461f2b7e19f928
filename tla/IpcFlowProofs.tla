---------------------------- MODULE IpcFlowProofs ----------------------------
(***************************************************************************)
(* Theorems of IpcConn about a connection in use, for every number of      *)
(* connections: neither direction of it is forgotten, and, if peers stay   *)
(* until headers were exchanged, it is in use on an open socket only.      *)
(***************************************************************************)
EXTENDS IpcConnProofs

(* An event of c is queued.                                                *)
Has(s, c, src, type) == \E e \in s : e.c = c /\ e.src = src /\ e.type = type

UsockTask(c, task) == [fsm |-> "usock", task |-> task, c |-> c]

(* What is under way of a message from the peer,                           *)
InFlow(c, r, x, s, k) ==
    \/ x.inpipe = c \/ r.in
    \/ UsockTask(c, "RECV") \in k
    \/ Has(s, c, "usock", "RECEIVED") \/ Has(s, c, "pipe", "IN")

(* and of one to it.                                                       *)
OutFlow(c, r, x, s, k) ==
    \/ x.outpipe = c \/ r.out
    \/ UsockTask(c, "SEND") \in k
    \/ Has(s, c, "usock", "SENT") \/ Has(s, c, "pipe", "OUT")

(* usock told machine to that it is no longer of use.                      *)
Told(s, c, to) ==
    \E e \in s : /\ e.c = c /\ e.to = to /\ e.src = "usock"
                 /\ e.type \in {"SHUTDOWN", "ERROR"}

(* What an event of the connection says of it.                             *)
NewsInv(c, r, s) ==
    \A e \in s : e.c = c =>
        /\ e.to = "bipc" => e.src \in {"aipc", "listener"}
        /\ e.src = "streamhdr" =>
              /\ r.aipc # "ACCEPTING"
              /\ IF e.type = "STOPPED" THEN r.streamhdr = "IDLE"
                 ELSE r.sipc = "PROTOHDR" => r.owner = "sipc"
        /\ e.src = "usock" /\ e.type = "ACCEPTED" /\ r.aipc = "ACCEPTING"
              => LeavesEarly \/ r.peer = "open"

(* A connection in use, with its tasks k: streamhdr is done with, and      *)
(* something is under way in each direction.                               *)
FlowInv(c, r, x, s, k) ==
    r.sipc = "ACTIVE" =>
        /\ r.streamhdr = "IDLE"
        /\ r.usock = "ACTIVE" => /\ InFlow(c, r, x, s, k)
                                 /\ OutFlow(c, r, x, s, k)

(* sipc has the socket, and it is open or sipc is told.                    *)
OpenInv(c, r, s) ==
    /\ r.sipc \in {"STOPPING_STREAMHDR", "ACTIVE"} => r.owner = "sipc"
    /\ ~LeavesEarly =>
          /\ r.sipc \in {"PROTOHDR", "STOPPING_STREAMHDR"}
                => r.usock = "ACTIVE" /\ r.peer = "open"
          /\ r.sipc = "ACTIVE" => r.usock = "ACTIVE" \/ Told(s, c, "sipc")

UseInv(c, r, x, s, k) ==
    /\ NewsInv(c, r, s)
    /\ FlowInv(c, r, x, s, k)
    /\ OpenInv(c, r, s)

(* The tasks the worker has, taken or not.                                 *)
Pending == ToSet(tasks) \cup ToSet(batch)

UsesInv ==
    \A c \in Conn : UseInv(c, conn[c], excl, ToSet(events), Pending)

-----------------------------------------------------------------------------
(* An operation on connection w.c, from world w to world v, takes nothing  *)
(* out of a queue, keeps what is polled, and gives up excl's pipe at most. *)

(* An event that it may add: of streamhdr, only its end.                   *)
News(e, w, v) ==
    /\ e.c = w.c
    /\ e.to = "bipc" => e.src = "aipc"
    /\ e.src = "usock" => e.type # "ACCEPTED"
    /\ e.src = "streamhdr" => /\ e.type = "STOPPED"
                              /\ w.r.streamhdr # "IDLE"
                              /\ v.r.streamhdr = "IDLE"

Flows(w, v) ==
    /\ v \in Worlds /\ v.c = w.c
    /\ ToSet(w.tasks) \subseteq ToSet(v.tasks)
    /\ ToSet(w.events) \subseteq ToSet(v.events)
    /\ \A e \in ToSet(v.events) : e \in ToSet(w.events) \/ News(e, w, v)
    /\ w.r.streamhdr = "IDLE" => v.r.streamhdr = "IDLE"
    /\ v.r.in = w.r.in /\ v.r.out = w.r.out /\ v.r.peer = w.r.peer
    /\ v.r.pipe = "ACTIVE" => w.r.pipe = "ACTIVE"
    /\ v.excl = w.excl \/ w.r.pipe = "ACTIVE"

(* One below sipc, which does not take usock over.                         *)
Within(w, v) ==
    /\ Flows(w, v)
    /\ v.excl = w.excl
    /\ v.r.aipc = w.r.aipc /\ v.r.sipc = w.r.sipc
    /\ v.r.owner = w.r.owner

(* Nothing is done,                                                        *)
LEMMA FlowsSame == ASSUME NEW w \in Worlds PROVE Within(w, w)
BY DEF Within, Flows

(* or two things,                                                          *)
LEMMA FlowsTrans ==
    ASSUME NEW w, NEW v, NEW u, Flows(w, v), Flows(v, u)
    PROVE  Flows(w, u)
<1>1. ASSUME NEW e \in ToSet(u.events)
      PROVE  e \in ToSet(w.events) \/ News(e, w, u)
  <2>1. CASE e \in ToSet(v.events)
    BY <2>1 DEF Flows, News
  <2>2. CASE News(e, v, u)
    BY <2>2 DEF Flows, News
  <2> QED BY <2>1, <2>2 DEF Flows
<1> QED BY <1>1 DEF Flows

(* below sipc.                                                             *)
LEMMA WithinTrans ==
    ASSUME NEW w, NEW v, NEW u, Within(w, v), Within(v, u)
    PROVE  Within(w, u)
BY FlowsTrans DEF Within

(* An event of another machine than streamhdr is raised.                   *)
LEMMA RaiseFlows ==
    ASSUME NEW w \in Worlds, NEW to \in Machines,
           NEW src \in {"usock", "timer", "sipc", "pipe", "aipc"},
           NEW type \in {"SENT", "RECEIVED", "SHUTDOWN", "ERROR", "STOPPED",
                         "TIMEOUT", "IN", "OUT", "ACCEPTED"},
           to = "bipc" => src = "aipc", src = "usock" => type # "ACCEPTED"
    PROVE  LET v == Raise(w, to, src, type)
           IN  /\ Within(w, v) /\ v.r = w.r /\ v.tasks = w.tasks
               /\ [to |-> to, src |-> src, type |-> type, c |-> w.c]
                     \in ToSet(v.events)
<1> DEFINE v == Raise(w, to, src, type)
           e == [to |-> to, src |-> src, type |-> type, c |-> w.c]
<1>1. e \in Events /\ News(e, w, v)
  BY DEF Events, Worlds, News
<1>2. /\ v \in Worlds /\ v.c = w.c /\ v.r = w.r /\ v.excl = w.excl
      /\ v.tasks = w.tasks /\ ToSet(v.events) = ToSet(w.events) \cup {e}
  BY <1>1, RaiseEffect
<1> HIDE DEF v, e
<1> QED BY <1>1, <1>2 DEF Within, Flows, v, e

(* A task is handed to the worker,                                         *)
LEMMA ExecuteFlows ==
    ASSUME NEW w \in Worlds, NEW fsm \in {"usock", "timer"},
           NEW task \in {"SEND", "RECV", "STOP", "START"}
    PROVE  LET v == Execute(w, fsm, task)
           IN  /\ Within(w, v) /\ v.r = w.r /\ v.events = w.events
               /\ [fsm |-> fsm, task |-> task, c |-> w.c] \in ToSet(v.tasks)
<1> DEFINE v == Execute(w, fsm, task)
           t == [fsm |-> fsm, task |-> task, c |-> w.c]
<1>1. Adds(w, v) /\ v.r = w.r /\ v.excl = w.excl /\ v.events = w.events
  BY ExecuteAdds
<1>2. t \in Tasks /\ w.tasks \in Seq(Tasks)
  BY DEF Tasks, Worlds
<1>3. v.tasks = Append(w.tasks, t)
  BY DEF Execute, Worlds
<1> HIDE DEF v, t
<1>4. ToSet(v.tasks) = ToSet(w.tasks) \cup {t}
  BY <1>2, <1>3, AppendSet
<1> QED BY <1>1, <1>4 DEF Within, Flows, Adds, v, t

(* or one of the listener.                                                 *)
LEMMA ListenerTaskFlows ==
    ASSUME NEW w \in Worlds, NEW task \in {"ACCEPT", "STOP"}
    PROVE  LET v == ListenerTask(w, task)
           IN  Within(w, v) /\ v.r = w.r /\ v.events = w.events
<1> DEFINE v == ListenerTask(w, task)
           t == [fsm |-> "listener", task |-> task, c |-> None]
<1>1. Adds(w, v) /\ v.r = w.r /\ v.excl = w.excl /\ v.events = w.events
  BY ListenerTaskAdds
<1>2. t \in Tasks /\ w.tasks \in Seq(Tasks)
  BY DEF Tasks, Worlds
<1>3. v.tasks = Append(w.tasks, t)
  BY DEF ListenerTask, Worlds
<1> HIDE DEF v, t
<1>4. ToSet(v.tasks) = ToSet(w.tasks) \cup {t}
  BY <1>2, <1>3, AppendSet
<1> QED BY <1>1, <1>4 DEF Within, Flows, Adds, v

(* The record of the connection is set.                                    *)
LEMMA SetFlows ==
    ASSUME NEW w \in Worlds, NEW u \in Record,
           w.r.streamhdr = "IDLE" => u.streamhdr = "IDLE",
           u.in = w.r.in, u.out = w.r.out, u.peer = w.r.peer,
           u.pipe = "ACTIVE" => w.r.pipe = "ACTIVE"
    PROVE  LET v == [w EXCEPT !.r = u]
           IN  /\ Flows(w, v) /\ v.r = u /\ v.excl = w.excl
               /\ v.events = w.events /\ v.tasks = w.tasks
<1> DEFINE v == [w EXCEPT !.r = u]
<1>1. /\ v \in Worlds /\ v.c = w.c /\ v.r = u /\ v.excl = w.excl
      /\ v.events = w.events /\ v.tasks = w.tasks
  BY DEF Worlds
<1> HIDE DEF v
<1> QED BY <1>1 DEF Flows, v

-----------------------------------------------------------------------------
(* usock.                                                                  *)

(* usock tells its owner.                                                  *)
LEMMA RaiseUsockFlows ==
    ASSUME NEW w \in Worlds,
           NEW type \in {"SENT", "RECEIVED", "SHUTDOWN", "ERROR", "STOPPED"}
    PROVE  LET v == RaiseUsock(w, type)
           IN  /\ Within(w, v) /\ v.r = w.r /\ v.tasks = w.tasks
               /\ [to |-> w.r.owner, src |-> "usock", type |-> type,
                   c |-> w.c] \in ToSet(v.events)
<1>1. w.r.owner \in Machines /\ w.r.owner # "bipc"
  BY DEF Worlds, Record, Machines
<1>2. type \in {"SENT", "RECEIVED", "SHUTDOWN", "ERROR", "STOPPED",
                "TIMEOUT", "IN", "OUT", "ACCEPTED"} /\ type # "ACCEPTED"
  OBVIOUS
<1> QED BY <1>1, <1>2, RaiseFlows, ZenonT(30) DEF RaiseUsock

(* usock's state is set.                                                   *)
LEMMA UsockSetFlows ==
    ASSUME NEW w \in Worlds,
           NEW s \in {"IDLE", "BEING_ACCEPTED", "ACCEPTED", "ACTIVE",
                      "REMOVING_FD", "DONE", "STOPPING", "STOPPING_ACCEPT"}
    PROVE  LET v == [w EXCEPT !.r.usock = s]
           IN  /\ Within(w, v) /\ v.r.usock = s
               /\ v.r.streamhdr = w.r.streamhdr
               /\ v.events = w.events /\ v.tasks = w.tasks
<1> DEFINE u == [w.r EXCEPT !.usock = s]
           v == [w EXCEPT !.r = u]
<1>1. w.r \in Record /\ [w EXCEPT !.r.usock = s] = v
  BY DEF Worlds
<1>2. u \in Record /\ u.usock = s /\ u.streamhdr = w.r.streamhdr
      /\ u.in = w.r.in /\ u.out = w.r.out /\ u.peer = w.r.peer
      /\ u.pipe = w.r.pipe /\ u.aipc = w.r.aipc /\ u.sipc = w.r.sipc
      /\ u.owner = w.r.owner
  BY <1>1 DEF Record
<1> HIDE DEF u
<1>3. Flows(w, v) /\ v.r = u /\ v.excl = w.excl
      /\ v.events = w.events /\ v.tasks = w.tasks
  BY <1>2, SetFlows
<1> HIDE DEF v
<1> QED BY <1>1, <1>2, <1>3 DEF Within

(* usock asks for the worker's help to stop.                               *)
LEMMA AsyncStopFlows ==
    ASSUME NEW w \in Worlds
    PROVE  LET v == AsyncStop(w)
           IN  /\ Within(w, v) /\ v.r = w.r
               /\ Told(ToSet(v.events), w.c, w.r.owner)
<1> DEFINE o == Execute(w, "usock", "STOP")
           v == AsyncStop(w)
           e == [to |-> w.r.owner, src |-> "usock", type |-> "SHUTDOWN",
                 c |-> w.c]
<1>1. Within(w, o) /\ o.r = w.r /\ o \in Worlds /\ o.c = w.c
  BY ExecuteFlows, ZenonT(30) DEF Within, Flows
<1>2. v = RaiseUsock(o, "SHUTDOWN")
  BY DEF AsyncStop
<1> HIDE DEF o, v
<1>3. /\ Within(o, v) /\ v.r = o.r
      /\ [to |-> o.r.owner, src |-> "usock", type |-> "SHUTDOWN",
          c |-> o.c] \in ToSet(v.events)
  BY <1>1, <1>2, RaiseUsockFlows
<1>4. e \in ToSet(v.events)
  BY <1>1, <1>3
<1>5. Told(ToSet(v.events), w.c, w.r.owner)
  BY <1>4 DEF Told
<1> QED BY <1>1, <1>3, <1>5, WithinTrans DEF v

(* What an operation of usock leaves of it: a socket that is as good as    *)
(* before, or an owner that is told.                                       *)
UsockEnds(w, v) ==
    /\ Within(w, v) /\ v.r.streamhdr = w.r.streamhdr
    /\ v.r.usock # "ACTIVE"
    /\ w.r.usock = "ACTIVE" => Told(ToSet(v.events), w.c, w.r.owner)

(* usock meets an error.                                                   *)
LEMMA UsockFailsFlows ==
    ASSUME NEW w \in Worlds
    PROVE  UsockEnds(w, UsockFails(w))
<1>1. CASE w.r.usock = "ACTIVE"
  <2> DEFINE o == [w EXCEPT !.r.usock = "REMOVING_FD"]
             v == UsockFails(w)
  <2>1. Within(w, o) /\ o.r.usock = "REMOVING_FD"
        /\ o.r.streamhdr = w.r.streamhdr
    BY UsockSetFlows, Zenon
  <2>2. o \in Worlds /\ o.c = w.c /\ o.r.owner = w.r.owner
    BY <2>1 DEF Within, Flows
  <2>3. v = AsyncStop(o)
    BY <1>1 DEF UsockFails
  <2> HIDE DEF o, v
  <2>4. Within(o, v) /\ v.r = o.r /\ Told(ToSet(v.events), o.c, o.r.owner)
    BY <2>2, <2>3, AsyncStopFlows
  <2>5. Within(w, v)
    BY <2>1, <2>4, WithinTrans
  <2> QED BY <2>1, <2>2, <2>4, <2>5 DEF UsockEnds, v
<1>2. CASE w.r.usock # "ACTIVE"
  BY <1>2, FlowsSame DEF UsockFails, UsockEnds
<1> QED BY <1>1, <1>2

(* The descriptor is closed.                                               *)
LEMMA UsockDoneFlows ==
    ASSUME NEW w \in Worlds
    PROVE  UsockEnds(w, UsockDone(w))
<1> DEFINE o == [w EXCEPT !.r.usock = "DONE"]
           v == UsockDone(w)
           e == [to |-> w.r.owner, src |-> "usock", type |-> "ERROR",
                 c |-> w.c]
<1>1. Within(w, o) /\ o.r.usock = "DONE" /\ o.r.streamhdr = w.r.streamhdr
  BY UsockSetFlows, Zenon
<1>2. o \in Worlds /\ o.c = w.c /\ o.r.owner = w.r.owner
  BY <1>1 DEF Within, Flows
<1>3. v = RaiseUsock(o, "ERROR")
  BY DEF UsockDone
<1> HIDE DEF o, v
<1>4. /\ Within(o, v) /\ v.r = o.r
      /\ [to |-> o.r.owner, src |-> "usock", type |-> "ERROR",
          c |-> o.c] \in ToSet(v.events)
  BY <1>2, <1>3, RaiseUsockFlows
<1>5. e \in ToSet(v.events)
  BY <1>2, <1>4
<1>6. Told(ToSet(v.events), w.c, w.r.owner)
  BY <1>5 DEF Told
<1>7. Within(w, v)
  BY <1>1, <1>4, WithinTrans
<1> QED BY <1>1, <1>4, <1>6, <1>7 DEF UsockEnds, v

(* usock has stopped.                                                      *)
LEMMA UsockStoppedFlows ==
    ASSUME NEW w \in Worlds
    PROVE  Within(w, UsockStopped(w))
<1> DEFINE o == [w EXCEPT !.r.usock = "IDLE"]
<1>1. Within(w, o)
  BY UsockSetFlows, Zenon
<1>2. o \in Worlds
  BY <1>1 DEF Within, Flows
<1>3. UsockStopped(w) = RaiseUsock(o, "STOPPED")
  BY DEF UsockStopped
<1> HIDE DEF o
<1>4. Within(o, UsockStopped(w))
  BY <1>2, <1>3, RaiseUsockFlows
<1> QED BY <1>1, <1>4, WithinTrans

(* nn_usock_send: it is on its way, or the socket is of no more use.       *)
LEMMA UsockSendFlows ==
    ASSUME NEW w \in Worlds, NEW v \in UsockSend(w)
    PROVE  \/ /\ UsockEnds(w, v)
              /\ w.r.usock # "ACTIVE" \/ w.r.peer = "closed"
           \/ /\ Within(w, v) /\ v.r = w.r /\ w.r.usock = "ACTIVE"
              /\ \/ UsockTask(w.c, "SEND") \in ToSet(v.tasks)
                 \/ Has(ToSet(v.events), w.c, "usock", "SENT")
<1>1. CASE w.r.usock # "ACTIVE" \/ w.r.peer = "closed"
  BY <1>1, UsockFailsFlows DEF UsockSend
<1>2. CASE ~(w.r.usock # "ACTIVE" \/ w.r.peer = "closed")
  <2>1. CASE v = RaiseUsock(w, "SENT")
    <3> DEFINE e == [to |-> w.r.owner, src |-> "usock", type |-> "SENT",
                     c |-> w.c]
    <3>1. Within(w, v) /\ v.r = w.r /\ e \in ToSet(v.events)
      BY <2>1, RaiseUsockFlows
    <3>2. Has(ToSet(v.events), w.c, "usock", "SENT")
      BY <3>1 DEF Has
    <3> QED BY <1>2, <3>1, <3>2
  <2>2. CASE v = Execute(w, "usock", "SEND")
    BY <1>2, <2>2, ExecuteFlows DEF UsockTask
  <2> QED BY <1>2, <2>1, <2>2 DEF UsockSend
<1> QED BY <1>1, <1>2

(* nn_usock_recv.                                                          *)
LEMMA UsockRecvFlows ==
    ASSUME NEW w \in Worlds
    PROVE  LET v == UsockRecv(w)
           IN  \/ /\ UsockEnds(w, v)
                  /\ w.r.usock # "ACTIVE" \/ w.r.peer = "closed"
               \/ /\ Within(w, v) /\ v.r.streamhdr = w.r.streamhdr
                  /\ w.r.usock = "ACTIVE" /\ v.r.usock = "ACTIVE"
                  /\ \/ UsockTask(w.c, "RECV") \in ToSet(v.tasks)
                     \/ Has(ToSet(v.events), w.c, "usock", "RECEIVED")
<1> DEFINE v == UsockRecv(w)
<1>1. CASE w.r.usock = "ACTIVE" /\ w.r.unread > 0
  <2> DEFINE u == [w.r EXCEPT !.unread = @ - 1]
             o == [w EXCEPT !.r = u]
             e == [to |-> w.r.owner, src |-> "usock", type |-> "RECEIVED",
                   c |-> w.c]
  <2>1. w.r \in Record /\ w.r.unread - 1 \in 0..MaxUnread
    BY <1>1, BoundsAssumption DEF Worlds, Record
  <2>2. u \in Record /\ u.usock = w.r.usock /\ u.streamhdr = w.r.streamhdr
        /\ u.in = w.r.in /\ u.out = w.r.out /\ u.peer = w.r.peer
        /\ u.pipe = w.r.pipe /\ u.aipc = w.r.aipc /\ u.sipc = w.r.sipc
        /\ u.owner = w.r.owner
    BY <2>1 DEF Record
  <2>3. v = RaiseUsock(o, "RECEIVED")
    BY <1>1, <2>1 DEF UsockRecv, Worlds
  <2> HIDE DEF u, v
  <2>4. Flows(w, o) /\ o.r = u /\ o.excl = w.excl
    BY <2>2, SetFlows
  <2> HIDE DEF o
  <2>5. Within(w, o) /\ o \in Worlds /\ o.c = w.c
    BY <2>2, <2>4 DEF Within, Flows
  <2>6. /\ Within(o, v) /\ v.r = o.r
        /\ [to |-> o.r.owner, src |-> "usock", type |-> "RECEIVED",
            c |-> o.c] \in ToSet(v.events)
    BY <2>3, <2>5, RaiseUsockFlows
  <2>7. e \in ToSet(v.events)
    BY <2>2, <2>4, <2>5, <2>6
  <2>8. Has(ToSet(v.events), w.c, "usock", "RECEIVED")
    BY <2>7 DEF Has
  <2>9. Within(w, v)
    BY <2>5, <2>6, WithinTrans
  <2> QED BY <1>1, <2>2, <2>4, <2>6, <2>8, <2>9 DEF v
<1>2. CASE /\ ~(w.r.usock = "ACTIVE" /\ w.r.unread > 0)
           /\ w.r.usock # "ACTIVE" \/ w.r.peer = "closed"
  BY <1>2, UsockFailsFlows DEF UsockRecv
<1>3. CASE /\ ~(w.r.usock = "ACTIVE" /\ w.r.unread > 0)
           /\ ~(w.r.usock # "ACTIVE" \/ w.r.peer = "closed")
  <2>1. v = Execute(w, "usock", "RECV")
    BY <1>3 DEF UsockRecv
  <2> HIDE DEF v
  <2>2. Within(w, v) /\ v.r = w.r
        /\ UsockTask(w.c, "RECV") \in ToSet(v.tasks)
    BY <2>1, ExecuteFlows DEF UsockTask
  <2> QED BY <1>3, <2>2 DEF v
<1> QED BY <1>1, <1>2, <1>3

(* nn_usock_stop.                                                          *)
LEMMA UsockStopFlows ==
    ASSUME NEW w \in Worlds
    PROVE  Within(w, UsockStop(w))
<1> DEFINE v == UsockStop(w)
<1>1. CASE w.r.usock = "DONE"
  BY <1>1, UsockStoppedFlows DEF UsockStop
<1>2. CASE w.r.usock = "BEING_ACCEPTED"
  <2> DEFINE o == [w EXCEPT !.r.usock = "STOPPING_ACCEPT"]
             l == [w.listener EXCEPT !.state = "CANCELLING"]
             p == [o EXCEPT !.listener = l]
  <2>1. Within(w, o)
    BY UsockSetFlows
  <2>2. o \in Worlds /\ o.listener = w.listener
    <3>1. o.listener = w.listener
      BY DEF Worlds
    <3> QED BY <2>1, <3>1 DEF Within, Flows
  <2>3. l \in Listeners
    BY DEF Worlds, Listeners
  <2>4. v = ListenerTask(p, "STOP")
    BY <1>2 DEF UsockStop, Worlds
  <2> HIDE DEF o, l
  <2>5. /\ p \in Worlds /\ p.c = o.c /\ p.r = o.r /\ p.excl = o.excl
        /\ p.events = o.events /\ p.tasks = o.tasks
    BY <2>2, <2>3 DEF Worlds
  <2> HIDE DEF p, v
  <2>6. Within(o, p)
    BY <2>5 DEF Within, Flows
  <2>7. Within(p, v)
    BY <2>4, <2>5, ListenerTaskFlows
  <2> QED BY <2>1, <2>6, <2>7, WithinTrans DEF v
<1>3. CASE w.r.usock = "ACTIVE"
  <2> DEFINE o == [w EXCEPT !.r.usock = "STOPPING"]
  <2>1. Within(w, o)
    BY UsockSetFlows, Zenon
  <2>2. o \in Worlds
    BY <2>1 DEF Within, Flows
  <2>3. v = AsyncStop(o)
    BY <1>3 DEF UsockStop
  <2> HIDE DEF o, v
  <2>4. Within(o, v)
    BY <2>2, <2>3, AsyncStopFlows
  <2> QED BY <2>1, <2>4, WithinTrans DEF v
<1>4. CASE w.r.usock = "REMOVING_FD"
  BY <1>4, UsockSetFlows, Zenon DEF UsockStop
<1>5. CASE w.r.usock \notin {"DONE", "BEING_ACCEPTED", "ACTIVE",
                             "REMOVING_FD"}
  BY <1>5, FlowsSame DEF UsockStop
<1> QED BY <1>1, <1>2, <1>3, <1>4, <1>5

-----------------------------------------------------------------------------
(* timer, streamhdr.                                                       *)

(* They do not touch usock.                                                *)
Inside(w, v) == Within(w, v) /\ v.r.usock = w.r.usock

(* Two operations of these, one after the other.                           *)
LEMMA InsideTrans ==
    ASSUME NEW w, NEW v, NEW u, Inside(w, v), Inside(v, u)
    PROVE  Inside(w, u)
BY WithinTrans DEF Inside

(* The timer's state is set.                                               *)
LEMMA TimerSetFlows ==
    ASSUME NEW w \in Worlds, NEW s \in {"IDLE", "ACTIVE", "STOPPING"}
    PROVE  LET v == [w EXCEPT !.r.timer = s]
           IN  Inside(w, v) /\ v.r.streamhdr = w.r.streamhdr
<1> DEFINE u == [w.r EXCEPT !.timer = s]
           v == [w EXCEPT !.r = u]
<1>1. w.r \in Record /\ [w EXCEPT !.r.timer = s] = v
  BY DEF Worlds
<1>2. u \in Record /\ u.usock = w.r.usock /\ u.streamhdr = w.r.streamhdr
      /\ u.in = w.r.in /\ u.out = w.r.out /\ u.peer = w.r.peer
      /\ u.pipe = w.r.pipe /\ u.aipc = w.r.aipc /\ u.sipc = w.r.sipc
      /\ u.owner = w.r.owner
  BY <1>1 DEF Record
<1> HIDE DEF u
<1>3. Flows(w, v) /\ v.r = u /\ v.excl = w.excl
  BY <1>2, SetFlows
<1> HIDE DEF v
<1> QED BY <1>1, <1>2, <1>3 DEF Within, Inside

(* streamhdr's state is set; it does not start.                            *)
LEMMA StreamhdrSetFlows ==
    ASSUME NEW w \in Worlds, w.r.streamhdr # "IDLE",
           NEW s \in {"IDLE", "SENDING", "RECEIVING", "DONE", "STOPPING",
                      "STOPPING_TIMER_ERROR", "STOPPING_TIMER_DONE"}
    PROVE  LET v == [w EXCEPT !.r.streamhdr = s]
           IN  /\ Inside(w, v) /\ v.r.streamhdr = s /\ v.events = w.events
               /\ v.tasks = w.tasks
<1> DEFINE u == [w.r EXCEPT !.streamhdr = s]
           v == [w EXCEPT !.r = u]
<1>1. w.r \in Record /\ [w EXCEPT !.r.streamhdr = s] = v
  BY DEF Worlds
<1>2. u \in Record /\ u.usock = w.r.usock /\ u.streamhdr = s
      /\ u.in = w.r.in /\ u.out = w.r.out /\ u.peer = w.r.peer
      /\ u.pipe = w.r.pipe /\ u.aipc = w.r.aipc /\ u.sipc = w.r.sipc
      /\ u.owner = w.r.owner
  BY <1>1 DEF Record
<1> HIDE DEF u
<1>3. Flows(w, v) /\ v.r = u /\ v.excl = w.excl /\ v.events = w.events
      /\ v.tasks = w.tasks
  BY <1>2, SetFlows
<1> HIDE DEF v
<1> QED BY <1>1, <1>2, <1>3 DEF Within, Inside

(* The timer is told to start,                                             *)
LEMMA TimerStartFlows ==
    ASSUME NEW w \in Worlds
    PROVE  /\ Inside(w, TimerStart(w))
           /\ TimerStart(w).r.streamhdr = w.r.streamhdr
<1> DEFINE o == [w EXCEPT !.r.timer = "ACTIVE"]
<1>1. Inside(w, o) /\ o.r.streamhdr = w.r.streamhdr
  BY TimerSetFlows
<1>2. o \in Worlds
  BY <1>1 DEF Inside, Within, Flows
<1>3. TimerStart(w) = Execute(o, "timer", "START")
  BY DEF TimerStart
<1> HIDE DEF o
<1>4. Within(o, TimerStart(w)) /\ TimerStart(w).r = o.r
  BY <1>2, <1>3, ExecuteFlows
<1> QED BY <1>1, <1>4, WithinTrans DEF Inside

(* or to stop.                                                             *)
LEMMA TimerStopFlows ==
    ASSUME NEW w \in Worlds
    PROVE  /\ Inside(w, TimerStop(w))
           /\ TimerStop(w).r.streamhdr = w.r.streamhdr
<1>1. CASE w.r.timer = "ACTIVE"
  <2> DEFINE o == [w EXCEPT !.r.timer = "STOPPING"]
  <2>1. Inside(w, o) /\ o.r.streamhdr = w.r.streamhdr
    BY TimerSetFlows
  <2>2. o \in Worlds
    BY <2>1 DEF Inside, Within, Flows
  <2>3. TimerStop(w) = Execute(o, "timer", "STOP")
    BY <1>1 DEF TimerStop
  <2> HIDE DEF o
  <2>4. Within(o, TimerStop(w)) /\ TimerStop(w).r = o.r
    BY <2>2, <2>3, ExecuteFlows, Zenon
  <2> QED BY <2>1, <2>4, WithinTrans DEF Inside
<1>2. CASE w.r.timer # "ACTIVE"
  BY <1>2, FlowsSame DEF TimerStop, Inside
<1> QED BY <1>1, <1>2

(* nn_streamhdr_shutdown in STOPPING.                                      *)
LEMMA StreamhdrStoppingFlows ==
    ASSUME NEW w \in Worlds, w.r.streamhdr # "IDLE"
    PROVE  Inside(w, StreamhdrStopping(w))
<1> DEFINE v == StreamhdrStopping(w)
<1>1. CASE Idle(w, "timer")
  <2> DEFINE o == [w EXCEPT !.r.streamhdr = "IDLE"]
             e == [to |-> "sipc", src |-> "streamhdr", type |-> "STOPPED",
                   c |-> w.c]
  <2>1. Inside(w, o) /\ o.r.streamhdr = "IDLE"
    BY StreamhdrSetFlows, Zenon
  <2>2. o \in Worlds /\ o.c = w.c
    BY <2>1 DEF Inside, Within, Flows
  <2>3. v = Raise(o, "sipc", "streamhdr", "STOPPED")
    BY <1>1 DEF StreamhdrStopping
  <2>4. e \in Events
    BY DEF Events, Machines, Worlds
  <2> HIDE DEF o, v
  <2>5. /\ v \in Worlds /\ v.c = o.c /\ v.r = o.r /\ v.excl = o.excl
        /\ v.tasks = o.tasks /\ ToSet(v.events) = ToSet(o.events) \cup {e}
    BY <2>2, <2>3, <2>4, RaiseEffect
  <2>6. News(e, w, v)
    BY <2>1, <2>5 DEF News
  <2> HIDE DEF e
  <2>7. \A f \in ToSet(v.events) : f \in ToSet(w.events) \/ News(f, w, v)
    BY <2>1, <2>5, <2>6 DEF Inside, Within, Flows, News
  <2> QED BY <2>1, <2>2, <2>5, <2>7 DEF Inside, Within, Flows, v
<1>2. CASE ~Idle(w, "timer")
  BY <1>2, FlowsSame DEF StreamhdrStopping, Inside
<1> QED BY <1>1, <1>2

(* nn_streamhdr_stop.                                                      *)
LEMMA StreamhdrStopFlows ==
    ASSUME NEW w \in Worlds
    PROVE  Inside(w, StreamhdrStop(w))
<1>1. CASE w.r.streamhdr \in {"IDLE", "STOPPING"}
  BY <1>1, FlowsSame DEF StreamhdrStop, Inside
<1>2. CASE w.r.streamhdr \notin {"IDLE", "STOPPING"}
  <2> DEFINE o == TimerStop(w)
             p == [o EXCEPT !.r.streamhdr = "STOPPING"]
             v == StreamhdrStop(w)
  <2>1. Inside(w, o) /\ o.r.streamhdr = w.r.streamhdr
    BY TimerStopFlows
  <2>2. v = StreamhdrStopping(p)
    BY <1>2 DEF StreamhdrStop
  <2> HIDE DEF o, v
  <2>3. o \in Worlds /\ o.r.streamhdr # "IDLE"
    BY <1>2, <2>1 DEF Inside, Within, Flows
  <2>4. Inside(o, p) /\ p.r.streamhdr = "STOPPING"
    BY <2>3, StreamhdrSetFlows, Zenon
  <2>5. p \in Worlds
    BY <2>4 DEF Inside, Within, Flows
  <2> HIDE DEF p
  <2>6. Inside(p, v)
    BY <2>2, <2>4, <2>5, StreamhdrStoppingFlows
  <2> QED BY <2>1, <2>4, <2>6, InsideTrans DEF v
<1> QED BY <1>1, <1>2

-----------------------------------------------------------------------------
(* pipe, sipc, aipc.                                                       *)

(* nn_pipebase_stop.                                                       *)
LEMMA PipeStopFlows ==
    ASSUME NEW w \in Worlds
    PROVE  LET v == PipeStop(w)
           IN  Flows(w, v) /\ v.r.aipc = w.r.aipc /\ v.r.sipc = w.r.sipc
<1> DEFINE u == [w.r EXCEPT !.pipe = "IDLE"]
           x == IF w.r.pipe = "ACTIVE" THEN NoPipes ELSE w.excl
           o == [w EXCEPT !.r = u]
           v == PipeStop(w)
<1>1. w.r \in Record /\ w.excl \in Excls
  BY DEF Worlds
<1>2. u \in Record /\ u.pipe = "IDLE" /\ u.streamhdr = w.r.streamhdr
      /\ u.in = w.r.in /\ u.out = w.r.out /\ u.peer = w.r.peer
      /\ u.aipc = w.r.aipc /\ u.sipc = w.r.sipc
  BY <1>1 DEF Record
<1>3. x \in Excls /\ (x = w.excl \/ w.r.pipe = "ACTIVE")
  BY <1>1, NoPipesExcl
<1>4. v = [o EXCEPT !.excl = x]
  BY <1>1 DEF PipeStop, Worlds
<1> HIDE DEF u, x, v
<1>5. Flows(w, o) /\ o.r = u
  BY <1>2, SetFlows
<1>6. o \in Worlds
  BY <1>5 DEF Flows
<1> HIDE DEF o
<1>7. /\ v \in Worlds /\ v.c = o.c /\ v.r = o.r /\ v.excl = x
      /\ v.events = o.events /\ v.tasks = o.tasks
  BY <1>3, <1>4, <1>6 DEF Worlds
<1> QED BY <1>2, <1>3, <1>5, <1>7 DEF Flows, News, v

(* sipc's state is set,                                                    *)
LEMMA SipcSetFlows ==
    ASSUME NEW w \in Worlds,
           NEW s \in {"IDLE", "PROTOHDR", "STOPPING_STREAMHDR", "ACTIVE",
                      "SHUTTING_DOWN", "DONE", "STOPPING"}
    PROVE  LET v == [w EXCEPT !.r.sipc = s]
           IN  /\ Flows(w, v) /\ v.excl = w.excl /\ v.r.aipc = w.r.aipc
               /\ v.r.sipc = s /\ v.r.owner = w.r.owner
               /\ v.r.usock = w.r.usock /\ v.events = w.events
               /\ v.tasks = w.tasks
<1> DEFINE u == [w.r EXCEPT !.sipc = s]
           v == [w EXCEPT !.r = u]
<1>1. w.r \in Record /\ [w EXCEPT !.r.sipc = s] = v
  BY DEF Worlds
<1>2. u \in Record /\ u.usock = w.r.usock /\ u.streamhdr = w.r.streamhdr
      /\ u.in = w.r.in /\ u.out = w.r.out /\ u.peer = w.r.peer
      /\ u.pipe = w.r.pipe /\ u.aipc = w.r.aipc /\ u.sipc = s
      /\ u.owner = w.r.owner
  BY <1>1 DEF Record
<1> HIDE DEF u
<1>3. Flows(w, v) /\ v.r = u /\ v.excl = w.excl /\ v.events = w.events
      /\ v.tasks = w.tasks
  BY <1>2, SetFlows
<1> HIDE DEF v
<1> QED BY <1>1, <1>2, <1>3

(* and aipc's.                                                             *)
LEMMA AipcSetFlows ==
    ASSUME NEW w \in Worlds,
           NEW s \in {"FREE", "IDLE", "ACCEPTING", "ACTIVE", "STOPPING_SIPC",
                      "STOPPING_USOCK", "DONE", "STOPPING_SIPC_FINAL",
                      "STOPPING"}
    PROVE  LET v == [w EXCEPT !.r.aipc = s]
           IN  /\ Flows(w, v) /\ v.excl = w.excl /\ v.r.aipc = s
               /\ v.r.sipc = w.r.sipc /\ v.r.peer = w.r.peer
               /\ v.r.streamhdr = w.r.streamhdr
               /\ v.events = w.events /\ v.tasks = w.tasks
<1> DEFINE u == [w.r EXCEPT !.aipc = s]
           v == [w EXCEPT !.r = u]
<1>1. w.r \in Record /\ [w EXCEPT !.r.aipc = s] = v
  BY DEF Worlds
<1>2. u \in Record /\ u.streamhdr = w.r.streamhdr
      /\ u.in = w.r.in /\ u.out = w.r.out /\ u.peer = w.r.peer
      /\ u.pipe = w.r.pipe /\ u.aipc = s /\ u.sipc = w.r.sipc
  BY <1>1 DEF Record
<1> HIDE DEF u
<1>3. Flows(w, v) /\ v.r = u /\ v.excl = w.excl /\ v.events = w.events
      /\ v.tasks = w.tasks
  BY <1>2, SetFlows
<1> HIDE DEF v
<1> QED BY <1>1, <1>2, <1>3

(* What a connection is after it was told to stop, or has met its end.     *)
Ending(w, v) ==
    /\ Flows(w, v)
    /\ v.r.sipc \notin {"PROTOHDR", "STOPPING_STREAMHDR", "ACTIVE"}
    /\ v.r.aipc = "ACCEPTING" => w.r.aipc = "ACCEPTING"

(* sipc is done.                                                           *)
LEMMA SipcDoneFlows ==
    ASSUME NEW w \in Worlds
    PROVE  Ending(w, SipcDone(w))
<1> DEFINE o == [w EXCEPT !.r.sipc = "DONE"]
           v == SipcDone(w)
<1>1. Flows(w, o) /\ o.r.sipc = "DONE" /\ o.r.aipc = w.r.aipc
  BY SipcSetFlows, Zenon
<1>2. o \in Worlds
  BY <1>1 DEF Flows
<1>3. v = Raise(o, "aipc", "sipc", "ERROR")
  BY DEF SipcDone
<1> HIDE DEF o, v
<1>4. "aipc" \in Machines
  BY DEF Machines
<1>5. Within(o, v) /\ v.r = o.r
  BY <1>2, <1>3, <1>4, RaiseFlows, Zenon
<1> QED BY <1>1, <1>5, FlowsTrans DEF Ending, Within, v

(* nn_sipc_shutdown in STOPPING.                                           *)
LEMMA SipcStoppingFlows ==
    ASSUME NEW w \in Worlds, w.r.sipc = "STOPPING"
    PROVE  Ending(w, SipcStopping(w))
<1> DEFINE v == SipcStopping(w)
<1>1. CASE Idle(w, "streamhdr")
  <2> DEFINE u == [w.r EXCEPT !.sipc = "IDLE", !.owner = "aipc"]
             o == [w EXCEPT !.r = u]
  <2>1. w.r \in Record
    BY DEF Worlds
  <2>2. u \in Record
    <3> DEFINE t == [w.r EXCEPT !.sipc = "IDLE"]
    <3>1. t \in Record
      BY <2>1 DEF Record
    <3>2. u = [t EXCEPT !.owner = "aipc"]
      BY <2>1 DEF Record
    <3> HIDE DEF t, u
    <3> QED BY <3>1, <3>2 DEF Record
  <2>3. u.streamhdr = w.r.streamhdr
        /\ u.in = w.r.in /\ u.out = w.r.out /\ u.peer = w.r.peer
        /\ u.pipe = w.r.pipe /\ u.aipc = w.r.aipc /\ u.sipc = "IDLE"
    BY <2>1 DEF Record
  <2>4. [w EXCEPT !.r.sipc = "IDLE", !.r.owner = "aipc"] = o
    BY <2>1 DEF Worlds
  <2> HIDE DEF u, o
  <2>5. v = Raise(o, "aipc", "sipc", "STOPPED")
    BY <1>1, <2>4 DEF SipcStopping
  <2> HIDE DEF v
  <2>6. Flows(w, o) /\ o.r = u
    BY <2>2, <2>3, SetFlows DEF o
  <2>7. o \in Worlds /\ "aipc" \in Machines
    BY <2>6 DEF Flows, Machines
  <2>8. Within(o, v) /\ v.r = o.r
    BY <2>5, <2>7, RaiseFlows, Zenon
  <2> QED BY <2>3, <2>6, <2>8, FlowsTrans DEF Ending, Within, v
<1>2. CASE ~Idle(w, "streamhdr")
  BY <1>2, FlowsSame DEF SipcStopping, Ending, Within
<1> QED BY <1>1, <1>2

(* nn_sipc_stop.                                                           *)
LEMMA SipcStopFlows ==
    ASSUME NEW w \in Worlds
    PROVE  Ending(w, SipcStop(w))
<1>1. CASE w.r.sipc \in {"IDLE", "STOPPING"}
  BY <1>1, FlowsSame DEF SipcStop, Ending, Within
<1>2. CASE w.r.sipc \notin {"IDLE", "STOPPING"}
  <2> DEFINE n == PipeStop(w)
             o == StreamhdrStop(n)
             p == [o EXCEPT !.r.sipc = "STOPPING"]
             v == SipcStop(w)
  <2>1. Flows(w, n) /\ n.r.aipc = w.r.aipc
    BY PipeStopFlows
  <2>2. n \in Worlds
    BY <2>1 DEF Flows
  <2>3. v = SipcStopping(p)
    BY <1>2 DEF SipcStop
  <2> HIDE DEF n, v
  <2>4. Flows(n, o) /\ o.r.aipc = n.r.aipc
    BY <2>2, StreamhdrStopFlows DEF Inside, Within
  <2>5. o \in Worlds
    BY <2>4 DEF Flows
  <2> HIDE DEF o
  <2>6. Flows(o, p) /\ p.r.aipc = o.r.aipc /\ p.r.sipc = "STOPPING"
    BY <2>5, SipcSetFlows, Zenon
  <2>7. p \in Worlds
    BY <2>6 DEF Flows
  <2> HIDE DEF p
  <2>8. Ending(p, v)
    BY <2>3, <2>6, <2>7, SipcStoppingFlows
  <2>9. Flows(w, p)
    BY <2>1, <2>4, <2>6, FlowsTrans
  <2> QED BY <2>1, <2>4, <2>6, <2>8, <2>9, FlowsTrans DEF Ending, v
<1> QED BY <1>1, <1>2

(* nn_aipc_shutdown in STOPPING.                                           *)
LEMMA AipcStoppingFlows ==
    ASSUME NEW w \in Worlds
    PROVE  LET v == AipcStopping(w)
           IN  /\ Flows(w, v) /\ v.r.sipc = w.r.sipc
               /\ v.r.aipc \in {w.r.aipc, "IDLE"}
<1> DEFINE v == AipcStopping(w)
<1>1. CASE Idle(w, "usock")
  <2> DEFINE o == [w EXCEPT !.r.aipc = "IDLE"]
  <2>1. Flows(w, o) /\ o.r.sipc = w.r.sipc /\ o.r.aipc = "IDLE"
    BY AipcSetFlows, ZenonT(30)
  <2>2. o \in Worlds /\ "bipc" \in Machines
    BY <2>1 DEF Flows, Machines
  <2> HIDE DEF o
  <2>3. v = Raise(o, "bipc", "aipc", "STOPPED")
    BY <1>1 DEF AipcStopping, o
  <2> HIDE DEF v
  <2>4. Within(o, v) /\ v.r = o.r
    BY <2>2, <2>3, RaiseFlows, Zenon
  <2> QED BY <2>1, <2>4, FlowsTrans DEF Within, v
<1>2. CASE ~Idle(w, "usock")
  BY <1>2, FlowsSame DEF AipcStopping, Within
<1> QED BY <1>1, <1>2

(* nn_aipc_shutdown in STOPPING_SIPC_FINAL.                                *)
LEMMA AipcStoppingSipcFlows ==
    ASSUME NEW w \in Worlds
    PROVE  LET v == AipcStoppingSipc(w)
           IN  /\ Flows(w, v) /\ v.r.sipc = w.r.sipc
               /\ v.r.aipc \in {w.r.aipc, "IDLE", "STOPPING"}
<1> DEFINE v == AipcStoppingSipc(w)
<1>1. CASE Idle(w, "sipc")
  <2> DEFINE o == UsockStop(w)
             p == [o EXCEPT !.r.aipc = "STOPPING"]
  <2>1. Flows(w, o) /\ o.r.sipc = w.r.sipc
    BY UsockStopFlows DEF Within
  <2>2. o \in Worlds
    BY <2>1 DEF Flows
  <2>3. v = AipcStopping(p)
    BY <1>1 DEF AipcStoppingSipc
  <2> HIDE DEF o, v
  <2>4. Flows(o, p) /\ p.r.sipc = o.r.sipc /\ p.r.aipc = "STOPPING"
    BY <2>2, AipcSetFlows, Zenon
  <2>5. p \in Worlds
    BY <2>4 DEF Flows
  <2> HIDE DEF p
  <2>6. Flows(p, v) /\ v.r.sipc = p.r.sipc /\ v.r.aipc \in {p.r.aipc, "IDLE"}
    BY <2>3, <2>5, AipcStoppingFlows
  <2>7. Flows(w, v)
    BY <2>1, <2>4, <2>6, FlowsTrans
  <2> QED BY <2>1, <2>4, <2>6, <2>7 DEF v
<1>2. CASE ~Idle(w, "sipc")
  BY <1>2, FlowsSame DEF AipcStoppingSipc, Within
<1> QED BY <1>1, <1>2

(* nn_aipc_stop.                                                           *)
LEMMA AipcStopFlows ==
    ASSUME NEW w \in Worlds, NestInv(w.r)
    PROVE  Ending(w, AipcStop(w))
<1>1. CASE w.r.aipc \in {"IDLE", "STOPPING_SIPC_FINAL", "STOPPING"}
  BY <1>1, FlowsSame DEF AipcStop, Ending, Within, NestInv
<1>2. CASE w.r.aipc \notin {"IDLE", "STOPPING_SIPC_FINAL", "STOPPING"}
  <2> DEFINE o == SipcStop(w)
             p == [o EXCEPT !.r.aipc = "STOPPING_SIPC_FINAL"]
             v == AipcStop(w)
  <2>1. Ending(w, o)
    BY SipcStopFlows
  <2>2. o \in Worlds
    BY <2>1 DEF Ending, Flows
  <2>3. v = AipcStoppingSipc(p)
    BY <1>2 DEF AipcStop
  <2> HIDE DEF o, v
  <2>4. /\ Flows(o, p) /\ p.r.sipc = o.r.sipc
        /\ p.r.aipc = "STOPPING_SIPC_FINAL"
    BY <2>2, AipcSetFlows, Zenon
  <2>5. p \in Worlds
    BY <2>4 DEF Flows
  <2> HIDE DEF p
  <2>6. /\ Flows(p, v) /\ v.r.sipc = p.r.sipc
        /\ v.r.aipc \in {p.r.aipc, "IDLE", "STOPPING"}
    BY <2>3, <2>5, AipcStoppingSipcFlows
  <2>7. Flows(w, v)
    BY <2>1, <2>4, <2>6, FlowsTrans DEF Ending
  <2> QED BY <2>1, <2>4, <2>6, <2>7 DEF Ending, v
<1> QED BY <1>1, <1>2

-----------------------------------------------------------------------------
(* What such operations keep.                                              *)

(* What was under way is, when nothing is taken from a queue.              *)
LEMMA FlowKept ==
    ASSUME NEW c, NEW r, NEW u, NEW x, NEW s, NEW t, NEW k, NEW l,
           s \subseteq t, k \subseteq l, u.in = r.in, u.out = r.out
    PROVE  /\ InFlow(c, r, x, s, k) => InFlow(c, u, x, t, l)
           /\ OutFlow(c, r, x, s, k) => OutFlow(c, u, x, t, l)
<1>1. \A src, type : Has(s, c, src, type) => Has(t, c, src, type)
  BY DEF Has
<1> QED BY <1>1 DEF InFlow, OutFlow

(* What the events of a connection say of it.                              *)
LEMMA NewsKept ==
    ASSUME NEW w, NEW v, Flows(w, v), NestInv(w.r),
           NewsInv(w.c, w.r, ToSet(w.events)),
           v.r.aipc = "ACCEPTING" => w.r.aipc = "ACCEPTING",
           v.r.sipc = "PROTOHDR"
              => w.r.sipc = "PROTOHDR" /\ v.r.owner = w.r.owner
    PROVE  NewsInv(v.c, v.r, ToSet(v.events))
<1> SUFFICES ASSUME NEW e \in ToSet(v.events), e.c = v.c
             PROVE  /\ e.to = "bipc" => e.src \in {"aipc", "listener"}
                    /\ e.src = "streamhdr" =>
                          /\ v.r.aipc # "ACCEPTING"
                          /\ IF e.type = "STOPPED" THEN v.r.streamhdr = "IDLE"
                             ELSE v.r.sipc = "PROTOHDR" => v.r.owner = "sipc"
                    /\ e.src = "usock" /\ e.type = "ACCEPTED"
                       /\ v.r.aipc = "ACCEPTING"
                          => LeavesEarly \/ v.r.peer = "open"
  BY DEF NewsInv
<1>1. CASE e \in ToSet(w.events)
  <2>1. /\ e.to = "bipc" => e.src \in {"aipc", "listener"}
        /\ e.src = "streamhdr" =>
              /\ w.r.aipc # "ACCEPTING"
              /\ IF e.type = "STOPPED" THEN w.r.streamhdr = "IDLE"
                 ELSE w.r.sipc = "PROTOHDR" => w.r.owner = "sipc"
        /\ e.src = "usock" /\ e.type = "ACCEPTED" /\ w.r.aipc = "ACCEPTING"
              => LeavesEarly \/ w.r.peer = "open"
    BY <1>1 DEF NewsInv, Flows
  <2> QED BY <2>1 DEF Flows
<1>2. CASE News(e, w, v)
  <2>1. w.r.streamhdr # "IDLE" => v.r.aipc # "ACCEPTING"
    BY DEF NestInv
  <2> QED BY <1>2, <2>1 DEF News
<1> QED BY <1>1, <1>2 DEF Flows

(* A connection that ends is not in use.                                   *)
LEMMA EndingUse ==
    ASSUME NEW w, NEW v, NEW k, Ending(w, v), NestInv(w.r),
           NewsInv(w.c, w.r, ToSet(w.events))
    PROVE  UseInv(v.c, v.r, v.excl, ToSet(v.events), k)
<1>1. NewsInv(v.c, v.r, ToSet(v.events))
  BY NewsKept DEF Ending
<1> QED BY <1>1 DEF Ending, UseInv, FlowInv, OpenInv

(* The socket is as it was, or it failed after its peer had left.          *)
UsockStays(w, v) ==
    \/ v.r.usock = w.r.usock
    \/ /\ v.r.usock # "ACTIVE"
       /\ w.r.usock = "ACTIVE"
             => w.r.peer # "open" /\ Told(ToSet(v.events), w.c, w.r.owner)

(* A connection stays in use.                                              *)
LEMMA WithinUse ==
    ASSUME NEW w, NEW v, NEW b, Within(w, v), UsockStays(w, v), NestInv(w.r),
           UseInv(w.c, w.r, w.excl, ToSet(w.events), ToSet(w.tasks) \cup b)
    PROVE  UseInv(v.c, v.r, v.excl, ToSet(v.events), ToSet(v.tasks) \cup b)
<1> DEFINE c == w.c
           s == ToSet(w.events)
           t == ToSet(v.events)
           k == ToSet(w.tasks) \cup b
           l == ToSet(v.tasks) \cup b
<1>1. /\ v.c = c /\ s \subseteq t /\ k \subseteq l
      /\ v.excl = w.excl /\ v.r.in = w.r.in /\ v.r.out = w.r.out
      /\ v.r.peer = w.r.peer /\ v.r.sipc = w.r.sipc /\ v.r.owner = w.r.owner
      /\ w.r.streamhdr = "IDLE" => v.r.streamhdr = "IDLE"
  BY DEF Within, Flows
<1>2. NewsInv(v.c, v.r, t)
  BY NewsKept DEF Within, UseInv
<1>3. /\ UseInv(c, w.r, w.excl, s, k)
      /\ \/ v.r.usock = w.r.usock
         \/ /\ v.r.usock # "ACTIVE"
            /\ w.r.usock = "ACTIVE" => /\ w.r.peer # "open"
                                       /\ Told(t, c, w.r.owner)
  BY DEF UsockStays
<1> HIDE DEF c, s, t, k, l
<1>4. FlowInv(c, v.r, v.excl, t, l)
  BY <1>1, <1>3, FlowKept DEF FlowInv, UseInv
<1>5. Told(s, c, "sipc") => Told(t, c, "sipc")
  BY <1>1 DEF Told
<1>6. OpenInv(c, v.r, t)
  BY <1>1, <1>3, <1>5 DEF OpenInv, UseInv
<1> QED BY <1>1, <1>2, <1>4, <1>6 DEF UseInv, t, l

(* It does when an operation does not touch its socket.                    *)
LEMMA InsideUse ==
    ASSUME NEW w, NEW v, NEW b, Inside(w, v), NestInv(w.r),
           UseInv(w.c, w.r, w.excl, ToSet(w.events), ToSet(w.tasks) \cup b)
    PROVE  UseInv(v.c, v.r, v.excl, ToSet(v.events), ToSet(v.tasks) \cup b)
BY WithinUse DEF Inside, UsockStays

-----------------------------------------------------------------------------
(* Steps.                                                                  *)

(* What an operation on one connection leaves to the others.               *)
Around(w, v) ==
    /\ v.c = w.c
    /\ ToSet(w.tasks) \subseteq ToSet(v.tasks)
    /\ ToSet(w.events) \subseteq ToSet(v.events)
    /\ \A e \in ToSet(v.events) : e \in ToSet(w.events) \/ e.c = w.c
    /\ \A d \in Conn \ {w.c} : /\ w.excl.inpipe = d => v.excl.inpipe = d
                               /\ w.excl.outpipe = d => v.excl.outpipe = d

(* An operation that gives up no pipe leaves them theirs;                  *)
LEMMA WithinAround ==
    ASSUME NEW w, NEW v, Flows(w, v), v.excl = w.excl
    PROVE  Around(w, v)
BY DEF Around, Flows, News

(* two do if each does;                                                    *)
LEMMA AroundTrans ==
    ASSUME NEW w, NEW v, NEW u, Around(w, v), Around(v, u)
    PROVE  Around(w, u)
BY DEF Around

(* a pipe that is given up is the connection's own.                        *)
LEMMA FlowsAround ==
    ASSUME IInv, NEW w, NEW v, Flows(w, v), w.c \in Conn, w.r = conn[w.c],
           w.excl = excl
    PROVE  Around(w, v)
<1>1. CASE v.excl = w.excl
  BY <1>1, WithinAround
<1>2. CASE w.r.pipe = "ACTIVE"
  <2>1. \A d \in Conn : PipeInv(d, conn[d], excl, ToSet(events))
    BY DEF IInv, ConnInv
  <2>2. excl.pipe = w.c
    BY <1>2, <2>1 DEF PipeInv
  <2>3. \A d \in Conn \ {w.c} : excl.inpipe # d /\ excl.outpipe # d
    BY <2>1, <2>2 DEF PipeInv
  <2> QED BY <2>3 DEF Around, Flows, News
<1> QED BY <1>1, <1>2 DEF Flows

(* A connection is in use, or not, as long as nothing of it changes.       *)
LEMMA OtherUse ==
    ASSUME NEW d, NEW r, NEW x, NEW y, NEW s, NEW t, NEW k, NEW l,
           UseInv(d, r, x, s, k),
           \A e : e.c = d => (e \in t <=> e \in s),
           \A task : UsockTask(d, task) \in k => UsockTask(d, task) \in l,
           x.inpipe = d => y.inpipe = d, x.outpipe = d => y.outpipe = d
    PROVE  UseInv(d, r, y, t, l)
<1>1. \A src, type : Has(s, d, src, type) => Has(t, d, src, type)
  BY DEF Has
<1>2. NewsInv(d, r, t)
  BY DEF UseInv, NewsInv
<1>3. /\ InFlow(d, r, x, s, k) => InFlow(d, r, y, t, l)
      /\ OutFlow(d, r, x, s, k) => OutFlow(d, r, y, t, l)
  BY <1>1 DEF InFlow, OutFlow
<1>4. Told(s, d, "sipc") => Told(t, d, "sipc")
  BY DEF Told
<1> QED BY <1>2, <1>3, <1>4 DEF UseInv, FlowInv, OpenInv

(* The other connections, when the event at the head is taken.             *)
LEMMA HandledOthers ==
    ASSUME IInv, UsesInv, events # <<>>
    PROVE  \A d \in Conn \ {C} :
              UseInv(d, conn[d], excl, ToSet(W.events), Pending)
<1> SUFFICES ASSUME NEW d \in Conn \ {C}
             PROVE  UseInv(d, conn[d], excl, ToSet(W.events), Pending)
  OBVIOUS
<1>1. UseInv(d, conn[d], excl, ToSet(events), Pending)
  BY DEF UsesInv
<1>2. ToSet(events) = {Head(events)} \cup ToSet(W.events)
  BY HandledWorld
<1>3. \A e : e.c = d => (e \in ToSet(W.events) <=> e \in ToSet(events))
  BY <1>2 DEF C
<1> QED BY <1>1, <1>3, OtherUse

(* Its own: nothing under way is lost, unless the event was.               *)
LEMMA HandledUse ==
    ASSUME IInv, UsesInv, events # <<>>,
           conn[C].sipc # "ACTIVE" \/ Head(events).src \notin {"usock", "pipe"}
    PROVE  UseInv(W.c, W.r, W.excl, ToSet(W.events),
                  ToSet(W.tasks) \cup ToSet(batch))
<1> DEFINE r == conn[C]
           s == ToSet(events)
           t == ToSet(W.events)
           h == Head(events)
<1>1. /\ C \in Conn /\ W.c = C /\ W.r = r /\ W.excl = excl /\ W.tasks = tasks
      /\ s = {h} \cup t
  BY HandledWorld
<1>2. UseInv(C, r, excl, s, Pending)
  BY <1>1 DEF UsesInv
<1>3. r.sipc # "ACTIVE" \/ h.src \notin {"usock", "pipe"}
  OBVIOUS
<1> HIDE DEF r, s, t, h
<1>4. NewsInv(C, r, t)
  BY <1>1, <1>2 DEF UseInv, NewsInv
<1>5. ASSUME r.sipc = "ACTIVE"
      PROVE  /\ \A src \in {"usock", "pipe"} : \A type :
                   Has(s, C, src, type) => Has(t, C, src, type)
             /\ Told(s, C, "sipc") => Told(t, C, "sipc")
  BY <1>1, <1>3, <1>5 DEF Has, Told
<1>6. FlowInv(C, r, excl, t, Pending)
  BY <1>2, <1>5 DEF UseInv, FlowInv, InFlow, OutFlow
<1>7. OpenInv(C, r, t)
  BY <1>2, <1>5 DEF UseInv, OpenInv
<1> QED BY <1>1, <1>4, <1>6, <1>7 DEF UseInv, Pending, t

(* What is said of it, in any case.                                        *)
LEMMA HandledNews ==
    ASSUME IInv, UsesInv, events # <<>>
    PROVE  /\ W \in Worlds /\ W.c = C /\ C \in Conn /\ W.r = conn[C]
           /\ W.excl = excl /\ W.tasks = tasks
           /\ NestInv(W.r) /\ NewsInv(W.c, W.r, ToSet(W.events))
<1>1. /\ C \in Conn /\ W \in Worlds /\ W.c = C /\ W.r = conn[C]
      /\ W.excl = excl /\ W.tasks = tasks
      /\ ToSet(events) = {Head(events)} \cup ToSet(W.events)
      /\ NestInv(conn[C])
  BY HandledWorld DEF ConnInv
<1>2. NewsInv(C, conn[C], ToSet(events))
  BY <1>1 DEF UsesInv, UseInv
<1> QED BY <1>1, <1>2 DEF NewsInv

(* A step of connection w.c.                                               *)
LEMMA StepUse ==
    ASSUME IInv, NEW w, NEW v, w.c \in Conn, w.excl = excl, w.tasks = tasks,
           \A d \in Conn \ {w.c} :
              UseInv(d, conn[d], excl, ToSet(w.events), Pending),
           Enter(v), Around(w, v),
           \A t \in ToSet(batch) :
              t.c \in Conn \ {w.c} => t \in ToSet(batch'),
           UseInv(v.c, v.r, v.excl, ToSet(v.events),
                  ToSet(v.tasks) \cup ToSet(batch'))
    PROVE  UsesInv'
<1>1. /\ conn' = [conn EXCEPT ![v.c] = v.r]
      /\ excl' = v.excl /\ events' = v.events /\ tasks' = v.tasks
  BY EnterFacts
<1>2. conn \in [Conn -> Record] /\ v.c = w.c
  BY DEF IInv, TypeInv, Around
<1>3. conn'[w.c] = v.r /\ \A d \in Conn \ {w.c} : conn'[d] = conn[d]
  BY <1>1, <1>2
<1> DEFINE k == Pending
           l == ToSet(tasks') \cup ToSet(batch')
<1>4. ASSUME NEW d \in Conn \ {w.c}
      PROVE  UseInv(d, conn'[d], excl', ToSet(events'), l)
  <2>1. \A e : e.c = d => (e \in ToSet(v.events) <=> e \in ToSet(w.events))
    BY DEF Around
  <2>2. \A task : UsockTask(d, task) \in k => UsockTask(d, task) \in l
    <3>1. \A task : UsockTask(d, task).c \in Conn \ {w.c}
      BY DEF UsockTask
    <3> QED BY <3>1, <1>1 DEF Around, Pending
  <2>3. /\ excl.inpipe = d => v.excl.inpipe = d
        /\ excl.outpipe = d => v.excl.outpipe = d
    BY DEF Around
  <2>4. UseInv(d, conn[d], excl, ToSet(w.events), k)
    OBVIOUS
  <2> HIDE DEF k, l
  <2>5. UseInv(d, conn[d], v.excl, ToSet(v.events), l)
    BY <2>1, <2>2, <2>3, <2>4, OtherUse
  <2> QED BY <1>1, <1>3, <2>5
<1>5. UseInv(w.c, conn'[w.c], excl', ToSet(events'), l)
  BY <1>1, <1>2, <1>3
<1> QED BY <1>4, <1>5 DEF UsesInv, Pending

(* A handler's step.                                                       *)
LEMMA HandlerUse ==
    ASSUME IInv, UsesInv, events # <<>>, NEW v, Leave(v), Around(W, v),
           UseInv(v.c, v.r, v.excl, ToSet(v.events),
                  ToSet(v.tasks) \cup ToSet(batch))
    PROVE  UsesInv'
<1> DEFINE w == W
<1>1. /\ w.c \in Conn /\ w.excl = excl /\ w.tasks = tasks
      /\ \A d \in Conn \ {w.c} :
            UseInv(d, conn[d], excl, ToSet(w.events), Pending)
  BY HandledNews, HandledOthers
<1>2. Enter(v) /\ batch' = batch /\ Around(w, v)
  BY DEF Leave
<1> HIDE DEF w
<1> QED BY <1>1, <1>2, StepUse

(* One that ends what the connection was used for.                         *)
LEMMA EndingHandler ==
    ASSUME IInv, UsesInv, events # <<>>, NEW v, Leave(v), Ending(W, v)
    PROVE  UsesInv'
<1>1. Flows(W, v)
  BY DEF Ending
<1>2. Around(W, v)
  BY <1>1, HandledNews, FlowsAround
<1>3. UseInv(v.c, v.r, v.excl, ToSet(v.events),
             ToSet(v.tasks) \cup ToSet(batch))
  BY HandledNews, EndingUse
<1> QED BY <1>2, <1>3, HandlerUse

(* One that leaves it in use.                                              *)
LEMMA WithinHandler ==
    ASSUME IInv, UsesInv, events # <<>>, NEW v, Leave(v), Within(W, v),
           UsockStays(W, v),
           conn[C].sipc # "ACTIVE" \/ Head(events).src \notin {"usock", "pipe"}
    PROVE  UsesInv'
<1>1. Flows(W, v) /\ v.excl = W.excl
  BY DEF Within
<1>2. Around(W, v)
  BY <1>1, WithinAround
<1>3. UseInv(v.c, v.r, v.excl, ToSet(v.events),
             ToSet(v.tasks) \cup ToSet(batch))
  BY HandledNews, HandledUse, WithinUse
<1> QED BY <1>2, <1>3, HandlerUse

-----------------------------------------------------------------------------
(* streamhdr's handler.                                                    *)

(* It tells sipc how the exchange of headers ended.                        *)
LEMMA StreamhdrTells ==
    ASSUME NEW w \in Worlds, NEW type \in {"OK", "ERROR"}
    PROVE  LET v == Raise(w, "sipc", "streamhdr", type)
           IN  /\ v \in Worlds /\ v.c = w.c /\ v.r = w.r /\ v.excl = w.excl
               /\ v.tasks = w.tasks
               /\ ToSet(v.events) = ToSet(w.events) \cup
                     {[to |-> "sipc", src |-> "streamhdr", type |-> type,
                       c |-> w.c]}
<1>1. [to |-> "sipc", src |-> "streamhdr", type |-> type, c |-> w.c]
         \in Events
  BY DEF Worlds, Events, Machines
<1> QED BY <1>1, RaiseEffect

(* streamhdr's handler: sipc is not active yet, or no longer.              *)
LEMMA StreamhdrHandlerUse ==
    ASSUME IInv, UsesInv, StreamhdrHandler
    PROVE  UsesInv'
<1> DEFINE w == W
<1>1. events # <<>> /\ W.r.streamhdr # "IDLE"
  BY DEF StreamhdrHandler, On, StreamhdrSent, StreamhdrReceived,
         StreamhdrShutdown, StreamhdrFails, StreamhdrIgnores,
         StreamhdrTimerStopped, StreamhdrStops
<1>2. /\ w \in Worlds /\ w.c = C /\ C \in Conn /\ w.r = conn[C]
      /\ w.excl = excl /\ NestInv(w.r) /\ NewsInv(w.c, w.r, ToSet(w.events))
  BY <1>1, HandledNews
<1>3. conn[C].sipc # "ACTIVE"
  <2>1. FlowInv(C, conn[C], excl, ToSet(events), Pending)
    BY <1>2 DEF UsesInv, UseInv
  <2> QED BY <1>1, <1>2, <2>1 DEF FlowInv
<1>4. UseInv(w.c, w.r, w.excl, ToSet(w.events),
             ToSet(w.tasks) \cup ToSet(batch))
  BY <1>1, <1>3, HandledUse
<1>5. SUFFICES \/ \E v : Leave(v) /\ Within(w, v) /\ UsockStays(w, v)
               \/ StreamhdrTimerStopped
  <2>1. CASE \E v : Leave(v) /\ Within(w, v) /\ UsockStays(w, v)
    BY <1>1, <1>3, <2>1, WithinHandler
  <2>2. CASE StreamhdrTimerStopped
    <3> DEFINE type == IF W.r.streamhdr = "STOPPING_TIMER_DONE"
                       THEN "OK" ELSE "ERROR"
               u == [w.r EXCEPT !.streamhdr = "DONE", !.owner = "sipc"]
               o == [w EXCEPT !.r = u]
               v == Raise(o, "sipc", "streamhdr", type)
               e == [to |-> "sipc", src |-> "streamhdr", type |-> type,
                     c |-> w.c]
    <3>1. type \in {"OK", "ERROR"}
      OBVIOUS
    <3> HIDE DEF type
    <3>2. Leave(v)
      <4>1. w.r \in Record
        BY <1>2 DEF Worlds
      <4>2. o = [w EXCEPT !.r.streamhdr = "DONE", !.r.owner = "sipc"]
        BY <1>2, <4>1 DEF Worlds
      <4> QED BY <2>2, <4>2 DEF StreamhdrTimerStopped, type
    <3>3. u \in Record
      <4> DEFINE t == [w.r EXCEPT !.streamhdr = "DONE"]
      <4>1. w.r \in Record
        BY <1>2 DEF Worlds
      <4>2. t \in Record
        BY <4>1 DEF Record
      <4>3. u = [t EXCEPT !.owner = "sipc"]
        BY <4>1 DEF Record
      <4> HIDE DEF t, u
      <4> QED BY <4>2, <4>3 DEF Record
    <3>4. /\ u.owner = "sipc" /\ u.streamhdr = "DONE" /\ u.in = w.r.in
          /\ u.out = w.r.out /\ u.peer = w.r.peer /\ u.aipc = w.r.aipc
          /\ u.sipc = w.r.sipc /\ u.usock = w.r.usock
      BY <1>2 DEF Worlds, Record
    <3> HIDE DEF u
    <3>5. /\ o \in Worlds /\ o.c = w.c /\ o.r = u /\ o.excl = w.excl
          /\ o.events = w.events /\ o.tasks = w.tasks
      BY <1>2, <3>3 DEF Worlds
    <3> HIDE DEF o, v
    <3>6. /\ v \in Worlds /\ v.c = w.c /\ v.r = u /\ v.excl = w.excl
          /\ v.tasks = w.tasks /\ ToSet(v.events) = ToSet(w.events) \cup {e}
      <4>1. o \in Worlds
        BY <3>5
      <4>2. /\ v \in Worlds /\ v.c = o.c /\ v.r = o.r /\ v.excl = o.excl
            /\ v.tasks = o.tasks
            /\ ToSet(v.events) = ToSet(o.events) \cup
                  {[to |-> "sipc", src |-> "streamhdr", type |-> type,
                    c |-> o.c]}
        BY <3>1, <4>1, StreamhdrTells DEF v
      <4> QED BY <3>5, <4>2
    <3>7. e.src = "streamhdr" /\ e.type # "STOPPED" /\ e.to = "sipc"
          /\ e.c = w.c
      BY <3>1
    <3> HIDE DEF e
    <3>8. Around(w, v)
      BY <3>6, <3>7 DEF Around
    <3>9. u.aipc # "ACCEPTING"
      BY <1>1, <1>2, <3>4 DEF NestInv
    <3>10. NewsInv(w.c, w.r, ToSet(w.events))
      BY <1>2
    <3>11. ASSUME NEW f \in ToSet(w.events), f.c = w.c,
                  f.src = "streamhdr", f.type = "STOPPED"
           PROVE  FALSE
      BY <1>1, <3>10, <3>11 DEF NewsInv
    <3>12. NewsInv(v.c, v.r, ToSet(v.events))
      BY <3>4, <3>6, <3>7, <3>9, <3>10, <3>11 DEF NewsInv
    <3>13. OpenInv(v.c, v.r, ToSet(v.events))
      BY <1>2, <1>3, <1>4, <3>4, <3>6 DEF UseInv, OpenInv
    <3>14. FlowInv(v.c, v.r, v.excl, ToSet(v.events),
                   ToSet(v.tasks) \cup ToSet(batch))
      BY <1>2, <1>3, <3>4, <3>6 DEF FlowInv
    <3> QED BY <1>1, <3>2, <3>8, <3>12, <3>13, <3>14, HandlerUse DEF UseInv
  <2> QED BY <1>5, <2>1, <2>2
<1>6. CASE StreamhdrSent
  <2> DEFINE o == UsockRecv(w)
             v == [o EXCEPT !.r.streamhdr = "RECEIVING"]
  <2>1. Leave(v)
    BY <1>6 DEF StreamhdrSent
  <2>2. /\ Within(w, o) /\ o.r.streamhdr = w.r.streamhdr
        /\ UsockStays(w, o)
    <3>1. w.r.peer = "closed" => w.r.peer # "open"
      OBVIOUS
    <3> HIDE DEF w
    <3> QED BY <1>2, <3>1, UsockRecvFlows DEF UsockEnds, UsockStays
  <2>3. o \in Worlds
    BY <2>2 DEF Within, Flows
  <2> HIDE DEF w, o
  <2>4. Inside(o, v)
    BY <1>1, <2>2, <2>3, StreamhdrSetFlows, Zenon DEF w
  <2>5. Within(w, v)
    BY <2>2, <2>4, WithinTrans DEF Inside
  <2>6. UsockStays(w, v)
    <3>1. v.r.usock = o.r.usock /\ ToSet(o.events) \subseteq ToSet(v.events)
      BY <2>4 DEF Inside, Within, Flows
    <3> QED BY <2>2, <3>1 DEF UsockStays, Told
  <2> QED BY <2>1, <2>5, <2>6
<1>7. ASSUME NEW next \in {"STOPPING_TIMER_DONE", "STOPPING_TIMER_ERROR"}
      PROVE  Inside(w, [TimerStop(w) EXCEPT !.r.streamhdr = next])
  <2> DEFINE o == TimerStop(w)
             v == [o EXCEPT !.r.streamhdr = next]
  <2> HIDE DEF w
  <2>1. Inside(w, o) /\ o.r.streamhdr = w.r.streamhdr
    BY <1>2, TimerStopFlows
  <2>2. o \in Worlds
    BY <2>1 DEF Inside, Within, Flows
  <2> HIDE DEF o
  <2>3. Inside(o, v)
    BY <1>1, <2>1, <2>2, StreamhdrSetFlows, Zenon DEF w
  <2> QED BY <2>1, <2>3, InsideTrans DEF o
<1>8. CASE StreamhdrReceived
  <2>1. PICK next \in {"STOPPING_TIMER_DONE", "STOPPING_TIMER_ERROR"} :
           Leave([TimerStop(w) EXCEPT !.r.streamhdr = next])
    BY <1>8 DEF StreamhdrReceived
  <2> QED BY <1>7, <2>1 DEF Inside, UsockStays
<1>9. CASE StreamhdrFails
  <2>1. Leave([TimerStop(w) EXCEPT !.r.streamhdr = "STOPPING_TIMER_ERROR"])
    BY <1>9 DEF StreamhdrFails
  <2> QED BY <1>7, <2>1 DEF Inside, UsockStays
<1>10. CASE StreamhdrShutdown \/ StreamhdrIgnores
  <2>1. Leave(w)
    BY <1>10 DEF StreamhdrShutdown, StreamhdrIgnores
  <2> QED BY <1>2, <2>1, FlowsSame DEF UsockStays
<1>11. CASE StreamhdrStops
  <2>1. Leave(StreamhdrStopping(w))
    BY <1>11 DEF StreamhdrStops
  <2>2. Inside(w, StreamhdrStopping(w))
    BY <1>1, <1>2, StreamhdrStoppingFlows
  <2> QED BY <2>1, <2>2 DEF Inside, UsockStays
<1> QED BY <1>6, <1>8, <1>9, <1>10, <1>11 DEF StreamhdrHandler

-----------------------------------------------------------------------------
(* sipc's handler.                                                         *)

(* A token of one direction is taken, and another of it is there: what the *)
(* step of an active connection comes to.                                  *)
LEMMA ActiveUse ==
    ASSUME NEW c, NEW r, NEW u, NEW x, NEW y, NEW s, NEW t, NEW k, NEW l,
           UseInv(c, r, x, s, k), r.sipc = "ACTIVE", u.sipc = "ACTIVE",
           NewsInv(c, u, t), u.streamhdr = r.streamhdr, u.owner = r.owner,
           u.usock = r.usock \/ (u.usock # "ACTIVE" /\ Told(t, c, "sipc")),
           Told(s, c, "sipc") => Told(t, c, "sipc"),
           u.usock = "ACTIVE" => /\ InFlow(c, u, y, t, l)
                                 /\ OutFlow(c, u, y, t, l)
    PROVE  UseInv(c, u, y, t, l)
BY DEF UseInv, FlowInv, OpenInv

(* usock's message to an active sipc is taken from the queue: the other    *)
(* direction is as it was, and so is what is said of usock's end.          *)
LEMMA MessageTaken ==
    ASSUME IInv, UsesInv, NEW type \in {"SENT", "RECEIVED"},
           On("sipc", "usock", {type}), W.r.sipc = "ACTIVE"
    PROVE  /\ (type = "SENT" /\ W.r.usock = "ACTIVE") =>
                 InFlow(C, W.r, excl, ToSet(W.events), Pending)
           /\ (type = "RECEIVED" /\ W.r.usock = "ACTIVE") =>
                 OutFlow(C, W.r, excl, ToSet(W.events), Pending)
           /\ Told(ToSet(events), C, "sipc")
                 => Told(ToSet(W.events), C, "sipc")
           /\ UseInv(C, W.r, excl, ToSet(events), Pending)
<1> DEFINE s == ToSet(events)
           t == ToSet(W.events)
           h == Head(events)
<1>1. /\ C \in Conn /\ W.r = conn[C] /\ s = {h} \cup t
      /\ h.src = "usock" /\ h.type = type
  BY HandledWorld DEF On
<1>2. UseInv(C, W.r, excl, s, Pending)
  BY <1>1 DEF UsesInv
<1> HIDE DEF s, t, h
<1>3. /\ type = "SENT" => /\ Has(s, C, "usock", "RECEIVED")
                                => Has(t, C, "usock", "RECEIVED")
                          /\ Has(s, C, "pipe", "IN") => Has(t, C, "pipe", "IN")
      /\ type = "RECEIVED" => /\ Has(s, C, "usock", "SENT")
                                    => Has(t, C, "usock", "SENT")
                              /\ Has(s, C, "pipe", "OUT")
                                    => Has(t, C, "pipe", "OUT")
  BY <1>1 DEF Has
<1>4. Told(s, C, "sipc") => Told(t, C, "sipc")
  BY <1>1 DEF Told
<1>5. W.r.usock = "ACTIVE" => /\ InFlow(C, W.r, excl, s, Pending)
                              /\ OutFlow(C, W.r, excl, s, Pending)
  BY <1>2 DEF UseInv, FlowInv
<1> QED BY <1>2, <1>3, <1>4, <1>5 DEF InFlow, OutFlow, s, t

(* A direction is handed to the pair socket.                               *)
LEMMA OfferFlows ==
    ASSUME NEW w \in Worlds, NEW dir \in {"IN", "OUT"}
    PROVE  LET v == Raise(w, "sock", "pipe", dir)
           IN  /\ Within(w, v) /\ v.r = w.r /\ v.tasks = w.tasks
               /\ Has(ToSet(v.events), w.c, "pipe", dir)
<1> DEFINE v == Raise(w, "sock", "pipe", dir)
           e == [to |-> "sock", src |-> "pipe", type |-> dir, c |-> w.c]
<1>1. /\ dir \in {"SENT", "RECEIVED", "SHUTDOWN", "ERROR", "STOPPED",
                  "TIMEOUT", "IN", "OUT", "ACCEPTED"}
      /\ "sock" \in Machines
  BY DEF Machines
<1>2. Within(w, v) /\ v.r = w.r /\ v.tasks = w.tasks /\ e \in ToSet(v.events)
  BY <1>1, RaiseFlows, ZenonT(30)
<1>3. Has(ToSet(v.events), w.c, "pipe", dir)
  BY <1>2 DEF Has
<1> QED BY <1>2, <1>3

(* sipc hands a direction to the pair socket.                              *)
LEMMA OfferUse ==
    ASSUME IInv, UsesInv, NEW type \in {"SENT", "RECEIVED"},
           On("sipc", "usock", {type}), W.r.sipc = "ACTIVE",
           NEW u \in Record, u.in = W.r.in, u.out = W.r.out,
           u.peer = W.r.peer, u.aipc = W.r.aipc, u.sipc = W.r.sipc,
           u.streamhdr = W.r.streamhdr, u.usock = W.r.usock,
           u.owner = W.r.owner, u.pipe = W.r.pipe,
           NEW v, Leave(v),
           v = Raise([W EXCEPT !.r = u], "sock", "pipe",
                     IF type = "SENT" THEN "OUT" ELSE "IN")
    PROVE  UsesInv'
<1> DEFINE w == W
           dir == IF type = "SENT" THEN "OUT" ELSE "IN"
           o == [w EXCEPT !.r = u]
<1>1. /\ events # <<>> /\ w \in Worlds /\ w.c = C /\ C \in Conn
      /\ w.excl = excl /\ w.tasks = tasks
      /\ NestInv(w.r) /\ NewsInv(w.c, w.r, ToSet(w.events))
  BY HandledNews DEF On
<1>2. dir \in {"IN", "OUT"} /\ (dir = "OUT" <=> type = "SENT")
  OBVIOUS
<1>3. /\ (type = "SENT" /\ w.r.usock = "ACTIVE") =>
            InFlow(C, w.r, excl, ToSet(w.events), Pending)
      /\ (type = "RECEIVED" /\ w.r.usock = "ACTIVE") =>
            OutFlow(C, w.r, excl, ToSet(w.events), Pending)
      /\ Told(ToSet(events), C, "sipc") => Told(ToSet(w.events), C, "sipc")
      /\ UseInv(C, w.r, excl, ToSet(events), Pending)
  BY MessageTaken
<1>4. v = Raise(o, "sock", "pipe", dir)
  OBVIOUS
<1> HIDE DEF w, dir
<1>5. Flows(w, o) /\ o.r = u /\ o.excl = w.excl /\ o.tasks = w.tasks
  BY <1>1, SetFlows DEF w
<1>6. o \in Worlds
  BY <1>5 DEF Flows
<1> HIDE DEF o
<1>7. /\ Within(o, v) /\ v.r = o.r /\ v.tasks = o.tasks
      /\ Has(ToSet(v.events), o.c, "pipe", dir)
  BY <1>2, <1>4, <1>6, OfferFlows
<1>8. /\ Flows(w, v) /\ v.excl = excl /\ v.r = u /\ v.c = C
      /\ v.tasks = tasks
  <2>1. Flows(w, v)
    BY <1>5, <1>7, FlowsTrans DEF Within
  <2> QED BY <1>1, <1>5, <1>7, <2>1 DEF Within, Flows
<1>9. Has(ToSet(v.events), C, "pipe", dir)
  BY <1>1, <1>5, <1>7 DEF Flows
<1>10. ToSet(w.events) \subseteq ToSet(v.events)
  BY <1>8 DEF Flows
<1>11. Told(ToSet(w.events), C, "sipc") => Told(ToSet(v.events), C, "sipc")
  BY <1>10 DEF Told
<1>12. NewsInv(v.c, v.r, ToSet(v.events))
  BY <1>1, <1>8, NewsKept DEF w
<1>13. /\ InFlow(C, w.r, excl, ToSet(w.events), Pending)
             => InFlow(C, u, excl, ToSet(v.events), Pending)
       /\ OutFlow(C, w.r, excl, ToSet(w.events), Pending)
             => OutFlow(C, u, excl, ToSet(v.events), Pending)
  BY <1>10, FlowKept DEF w
<1>14. w.r.usock = "ACTIVE" =>
          /\ InFlow(C, u, excl, ToSet(v.events), Pending)
          /\ OutFlow(C, u, excl, ToSet(v.events), Pending)
  BY <1>2, <1>3, <1>9, <1>13 DEF InFlow, OutFlow
<1>15. UseInv(C, u, excl, ToSet(v.events), Pending)
  <2>1. NewsInv(C, u, ToSet(v.events))
    BY <1>8, <1>12
  <2>2. Told(ToSet(events), C, "sipc") => Told(ToSet(v.events), C, "sipc")
    BY <1>3, <1>11
  <2> QED BY <1>3, <1>14, <2>1, <2>2, ActiveUse DEF w
<1>16. Around(w, v)
  BY <1>1, <1>8, WithinAround
<1>17. UseInv(v.c, v.r, v.excl, ToSet(v.events),
              ToSet(v.tasks) \cup ToSet(batch))
  BY <1>8, <1>15 DEF Pending
<1> QED BY <1>1, <1>16, <1>17, HandlerUse DEF w

(* Headers were exchanged.                                                 *)
LEMMA HeaderExchangedUse ==
    ASSUME IInv, UsesInv, SipcHeaderExchanged
    PROVE  UsesInv'
<1> DEFINE w == W
           o == StreamhdrStop(w)
           v == [o EXCEPT !.r.sipc = "STOPPING_STREAMHDR"]
<1>1. /\ events # <<>> /\ Head(events).src = "streamhdr"
      /\ Head(events).type = "OK" /\ w.r.sipc = "PROTOHDR" /\ Leave(v)
  BY DEF SipcHeaderExchanged, On
<1>2. /\ w \in Worlds /\ w.c = C /\ C \in Conn /\ w.r = conn[C]
      /\ w.excl = excl /\ w.tasks = tasks
      /\ NestInv(w.r) /\ NewsInv(w.c, w.r, ToSet(w.events))
  BY <1>1, HandledNews
<1>3. UseInv(w.c, w.r, w.excl, ToSet(w.events),
             ToSet(w.tasks) \cup ToSet(batch))
  BY <1>1, HandledUse
<1>4. w.r.owner = "sipc"
  <2>1. NewsInv(C, conn[C], ToSet(events))
    BY <1>2 DEF UsesInv, UseInv
  <2>2. Head(events) \in ToSet(events) /\ Head(events).c = C
    BY <1>1, HandledWorld DEF C
  <2> QED BY <1>1, <1>2, <2>1, <2>2 DEF NewsInv
<1> HIDE DEF w
<1>5. Inside(w, o)
  BY <1>2, StreamhdrStopFlows
<1>6. o \in Worlds
  BY <1>5 DEF Inside, Within, Flows
<1> HIDE DEF o
<1>7. /\ Flows(o, v) /\ v.excl = o.excl /\ v.r.aipc = o.r.aipc
      /\ v.r.sipc = "STOPPING_STREAMHDR" /\ v.r.owner = o.r.owner
      /\ v.r.usock = o.r.usock
  BY <1>6, SipcSetFlows, Zenon
<1> HIDE DEF v
<1>8. Flows(w, v) /\ v.excl = w.excl
  BY <1>5, <1>7, FlowsTrans DEF Inside, Within
<1>9. NewsInv(v.c, v.r, ToSet(v.events))
  BY <1>2, <1>5, <1>7, <1>8, NewsKept DEF Inside, Within
<1>10. v.r.owner = "sipc" /\ v.r.usock = w.r.usock /\ v.r.peer = w.r.peer
  BY <1>4, <1>5, <1>7, <1>8 DEF Inside, Within, Flows
<1>11. OpenInv(v.c, v.r, ToSet(v.events))
  BY <1>1, <1>3, <1>7, <1>10 DEF OpenInv, UseInv
<1>12. UseInv(v.c, v.r, v.excl, ToSet(v.events),
              ToSet(v.tasks) \cup ToSet(batch))
  BY <1>7, <1>9, <1>11 DEF UseInv, FlowInv
<1>13. Around(w, v)
  BY <1>8, WithinAround
<1> QED BY <1>1, <1>12, <1>13, HandlerUse DEF w

(* The pipe starts: both directions do.                                    *)
LEMMA PipeStartUse ==
    ASSUME IInv, UsesInv, On("sipc", "streamhdr", {"STOPPED"}),
           W.r.sipc = "STOPPING_STREAMHDR", excl.pipe = None,
           Leave([UsockRecv(PipeStart(W)) EXCEPT
                        !.r.instate = "HDR",
                        !.r.outstate = "IDLE",
                        !.r.sipc = "ACTIVE"])
    PROVE  UsesInv'
<1> DEFINE w == W
           u == [w.r EXCEPT !.pipe = "ACTIVE", !.pipein = "ASYNC",
                            !.pipeout = "IDLE"]
           x == [w.excl EXCEPT !.pipe = w.c]
           n == [w EXCEPT !.r = u]
           m == [n EXCEPT !.excl = x]
           p == PipeStart(w)
           o == UsockRecv(p)
           v == [o EXCEPT !.r.instate = "HDR", !.r.outstate = "IDLE",
                          !.r.sipc = "ACTIVE"]
<1>1. events # <<>> /\ Head(events).src = "streamhdr"
      /\ Head(events).type = "STOPPED" /\ Leave(v)
  BY DEF On
<1>2. /\ w \in Worlds /\ w.c = C /\ C \in Conn /\ w.r = conn[C]
      /\ w.excl = excl /\ w.tasks = tasks
      /\ NestInv(w.r) /\ NewsInv(w.c, w.r, ToSet(w.events))
  BY <1>1, HandledNews
<1>3. UseInv(w.c, w.r, w.excl, ToSet(w.events),
             ToSet(w.tasks) \cup ToSet(batch))
  BY <1>1, HandledUse
<1>4. w.r.streamhdr = "IDLE"
  <2>1. NewsInv(C, conn[C], ToSet(events))
    BY <1>2 DEF UsesInv, UseInv
  <2>2. Head(events) \in ToSet(events) /\ Head(events).c = C
    BY <1>1, HandledWorld DEF C
  <2> QED BY <1>1, <1>2, <2>1, <2>2 DEF NewsInv
<1>5. w.r.sipc = "STOPPING_STREAMHDR" /\ w.excl.pipe = None
  BY <1>2
<1> HIDE DEF w
<1>6. w.r \in Record /\ w.excl \in Excls
  BY <1>2 DEF Worlds
<1>7. u \in Record
  <2> DEFINE a == [w.r EXCEPT !.pipe = "ACTIVE"]
             b == [a EXCEPT !.pipein = "ASYNC"]
  <2>1. a \in Record
    BY <1>6 DEF Record
  <2> HIDE DEF a
  <2>2. b \in Record
    BY <2>1 DEF Record
  <2>3. u = [b EXCEPT !.pipeout = "IDLE"]
    BY <1>6 DEF Record, a
  <2> HIDE DEF b, u
  <2> QED BY <2>2, <2>3 DEF Record
<1>8. /\ u.in = w.r.in /\ u.out = w.r.out /\ u.peer = w.r.peer
      /\ u.aipc = w.r.aipc /\ u.sipc = w.r.sipc /\ u.usock = w.r.usock
      /\ u.owner = w.r.owner /\ u.streamhdr = w.r.streamhdr
  BY <1>6 DEF Record
<1>9. /\ x \in Excls /\ x.inpipe = w.excl.inpipe
      /\ x.outpipe = w.excl.outpipe
  BY <1>2, <1>6 DEF Excls
<1>10. p = Raise(m, "sock", "pipe", "OUT")
  BY <1>2, <1>6, Zenon DEF PipeStart, Worlds
<1> HIDE DEF u, x, p
<1>11. /\ n \in Worlds /\ n.c = w.c /\ n.r = u
       /\ n.events = w.events /\ n.tasks = w.tasks
  BY <1>2, <1>7 DEF Worlds
<1> HIDE DEF n
<1>12. /\ m \in Worlds /\ m.c = w.c /\ m.r = u /\ m.excl = x
       /\ m.events = w.events /\ m.tasks = w.tasks
  <2>1. x \in Excls /\ m = [n EXCEPT !.excl = x]
    BY <1>9
  <2> HIDE DEF m
  <2>2. m \in Worlds
    BY <1>11, <2>1 DEF Worlds
  <2>3. /\ m.c = n.c /\ m.r = n.r /\ m.excl = x
        /\ m.events = n.events /\ m.tasks = n.tasks
    BY <1>11, <2>1 DEF Worlds
  <2> QED BY <1>11, <2>2, <2>3
<1> HIDE DEF m
<1>13. /\ Within(m, p) /\ p.r = m.r
       /\ [to |-> "sock", src |-> "pipe", type |-> "OUT", c |-> m.c]
             \in ToSet(p.events)
  <2>1. "sock" \in Machines
    BY DEF Machines
  <2> QED BY <1>10, <1>12, <2>1, RaiseFlows, ZenonT(30)
<1>14. p \in Worlds /\ p.c = w.c /\ p.r = u /\ p.excl = x
  BY <1>12, <1>13 DEF Within, Flows
<1>15. Has(ToSet(p.events), w.c, "pipe", "OUT")
  BY <1>12, <1>13 DEF Has
<1>16. Around(w, p)
  <2>1. Around(w, m)
    BY <1>9, <1>12 DEF Around
  <2>2. Around(m, p)
    BY <1>13, WithinAround DEF Within
  <2> QED BY <2>1, <2>2, AroundTrans
<1>17. NewsInv(p.c, p.r, ToSet(p.events))
  <2>1. NewsInv(m.c, m.r, ToSet(m.events))
    BY <1>2, <1>8, <1>12 DEF NewsInv
  <2>2. NestInv(m.r)
    <3>1. u.aipc # "ACCEPTING" /\ m.r = u /\ u.streamhdr = "IDLE"
      BY <1>2, <1>4, <1>5, <1>8, <1>12 DEF NestInv
    <3>2. u.timer = w.r.timer
      BY <1>6 DEF Record, u
    <3> QED BY <1>2, <1>8, <3>1, <3>2 DEF NestInv
  <2> QED BY <1>13, <2>1, <2>2, NewsKept DEF Within
<1>18. \/ /\ UsockEnds(p, o)
          /\ u.usock # "ACTIVE" \/ u.peer = "closed"
       \/ /\ Within(p, o) /\ o.r.streamhdr = u.streamhdr
          /\ u.usock = "ACTIVE" /\ o.r.usock = "ACTIVE"
          /\ \/ UsockTask(w.c, "RECV") \in ToSet(o.tasks)
             \/ Has(ToSet(o.events), w.c, "usock", "RECEIVED")
  BY <1>14, UsockRecvFlows
<1>19. /\ Within(p, o) /\ o.r.streamhdr = u.streamhdr
       /\ o.r.usock = "ACTIVE" =>
             \/ UsockTask(w.c, "RECV") \in ToSet(o.tasks)
             \/ Has(ToSet(o.events), w.c, "usock", "RECEIVED")
       /\ u.usock = "ACTIVE" /\ u.peer = "open" => o.r.usock = "ACTIVE"
  <2>1. CASE /\ UsockEnds(p, o)
             /\ u.usock # "ACTIVE" \/ u.peer = "closed"
    <3>1. u.peer = "open" => u.peer # "closed"
      OBVIOUS
    <3> QED BY <1>14, <2>1, <3>1 DEF UsockEnds
  <2>2. CASE /\ Within(p, o) /\ o.r.streamhdr = u.streamhdr
             /\ u.usock = "ACTIVE" /\ o.r.usock = "ACTIVE"
             /\ \/ UsockTask(w.c, "RECV") \in ToSet(o.tasks)
                \/ Has(ToSet(o.events), w.c, "usock", "RECEIVED")
    BY <2>2
  <2> QED BY <1>18, <2>1, <2>2
<1> HIDE DEF o
<1>20. o \in Worlds /\ o.c = w.c /\ o.excl = x /\ o.r.aipc = u.aipc
       /\ o.r.owner = u.owner /\ o.r.peer = u.peer
  BY <1>14, <1>19 DEF Within, Flows
<1>21. NewsInv(o.c, o.r, ToSet(o.events))
  <2>1. NestInv(p.r)
    <3>1. u.aipc # "ACCEPTING" /\ p.r = u /\ u.streamhdr = "IDLE"
      BY <1>2, <1>4, <1>5, <1>8, <1>14 DEF NestInv
    <3>2. u.timer = w.r.timer
      BY <1>6 DEF Record, u
    <3> QED BY <1>2, <1>8, <3>1, <3>2 DEF NestInv
  <2> QED BY <1>17, <1>19, <2>1, NewsKept DEF Within
<1>22. v.c = o.c /\ v.excl = o.excl /\ v.tasks = o.tasks
       /\ v.events = o.events
  BY <1>20 DEF Worlds
<1>23. /\ v.r.sipc = "ACTIVE" /\ v.r.usock = o.r.usock
       /\ v.r.owner = o.r.owner /\ v.r.streamhdr = o.r.streamhdr
       /\ v.r.aipc = o.r.aipc /\ v.r.peer = o.r.peer
  <2> DEFINE f == [o.r EXCEPT !.instate = "HDR", !.outstate = "IDLE",
                              !.sipc = "ACTIVE"]
  <2>1. o.r \in Record
    BY <1>20 DEF Worlds
  <2>2. v.r = f
    BY <1>20 DEF Worlds
  <2>3. /\ f.sipc = "ACTIVE" /\ f.usock = o.r.usock
        /\ f.owner = o.r.owner /\ f.streamhdr = o.r.streamhdr
        /\ f.aipc = o.r.aipc /\ f.peer = o.r.peer
    BY <2>1 DEF Record
  <2> QED BY <2>2, <2>3
<1> HIDE DEF v
<1>24. Around(w, v)
  <2>1. Around(p, o)
    BY <1>19, WithinAround DEF Within
  <2>2. Around(w, o)
    BY <1>16, <2>1, AroundTrans
  <2> QED BY <1>22, <2>2 DEF Around
<1>25. Has(ToSet(v.events), w.c, "pipe", "OUT")
  BY <1>15, <1>19, <1>22 DEF Has, Within, Flows
<1>26. NewsInv(v.c, v.r, ToSet(v.events))
  BY <1>21, <1>22, <1>23 DEF NewsInv
<1>27. FlowInv(v.c, v.r, v.excl, ToSet(v.events),
               ToSet(v.tasks) \cup ToSet(batch))
  BY <1>4, <1>8, <1>19, <1>20, <1>22, <1>23, <1>25
     DEF FlowInv, InFlow, OutFlow
<1>28. OpenInv(v.c, v.r, ToSet(v.events))
  BY <1>3, <1>5, <1>8, <1>19, <1>20, <1>23 DEF OpenInv, UseInv
<1> QED BY <1>1, <1>24, <1>26, <1>27, <1>28, HandlerUse DEF UseInv, w

(* The pair socket has a peer already: the connection is of no use.        *)
LEMMA PipeRefusedUse ==
    ASSUME IInv, UsesInv, events # <<>>,
           Leave(SipcDone([W EXCEPT !.r.pipe = "FAILED",
                                    !.r.pipein = "ASYNC",
                                    !.r.pipeout = "IDLE"]))
    PROVE  UsesInv'
<1> DEFINE w == W
           a == [w.r EXCEPT !.pipe = "FAILED"]
           b == [a EXCEPT !.pipein = "ASYNC"]
           u == [w.r EXCEPT !.pipe = "FAILED", !.pipein = "ASYNC",
                            !.pipeout = "IDLE"]
           o == [w EXCEPT !.r = u]
<1>1. w \in Worlds
  BY HandledNews
<1> HIDE DEF w
<1>2. w.r \in Record
  BY <1>1 DEF Worlds
<1>3. u \in Record
  <2>1. a \in Record
    BY <1>2 DEF Record
  <2> HIDE DEF a
  <2>2. b \in Record
    BY <2>1 DEF Record
  <2>3. u = [b EXCEPT !.pipeout = "IDLE"]
    BY <1>2 DEF Record, a
  <2> HIDE DEF b, u
  <2> QED BY <2>2, <2>3 DEF Record
<1>4. /\ u.in = w.r.in /\ u.out = w.r.out /\ u.peer = w.r.peer
      /\ u.streamhdr = w.r.streamhdr /\ u.pipe = "FAILED"
      /\ u.aipc = w.r.aipc
  BY <1>2 DEF Record
<1>5. o = [w EXCEPT !.r.pipe = "FAILED", !.r.pipein = "ASYNC",
                    !.r.pipeout = "IDLE"]
  BY <1>1, <1>2 DEF Worlds
<1> HIDE DEF u
<1>6. Flows(w, o) /\ o.r = u
  BY <1>1, <1>3, <1>4, SetFlows
<1>7. o \in Worlds /\ o.r.aipc = w.r.aipc
  BY <1>4, <1>6 DEF Flows
<1>8. Leave(SipcDone(o))
  BY <1>5 DEF w
<1> HIDE DEF o
<1>9. Ending(o, SipcDone(o))
  BY <1>7, SipcDoneFlows
<1>10. Ending(w, SipcDone(o))
  BY <1>6, <1>7, <1>9, FlowsTrans DEF Ending
<1> QED BY <1>8, <1>10, EndingHandler DEF w

(* A message was sent: nn_send may send another.                           *)
LEMMA SentUse ==
    ASSUME IInv, UsesInv, SipcSent
    PROVE  UsesInv'
<1> DEFINE a == [W.r EXCEPT !.outstate = "IDLE"]
           u == [W.r EXCEPT !.outstate = "IDLE", !.pipeout = "IDLE"]
           v == Raise([W EXCEPT !.r = u], "sock", "pipe",
                      IF "SENT" = "SENT" THEN "OUT" ELSE "IN")
<1>1. On("sipc", "usock", {"SENT"}) /\ W.r.sipc = "ACTIVE" /\ events # <<>>
  BY DEF SipcSent, On
<1>2. W \in Worlds /\ W.r \in Record
  BY <1>1, HandledNews DEF Worlds
<1>3. u \in Record
  <2>1. a \in Record
    BY <1>2 DEF Record
  <2>2. u = [a EXCEPT !.pipeout = "IDLE"]
    BY <1>2 DEF Record
  <2> HIDE DEF a, u
  <2> QED BY <2>1, <2>2 DEF Record
<1>4. /\ u.in = W.r.in /\ u.out = W.r.out /\ u.peer = W.r.peer
      /\ u.aipc = W.r.aipc /\ u.sipc = W.r.sipc
      /\ u.streamhdr = W.r.streamhdr /\ u.usock = W.r.usock
      /\ u.owner = W.r.owner /\ u.pipe = W.r.pipe
  BY <1>2 DEF Record
<1>5. [W EXCEPT !.r = u]
         = [W EXCEPT !.r.outstate = "IDLE", !.r.pipeout = "IDLE"]
  BY <1>2 DEF Worlds
<1>6. Leave(v)
  BY <1>5 DEF SipcSent
<1> HIDE DEF u
<1> QED BY <1>1, <1>3, <1>4, <1>6, OfferUse

(* A message is complete: nn_recv may take it.                             *)
LEMMA CompleteUse ==
    ASSUME IInv, UsesInv, On("sipc", "usock", {"RECEIVED"}),
           W.r.sipc = "ACTIVE", Leave(Complete(W))
    PROVE  UsesInv'
<1> DEFINE a == [W.r EXCEPT !.instate = "HASMSG"]
           u == [W.r EXCEPT !.instate = "HASMSG", !.pipein = "IDLE"]
           v == Raise([W EXCEPT !.r = u], "sock", "pipe",
                      IF "RECEIVED" = "SENT" THEN "OUT" ELSE "IN")
<1>1. events # <<>>
  BY DEF On
<1>2. W \in Worlds /\ W.r \in Record
  BY <1>1, HandledNews DEF Worlds
<1>3. u \in Record
  <2>1. a \in Record
    BY <1>2 DEF Record
  <2>2. u = [a EXCEPT !.pipein = "IDLE"]
    BY <1>2 DEF Record
  <2> HIDE DEF a, u
  <2> QED BY <2>1, <2>2 DEF Record
<1>4. /\ u.in = W.r.in /\ u.out = W.r.out /\ u.peer = W.r.peer
      /\ u.aipc = W.r.aipc /\ u.sipc = W.r.sipc
      /\ u.streamhdr = W.r.streamhdr /\ u.usock = W.r.usock
      /\ u.owner = W.r.owner /\ u.pipe = W.r.pipe
  BY <1>2 DEF Record
<1>5. [W EXCEPT !.r = u]
         = [W EXCEPT !.r.instate = "HASMSG", !.r.pipein = "IDLE"]
  BY <1>2 DEF Worlds
<1>6. Leave(v)
  BY <1>5 DEF Complete
<1> HIDE DEF u
<1> QED BY <1>3, <1>4, <1>6, OfferUse

(* The body of a message is asked for.                                     *)
LEMMA BodyUse ==
    ASSUME IInv, UsesInv, On("sipc", "usock", {"RECEIVED"}),
           W.r.sipc = "ACTIVE",
           Leave(UsockRecv([W EXCEPT !.r.instate = "BODY"]))
    PROVE  UsesInv'
<1> DEFINE w == W
           u == [w.r EXCEPT !.instate = "BODY"]
           o == [w EXCEPT !.r = u]
           v == UsockRecv(o)
<1>1. /\ events # <<>> /\ w \in Worlds /\ w.c = C /\ C \in Conn
      /\ w.r = conn[C] /\ w.excl = excl /\ w.tasks = tasks
      /\ NestInv(w.r) /\ NewsInv(w.c, w.r, ToSet(w.events))
  BY HandledNews DEF On
<1>2. /\ w.r.usock = "ACTIVE" =>
            OutFlow(C, w.r, excl, ToSet(w.events), Pending)
      /\ Told(ToSet(events), C, "sipc") => Told(ToSet(w.events), C, "sipc")
      /\ UseInv(C, w.r, excl, ToSet(events), Pending)
  BY MessageTaken
<1>3. w.r.sipc = "ACTIVE"
  OBVIOUS
<1> HIDE DEF w
<1>4. w.r \in Record
  BY <1>1 DEF Worlds
<1>5. /\ u \in Record /\ u.in = w.r.in /\ u.out = w.r.out
      /\ u.peer = w.r.peer /\ u.aipc = w.r.aipc /\ u.sipc = w.r.sipc
      /\ u.streamhdr = w.r.streamhdr /\ u.usock = w.r.usock
      /\ u.owner = w.r.owner /\ u.pipe = w.r.pipe /\ u.timer = w.r.timer
  BY <1>4 DEF Record
<1>6. Leave(v)
  <2>1. o = [w EXCEPT !.r.instate = "BODY"]
    BY <1>1 DEF Worlds
  <2> QED BY <2>1 DEF w
<1> HIDE DEF u
<1>7. Flows(w, o) /\ o.r = u /\ o.excl = w.excl /\ o.tasks = w.tasks
      /\ o.events = w.events
  BY <1>1, <1>5, SetFlows
<1>8. o \in Worlds /\ o.c = C
  BY <1>1, <1>7 DEF Flows
<1> HIDE DEF o
<1>9. \/ /\ UsockEnds(o, v)
         /\ o.r.usock # "ACTIVE" \/ o.r.peer = "closed"
      \/ /\ Within(o, v) /\ v.r.streamhdr = o.r.streamhdr
         /\ o.r.usock = "ACTIVE" /\ v.r.usock = "ACTIVE"
         /\ \/ UsockTask(o.c, "RECV") \in ToSet(v.tasks)
            \/ Has(ToSet(v.events), o.c, "usock", "RECEIVED")
  BY <1>8, UsockRecvFlows
<1> HIDE DEF v
<1>10. Within(o, v) /\ v.r.streamhdr = o.r.streamhdr
  BY <1>9 DEF UsockEnds
<1>11. /\ Flows(w, v) /\ v.excl = excl /\ v.c = C
       /\ v.r.sipc = "ACTIVE" /\ v.r.aipc = w.r.aipc
       /\ v.r.owner = w.r.owner /\ v.r.streamhdr = w.r.streamhdr
       /\ ToSet(w.events) \subseteq ToSet(v.events)
       /\ ToSet(tasks) \subseteq ToSet(v.tasks)
  <2>1. Flows(w, v)
    BY <1>7, <1>10, FlowsTrans DEF Within
  <2> QED BY <1>1, <1>3, <1>5, <1>7, <1>10, <2>1 DEF Within, Flows
<1>12. v.r.in = w.r.in /\ v.r.out = w.r.out
  BY <1>11 DEF Flows
<1>13. NewsInv(v.c, v.r, ToSet(v.events))
  BY <1>1, <1>11, NewsKept
<1>14. w.r.owner = "sipc"
  BY <1>2, <1>3 DEF UseInv, OpenInv
<1>15. /\ v.r.usock = w.r.usock
            \/ (v.r.usock # "ACTIVE" /\ Told(ToSet(v.events), C, "sipc"))
       /\ v.r.usock = "ACTIVE" =>
             /\ w.r.usock = "ACTIVE"
             /\ \/ UsockTask(C, "RECV") \in ToSet(v.tasks)
                \/ Has(ToSet(v.events), C, "usock", "RECEIVED")
  <2>1. CASE UsockEnds(o, v) /\ w.r.usock = "ACTIVE"
    BY <1>5, <1>7, <1>8, <1>14, <2>1 DEF UsockEnds
  <2>2. CASE UsockEnds(o, v) /\ w.r.usock # "ACTIVE"
    <3>1. v = UsockRecv(o) /\ o.r.usock # "ACTIVE"
      BY <1>5, <1>7, <2>2 DEF v
    <3>2. v = o
      BY <3>1 DEF UsockRecv, UsockFails
    <3> QED BY <1>5, <1>7, <2>2, <3>2
  <2>3. CASE /\ Within(o, v) /\ v.r.streamhdr = o.r.streamhdr
             /\ o.r.usock = "ACTIVE" /\ v.r.usock = "ACTIVE"
             /\ \/ UsockTask(o.c, "RECV") \in ToSet(v.tasks)
                \/ Has(ToSet(v.events), o.c, "usock", "RECEIVED")
    BY <1>5, <1>7, <1>8, <2>3
  <2> QED BY <1>9, <2>1, <2>2, <2>3
<1>16. OutFlow(C, w.r, excl, ToSet(w.events), Pending)
          => OutFlow(C, v.r, excl, ToSet(v.events),
                     ToSet(v.tasks) \cup ToSet(batch))
  <2>1. Pending \subseteq ToSet(v.tasks) \cup ToSet(batch)
    BY <1>11 DEF Pending
  <2>2. ToSet(w.events) \subseteq ToSet(v.events)
    BY <1>11
  <2> DEFINE l == ToSet(v.tasks) \cup ToSet(batch)
             z == v.r
             r == w.r
  <2>3. Pending \subseteq l /\ z.in = r.in /\ z.out = r.out
    BY <1>12, <2>1
  <2> HIDE DEF l, z, r
  <2>4. OutFlow(C, r, excl, ToSet(w.events), Pending)
           => OutFlow(C, z, excl, ToSet(v.events), l)
    BY <2>2, <2>3, FlowKept
  <2> QED BY <2>4 DEF l, z, r
<1>17. v.r.usock = "ACTIVE" =>
          /\ InFlow(C, v.r, excl, ToSet(v.events),
                    ToSet(v.tasks) \cup ToSet(batch))
          /\ OutFlow(C, v.r, excl, ToSet(v.events),
                     ToSet(v.tasks) \cup ToSet(batch))
  BY <1>2, <1>15, <1>16 DEF InFlow
<1>18. Told(ToSet(events), C, "sipc") => Told(ToSet(v.events), C, "sipc")
  BY <1>2, <1>11 DEF Told
<1>19. UseInv(C, v.r, excl, ToSet(v.events),
              ToSet(v.tasks) \cup ToSet(batch))
  <2>1. NewsInv(C, v.r, ToSet(v.events))
    BY <1>11, <1>13
  <2> QED BY <1>2, <1>3, <1>11, <1>15, <1>17, <1>18, <2>1, ActiveUse
<1>20. Around(w, v)
  BY <1>1, <1>11, WithinAround
<1> QED BY <1>1, <1>6, <1>11, <1>19, <1>20, HandlerUse DEF w

(* sipc's handler.                                                         *)
LEMMA SipcHandlerUse ==
    ASSUME IInv, UsesInv, SipcHandler
    PROVE  UsesInv'
<1>1. events # <<>>
  BY DEF SipcHandler, On, SipcHeaderExchanged, SipcHeaderFailed,
         SipcStartsPipe, SipcSent, SipcReceivedHdr, SipcReceivedBody,
         SipcShutdown, SipcError, SipcStops
<1>2. W \in Worlds
  BY <1>1, HandledNews
<1>3. CASE SipcHeaderExchanged
  BY <1>3, HeaderExchangedUse
<1>4. ASSUME Leave(SipcDone(W))
      PROVE  UsesInv'
  BY <1>1, <1>2, <1>4, SipcDoneFlows, EndingHandler
<1>5. CASE SipcHeaderFailed
  BY <1>4, <1>5 DEF SipcHeaderFailed
<1>6. CASE SipcStartsPipe
  <2>1. On("sipc", "streamhdr", {"STOPPED"})
        /\ W.r.sipc = "STOPPING_STREAMHDR"
    BY <1>6 DEF SipcStartsPipe
  <2>2. CASE /\ excl.pipe = None
             /\ Leave([UsockRecv(PipeStart(W)) EXCEPT
                            !.r.instate = "HDR",
                            !.r.outstate = "IDLE",
                            !.r.sipc = "ACTIVE"])
    BY <2>1, <2>2, PipeStartUse
  <2>3. CASE /\ excl.pipe # None
             /\ Leave(SipcDone([W EXCEPT !.r.pipe = "FAILED",
                                         !.r.pipein = "ASYNC",
                                         !.r.pipeout = "IDLE"]))
    BY <1>1, <2>3, PipeRefusedUse
  <2> QED BY <1>6, <2>2, <2>3 DEF SipcStartsPipe
<1>7. CASE SipcSent
  BY <1>7, SentUse
<1>8. CASE SipcReceivedHdr
  BY <1>4, <1>8, CompleteUse, BodyUse DEF SipcReceivedHdr
<1>9. CASE SipcReceivedBody
  BY <1>9, CompleteUse DEF SipcReceivedBody
<1>10. PipeStop(W) \in Worlds /\ Flows(W, PipeStop(W))
       /\ PipeStop(W).r.aipc = W.r.aipc
  BY <1>2, PipeStopFlows DEF Flows
<1>11. CASE SipcShutdown
  <2> DEFINE o == PipeStop(W)
             v == [o EXCEPT !.r.sipc = "SHUTTING_DOWN"]
  <2>1. Leave(v)
    BY <1>11 DEF SipcShutdown
  <2>2. o \in Worlds /\ Flows(W, o) /\ o.r.aipc = W.r.aipc
    BY <1>10
  <2> HIDE DEF o
  <2>3. Flows(o, v) /\ v.r.aipc = o.r.aipc /\ v.r.sipc = "SHUTTING_DOWN"
    BY <2>2, SipcSetFlows, Zenon
  <2> HIDE DEF v
  <2>4. Ending(W, v)
    BY <2>2, <2>3, FlowsTrans DEF Ending
  <2> QED BY <1>1, <2>1, <2>4, EndingHandler
<1>12. CASE SipcError
  <2>1. ASSUME Leave(SipcDone(PipeStop(W)))
        PROVE  UsesInv'
    <3> DEFINE o == PipeStop(W)
    <3>1. Ending(o, SipcDone(o))
      BY <1>10, SipcDoneFlows
    <3>2. Ending(W, SipcDone(o))
      BY <1>10, <3>1, FlowsTrans DEF Ending
    <3> QED BY <1>1, <2>1, <3>2, EndingHandler
  <2> QED BY <1>4, <1>12, <2>1 DEF SipcError
<1>13. CASE SipcStops
  BY <1>1, <1>2, <1>13, SipcStoppingFlows, EndingHandler DEF SipcStops
<1> QED BY <1>3, <1>5, <1>6, <1>7, <1>8, <1>9, <1>11, <1>12, <1>13
        DEF SipcHandler

-----------------------------------------------------------------------------
(* The pair socket's handler.                                              *)

(* excl notes that the pipe is ready.                                      *)
LEMMA SockHandlerUse ==
    ASSUME IInv, UsesInv, SockHandler
    PROVE  UsesInv'
<1> DEFINE s == ToSet(events)
           t == ToSet(W.events)
           h == Head(events)
           x == W.excl
<1>1. /\ events # <<>> /\ h.src = "pipe"
      /\ \/ SockIn /\ h.type = "IN"
         \/ SockOut /\ h.type = "OUT"
  BY DEF SockHandler, SockIn, SockOut, On
<1>2. /\ W \in Worlds /\ W.c = C /\ C \in Conn /\ W.r = conn[C]
      /\ W.excl = excl /\ W.tasks = tasks
      /\ NestInv(W.r) /\ NewsInv(W.c, W.r, t)
  BY <1>1, HandledNews
<1>3. s = {h} \cup t
  BY <1>1, HandledWorld
<1>4. UseInv(C, W.r, x, s, Pending)
  BY <1>2 DEF UsesInv
<1>5. x \in Excls /\ x = excl
  BY <1>2 DEF Worlds
<1> SUFFICES ASSUME NEW y \in Excls, Leave([W EXCEPT !.excl = y]),
                    \/ /\ h.type = "IN" /\ y.inpipe = C /\ x.inpipe = None
                       /\ y.outpipe = x.outpipe
                    \/ /\ h.type = "OUT" /\ y.outpipe = C /\ x.outpipe = None
                       /\ y.inpipe = x.inpipe
             PROVE  UsesInv'
  <2>1. CASE SockIn /\ h.type = "IN"
    <3> DEFINE y == [x EXCEPT !.inpipe = C]
    <3>1. y \in Excls /\ y.inpipe = C /\ y.outpipe = x.outpipe
      BY <1>2, <1>5 DEF Excls
    <3>2. [W EXCEPT !.excl.inpipe = C] = [W EXCEPT !.excl = y]
      BY <1>2 DEF Worlds
    <3>3. Leave([W EXCEPT !.excl = y]) /\ x.inpipe = None
      BY <1>5, <2>1, <3>2 DEF SockIn
    <3> QED BY <2>1, <3>1, <3>3
  <2>2. CASE SockOut /\ h.type = "OUT"
    <3> DEFINE y == [x EXCEPT !.outpipe = C]
    <3>1. y \in Excls /\ y.outpipe = C /\ y.inpipe = x.inpipe
      BY <1>2, <1>5 DEF Excls
    <3>2. [W EXCEPT !.excl.outpipe = C] = [W EXCEPT !.excl = y]
      BY <1>2 DEF Worlds
    <3>3. Leave([W EXCEPT !.excl = y]) /\ x.outpipe = None
      BY <1>5, <2>2, <3>2 DEF SockOut
    <3> QED BY <2>2, <3>1, <3>3
  <2> QED BY <1>1, <2>1, <2>2
<1> DEFINE v == [W EXCEPT !.excl = y]
<1>6. /\ v \in Worlds /\ v.c = C /\ v.r = W.r /\ v.excl = y
      /\ v.events = W.events /\ v.tasks = W.tasks
  BY <1>2 DEF Worlds
<1>7. Leave(v)
  OBVIOUS
<1> HIDE DEF v, h, s, t, x
<1>8. Around(W, v)
  BY <1>2, <1>5, <1>6, IpcAssumption DEF Around
<1>9. Told(s, C, "sipc") => Told(t, C, "sipc")
  BY <1>1, <1>3 DEF Told
<1>10. W.r.sipc = "ACTIVE" /\ W.r.usock = "ACTIVE" =>
          InFlow(C, W.r, y, t, Pending) /\ OutFlow(C, W.r, y, t, Pending)
  <2>1. /\ Has(s, C, "usock", "SENT") => Has(t, C, "usock", "SENT")
        /\ Has(s, C, "usock", "RECEIVED") => Has(t, C, "usock", "RECEIVED")
        /\ h.type = "IN" /\ Has(s, C, "pipe", "OUT")
              => Has(t, C, "pipe", "OUT")
        /\ h.type = "OUT" /\ Has(s, C, "pipe", "IN") => Has(t, C, "pipe", "IN")
    BY <1>1, <1>3 DEF Has
  <2> QED BY <1>4, <2>1 DEF UseInv, FlowInv, InFlow, OutFlow
<1>11. UseInv(C, W.r, y, t, Pending)
  <2>1. OpenInv(C, W.r, t)
    BY <1>4, <1>9 DEF UseInv, OpenInv
  <2>2. FlowInv(C, W.r, y, t, Pending)
    BY <1>4, <1>10 DEF UseInv, FlowInv
  <2> QED BY <1>2, <2>1, <2>2 DEF UseInv
<1>12. UseInv(v.c, v.r, v.excl, ToSet(v.events),
              ToSet(v.tasks) \cup ToSet(batch))
  BY <1>2, <1>6, <1>11 DEF t, Pending
<1> QED BY <1>1, <1>7, <1>8, <1>12, HandlerUse

-----------------------------------------------------------------------------
(* The next connection.                                                    *)

(* accept succeeds: its peer is there, unless peers may leave early,       *)
LEMMA AcceptedUse ==
    ASSUME NEW w \in Worlds, NEW b, NEW v \in Accepted(w), w.backlog > 0,
           w.r.usock # "ACTIVE",
           UseInv(w.c, w.r, w.excl, ToSet(w.events), ToSet(w.tasks) \cup b)
    PROVE  /\ Around(w, v)
           /\ UseInv(v.c, v.r, v.excl, ToSet(v.events), ToSet(v.tasks) \cup b)
<1>1. PICK peer \in {"none", "open", "closed"}, unread \in 0..1 :
         v = AcceptedFrom(w, peer, unread) /\ (LeavesEarly \/ peer = "open")
  BY DEF Accepted
<1> DEFINE u == [w.r EXCEPT !.usock = "ACCEPTED", !.peer = peer,
                            !.unread = unread]
           l == [w.listener EXCEPT !.state = "LISTENING", !.polled = FALSE]
           o == [w EXCEPT !.r = u, !.listener = l, !.backlog = @ - 1]
           owner == u.owner
           e == [to |-> owner, src |-> "usock", type |-> "ACCEPTED",
                 c |-> w.c]
<1>2. w.r \in Record /\ w.listener \in Listeners /\ w.backlog \in Nat
      /\ w.c \in Conn
  BY DEF Worlds
<1>3. u \in Record
  <2> DEFINE t == [w.r EXCEPT !.unread = unread]
             p == [t EXCEPT !.peer = peer]
  <2>1. unread \in 0..MaxUnread
    BY BoundsAssumption
  <2>2. t \in Record
    BY <1>2, <2>1 DEF Record
  <2> HIDE DEF t
  <2>3. p \in Record
    BY <2>2 DEF Record
  <2>4. u = [p EXCEPT !.usock = "ACCEPTED"]
    BY <1>2, Zenon DEF Record, p, t
  <2> HIDE DEF p, u
  <2> QED BY <2>3, <2>4 DEF Record
<1>4. /\ u.usock = "ACCEPTED" /\ u.peer = peer /\ u.aipc = w.r.aipc
      /\ u.sipc = w.r.sipc /\ u.streamhdr = w.r.streamhdr
      /\ u.owner = w.r.owner
  BY <1>2 DEF Record
<1>5. l \in Listeners
  BY <1>2 DEF Listeners
<1>6. v = RaiseUsock(o, "ACCEPTED")
  BY <1>1, <1>2, ZenonT(30) DEF Worlds, AcceptedFrom
<1> HIDE DEF u, l
<1>7. /\ o \in Worlds /\ o.c = w.c /\ o.r = u /\ o.excl = w.excl
      /\ o.tasks = w.tasks /\ o.events = w.events
  <2>1. w.backlog - 1 \in Nat
    BY <1>2
  <2> QED BY <1>3, <1>5, <2>1, Zenon DEF Worlds
<1> HIDE DEF o
<1>8. owner \in {"aipc", "sipc", "streamhdr"}
  BY <1>3 DEF Record
<1>9. v = Raise(o, owner, "usock", "ACCEPTED")
  BY <1>6, <1>7 DEF RaiseUsock
<1> HIDE DEF owner
<1>10. e \in Events
  BY <1>2, <1>8 DEF Events, Machines
<1>11. /\ v.c = w.c /\ v.r = u /\ v.excl = w.excl /\ v.tasks = w.tasks
       /\ ToSet(v.events) = ToSet(w.events) \cup {e}
  <2>1. o \in Worlds
    BY <1>7
  <2>2. [to |-> owner, src |-> "usock", type |-> "ACCEPTED", c |-> o.c]
           \in Events
    BY <1>7, <1>10
  <2>3. /\ v.c = o.c /\ v.r = o.r /\ v.excl = o.excl /\ v.tasks = o.tasks
        /\ ToSet(v.events) = ToSet(o.events) \cup
              {[to |-> owner, src |-> "usock", type |-> "ACCEPTED",
                c |-> o.c]}
    BY <1>9, <2>1, <2>2, RaiseEffect
  <2> QED BY <1>7, <2>3
<1>12. e.c = w.c /\ e.to # "bipc" /\ e.src = "usock"
  BY <1>8
<1> HIDE DEF e
<1>13. Around(w, v)
  BY <1>11, <1>12 DEF Around
<1>14. NewsInv(v.c, v.r, ToSet(v.events))
  BY <1>1, <1>4, <1>11, <1>12 DEF UseInv, NewsInv
<1>15. FlowInv(v.c, v.r, v.excl, ToSet(v.events), ToSet(v.tasks) \cup b)
  BY <1>4, <1>11 DEF UseInv, FlowInv
<1>16. OpenInv(v.c, v.r, ToSet(v.events))
  <2>1. Told(ToSet(w.events), w.c, "sipc")
           => Told(ToSet(v.events), w.c, "sipc")
    BY <1>11 DEF Told
  <2> QED BY <1>4, <1>11, <2>1 DEF UseInv, OpenInv
<1> QED BY <1>13, <1>14, <1>15, <1>16 DEF UseInv

(* or fails.                                                               *)
LEMMA AcceptErrorUse ==
    ASSUME NEW w \in Worlds, NEW b,
           UseInv(w.c, w.r, w.excl, ToSet(w.events), ToSet(w.tasks) \cup b)
    PROVE  LET v == AcceptError(w)
           IN  /\ Around(w, v)
               /\ UseInv(v.c, v.r, v.excl, ToSet(v.events),
                         ToSet(v.tasks) \cup b)
<1> DEFINE l == [state |-> "ACCEPTING_ERROR", polled |-> FALSE,
                 errnum |-> TRUE]
           o == [w EXCEPT !.listener = l]
           e == [to |-> "aipc", src |-> "listener", type |-> "ACCEPT_ERROR",
                 c |-> w.c]
           v == AcceptError(w)
<1>1. l \in Listeners
  BY DEF Listeners
<1>2. v = Raise(o, "aipc", "listener", "ACCEPT_ERROR")
  BY DEF AcceptError
<1> HIDE DEF l, v
<1>3. /\ o \in Worlds /\ o.c = w.c /\ o.r = w.r /\ o.excl = w.excl
      /\ o.tasks = w.tasks /\ o.events = w.events
  BY <1>1 DEF Worlds
<1> HIDE DEF o
<1>4. e \in Events /\ e.c = w.c /\ e.to = "aipc" /\ e.src = "listener"
  BY DEF Worlds, Events, Machines
<1>5. /\ v.c = w.c /\ v.r = w.r /\ v.excl = w.excl /\ v.tasks = w.tasks
      /\ ToSet(v.events) = ToSet(w.events) \cup {e}
  <2>1. [to |-> "aipc", src |-> "listener", type |-> "ACCEPT_ERROR",
         c |-> o.c] \in Events
    BY <1>3, <1>4
  <2>2. o \in Worlds
    BY <1>3
  <2> DEFINE f == [to |-> "aipc", src |-> "listener",
                   type |-> "ACCEPT_ERROR", c |-> o.c]
  <2>3. /\ v \in Worlds /\ v.c = o.c /\ v.r = o.r
        /\ v.listener = o.listener /\ v.backlog = o.backlog
        /\ v.excl = o.excl /\ v.tasks = o.tasks
        /\ v.events = Append(o.events, f)
        /\ ToSet(v.events) = ToSet(o.events) \cup {f}
    BY <1>2, <2>1, <2>2, RaiseEffect
  <2> QED BY <1>3, <2>3
<1> HIDE DEF e
<1>6. Around(w, v)
  BY <1>4, <1>5 DEF Around
<1>7. NewsInv(v.c, v.r, ToSet(v.events))
  BY <1>4, <1>5 DEF UseInv, NewsInv
<1>8. /\ ToSet(w.events) \subseteq ToSet(v.events)
      /\ v.c = w.c /\ v.r = w.r /\ v.excl = w.excl /\ v.tasks = w.tasks
  BY <1>5
<1>9. FlowInv(v.c, v.r, v.excl, ToSet(v.events), ToSet(v.tasks) \cup b)
  BY <1>8, FlowKept DEF UseInv, FlowInv
<1>10. OpenInv(v.c, v.r, ToSet(v.events))
  BY <1>8 DEF UseInv, OpenInv, Told
<1> QED BY <1>6, <1>7, <1>9, <1>10 DEF UseInv, v

(* An aipc that accepts: sipc is idle.                                     *)
LEMMA AcceptUse ==
    ASSUME NEW w \in Worlds, NEW b, NEW v \in Accept(w),
           w.r.sipc = "IDLE", NewsInv(w.c, w.r, ToSet(w.events))
    PROVE  /\ Around(w, v)
           /\ UseInv(v.c, v.r, v.excl, ToSet(v.events), ToSet(v.tasks) \cup b)
<1> DEFINE u == [w.r EXCEPT !.usock = "BEING_ACCEPTED"]
           l == [w.listener EXCEPT !.state = "ACCEPTING"]
           p == [w EXCEPT !.r = u]
           o == [p EXCEPT !.listener = l]
           wait == ListenerTask(o, "ACCEPT")
<1>1. w.r \in Record /\ w.listener \in Listeners /\ w.backlog \in Nat
  BY DEF Worlds
<1>2. /\ u \in Record /\ u.usock = "BEING_ACCEPTED" /\ u.aipc = w.r.aipc
      /\ u.sipc = w.r.sipc /\ u.streamhdr = w.r.streamhdr
      /\ u.owner = w.r.owner /\ u.peer = w.r.peer
  BY <1>1 DEF Record
<1>3. l \in Listeners
  BY <1>1 DEF Listeners
<1>4. o = [w EXCEPT !.r.usock = "BEING_ACCEPTED",
                    !.listener.state = "ACCEPTING"]
  BY <1>1 DEF Worlds
<1>5. v \in (IF o.backlog > 0 THEN Accepted(o) ELSE {wait})
            \cup {AcceptError(o), wait}
  BY <1>4 DEF Accept
<1> HIDE DEF u, l
<1>6. /\ o \in Worlds /\ o.c = w.c /\ o.r = u /\ o.excl = w.excl
      /\ o.tasks = w.tasks /\ o.events = w.events
  BY <1>2, <1>3 DEF Worlds
<1> HIDE DEF o, wait
<1>7. NewsInv(o.c, o.r, ToSet(o.events))
  BY <1>2, <1>6 DEF NewsInv
<1>8. UseInv(o.c, o.r, o.excl, ToSet(o.events), ToSet(o.tasks) \cup b)
  BY <1>2, <1>6, <1>7 DEF UseInv, FlowInv, OpenInv
<1>9. /\ Around(o, v)
      /\ UseInv(v.c, v.r, v.excl, ToSet(v.events), ToSet(v.tasks) \cup b)
  <2>1. CASE o.backlog > 0 /\ v \in Accepted(o)
    BY <1>2, <1>6, <1>8, <2>1, AcceptedUse
  <2>2. CASE v = AcceptError(o)
    BY <1>6, <1>8, <2>2, AcceptErrorUse
  <2>3. CASE v = wait
    <3>1. Inside(o, v)
      BY <1>6, <2>3, ListenerTaskFlows DEF Inside, wait
    <3>2. NewsInv(v.c, v.r, ToSet(v.events))
          /\ v.r.sipc = "IDLE"
      BY <1>2, <1>6, <1>7, <2>3, ListenerTaskFlows DEF Within, Flows, wait
    <3>3. Around(o, v)
      BY <3>1, WithinAround DEF Inside, Within
    <3> QED BY <3>2, <3>3 DEF UseInv, FlowInv, OpenInv
  <2> QED BY <1>5, <2>1, <2>2, <2>3
<1>10. Around(w, v)
  BY <1>6, <1>9 DEF Around
<1> QED BY <1>9, <1>10

(* A new aipc does.                                                        *)
LEMMA AipcStartUse ==
    ASSUME NEW w \in Worlds, NEW b, NEW v \in AipcStart(w),
           \A e \in ToSet(w.events) : e.c = w.c => OfListener(e)
    PROVE  /\ Around(w, v)
           /\ UseInv(v.c, v.r, v.excl, ToSet(v.events), ToSet(v.tasks) \cup b)
<1> DEFINE u == [Fresh EXCEPT !.aipc = "ACCEPTING"]
           o == [w EXCEPT !.r = u]
<1>1. u \in Record
  <2>1. 0 \in 0..MaxUnread
    BY BoundsAssumption
  <2>2. Fresh \in Record
    BY <2>1, Zenon DEF Fresh, Record
  <2> QED BY <2>2 DEF Record
<1>2. u.sipc = "IDLE"
  BY DEF Fresh
<1>3. v \in Accept(o)
  BY DEF AipcStart
<1> HIDE DEF u
<1>4. /\ o \in Worlds /\ o.c = w.c /\ o.r = u /\ o.excl = w.excl
      /\ o.tasks = w.tasks /\ o.events = w.events
  BY <1>1 DEF Worlds
<1> HIDE DEF o
<1>5. NewsInv(o.c, o.r, ToSet(o.events))
  BY <1>4 DEF NewsInv, OfListener
<1>6. /\ Around(o, v)
      /\ UseInv(v.c, v.r, v.excl, ToSet(v.events), ToSet(v.tasks) \cup b)
  BY <1>2, <1>3, <1>4, <1>5, AcceptUse
<1>7. Around(w, v)
  BY <1>4, <1>6 DEF Around
<1> QED BY <1>6, <1>7

-----------------------------------------------------------------------------
(* aipc's handler.                                                         *)

(* aipc tells bipc that it has a connection.                               *)
LEMMA AcceptedTells ==
    ASSUME NEW w \in Worlds, NEW type \in {"ACCEPTED", "ERROR"}
    PROVE  LET v == Raise(w, "bipc", "aipc", type)
           IN  Within(w, v) /\ v.r = w.r
<1>1. /\ type \in {"SENT", "RECEIVED", "SHUTDOWN", "ERROR", "STOPPED",
                   "TIMEOUT", "IN", "OUT", "ACCEPTED"}
      /\ "bipc" \in Machines
  BY DEF Machines
<1> QED BY <1>1, RaiseFlows, Zenon

(* A connection is accepted: its peer is there, so that the header can be  *)
(* sent, unless peers may leave early.                                     *)
LEMMA AipcAcceptedUse ==
    ASSUME IInv, UsesInv, AipcAccepted
    PROVE  UsesInv'
<1> DEFINE w == W
           a == [w.r EXCEPT !.aipc = "ACTIVE"]
           b == [a EXCEPT !.usock = "ACTIVE"]
           u == [w.r EXCEPT !.aipc = "ACTIVE", !.usock = "ACTIVE",
                            !.sipc = "PROTOHDR"]
           o == [w EXCEPT !.r = u]
           p == Raise(o, "bipc", "aipc", "ACCEPTED")
           f == [p.r EXCEPT !.owner = "streamhdr"]
           q == [p EXCEPT !.r = f]
           t == TimerStart(q)
<1>1. /\ events # <<>> /\ Head(events).src = "usock"
      /\ Head(events).type = "ACCEPTED" /\ w.r.aipc = "ACCEPTING"
  BY DEF AipcAccepted, On
<1>2. /\ w \in Worlds /\ w.c = C /\ C \in Conn /\ w.r = conn[C]
      /\ w.excl = excl /\ w.tasks = tasks
      /\ NestInv(w.r) /\ NewsInv(w.c, w.r, ToSet(w.events))
  BY <1>1, HandledNews
<1>3. LeavesEarly \/ w.r.peer = "open"
  <2>1. NewsInv(C, conn[C], ToSet(events))
    BY <1>2 DEF UsesInv, UseInv
  <2>2. Head(events) \in ToSet(events) /\ Head(events).c = C
    BY <1>1, HandledWorld DEF C
  <2> QED BY <1>1, <1>2, <2>1, <2>2 DEF NewsInv
<1>4. w.r.streamhdr = "IDLE"
  BY <1>1, <1>2 DEF NestInv
<1>5. PICK s \in UsockSend(t) : Leave([s EXCEPT !.r.streamhdr = "SENDING"])
  <2>1. w.r \in Record
    BY <1>2 DEF Worlds
  <2>2. o = [w EXCEPT !.r.aipc = "ACTIVE", !.r.usock = "ACTIVE",
                      !.r.sipc = "PROTOHDR"]
    BY <1>2, <2>1, Zenon DEF Worlds
  <2>3. q = [p EXCEPT !.r.owner = "streamhdr"]
    OBVIOUS
  <2>4. \E v \in StreamhdrStart(p) : Leave(v)
    BY <2>2 DEF AipcAccepted
  <2> HIDE DEF p
  <2> QED BY <2>3, <2>4 DEF StreamhdrStart
<1> HIDE DEF w
<1>6. w.r \in Record
  BY <1>2 DEF Worlds
<1>7. u \in Record
  <2>1. a \in Record
    BY <1>6 DEF Record
  <2> HIDE DEF a
  <2>2. b \in Record
    BY <2>1 DEF Record
  <2>3. u = [b EXCEPT !.sipc = "PROTOHDR"]
    BY <1>6 DEF Record, a
  <2> HIDE DEF b, u
  <2> QED BY <2>2, <2>3 DEF Record
<1>8. /\ u.in = w.r.in /\ u.out = w.r.out /\ u.peer = w.r.peer
      /\ u.streamhdr = w.r.streamhdr /\ u.pipe = w.r.pipe
      /\ u.aipc = "ACTIVE" /\ u.usock = "ACTIVE" /\ u.sipc = "PROTOHDR"
  BY <1>6 DEF Record
<1> HIDE DEF u
<1>9. Flows(w, o) /\ o.r = u /\ o.excl = w.excl
  BY <1>2, <1>7, <1>8, SetFlows
<1>10. o \in Worlds
  BY <1>9 DEF Flows
<1> HIDE DEF o
<1>11. Within(o, p) /\ p.r = u
  BY <1>9, <1>10, AcceptedTells
<1>12. p \in Worlds
  BY <1>11 DEF Within, Flows
<1> HIDE DEF p
<1>13. p.r \in Record
  BY <1>12 DEF Worlds
<1>14. /\ f \in Record /\ f.in = u.in /\ f.out = u.out /\ f.peer = u.peer
       /\ f.streamhdr = u.streamhdr /\ f.pipe = u.pipe
       /\ f.aipc = u.aipc /\ f.usock = u.usock /\ f.sipc = u.sipc
       /\ f.owner = "streamhdr"
  BY <1>11, <1>13 DEF Record
<1> HIDE DEF f
<1>15. Flows(p, q) /\ q.r = f /\ q.excl = p.excl
  BY <1>11, <1>12, <1>14, SetFlows
<1>16. q \in Worlds
  BY <1>15 DEF Flows
<1> HIDE DEF q
<1>17. Inside(q, t)
  BY <1>16, TimerStartFlows
<1>18. t \in Worlds
  BY <1>17 DEF Inside, Within, Flows
<1> HIDE DEF t
<1>19. \/ /\ UsockEnds(t, s)
          /\ t.r.usock # "ACTIVE" \/ t.r.peer = "closed"
       \/ Within(t, s) /\ s.r = t.r
  BY <1>18, UsockSendFlows
<1>20. Within(t, s)
  BY <1>19 DEF UsockEnds
<1>21. Flows(w, s) /\ s.excl = w.excl /\ s \in Worlds
  <2>1. Flows(o, p) /\ Flows(q, t) /\ Flows(t, s)
    BY <1>11, <1>17, <1>20 DEF Inside, Within
  <2>2. Flows(w, p)
    BY <1>9, <2>1, FlowsTrans
  <2>3. Flows(w, q)
    BY <1>15, <2>2, FlowsTrans
  <2>4. Flows(w, t)
    BY <2>1, <2>3, FlowsTrans
  <2>5. Flows(w, s)
    BY <2>1, <2>4, FlowsTrans
  <2>6. s.excl = w.excl
    BY <1>9, <1>11, <1>15, <1>17, <1>20 DEF Inside, Within
  <2> QED BY <2>5, <2>6 DEF Flows
<1>22. /\ s.r.aipc = "ACTIVE" /\ s.r.sipc = "PROTOHDR"
       /\ s.r.peer = w.r.peer
       /\ ~LeavesEarly => s.r.usock = "ACTIVE"
  <2>1. t.r.usock = "ACTIVE" /\ t.r.aipc = "ACTIVE" /\ t.r.sipc = "PROTOHDR"
    BY <1>8, <1>14, <1>15, <1>17 DEF Inside, Within
  <2>2. s.r.peer = w.r.peer /\ t.r.peer = w.r.peer
    BY <1>8, <1>14, <1>15, <1>17, <1>20 DEF Inside, Within, Flows
  <2>3. ~LeavesEarly => s.r.usock = "ACTIVE"
    <3>1. ~LeavesEarly => t.r.peer # "closed"
      BY <1>3, <2>2
    <3> QED BY <1>19, <2>1, <3>1
  <2> QED BY <1>20, <2>1, <2>2, <2>3 DEF Within
<1> DEFINE v == [s EXCEPT !.r.streamhdr = "SENDING"]
<1>23. /\ v.c = s.c /\ v.excl = s.excl /\ v.tasks = s.tasks
       /\ v.events = s.events
  BY <1>21 DEF Worlds
<1>24. /\ v.r.aipc = s.r.aipc /\ v.r.sipc = s.r.sipc
       /\ v.r.peer = s.r.peer /\ v.r.usock = s.r.usock
  <2>1. s.r \in Record /\ v.r = [s.r EXCEPT !.streamhdr = "SENDING"]
    BY <1>21 DEF Worlds
  <2> QED BY <2>1 DEF Record
<1>25. Leave(v)
  BY <1>5
<1> HIDE DEF v
<1>26. Around(w, v)
  <2>1. Around(w, s)
    BY <1>21, WithinAround
  <2> QED BY <1>23, <2>1 DEF Around
<1>27. NewsInv(v.c, v.r, ToSet(v.events))
  <2> SUFFICES ASSUME NEW e \in ToSet(s.events), e.c = w.c
               PROVE  /\ e.to = "bipc" => e.src \in {"aipc", "listener"}
                      /\ e.src # "streamhdr"
    BY <1>21, <1>22, <1>23, <1>24 DEF NewsInv, Flows
  <2>1. CASE e \in ToSet(w.events)
    BY <1>1, <1>2, <2>1 DEF NewsInv
  <2>2. CASE News(e, w, s)
    BY <1>4, <2>2 DEF News
  <2> QED BY <1>21, <2>1, <2>2 DEF Flows
<1>28. FlowInv(v.c, v.r, v.excl, ToSet(v.events),
               ToSet(v.tasks) \cup ToSet(batch))
  BY <1>22, <1>24 DEF FlowInv
<1>29. OpenInv(v.c, v.r, ToSet(v.events))
  BY <1>3, <1>22, <1>24 DEF OpenInv
<1> QED BY <1>1, <1>25, <1>26, <1>27, <1>28, <1>29, HandlerUse
        DEF UseInv, w

(* aipc's handler.                                                         *)
LEMMA AipcHandlerUse ==
    ASSUME IInv, UsesInv, AipcHandler
    PROVE  UsesInv'
<1> DEFINE w == W
<1>1. events # <<>>
  BY DEF AipcHandler, AipcAccepted, AipcAcceptError, AipcBroken,
         AipcSipcStopped, AipcShutdown, AipcUsockStopped, AipcStops, On
<1>2. /\ w \in Worlds /\ w.c = C /\ C \in Conn /\ w.r = conn[C]
      /\ w.excl = excl /\ w.tasks = tasks
      /\ NestInv(w.r) /\ NewsInv(w.c, w.r, ToSet(w.events))
  BY <1>1, HandledNews
<1>3. CASE AipcAccepted
  BY <1>3, AipcAcceptedUse
<1>4. CASE AipcAcceptError
  <2>1. w.r.aipc = "ACCEPTING"
    BY <1>4 DEF AipcAcceptError
  <2>2. PICK v \in Accept(w) : Leave(v)
    BY <1>4 DEF AipcAcceptError
  <2>3. w.r.sipc = "IDLE"
    BY <1>2, <2>1 DEF NestInv
  <2> HIDE DEF w
  <2>4. /\ Around(w, v)
        /\ UseInv(v.c, v.r, v.excl, ToSet(v.events),
                  ToSet(v.tasks) \cup ToSet(batch))
    BY <1>2, <2>2, <2>3, AcceptUse
  <2> QED BY <1>1, <2>2, <2>4, HandlerUse DEF w
<1> SUFFICES ASSUME NEW v, Leave(v), Ending(w, v)
             PROVE  UsesInv'
  <2>1. CASE AipcBroken
    <3> DEFINE o == SipcStop(w)
               v == [o EXCEPT !.r.aipc = "STOPPING_SIPC"]
    <3>1. Leave(v)
      BY <2>1 DEF AipcBroken
    <3> HIDE DEF w
    <3>2. Ending(w, o)
      BY <1>2, SipcStopFlows
    <3>3. o \in Worlds
      BY <3>2 DEF Ending, Flows
    <3> HIDE DEF o
    <3>4. Flows(o, v) /\ v.r.aipc = "STOPPING_SIPC" /\ v.r.sipc = o.r.sipc
      BY <3>3, AipcSetFlows, Zenon
    <3> HIDE DEF v
    <3>5. Ending(w, v)
      BY <3>2, <3>4, FlowsTrans DEF Ending
    <3> QED BY <3>1, <3>5
  <2>2. CASE AipcSipcStopped
    <3> DEFINE o == UsockStop(w)
               v == [o EXCEPT !.r.aipc = "STOPPING_USOCK"]
    <3>1. Leave(v) /\ w.r.aipc = "STOPPING_SIPC"
      BY <2>2 DEF AipcSipcStopped
    <3>2. w.r.sipc \notin {"PROTOHDR", "STOPPING_STREAMHDR", "ACTIVE"}
      BY <1>2, <3>1 DEF NestInv
    <3> HIDE DEF w
    <3>3. Within(w, o)
      BY <1>2, UsockStopFlows
    <3>4. o \in Worlds
      BY <3>3 DEF Within, Flows
    <3> HIDE DEF o
    <3>5. Flows(o, v) /\ v.r.aipc = "STOPPING_USOCK" /\ v.r.sipc = o.r.sipc
      BY <3>4, AipcSetFlows, Zenon
    <3> HIDE DEF v
    <3>6. Ending(w, v)
      BY <3>2, <3>3, <3>5, FlowsTrans DEF Ending, Within
    <3> QED BY <3>1, <3>6
  <2>3. CASE AipcShutdown
    <3>1. Leave(w) /\ w.r.aipc = "STOPPING_USOCK"
      BY <2>3 DEF AipcShutdown
    <3>2. Ending(w, w)
      BY <1>2, <3>1, FlowsSame DEF NestInv, Ending, Within
    <3> QED BY <3>1, <3>2
  <2>4. CASE AipcUsockStopped
    <3> DEFINE o == [w EXCEPT !.r.aipc = "DONE"]
               v == Raise(o, "bipc", "aipc", "ERROR")
    <3>1. Leave(v) /\ w.r.aipc = "STOPPING_USOCK"
      BY <2>4 DEF AipcUsockStopped
    <3>2. w.r.sipc \notin {"PROTOHDR", "STOPPING_STREAMHDR", "ACTIVE"}
      BY <1>2, <3>1 DEF NestInv
    <3> HIDE DEF w
    <3>3. Flows(w, o) /\ o.r.aipc = "DONE" /\ o.r.sipc = w.r.sipc
      BY <1>2, AipcSetFlows, Zenon
    <3>4. o \in Worlds
      BY <3>3 DEF Flows
    <3> HIDE DEF o
    <3>5. Within(o, v)
      BY <3>4, AcceptedTells
    <3> HIDE DEF v
    <3>6. Ending(w, v)
      BY <3>2, <3>3, <3>5, FlowsTrans DEF Ending, Within
    <3> QED BY <3>1, <3>6
  <2>5. CASE AipcStops /\ w.r.aipc = "STOPPING_SIPC_FINAL"
    <3> DEFINE v == AipcStoppingSipc(w)
    <3>1. Leave(v)
      BY <2>5 DEF AipcStops
    <3>2. w.r.sipc \notin {"PROTOHDR", "STOPPING_STREAMHDR", "ACTIVE"}
      BY <1>2, <2>5 DEF NestInv
    <3> HIDE DEF w
    <3>3. /\ Flows(w, v) /\ v.r.sipc = w.r.sipc
          /\ v.r.aipc \in {w.r.aipc, "IDLE", "STOPPING"}
      BY <1>2, AipcStoppingSipcFlows
    <3> HIDE DEF v
    <3> QED BY <2>5, <3>1, <3>2, <3>3 DEF Ending
  <2>6. CASE AipcStops /\ w.r.aipc = "STOPPING"
    <3> DEFINE v == AipcStopping(w)
    <3>1. Leave(v)
      BY <2>6 DEF AipcStops
    <3>2. w.r.sipc \notin {"PROTOHDR", "STOPPING_STREAMHDR", "ACTIVE"}
      BY <1>2, <2>6 DEF NestInv
    <3> HIDE DEF w
    <3>3. Flows(w, v) /\ v.r.sipc = w.r.sipc /\ v.r.aipc \in {w.r.aipc, "IDLE"}
      BY <1>2, AipcStoppingFlows
    <3> HIDE DEF v
    <3> QED BY <2>6, <3>1, <3>2, <3>3 DEF Ending
  <2> QED BY <1>3, <1>4, <2>1, <2>2, <2>3, <2>4, <2>5, <2>6
          DEF AipcHandler, AipcStops
<1> QED BY <1>1, EndingHandler

-----------------------------------------------------------------------------
(* bipc's handler.                                                         *)

(* The accepted connection joins the list, and a new aipc accepts.         *)
LEMMA BipcAcceptedUse ==
    ASSUME IInv, UsesInv, BipcAccepted
    PROVE  UsesInv'
<1>1. events # <<>> /\ Head(events).src = "aipc"
      /\ Head(events).type = "ACCEPTED" /\ batch' = batch
  BY DEF BipcAccepted, On
<1>2. PICK d \in Conn : /\ conn[d].aipc = "FREE"
                        /\ \E v \in AipcStart(World(d)) : Enter(v)
  BY DEF BipcAccepted
<1>3. PastInv(d, conn[d], ToSet(events), bipc.aipc)
  BY DEF IInv, ConnInv
<1>4. /\ C \in Conn /\ Head(events).c = C /\ W.events = Tail(events)
      /\ ToSet(events) = {Head(events)} \cup ToSet(W.events)
      /\ W.r = conn[C] /\ W.excl = excl /\ W.tasks = tasks /\ W.c = C
  BY <1>1, HandledWorld DEF C
<1>5. d # C
  BY <1>1, <1>2, <1>3, <1>4 DEF PastInv, OfListener
<1> DEFINE w == World(d)
<1>6. PICK v \in AipcStart(w) : Enter(v)
  BY <1>2
<1>7. /\ w \in Worlds /\ w.c = d /\ w.excl = excl /\ w.tasks = tasks
      /\ w.events = W.events
  BY <1>1, <1>4, WorldType
<1> HIDE DEF w
<1>8. \A e \in ToSet(w.events) : e.c = w.c => OfListener(e)
  BY <1>2, <1>3, <1>4, <1>7 DEF PastInv
<1>9. /\ Around(w, v)
      /\ UseInv(v.c, v.r, v.excl, ToSet(v.events),
                ToSet(v.tasks) \cup ToSet(batch))
  BY <1>6, <1>7, <1>8, AipcStartUse
<1>10. \A c \in Conn \ {w.c} :
          UseInv(c, conn[c], excl, ToSet(w.events), Pending)
  <2>1. UseInv(C, conn[C], excl, ToSet(W.events), Pending)
    <3>1. UseInv(W.c, W.r, W.excl, ToSet(W.events),
                 ToSet(W.tasks) \cup ToSet(batch))
      BY <1>1, HandledUse
    <3> QED BY <1>4, <3>1 DEF Pending
  <2>2. \A c \in Conn \ {C} :
           UseInv(c, conn[c], excl, ToSet(W.events), Pending)
    BY <1>1, HandledOthers
  <2> QED BY <1>7, <2>1, <2>2
<1>11. \A t \in ToSet(batch) : t.c # w.c => t \in ToSet(batch')
  BY <1>1
<1>12. UseInv(v.c, v.r, v.excl, ToSet(v.events),
              ToSet(v.tasks) \cup ToSet(batch'))
  BY <1>1, <1>9
<1> QED BY <1>6, <1>7, <1>9, <1>10, <1>11, <1>12, StepUse

(* A connection is freed: nothing but the listener's event carries its     *)
(* name, and the tasks of others stay.                                     *)
LEMMA FreeUse ==
    ASSUME IInv, UsesInv, events # <<>>, Head(events) = AipcStopped(C),
           NEW v, Enter(v), v.c = C, v.r = Fresh, v.excl = excl,
           v.tasks = Others(tasks, C),
           ToSet(W.events) \subseteq ToSet(v.events),
           \A e \in ToSet(v.events) :
              e \in ToSet(W.events) \/ (OfListener(e) /\ e.c = C),
           batch' = batch
    PROVE  UsesInv'
<1> DEFINE s == ToSet(W.events)
           t == ToSet(v.events)
<1>1. C \in Conn /\ \A f \in s : f.c = C => OfListener(f)
  BY HandledWorld
<1>2. conn' = [conn EXCEPT ![C] = Fresh] /\ excl' = excl
      /\ events' = v.events /\ tasks' = Others(tasks, C)
  BY EnterFacts
<1>3. conn \in [Conn -> Record] /\ tasks \in Seq(Tasks)
  BY DEF IInv, TypeInv
<1>4. conn'[C] = Fresh /\ \A d \in Conn \ {C} : conn'[d] = conn[d]
  BY <1>1, <1>2, <1>3, FreedFacts
<1>5. /\ s \subseteq t
      /\ \A e \in t : e \in s \/ (OfListener(e) /\ e.c = C)
  OBVIOUS
<1>6. \A x \in ToSet(tasks) : x.c # C => x \in ToSet(Others(tasks, C))
  BY <1>3, OthersAre
<1> SUFFICES ASSUME NEW d \in Conn
             PROVE  UseInv(d, conn'[d], excl', ToSet(events'), Pending')
  BY DEF UsesInv
<1>7. CASE d = C
  <2>1. Fresh.sipc = "IDLE"
    BY DEF Fresh
  <2>2. NewsInv(C, Fresh, t)
    BY <1>1, <1>5 DEF NewsInv, OfListener
  <2> QED BY <1>2, <1>4, <1>7, <2>1, <2>2 DEF UseInv, FlowInv, OpenInv
<1>8. CASE d # C
  <2> DEFINE r == conn[d]
             k == Pending
             l == Pending'
  <2>1. UseInv(d, r, excl, s, k)
    BY <1>8, HandledOthers
  <2>2. \A e : e.c = d => (e \in t <=> e \in s)
    BY <1>5, <1>8
  <2>3. \A task : UsockTask(d, task) \in k => UsockTask(d, task) \in l
    BY <1>2, <1>6, <1>8 DEF UsockTask, Pending
  <2> HIDE DEF r, k, l, t, s
  <2>4. UseInv(d, r, excl, t, l)
    BY <2>1, <2>2, <2>3, OtherUse
  <2> QED BY <1>2, <1>4, <1>8, <2>4 DEF r, t, l
<1> QED BY <1>7, <1>8

(* One of bipc's list is,                                                  *)
LEMMA ListFreeUse ==
    ASSUME IInv, UsesInv, On("bipc", "aipc", {"STOPPED"}), Enter(Free(W)),
           batch' = batch
    PROVE  UsesInv'
<1> DEFINE w == W
           v == Free(w)
<1>1. /\ C \in Conn /\ Head(events) \in Events /\ w \in Worlds /\ w.c = C
      /\ w.excl = excl /\ w.tasks = tasks /\ events # <<>>
  BY HandledWorld DEF On
<1>2. Head(events) = AipcStopped(C)
  BY <1>1 DEF On, C, AipcStopped, Events
<1> HIDE DEF w
<1>3. /\ v.c = C /\ v.r = Fresh /\ v.excl = excl
      /\ v.tasks = Others(tasks, C) /\ v.events = w.events
  BY <1>1 DEF Free, Worlds
<1>4. Enter(v)
  BY DEF w
<1> HIDE DEF v
<1>5. ToSet(W.events) = ToSet(v.events)
  BY <1>3 DEF w
<1> QED BY <1>1, <1>2, <1>3, <1>4, <1>5, FreeUse

(* or the one that was accepting.                                          *)
LEMMA AipcFreeUse ==
    ASSUME IInv, UsesInv, BipcAipcStopped
    PROVE  UsesInv'
<1> DEFINE a == bipc.aipc
           w == World(a)
           f == Free(w)
           o == [f EXCEPT !.listener.state = "IDLE"]
           v == Raise(o, "bipc", "listener", "STOPPED")
           e == [to |-> "bipc", src |-> "listener", type |-> "STOPPED",
                 c |-> o.c]
<1>1. /\ events # <<>> /\ bipc.state = "STOPPING_AIPC" /\ Idle(w, "aipc")
      /\ Enter(v) /\ batch' = batch
  BY DEF BipcAipcStopped
<1>2. a \in Conn
  BY <1>1 DEF IInv, TypeInv, Bipcs, BipcInv
<1>3. /\ w \in Worlds /\ w.c = a /\ w.r = conn[a] /\ w.excl = excl
      /\ w.tasks = tasks /\ w.events = Tail(events)
      /\ w.listener = listener
  BY <1>1, <1>2, WorldType
<1>4. C = a /\ Head(events) = AipcStopped(C)
  <2>1. conn[a].aipc = "IDLE"
    BY <1>1, <1>3 DEF Idle
  <2>2. AipcStopped(a) \in ToSet(events)
    BY <1>2, <2>1 DEF IInv, ConnInv, AcceptInv
  <2>3. AipcStopped(a) \notin ToSet(w.events)
    BY <1>1, <1>3 DEF Idle, AipcStopped, ToSet
  <2>4. events \in Seq(Events)
    BY DEF IInv, TypeInv
  <2>5. ToSet(events) = {Head(events)} \cup ToSet(w.events)
    BY <1>1, <1>3, <2>4, TailSet
  <2>6. Head(events) = AipcStopped(a)
    BY <2>2, <2>3, <2>5
  <2> QED BY <2>6 DEF C, AipcStopped
<1>5. W = w
  BY <1>4 DEF W
<1> HIDE DEF w
<1>6. Fresh \in Record /\ Others(tasks, a) \in Seq(Tasks)
  <2>1. tasks \in Seq(Tasks)
    BY DEF IInv, TypeInv
  <2> QED BY <2>1, FreedFacts, OthersAre
<1>7. /\ f \in Worlds /\ f.c = a /\ f.r = Fresh /\ f.excl = excl
      /\ f.tasks = Others(tasks, a) /\ f.listener = listener
      /\ f.events = w.events
  BY <1>3, <1>6 DEF Free, Worlds
<1> HIDE DEF f
<1>8. [listener EXCEPT !.state = "IDLE"] \in Listeners
  BY DEF IInv, TypeInv, Listeners
<1>9. /\ o \in Worlds /\ o.c = a /\ o.r = Fresh /\ o.excl = excl
      /\ o.tasks = Others(tasks, a) /\ o.events = w.events
  BY <1>7, <1>8 DEF Worlds
<1> HIDE DEF o
<1>10. e \in Events /\ e.c = a /\ OfListener(e)
  BY <1>2, <1>9 DEF Events, Machines, OfListener
<1>11. v = [o EXCEPT !.events = Append(@, e)]
  BY DEF Raise
<1> HIDE DEF e
<1>12. /\ Append(o.events, e) \in Seq(Events)
       /\ ToSet(Append(o.events, e)) = ToSet(o.events) \cup {e}
  BY <1>9, <1>10, AppendSet DEF Worlds
<1>13. /\ v.c = C /\ v.r = Fresh /\ v.excl = excl
       /\ v.tasks = Others(tasks, C) /\ v.events = Append(o.events, e)
  BY <1>4, <1>9, <1>11, <1>12 DEF Worlds
<1> HIDE DEF v
<1>14. /\ ToSet(W.events) \subseteq ToSet(v.events)
       /\ \A g \in ToSet(v.events) :
             g \in ToSet(W.events) \/ (OfListener(g) /\ g.c = C)
  BY <1>4, <1>5, <1>9, <1>10, <1>12, <1>13
<1>15. Enter(v) /\ batch' = batch /\ events # <<>>
  BY <1>1
<1> HIDE DEF a
<1> QED BY <1>4, <1>13, <1>14, <1>15, FreeUse

(* nn_shutdown's loop: a connection of the list is stopped, the others are *)
(* as they were.                                                           *)
ListUses(a) ==
    \A d \in Conn : UseInv(d, a.conn[d], a.w.excl, ToSet(a.w.events),
                           ToSet(a.w.tasks) \cup ToSet(batch))

(* One more is stopped.                                                    *)
LEMMA StopNextUse ==
    ASSUME IInv, NEW a, SomeStopped(a), ListUses(a), NEW c \in Conn
    PROVE  ListUses(StopNext(a, c))
<1> DEFINE w == [a.w EXCEPT !.c = c, !.r = a.conn[c]]
           v == AipcStop(w)
           k == [a.conn EXCEPT ![c] = v.r]
           b == StopNext(a, c)
<1>1. /\ a.w \in Worlds /\ a.conn \in [Conn -> Record]
      /\ \A d \in Conn : ConnInv(d, a.conn[d], a.w.excl, ToSet(a.w.events),
                                 listener, None)
  BY DEF SomeStopped
<1>2. a.conn[c] \in Record
  BY <1>1
<1>3. /\ w \in Worlds /\ w.c = c /\ w.r = a.conn[c] /\ w.excl = a.w.excl
      /\ w.events = a.w.events /\ w.tasks = a.w.tasks
  BY <1>1, <1>2 DEF Worlds
<1>4. b = [w |-> v, conn |-> k]
  BY DEF StopNext
<1> HIDE DEF w
<1>5. NestInv(w.r)
  BY <1>1, <1>3 DEF ConnInv
<1>6. Ending(w, v)
  BY <1>3, <1>5, AipcStopFlows
<1> HIDE DEF v
<1>7. v \in Worlds /\ v.c = c /\ v.r \in Record
  BY <1>3, <1>6 DEF Ending, Flows, Worlds
<1>8. k[c] = v.r /\ \A d \in Conn \ {c} : k[d] = a.conn[d]
  BY <1>1, <1>7
<1>9. b.w = v /\ b.conn = k
  BY <1>4
<1> HIDE DEF k, b
<1> SUFFICES ASSUME NEW d \in Conn
             PROVE  UseInv(d, k[d], v.excl, ToSet(v.events),
                           ToSet(v.tasks) \cup ToSet(batch))
  BY <1>9 DEF ListUses, b
<1>10. UseInv(d, a.conn[d], w.excl, ToSet(w.events),
              ToSet(w.tasks) \cup ToSet(batch))
  BY <1>3 DEF ListUses
<1>11. CASE d = c
  <2>1. NewsInv(w.c, w.r, ToSet(w.events))
    BY <1>3, <1>10, <1>11 DEF UseInv
  <2>2. UseInv(v.c, v.r, v.excl, ToSet(v.events),
               ToSet(v.tasks) \cup ToSet(batch))
    BY <1>5, <1>6, <2>1, EndingUse
  <2> QED BY <1>7, <1>8, <1>11, <2>2
<1>12. CASE d # c
  <2> DEFINE r == a.conn[d]
             x == w.excl
             y == v.excl
             s == ToSet(w.events)
             t == ToSet(v.events)
             p == ToSet(w.tasks) \cup ToSet(batch)
             l == ToSet(v.tasks) \cup ToSet(batch)
  <2>1. \A e : e.c = d => (e \in t <=> e \in s)
    BY <1>3, <1>6, <1>12 DEF Ending, Flows, News
  <2>2. \A task : UsockTask(d, task) \in p => UsockTask(d, task) \in l
    BY <1>6 DEF Ending, Flows
  <2>3. PipeInv(c, w.r, x, s) /\ PipeInv(d, r, x, s)
    BY <1>1, <1>3 DEF ConnInv
  <2>4. y = x \/ w.r.pipe = "ACTIVE"
    BY <1>6 DEF Ending, Flows
  <2>5. (x.inpipe = d => y.inpipe = d) /\ (x.outpipe = d => y.outpipe = d)
    BY <1>12, <2>3, <2>4 DEF PipeInv
  <2>6. UseInv(d, r, x, s, p)
    BY <1>10
  <2> HIDE DEF r, x, y, s, t, p, l
  <2>7. UseInv(d, r, y, t, l)
    BY <2>1, <2>2, <2>5, <2>6, OtherUse
  <2> QED BY <1>8, <1>12, <2>7 DEF r, y, t, l
<1> QED BY <1>11, <1>12

(* The listening socket is closed, and all of the list stopped.            *)
LEMMA ListStopUse ==
    ASSUME IInv, UsesInv, BipcUsockStopped
    PROVE  UsesInv'
<1> DEFINE q == bipc.aipcs
           N == Len(q)
           First == [w |-> W, conn |-> conn]
<1>1. /\ On("bipc", "listener", {"STOPPED"}) /\ bipc.state = "STOPPING_USOCK"
      /\ conn' = ListStopped.conn /\ excl' = ListStopped.w.excl
      /\ events' = ListStopped.w.events /\ tasks' = ListStopped.w.tasks
      /\ batch' = batch /\ events # <<>>
  BY DEF BipcUsockStopped, StopList, On
<1>2. N \in Nat /\ \A i \in 1..N : q[i] \in Conn /\ conn[q[i]].aipc # "FREE"
  BY DEF IInv, TypeInv, Bipcs, BipcInv
<1>3. PICK g : /\ ListStopped = g[N] /\ g[0] = First
               /\ \A i \in 1..N : g[i] = StopNext(g[i - 1], q[i])
  BY ListSteps
<1>4. SomeStopped(First)
  BY <1>1, NoneStopped
<1>5. ListUses(First)
  <2> DEFINE w == W
             a == [w |-> w, conn |-> conn]
  <2>1. /\ C \in Conn /\ w.c = C /\ w.r = conn[C] /\ w.excl = excl
        /\ w.tasks = tasks
    BY <1>1, HandledWorld
  <2>2. Head(events).src = "listener"
    BY <1>1 DEF On
  <2>3. UseInv(w.c, w.r, w.excl, ToSet(w.events),
               ToSet(w.tasks) \cup ToSet(batch))
    BY <1>1, <2>2, HandledUse
  <2>4. \A d \in Conn \ {C} :
           UseInv(d, conn[d], excl, ToSet(w.events), Pending)
    BY <1>1, HandledOthers
  <2>5. a.w = w /\ a.conn = conn
    OBVIOUS
  <2> HIDE DEF w, a
  <2>6. ListUses(a)
    BY <2>1, <2>3, <2>4, <2>5 DEF ListUses, Pending
  <2> QED BY <2>6 DEF a, w
<1> DEFINE S == {n \in 0..N : SomeStopped(g[n]) /\ ListUses(g[n])}
<1> HIDE DEF First
<1>6. 0 \in S
  BY <1>2, <1>3, <1>4, <1>5
<1>7. ASSUME NEW n \in 1..N, n - 1 \in S
      PROVE  n \in S
  <2>1. SomeStopped(g[n - 1]) /\ ListUses(g[n - 1]) /\ n \in 0..N
        /\ g[n] = StopNext(g[n - 1], q[n])
        /\ q[n] \in Conn /\ conn[q[n]].aipc # "FREE"
    BY <1>2, <1>3, <1>7
  <2>2. SomeStopped(StopNext(g[n - 1], q[n]))
    BY <2>1, StopNextKeeps
  <2>3. ListUses(StopNext(g[n - 1], q[n]))
    BY <2>1, StopNextUse
  <2> QED BY <2>1, <2>2, <2>3
<1>8. S \in SUBSET (0..N)
  OBVIOUS
<1> HIDE DEF S
<1>9. N \in S
  <2>1. N \in 0..N
    BY <1>2
  <2> QED BY <2>1, <1>2, <1>6, <1>7, <1>8, Steps
<1>10. ListUses(ListStopped)
  BY <1>3, <1>9 DEF S
<1> QED BY <1>1, <1>10 DEF ListUses, UsesInv, Pending

(* bipc's handler.                                                         *)
LEMMA BipcHandlerUse ==
    ASSUME IInv, UsesInv, BipcHandler
    PROVE  UsesInv'
<1>1. CASE BipcError
  <2>1. events # <<>> /\ Leave(AipcStop(W))
    BY <1>1 DEF BipcError, On
  <2>2. W \in Worlds /\ NestInv(W.r)
    BY <2>1, HandledNews
  <2> QED BY <2>1, <2>2, AipcStopFlows, EndingHandler
<1>2. CASE BipcStopped \/ BipcAipcsStopped
  BY <1>2, ListFreeUse DEF BipcStopped, BipcAipcsStopped
<1>3. CASE BipcDrops
  <2>1. events # <<>> /\ Head(events).to = "bipc" /\ Leave(W)
    BY <1>3 DEF BipcDrops
  <2>2. W \in Worlds /\ C \in Conn
    BY <2>1, HandledNews
  <2>3. NewsInv(C, conn[C], ToSet(events))
    BY <2>2 DEF UsesInv, UseInv
  <2>4. Head(events) \in ToSet(events) /\ Head(events).c = C
    BY <2>1, HandledWorld DEF C
  <2>5. Head(events).src \in {"aipc", "listener"}
    BY <2>1, <2>3, <2>4 DEF NewsInv
  <2> QED BY <2>1, <2>2, <2>5, FlowsSame, WithinHandler DEF UsockStays
<1> QED BY <1>1, <1>2, <1>3, BipcAcceptedUse, AipcFreeUse, ListStopUse
        DEF BipcHandler

-----------------------------------------------------------------------------
(* First steps.                                                            *)

(* A connection without an event to handle.                                *)
LEMMA IdleUse ==
    ASSUME IInv, UsesInv, events = <<>>, NEW c \in Conn
    PROVE  /\ World(c) \in Worlds /\ World(c).c = c /\ World(c).r = conn[c]
           /\ World(c).excl = excl /\ World(c).tasks = tasks
           /\ NestInv(World(c).r) /\ ToSet(World(c).events) = {}
           /\ UseInv(World(c).c, World(c).r, World(c).excl,
                     ToSet(World(c).events),
                     ToSet(World(c).tasks) \cup ToSet(batch))
           /\ \A d \in Conn \ {c} :
                 UseInv(d, conn[d], excl, ToSet(World(c).events), Pending)
<1> DEFINE w == World(c)
<1>1. /\ w \in Worlds /\ w.c = c /\ w.r = conn[c] /\ w.excl = excl
      /\ w.tasks = tasks /\ ToSet(w.events) = {}
  BY IdleWorld
<1>2. ToSet(events) = {}
  BY DEF ToSet
<1>3. NestInv(conn[c])
  BY DEF IInv, ConnInv
<1>4. \A d \in Conn : UseInv(d, conn[d], excl, ToSet(events), Pending)
  BY DEF UsesInv
<1> HIDE DEF w
<1>5. /\ UseInv(w.c, w.r, w.excl, ToSet(w.events),
                ToSet(w.tasks) \cup ToSet(batch))
      /\ \A d \in Conn \ {c} :
            UseInv(d, conn[d], excl, ToSet(w.events), Pending)
  BY <1>1, <1>2, <1>4 DEF Pending
<1> QED BY <1>1, <1>3, <1>5 DEF w

(* A step of one connection.                                               *)
LEMMA FirstUse ==
    ASSUME IInv, UsesInv, events = <<>>, NEW c \in Conn, NEW v, Enter(v),
           Around(World(c), v),
           \A t \in ToSet(batch) :
              t.c \in Conn \ {c} => t \in ToSet(batch'),
           UseInv(v.c, v.r, v.excl, ToSet(v.events),
                  ToSet(v.tasks) \cup ToSet(batch'))
    PROVE  UsesInv'
<1> DEFINE w == World(c)
<1>1. /\ w.c = c /\ w.excl = excl /\ w.tasks = tasks
      /\ \A d \in Conn \ {w.c} :
            UseInv(d, conn[d], excl, ToSet(w.events), Pending)
  BY IdleUse
<1>2. Around(w, v)
  OBVIOUS
<1> HIDE DEF w
<1> QED BY <1>1, <1>2, StepUse

(* What it asks for is asked for whether usock is open or not.             *)
LEMMA ClosedUse ==
    ASSUME NEW c, NEW r, NEW x, NEW s, NEW k, NEW l, UseInv(c, r, x, s, k),
           r.usock # "ACTIVE"
    PROVE  UseInv(c, r, x, s, l)
BY DEF UseInv, FlowInv

(* One within the connection, with no task run.                            *)
LEMMA WithinFirst ==
    ASSUME IInv, UsesInv, events = <<>>, NEW c \in Conn, NEW v, Leave(v),
           Within(World(c), v), UsockStays(World(c), v)
    PROVE  UsesInv'
<1> DEFINE w == World(c)
<1>1. /\ NestInv(w.r)
      /\ UseInv(w.c, w.r, w.excl, ToSet(w.events),
                ToSet(w.tasks) \cup ToSet(batch))
  BY IdleUse
<1>2. Enter(v) /\ batch' = batch /\ Within(w, v) /\ UsockStays(w, v)
  BY DEF Leave
<1> HIDE DEF w
<1>3. UseInv(v.c, v.r, v.excl, ToSet(v.events),
             ToSet(v.tasks) \cup ToSet(batch))
  BY <1>1, <1>2, WithinUse
<1>4. Around(w, v)
  <2>1. Flows(w, v) /\ v.excl = w.excl
    BY <1>2 DEF Within
  <2> QED BY <2>1, WithinAround
<1> QED BY <1>2, <1>3, <1>4, FirstUse DEF w

-----------------------------------------------------------------------------
(* Peers.                                                                  *)

(* A connection in the backlog is nobody's yet.                            *)
LEMMA ConnectUse ==
    ASSUME UsesInv, Connect
    PROVE  UsesInv'
BY DEF UsesInv, Connect, Pending

(* A connection whose record alone changes.                                *)
LEMMA RecordUse ==
    ASSUME IInv, UsesInv, NEW c \in Conn, NEW u,
           conn' = [conn EXCEPT ![c] = u], excl' = excl, events' = events,
           tasks' = tasks, batch' = batch,
           UseInv(c, u, excl, ToSet(events), Pending)
    PROVE  UsesInv'
<1>1. conn \in [Conn -> Record]
  BY DEF IInv, TypeInv
<1>2. ASSUME NEW d \in Conn
      PROVE  UseInv(d, conn'[d], excl, ToSet(events), Pending)
  <2>1. UseInv(d, conn[d], excl, ToSet(events), Pending)
    BY DEF UsesInv
  <2>2. conn'[d] = IF d = c THEN u ELSE conn[d]
    BY <1>1
  <2> QED BY <2>1, <2>2
<1> QED BY <1>2 DEF UsesInv, Pending

(* A peer sends; one leaves once headers were exchanged, or at any time.   *)
LEMMA PeerUse ==
    ASSUME IInv, UsesInv, NEW c \in Conn, PeerSends(c) \/ PeerLeaves(c)
    PROVE  UsesInv'
<1> DEFINE r == conn[c]
           s == ToSet(events)
           p == Pending
<1>1. r \in Record
  BY SameTypes
<1>2. excl' = excl /\ events' = events /\ tasks' = tasks /\ batch' = batch
  BY DEF PeerSends, PeerLeaves
<1>3. UseInv(c, r, excl, s, p)
  BY DEF UsesInv
<1>4. CASE PeerSends(c)
  <2> DEFINE u == [r EXCEPT !.unread = @ + 1]
  <2>1. conn' = [conn EXCEPT ![c] = u]
    BY <1>4, SameTypes DEF PeerSends
  <2>2. /\ u.streamhdr = r.streamhdr /\ u.aipc = r.aipc /\ u.sipc = r.sipc
        /\ u.owner = r.owner /\ u.usock = r.usock /\ u.peer = r.peer
        /\ u.in = r.in /\ u.out = r.out
    BY <1>1 DEF Record
  <2> HIDE DEF u, r, s, p
  <2>3. NewsInv(c, u, s)
    BY <1>3, <2>2 DEF UseInv, NewsInv
  <2>4. FlowInv(c, u, excl, s, p)
    BY <1>3, <2>2 DEF UseInv, FlowInv, InFlow, OutFlow
  <2>5. OpenInv(c, u, s)
    BY <1>3, <2>2 DEF UseInv, OpenInv
  <2>6. UseInv(c, u, excl, s, p)
    BY <2>3, <2>4, <2>5 DEF UseInv
  <2> QED BY <1>2, <2>1, <2>6, RecordUse DEF s, p
<1>5. CASE PeerLeaves(c)
  <2> DEFINE u == [r EXCEPT !.peer = "closed"]
  <2>1. conn' = [conn EXCEPT ![c] = u] /\ (LeavesEarly \/ r.sipc = "ACTIVE")
    BY <1>5, SameTypes DEF PeerLeaves
  <2>2. /\ u.streamhdr = r.streamhdr /\ u.aipc = r.aipc /\ u.sipc = r.sipc
        /\ u.owner = r.owner /\ u.usock = r.usock
        /\ u.in = r.in /\ u.out = r.out
    BY <1>1 DEF Record
  <2>3. r.sipc = "ACTIVE" => r.aipc # "ACCEPTING"
    BY DEF IInv, ConnInv, NestInv
  <2> HIDE DEF u, r, s, p
  <2>4. NewsInv(c, u, s)
    BY <1>3, <2>1, <2>2, <2>3 DEF UseInv, NewsInv
  <2>5. FlowInv(c, u, excl, s, p)
    BY <1>3, <2>2 DEF UseInv, FlowInv, InFlow, OutFlow
  <2>6. OpenInv(c, u, s)
    BY <1>3, <2>1, <2>2 DEF UseInv, OpenInv
  <2>7. UseInv(c, u, excl, s, p)
    BY <2>4, <2>5, <2>6 DEF UseInv
  <2> QED BY <1>2, <2>1, <2>7, RecordUse DEF s, p
<1> QED BY <1>4, <1>5

-----------------------------------------------------------------------------
(* The worker: poller, timers, tasks.                                      *)

(* The poller stops asking for what it reports.                            *)
LEMMA ReportUse ==
    ASSUME NEW w \in Worlds, NEW b, NEW u \in Record, SameMachines(w.r, u),
           u.peer = w.r.peer, u.owner = w.r.owner,
           NEW type \in {"SENT", "RECEIVED"},
           IF type = "SENT" THEN u.in = w.r.in ELSE u.out = w.r.out,
           UseInv(w.c, w.r, w.excl, ToSet(w.events), ToSet(w.tasks) \cup b)
    PROVE  LET v == RaiseUsock([w EXCEPT !.r = u], type)
           IN  /\ Around(w, v)
               /\ UseInv(v.c, v.r, v.excl, ToSet(v.events),
                         ToSet(v.tasks) \cup b)
<1> DEFINE o == [w EXCEPT !.r = u]
           v == RaiseUsock(o, type)
           r == w.r
           x == w.excl
           c == w.c
           s == ToSet(w.events)
           t == ToSet(v.events)
           k == ToSet(w.tasks) \cup b
<1>1. /\ o \in Worlds /\ o.c = w.c /\ o.r = u /\ o.excl = w.excl
      /\ o.events = w.events /\ o.tasks = w.tasks
  BY DEF Worlds
<1>2. v = RaiseUsock(o, type)
  OBVIOUS
<1> HIDE DEF o
<1>3. /\ Within(o, v) /\ v.r = o.r /\ v.tasks = o.tasks
      /\ [to |-> o.r.owner, src |-> "usock", type |-> type, c |-> o.c] \in t
  BY <1>1, RaiseUsockFlows, Zenon
<1> HIDE DEF v
<1>4. v.excl = o.excl /\ Flows(o, v) /\ v.c = o.c
  BY <1>3 DEF Within, Flows
<1>5. s \subseteq t /\ \A e \in t : e \in s \/ News(e, o, v)
  BY <1>1, <1>4 DEF Flows
<1>6. Around(w, v)
  <2>1. \A e \in t : e \in s \/ e.c = c
    BY <1>1, <1>5 DEF News
  <2> QED BY <1>1, <1>3, <1>4, <1>5, <2>1 DEF Around
<1>7. v.c = c /\ v.r = u /\ v.excl = x /\ v.tasks = w.tasks
  BY <1>1, <1>3, <1>4
<1>8. Has(t, c, "usock", type)
  BY <1>1, <1>3 DEF Has
<1>9. UseInv(c, r, x, s, k)
  OBVIOUS
<1>10. \A e \in t : e \in s \/ (/\ e.c = c /\ e.to = "bipc" => e.src = "aipc"
                                /\ e.src = "usock" => e.type # "ACCEPTED"
                                /\ e.src # "streamhdr")
  BY <1>1, <1>5, <1>7 DEF News
<1> HIDE DEF r, x, c, s, t, k
<1>11. /\ u.streamhdr = r.streamhdr /\ u.aipc = r.aipc /\ u.sipc = r.sipc
       /\ u.owner = r.owner /\ u.usock = r.usock /\ u.peer = r.peer
       /\ IF type = "SENT" THEN u.in = r.in ELSE u.out = r.out
  BY DEF SameMachines, r
<1>12. NewsInv(c, u, t)
  BY <1>9, <1>10, <1>11 DEF UseInv, NewsInv
<1>13. FlowInv(c, u, x, t, k)
  <2>1. \A src, g : Has(s, c, src, g) => Has(t, c, src, g)
    BY <1>5 DEF Has, s, t
  <2>2. InFlow(c, r, x, s, k) => InFlow(c, u, x, t, k)
    BY <1>8, <1>11, <2>1 DEF InFlow
  <2>3. OutFlow(c, r, x, s, k) => OutFlow(c, u, x, t, k)
    BY <1>8, <1>11, <2>1 DEF OutFlow
  <2> QED BY <1>9, <1>11, <2>2, <2>3 DEF UseInv, FlowInv
<1>14. OpenInv(c, u, t)
  <2>1. Told(s, c, "sipc") => Told(t, c, "sipc")
    BY <1>5 DEF Told, s, t
  <2> QED BY <1>9, <1>11, <2>1 DEF UseInv, OpenInv
<1>15. UseInv(c, u, x, t, k)
  BY <1>12, <1>13, <1>14 DEF UseInv
<1>16. /\ Around(w, v)
       /\ UseInv(v.c, v.r, v.excl, ToSet(v.events), ToSet(v.tasks) \cup b)
  BY <1>6, <1>7, <1>15 DEF t, k
<1> QED BY <1>16 DEF v, o

(* usock takes the descriptor out: its owner is told.                      *)
LEMMA DescriptorGone ==
    ASSUME IInv, UsesInv, events = <<>>, NEW c \in Conn,
           conn[c].peer # "open", Leave(UsockDone(World(c)))
    PROVE  UsesInv'
<1> DEFINE w == World(c)
           v == UsockDone(w)
<1>1. w \in Worlds /\ w.r = conn[c] /\ Leave(v)
  BY IdleUse
<1> HIDE DEF w
<1>2. UsockEnds(w, v)
  BY <1>1, UsockDoneFlows
<1> HIDE DEF v
<1>3. Within(w, v) /\ UsockStays(w, v)
  BY <1>1, <1>2 DEF UsockEnds, UsockStays
<1> QED BY <1>1, <1>3, WithinFirst DEF w

(* The poller reports a descriptor.                                        *)
LEMMA DescriptorUse ==
    ASSUME IInv, UsesInv, NEW c \in Conn, FdIn(c) \/ FdOut(c) \/ FdErr(c)
    PROVE  UsesInv'
<1> DEFINE w == World(c)
<1>1. events = <<>>
  BY DEF FdIn, FdOut, FdErr, WorkerReady, Unlocked
<1>2. w \in Worlds /\ w.r = conn[c] /\ w.r \in Record /\ MaxUnread \in Nat
      /\ w.r.peer \in {"none", "open", "closed"}
      /\ UseInv(w.c, w.r, w.excl, ToSet(w.events),
                ToSet(w.tasks) \cup ToSet(batch))
  <2>1. w \in Worlds /\ w.r = conn[c]
        /\ UseInv(w.c, w.r, w.excl, ToSet(w.events),
                  ToSet(w.tasks) \cup ToSet(batch))
    BY <1>1, IdleUse
  <2>2. w.r \in Record
    BY <2>1 DEF Worlds
  <2>3. w.r.peer \in {"none", "open", "closed"}
    BY <2>2 DEF Record
  <2> QED BY <2>1, <2>2, <2>3, BoundsAssumption
<1>3. ASSUME NEW u \in Record, SameMachines(w.r, u), u.peer = w.r.peer,
             u.owner = w.r.owner,
             NEW type \in {"SENT", "RECEIVED"},
             IF type = "SENT" THEN u.in = w.r.in ELSE u.out = w.r.out,
             Leave(RaiseUsock([w EXCEPT !.r = u], type))
      PROVE  UsesInv'
  <2> DEFINE v == RaiseUsock([w EXCEPT !.r = u], type)
  <2>1. Enter(v) /\ batch' = batch
    BY <1>3 DEF Leave
  <2> HIDE DEF w
  <2>2. Around(w, v) /\ UseInv(v.c, v.r, v.excl, ToSet(v.events),
                               ToSet(v.tasks) \cup ToSet(batch))
    BY <1>2, <1>3, ReportUse, Zenon
  <2> HIDE DEF v
  <2> QED BY <1>1, <2>1, <2>2, FirstUse DEF w
<1>4. CASE FdIn(c)
  <2>1. CASE /\ w.r.unread > 0
             /\ Leave(RaiseUsock([w EXCEPT !.r.unread = @ - 1,
                                           !.r.in = FALSE], "RECEIVED"))
    <3> DEFINE f == [w.r EXCEPT !.unread = @ - 1]
               u == [f EXCEPT !.in = FALSE]
    <3>1. w.r.unread \in 0..MaxUnread
      BY <1>2 DEF Record
    <3>2. w.r.unread - 1 \in 0..MaxUnread
      BY <1>2, <2>1, <3>1
    <3>3. f \in Record /\ SameMachines(w.r, f) /\ f.peer = w.r.peer
          /\ f.out = w.r.out /\ f.owner = w.r.owner
      BY <1>2, <3>2 DEF Record, SameMachines
    <3>4. [w EXCEPT !.r.unread = @ - 1, !.r.in = FALSE] = [w EXCEPT !.r = u]
      BY <1>2 DEF Worlds
    <3> HIDE DEF f
    <3>5. u \in Record /\ SameMachines(f, u) /\ u.peer = f.peer
          /\ u.out = f.out /\ u.owner = f.owner
      BY <3>3, Zenon DEF Record, SameMachines
    <3>6. Leave(RaiseUsock([w EXCEPT !.r = u], "RECEIVED"))
      BY <2>1, <3>4
    <3> HIDE DEF u, w
    <3>7. SameMachines(w.r, u) /\ u.peer = w.r.peer /\ u.out = w.r.out
          /\ u.owner = w.r.owner
      BY <3>3, <3>5 DEF SameMachines
    <3> QED BY <1>3, <3>5, <3>6, <3>7 DEF w
  <2>2. CASE w.r.peer = "closed" /\ Leave(UsockDone(w))
    <3>1. conn[c].peer # "open"
      BY <1>2, <2>2
    <3> QED BY <1>1, <2>2, <3>1, DescriptorGone
  <2> QED BY <1>4, <2>1, <2>2 DEF FdIn
<1>5. CASE FdOut(c)
  <2>1. CASE /\ w.r.peer = "open"
             /\ Leave(RaiseUsock([w EXCEPT !.r.out = FALSE], "SENT"))
    <3> DEFINE u == [w.r EXCEPT !.out = FALSE]
    <3>1. u \in Record /\ SameMachines(w.r, u) /\ u.peer = w.r.peer
          /\ u.in = w.r.in /\ u.owner = w.r.owner
      BY <1>2, Zenon DEF Record, SameMachines
    <3>2. [w EXCEPT !.r.out = FALSE] = [w EXCEPT !.r = u]
      BY <1>2 DEF Worlds
    <3> HIDE DEF u
    <3>3. Leave(RaiseUsock([w EXCEPT !.r = u], "SENT"))
      BY <2>1, <3>2
    <3> HIDE DEF w
    <3> QED BY <1>3, <3>1, <3>3 DEF w
  <2>2. CASE w.r.peer # "open" /\ Leave(UsockDone(w))
    <3>1. conn[c].peer # "open"
      BY <1>2, <2>2
    <3> QED BY <1>1, <2>2, <3>1, DescriptorGone
  <2> QED BY <1>5, <2>1, <2>2 DEF FdOut
<1>6. CASE FdErr(c)
  <2>1. conn[c].peer # "open" /\ Leave(UsockDone(World(c)))
    BY <1>6 DEF FdErr
  <2> QED BY <1>1, <2>1, DescriptorGone
<1> QED BY <1>4, <1>5, <1>6

(* The listener reports a connection, or fails to accept it.               *)
LEMMA ListenerInUse ==
    ASSUME IInv, UsesInv, ListenerIn
    PROVE  UsesInv'
<1> DEFINE a == bipc.aipc
           w == World(a)
<1>1. events = <<>> /\ listener.state = "ACCEPTING" /\ backlog > 0
  BY DEF ListenerIn, WorkerReady, Unlocked
<1>2. PICK v : Leave(v) /\ (v \in Accepted(w) \/ v = AcceptError(w))
  BY DEF ListenerIn
<1>3. a \in Conn
  BY <1>1 DEF IInv, BipcInv, TypeInv, Bipcs
<1>4. w \in Worlds /\ w.c = a /\ w.r = conn[a] /\ w.backlog > 0
      /\ UseInv(w.c, w.r, w.excl, ToSet(w.events),
                ToSet(w.tasks) \cup ToSet(batch))
  BY <1>1, <1>3, IdleUse, IdleWorld, Zenon
<1>5. w.r.usock # "ACTIVE"
  <2>1. AcceptInv(a, conn[a], ToSet(events), listener, a)
    BY <1>3 DEF IInv, ConnInv
  <2> QED BY <1>1, <1>4, <2>1 DEF AcceptInv
<1>6. Enter(v) /\ batch' = batch
  BY <1>2 DEF Leave
<1> HIDE DEF w, a
<1>7. /\ Around(w, v)
      /\ UseInv(v.c, v.r, v.excl, ToSet(v.events),
                ToSet(v.tasks) \cup ToSet(batch))
  <2>1. CASE v \in Accepted(w)
    BY <1>4, <1>5, <2>1, AcceptedUse
  <2>2. CASE v = AcceptError(w)
    BY <1>4, <2>2, AcceptErrorUse
  <2> QED BY <1>2, <2>1, <2>2
<1> QED BY <1>1, <1>3, <1>6, <1>7, FirstUse DEF w

(* The timer is armed or not.                                              *)
LEMMA ArmedFlows ==
    ASSUME NEW w \in Worlds, NEW armed \in BOOLEAN
    PROVE  LET v == [w EXCEPT !.r.armed = armed]
           IN  Inside(w, v) /\ v.r.timer = w.r.timer
<1> DEFINE u == [w.r EXCEPT !.armed = armed]
           v == [w EXCEPT !.r = u]
<1>1. w.r \in Record
  BY DEF Worlds
<1>2. /\ u \in Record /\ u.in = w.r.in /\ u.out = w.r.out
      /\ u.peer = w.r.peer /\ u.pipe = w.r.pipe /\ u.aipc = w.r.aipc
      /\ u.sipc = w.r.sipc /\ u.owner = w.r.owner /\ u.usock = w.r.usock
      /\ u.streamhdr = w.r.streamhdr /\ u.timer = w.r.timer
  BY <1>1 DEF Record
<1>3. [w EXCEPT !.r.armed = armed] = v
  BY DEF Worlds
<1>4. v = [w EXCEPT !.r = u]
  OBVIOUS
<1> HIDE DEF u, v
<1>5. Flows(w, v) /\ v.r = u /\ v.excl = w.excl
  BY <1>2, <1>4, SetFlows
<1>6. Inside(w, v) /\ v.r.timer = w.r.timer
  BY <1>2, <1>5 DEF Inside, Within
<1> QED BY <1>3, <1>6

(* streamhdr's timer expires.                                              *)
LEMMA TimerExpiresUse ==
    ASSUME IInv, UsesInv, NEW c \in Conn, TimerExpires(c)
    PROVE  UsesInv'
<1> DEFINE w == World(c)
           o == [w EXCEPT !.r.armed = FALSE]
           v == Raise(o, "streamhdr", "timer", "TIMEOUT")
<1>1. events = <<>> /\ w \in Worlds
  BY IdleUse DEF TimerExpires, WorkerReady, Unlocked
<1>2. Leave(IF o.r.timer = "ACTIVE" THEN v ELSE o)
  BY DEF TimerExpires
<1> HIDE DEF w
<1>3. Inside(w, o)
  BY <1>1, ArmedFlows
<1> HIDE DEF o
<1>4. o \in Worlds
  BY <1>3 DEF Inside, Within, Flows
<1>5. "streamhdr" \in Machines
  BY DEF Machines
<1>6. Within(o, v) /\ v.r = o.r
  BY <1>4, <1>5, RaiseFlows, Zenon
<1> HIDE DEF v
<1>7. Inside(w, v)
  BY <1>3, <1>6, InsideTrans DEF Inside
<1>8. \E x : Leave(x) /\ Inside(w, x)
  BY <1>2, <1>3, <1>7
<1>9. PICK x : Leave(x) /\ Within(w, x) /\ UsockStays(w, x)
  BY <1>8 DEF Inside, UsockStays
<1> QED BY <1>1, <1>9, WithinFirst DEF w

(* The worker takes what it was asked.                                     *)
LEMMA TakeTasksUse ==
    ASSUME UsesInv, TakeTasks
    PROVE  UsesInv'
<1>1. /\ conn' = conn /\ excl' = excl /\ events' = events /\ batch' = tasks
      /\ tasks' = <<>> /\ batch = <<>>
  BY DEF TakeTasks, WorkerReady
<1>2. ToSet(<<>>) = {}
  BY DEF ToSet
<1>3. ToSet(tasks') \cup ToSet(batch') = Pending
  BY <1>1, <1>2 DEF Pending
<1> QED BY <1>1, <1>3 DEF UsesInv, Pending

(* It runs one.                                                            *)
LEMMA TaskTaken ==
    ASSUME IInv, NEW fsm, NEW task, Task(fsm, task), batch' = Tail(batch)
    PROVE  /\ events = <<>> /\ Head(batch) \in Tasks
           /\ Head(batch).fsm = fsm /\ Head(batch).task = task
           /\ ToSet(batch) = {Head(batch)} \cup ToSet(batch')
<1>1. events = <<>> /\ batch # <<>> /\ Head(batch).fsm = fsm
      /\ Head(batch).task = task
  BY DEF Task, Unlocked
<1>2. batch \in Seq(Tasks)
  BY SameTypes
<1> QED BY <1>1, <1>2, TailSet

(* One that is not usock's.                                                *)
LEMMA RanUse ==
    ASSUME IInv, UsesInv, NEW fsm \in {"timer", "listener"}, NEW task,
           Task(fsm, task), batch' = Tail(batch), NEW c \in Conn,
           Head(batch).c \in {c, None}, NEW v, Enter(v),
           Within(World(c), v), UsockStays(World(c), v)
    PROVE  UsesInv'
<1> DEFINE w == World(c)
           k == ToSet(w.tasks) \cup ToSet(batch)
           l == ToSet(w.tasks) \cup ToSet(batch')
           s == ToSet(w.events)
<1>1. /\ events = <<>> /\ Head(batch).fsm = fsm
      /\ ToSet(batch) = {Head(batch)} \cup ToSet(batch')
  BY TaskTaken
<1>2. NestInv(w.r) /\ w.c = c /\ UseInv(w.c, w.r, w.excl, s, k)
  BY <1>1, IdleUse, Zenon
<1>3. Within(w, v) /\ UsockStays(w, v)
  OBVIOUS
<1>4. \A d : UsockTask(c, d) \in k => UsockTask(c, d) \in l
  <2>1. \A d : UsockTask(c, d).fsm = "usock"
    BY DEF UsockTask
  <2> QED BY <1>1, <2>1
<1>5. \A t \in ToSet(batch) : t.c \in Conn \ {c} => t \in ToSet(batch')
  BY <1>1, IpcAssumption
<1> HIDE DEF w
<1>6. UseInv(w.c, w.r, w.excl, s, l)
  <2> DEFINE r == w.r
             x == w.excl
  <2>1. UseInv(c, r, x, s, k)
    BY <1>2
  <2> HIDE DEF r, x, s, k, l
  <2>2. UseInv(c, r, x, s, l)
    BY <1>4, <2>1, OtherUse
  <2> QED BY <1>2, <2>2 DEF r, x
<1>7. UseInv(v.c, v.r, v.excl, ToSet(v.events),
             ToSet(v.tasks) \cup ToSet(batch'))
  <2> DEFINE b == ToSet(batch')
  <2>1. UseInv(w.c, w.r, w.excl, ToSet(w.events), ToSet(w.tasks) \cup b)
    BY <1>6
  <2> HIDE DEF b
  <2>2. UseInv(v.c, v.r, v.excl, ToSet(v.events), ToSet(v.tasks) \cup b)
    BY <1>2, <1>3, <2>1, WithinUse
  <2> QED BY <2>2 DEF b
<1>8. Around(w, v)
  <2>1. Flows(w, v) /\ v.excl = w.excl
    BY <1>3 DEF Within
  <2> QED BY <2>1, WithinAround
<1> QED BY <1>1, <1>5, <1>7, <1>8, FirstUse DEF w

(* usock's SEND and RECV: the descriptor is polled for it instead.         *)
LEMMA PolledUse ==
    ASSUME IInv, UsesInv, NEW task \in {"SEND", "RECV"}, Task("usock", task),
           batch' = Tail(batch), NEW v, Enter(v),
           v = IF task = "SEND" THEN [T EXCEPT !.r.out = TRUE]
               ELSE [T EXCEPT !.r.in = TRUE]
    PROVE  UsesInv'
<1> DEFINE c == Head(batch).c
           w == T
           r == w.r
           u == IF task = "SEND" THEN [r EXCEPT !.out = TRUE]
                ELSE [r EXCEPT !.in = TRUE]
           x == w.excl
           s == ToSet(w.events)
           k == ToSet(w.tasks) \cup ToSet(batch)
           l == ToSet(w.tasks) \cup ToSet(batch')
<1>1. /\ events = <<>> /\ Head(batch).fsm = "usock" /\ Head(batch).task = task
      /\ Head(batch) \in Tasks
      /\ ToSet(batch) = {Head(batch)} \cup ToSet(batch')
  BY TaskTaken
<1>2. c \in Conn
  BY <1>1 DEF Tasks
<1>3. w \in Worlds /\ w.c = c /\ UseInv(w.c, r, x, s, k) /\ r \in Record
  BY <1>1, <1>2, IdleUse, Zenon DEF T, Worlds
<1>4. Enter(v) /\ v.c = c /\ v.r = u /\ v.excl = x /\ v.events = w.events
      /\ v.tasks = w.tasks
  BY <1>3 DEF Worlds
<1>5. /\ u.streamhdr = r.streamhdr /\ u.aipc = r.aipc /\ u.sipc = r.sipc
      /\ u.owner = r.owner /\ u.usock = r.usock /\ u.peer = r.peer
      /\ task = "SEND" => u.out /\ u.in = r.in
      /\ task = "RECV" => u.in /\ u.out = r.out
  BY <1>3, Zenon DEF Record
<1>6. \A d : UsockTask(c, d) \in k /\ d # task => UsockTask(c, d) \in l
  <2>1. \A d : UsockTask(c, d).task = d
    BY DEF UsockTask
  <2> QED BY <1>1, <2>1
<1>7. \A t \in ToSet(batch) : t.c \in Conn \ {c} => t \in ToSet(batch')
  BY <1>1
<1>8. Around(w, v)
  BY <1>3, <1>4 DEF Around
<1>9. Around(World(c), v)
  BY <1>8 DEF T
<1> HIDE DEF c, w, r, u, x, s, k, l
<1>10. UseInv(c, r, x, s, k)
  BY <1>3
<1>11. NewsInv(c, u, s) /\ OpenInv(c, u, s)
  BY <1>5, <1>10 DEF UseInv, NewsInv, OpenInv
<1>12. InFlow(c, r, x, s, k) => InFlow(c, u, x, s, l)
  BY <1>5, <1>6 DEF InFlow
<1>13. OutFlow(c, r, x, s, k) => OutFlow(c, u, x, s, l)
  BY <1>5, <1>6 DEF OutFlow
<1>14. UseInv(c, u, x, s, l)
  BY <1>5, <1>10, <1>11, <1>12, <1>13 DEF UseInv, FlowInv
<1>15. UseInv(v.c, v.r, v.excl, ToSet(v.events),
              ToSet(v.tasks) \cup ToSet(batch'))
  BY <1>4, <1>14 DEF s, l
<1> QED BY <1>1, <1>2, <1>4, <1>7, <1>9, <1>15, FirstUse, ZenonT(30)

(* usock's STOP: it is not open any more.                                  *)
LEMMA UsockStopTaskUse ==
    ASSUME IInv, UsesInv, UsockStopTask
    PROVE  UsesInv'
<1> DEFINE c == Head(batch).c
           w == World(c)
<1>1. Task("usock", "STOP") /\ batch' = Tail(batch)
  BY DEF UsockStopTask, Ran
<1>2. PICK v : /\ Enter(v) /\ w.r.usock # "ACTIVE"
               /\ \/ v = UsockDone(w)
                  \/ v = UsockStopped(w) /\ w.r.usock = "STOPPING"
  BY DEF UsockStopTask, Ran, T
<1>3. /\ events = <<>> /\ Head(batch) \in Tasks /\ Head(batch).fsm = "usock"
      /\ ToSet(batch) = {Head(batch)} \cup ToSet(batch')
  BY <1>1, TaskTaken
<1>4. c \in Conn
  BY <1>3 DEF Tasks
<1>5. w \in Worlds /\ NestInv(w.r) /\ w.c = c
      /\ UseInv(w.c, w.r, w.excl, ToSet(w.events),
                ToSet(w.tasks) \cup ToSet(batch))
  BY <1>3, <1>4, IdleUse
<1>6. \A t \in ToSet(batch) : t.c \in Conn \ {c} => t \in ToSet(batch')
  BY <1>3
<1> HIDE DEF c, w
<1>7. Within(w, v) /\ v.r.usock # "ACTIVE"
  <2>1. CASE v = UsockDone(w)
    BY <1>5, <2>1, UsockDoneFlows DEF UsockEnds
  <2>2. CASE v = UsockStopped(w)
    <3>1. Within(w, v)
      BY <1>5, <2>2, UsockStoppedFlows
    <3>2. v.r.usock = "IDLE"
      BY <1>5, <2>2, UsockStoppedEffect
    <3> QED BY <3>1, <3>2
  <2> QED BY <1>2, <2>1, <2>2
<1>8. UsockStays(w, v)
  BY <1>2, <1>7 DEF UsockStays
<1>9. UseInv(v.c, v.r, v.excl, ToSet(v.events),
             ToSet(v.tasks) \cup ToSet(batch))
  BY <1>5, <1>7, <1>8, WithinUse
<1>10. UseInv(v.c, v.r, v.excl, ToSet(v.events),
              ToSet(v.tasks) \cup ToSet(batch'))
  BY <1>7, <1>9, ClosedUse
<1>11. Around(w, v)
  <2>1. Flows(w, v) /\ v.excl = w.excl
    BY <1>7 DEF Within
  <2> QED BY <2>1, WithinAround
<1> QED BY <1>2, <1>3, <1>4, <1>6, <1>10, <1>11, FirstUse DEF w

(* The timer's tasks.                                                      *)
LEMMA TimerTaskUse ==
    ASSUME IInv, UsesInv, TimerStartTask \/ TimerStopTask
    PROVE  UsesInv'
<1> DEFINE c == Head(batch).c
           w == World(c)
           armed == (w.r.timer = "ACTIVE")
           f == [w EXCEPT !.r.armed = armed]
           o == [w EXCEPT !.r.armed = FALSE]
           p == [o EXCEPT !.r.timer = "IDLE"]
           v == Raise(p, "streamhdr", "timer", "STOPPED")
<1>1. PICK task : Task("timer", task) /\ batch' = Tail(batch)
  BY DEF TimerStartTask, TimerStopTask, Ran
<1>2. events = <<>> /\ Head(batch) \in Tasks /\ Head(batch).fsm = "timer"
  BY <1>1, TaskTaken
<1>3. c \in Conn
  BY <1>2 DEF Tasks
<1>4. w \in Worlds
  BY <1>2, <1>3, IdleUse
<1>5. (TimerStartTask => Enter(f)) /\ (TimerStopTask => Enter(v))
  <2>1. TimerStartTask => Enter(f)
    BY DEF TimerStartTask, Ran, T
  <2>2. [w EXCEPT !.r.armed = FALSE, !.r.timer = "IDLE"] = p
    BY <1>4 DEF Worlds
  <2>3. TimerStopTask =>
           Enter(Raise([w EXCEPT !.r.armed = FALSE, !.r.timer = "IDLE"],
                       "streamhdr", "timer", "STOPPED"))
    BY DEF TimerStopTask, Ran, T
  <2> HIDE DEF p, w, f
  <2> QED BY <2>1, <2>2, <2>3
<1>6. armed \in BOOLEAN
  OBVIOUS
<1> HIDE DEF c, w, armed
<1>7. Inside(w, f) /\ Inside(w, o)
  BY <1>4, <1>6, ArmedFlows
<1> HIDE DEF f, o
<1>8. o \in Worlds
  BY <1>7 DEF Inside, Within, Flows
<1>9. Inside(o, p)
  BY <1>8, TimerSetFlows
<1> HIDE DEF p
<1>10. p \in Worlds /\ "streamhdr" \in Machines
  BY <1>9 DEF Inside, Within, Flows, Machines
<1>11. Within(p, v) /\ v.r = p.r
  BY <1>10, RaiseFlows, Zenon
<1> HIDE DEF v
<1>12. Inside(w, v)
  BY <1>7, <1>9, <1>11, InsideTrans DEF Inside
<1>13. PICK x : Enter(x) /\ Inside(w, x)
  BY <1>5, <1>7, <1>12
<1>14. Within(w, x) /\ UsockStays(w, x) /\ Head(batch).c \in {c, None}
  BY <1>13 DEF Inside, UsockStays, c
<1> QED BY <1>1, <1>3, <1>13, <1>14, RanUse DEF w

(* The listener is polled: no connection is touched.                       *)
LEMMA ListenerAcceptUse ==
    ASSUME IInv, UsesInv, ListenerAcceptTask
    PROVE  UsesInv'
<1> DEFINE w == [World(bipc.aipc) EXCEPT !.listener.polled = TRUE]
<1>1. /\ Task("listener", "ACCEPT") /\ batch' = Tail(batch)
      /\ Enter(w)
  BY DEF ListenerAcceptTask, Ran
<1>2. /\ Head(batch).fsm = "listener" /\ events = <<>>
      /\ ToSet(batch) = {Head(batch)} \cup ToSet(batch')
  BY <1>1, TaskTaken
<1>3. w.c = bipc.aipc /\ w.r = conn[bipc.aipc] /\ w.excl = excl
      /\ w.events = events /\ w.tasks = tasks
  BY <1>2 DEF World
<1> HIDE DEF w
<1>4. /\ conn' = [conn EXCEPT ![bipc.aipc] = conn[bipc.aipc]]
      /\ excl' = excl /\ events' = events /\ tasks' = tasks
  BY <1>1, <1>3, EnterFacts
<1>5. conn' = conn
  BY <1>4 DEF IInv, TypeInv
<1> DEFINE l == ToSet(tasks) \cup ToSet(batch')
<1>6. ASSUME NEW d \in Conn
      PROVE  UseInv(d, conn[d], excl, ToSet(events), l)
  <2>1. UseInv(d, conn[d], excl, ToSet(events), Pending)
    BY DEF UsesInv
  <2>2. \A task : UsockTask(d, task) \in Pending => UsockTask(d, task) \in l
    BY <1>2 DEF UsockTask, Pending
  <2> HIDE DEF l
  <2> QED BY <2>1, <2>2, OtherUse
<1> QED BY <1>4, <1>5, <1>6 DEF UsesInv, Pending

(* The listener is set.                                                    *)
LEMMA ListenerSetFlows ==
    ASSUME NEW w \in Worlds, NEW l \in Listeners
    PROVE  LET v == [w EXCEPT !.listener = l]
           IN  Within(w, v) /\ v.r = w.r
<1> DEFINE v == [w EXCEPT !.listener = l]
<1>1. /\ v \in Worlds /\ v.c = w.c /\ v.r = w.r /\ v.excl = w.excl
      /\ v.events = w.events /\ v.tasks = w.tasks
  BY DEF Worlds
<1> HIDE DEF v
<1>2. Within(w, v) /\ v.r = w.r
  BY <1>1 DEF Within, Flows
<1> QED BY <1>2 DEF v

(* It gives up: the usock that waited for it is stopped.                   *)
LEMMA ListenerStopUse ==
    ASSUME IInv, UsesInv, ListenerStopTask
    PROVE  UsesInv'
<1> DEFINE a == bipc.aipc
           w == World(a)
           k == [w.listener EXCEPT !.polled = FALSE]
           l == [k EXCEPT !.state = "LISTENING"]
           o == [w EXCEPT !.listener = l]
           v == UsockStopped(o)
<1>1. /\ Task("listener", "STOP") /\ batch' = Tail(batch)
      /\ listener.state = "CANCELLING"
      /\ Enter(UsockStopped([w EXCEPT !.listener.polled = FALSE,
                                      !.listener.state = "LISTENING"]))
  BY DEF ListenerStopTask, Ran
<1>2. /\ events = <<>> /\ Head(batch) \in Tasks
      /\ Head(batch).fsm = "listener"
  BY <1>1, TaskTaken
<1>3. Head(batch).c = None
  BY <1>2 DEF Tasks
<1>4. a \in Conn
  BY <1>1 DEF IInv, BipcInv, TypeInv, Bipcs
<1>5. conn[a].usock = "STOPPING_ACCEPT"
  <2>1. AcceptInv(a, conn[a], ToSet(events), listener, a)
    BY <1>4 DEF IInv, ConnInv
  <2> QED BY <1>1, <2>1 DEF AcceptInv
<1> HIDE DEF a
<1>6. w \in Worlds /\ w.r = conn[a] /\ w.listener \in Listeners
  BY <1>2, <1>4, IdleUse DEF Worlds
<1>7. [w EXCEPT !.listener.polled = FALSE,
                !.listener.state = "LISTENING"] = o
  BY <1>6 DEF Worlds, Listeners
<1>8. Enter(v)
  <2> HIDE DEF o
  <2> QED BY <1>1, <1>7
<1> HIDE DEF w
<1>9. k \in Listeners
  BY <1>6 DEF Listeners
<1> HIDE DEF k
<1>10. l \in Listeners
  BY <1>9 DEF Listeners
<1> HIDE DEF l
<1>11. Within(w, o) /\ o.r = w.r
  BY <1>6, <1>10, ListenerSetFlows
<1> HIDE DEF o
<1>12. o \in Worlds
  BY <1>11 DEF Within, Flows
<1>13. Within(o, v) /\ v.r.usock = "IDLE"
  BY <1>12, UsockStoppedFlows, UsockStoppedEffect
<1> HIDE DEF v
<1>14. Within(w, v)
  BY <1>11, <1>13, WithinTrans
<1>15. UsockStays(w, v)
  BY <1>5, <1>6, <1>13 DEF UsockStays
<1>16. Head(batch).c \in {a, None}
  BY <1>3
<1> QED BY <1>1, <1>4, <1>8, <1>14, <1>15, <1>16, RanUse DEF w

(* The worker runs a task.                                                 *)
LEMMA RunTaskUse ==
    ASSUME IInv, UsesInv, RunTask
    PROVE  UsesInv'
<1>1. CASE UsockSendTask
  <2>1. Task("usock", "SEND") /\ Enter([T EXCEPT !.r.out = TRUE])
        /\ batch' = Tail(batch)
    BY <1>1 DEF UsockSendTask, Ran
  <2> QED BY <2>1, PolledUse
<1>2. CASE UsockRecvTask
  <2>1. Task("usock", "RECV") /\ Enter([T EXCEPT !.r.in = TRUE])
        /\ batch' = Tail(batch)
    BY <1>2 DEF UsockRecvTask, Ran
  <2> QED BY <2>1, PolledUse
<1> QED BY <1>1, <1>2, UsockStopTaskUse, TimerTaskUse, ListenerAcceptUse,
           ListenerStopUse DEF RunTask

-----------------------------------------------------------------------------
(* main's thread.                                                          *)

(* A step of a connection in use: it takes what one direction offered, and *)
(* asks usock for the next (o).                                            *)
LEMMA MainUse ==
    ASSUME IInv, UsesInv, events = <<>>, NEW c \in Conn,
           conn[c].sipc = "ACTIVE", excl.pipe = c,
           NEW o, Within(World(c), o), o.r.streamhdr = conn[c].streamhdr,
           \/ o.r.usock = conn[c].usock
           \/ /\ o.r.usock # "ACTIVE"
              /\ conn[c].usock = "ACTIVE"
                    => Told(ToSet(o.events), c, conn[c].owner),
           NEW v, Leave(v), v.c = o.c, v.events = o.events, v.tasks = o.tasks,
           v.r.sipc = o.r.sipc, v.r.streamhdr = o.r.streamhdr,
           v.r.owner = o.r.owner, v.r.usock = o.r.usock,
           v.r.aipc = o.r.aipc, v.r.peer = o.r.peer,
           v.r.in = o.r.in, v.r.out = o.r.out,
           v.r.usock = "ACTIVE" =>
              LET k == ToSet(v.tasks) \cup ToSet(batch)
              IN  /\ InFlow(c, v.r, v.excl, ToSet(v.events), k)
                  /\ OutFlow(c, v.r, v.excl, ToSet(v.events), k)
    PROVE  UsesInv'
<1> DEFINE w == World(c)
           r == w.r
           u == v.r
           x == w.excl
           y == v.excl
           s == ToSet(w.events)
           t == ToSet(v.events)
           k == ToSet(w.tasks) \cup ToSet(batch)
           l == ToSet(v.tasks) \cup ToSet(batch)
<1>1. /\ w \in Worlds /\ w.c = c /\ r = conn[c] /\ x = excl
      /\ NestInv(r) /\ UseInv(w.c, r, x, s, k)
  BY IdleUse
<1>2. Within(w, o) /\ Flows(w, o) /\ Enter(v) /\ batch' = batch
  BY DEF Within, Leave
<1>3. \A d \in Conn \ {c} : x.inpipe # d /\ x.outpipe # d
  <2>1. \A d \in Conn : PipeInv(d, conn[d], excl, ToSet(events))
    BY DEF IInv, ConnInv
  <2>2. x = excl
    BY <1>1
  <2> HIDE DEF x
  <2> QED BY <2>1, <2>2 DEF PipeInv
<1> HIDE DEF w
<1>4. /\ o.c = c /\ o.r.sipc = "ACTIVE" /\ o.r.aipc = r.aipc
      /\ o.r.owner = r.owner /\ s \subseteq t
      /\ ToSet(w.tasks) \subseteq ToSet(v.tasks)
      /\ \A e \in t : e \in s \/ e.c = c
  BY <1>1, <1>2 DEF Within, Flows, News
<1>5. Around(w, v)
  BY <1>1, <1>3, <1>4 DEF Around
<1>6. NewsInv(o.c, o.r, ToSet(o.events))
  BY <1>1, <1>2, <1>4, NewsKept DEF UseInv
<1>7. NewsInv(c, u, t)
  BY <1>4, <1>6 DEF NewsInv
<1>8. Told(s, c, "sipc") => Told(t, c, "sipc")
  BY <1>4 DEF Told
<1>9. r.sipc = "ACTIVE" /\ u.sipc = "ACTIVE" /\ UseInv(c, r, x, s, k)
  BY <1>1, <1>4
<1>10. r.owner = "sipc"
  BY <1>9 DEF UseInv, OpenInv
<1>11. u.streamhdr = r.streamhdr /\ u.owner = r.owner
  BY <1>1, <1>4
<1>12. u.usock = "ACTIVE" => InFlow(c, u, y, t, l) /\ OutFlow(c, u, y, t, l)
  OBVIOUS
<1>13. \/ u.usock = r.usock
       \/ u.usock # "ACTIVE" /\ (r.usock = "ACTIVE" => Told(t, c, "sipc"))
  BY <1>1, <1>10
<1> HIDE DEF r, u, x, y, s, t, k, l
<1>14. UseInv(c, u, y, t, l)
  <2>1. CASE u.usock = r.usock \/ Told(t, c, "sipc")
    <3>1. u.usock = r.usock \/ (u.usock # "ACTIVE" /\ Told(t, c, "sipc"))
      BY <1>13, <2>1
    <3> QED BY <1>7, <1>8, <1>9, <1>11, <1>12, <3>1, ActiveUse
  <2>2. CASE u.usock # "ACTIVE" /\ r.usock # "ACTIVE"
    <3>1. FlowInv(c, u, y, t, l)
      BY <1>9, <1>11, <2>2 DEF UseInv, FlowInv
    <3>2. OpenInv(c, u, t)
      BY <1>8, <1>9, <1>11, <2>2 DEF UseInv, OpenInv
    <3> QED BY <1>7, <3>1, <3>2 DEF UseInv
  <2> QED BY <1>13, <2>1, <2>2
<1>15. UseInv(v.c, v.r, v.excl, ToSet(v.events),
              ToSet(v.tasks) \cup ToSet(batch))
  BY <1>4, <1>14 DEF u, y, t, l
<1> QED BY <1>2, <1>5, <1>15, FirstUse DEF w

(* A pipe with a ready direction is in use.                                *)
LEMMA ReadyPipe ==
    ASSUME IInv, UsesInv, events = <<>>, NEW c \in Conn,
           excl.outpipe = c \/ excl.inpipe = c
    PROVE  /\ World(c) \in Worlds /\ World(c).r = conn[c] /\ World(c).c = c
           /\ World(c).excl = excl /\ conn[c].sipc = "ACTIVE"
           /\ excl.pipe = c /\ conn[c].owner = "sipc"
           /\ conn[c].usock = "ACTIVE" =>
                 LET w == World(c)
                     k == ToSet(w.tasks) \cup ToSet(batch)
                 IN  /\ InFlow(c, w.r, excl, ToSet(w.events), k)
                     /\ OutFlow(c, w.r, excl, ToSet(w.events), k)
<1> DEFINE w == World(c)
           k == ToSet(w.tasks) \cup ToSet(batch)
           s == ToSet(w.events)
<1>1. w \in Worlds /\ w.r = conn[c] /\ w.c = c /\ w.excl = excl
      /\ UseInv(w.c, w.r, w.excl, s, k)
  BY IdleUse
<1>2. PipeInv(c, conn[c], excl, ToSet(events)) /\ ToSet(events) = {}
  BY DEF IInv, ConnInv, ToSet
<1>3. excl.pipe = c /\ conn[c].sipc = "ACTIVE"
  BY <1>2 DEF PipeInv
<1> HIDE DEF w, s, k
<1>4. conn[c].owner = "sipc"
      /\ (conn[c].usock = "ACTIVE" => /\ InFlow(c, w.r, excl, s, k)
                                      /\ OutFlow(c, w.r, excl, s, k))
  BY <1>1, <1>3 DEF UseInv, FlowInv, OpenInv
<1> QED BY <1>1, <1>3, <1>4 DEF w, s, k

(* nn_send.                                                                *)
LEMMA SendUse ==
    ASSUME IInv, UsesInv, NnSend
    PROVE  UsesInv'
<1> DEFINE c == excl.outpipe
           w == World(c)
           r == w.r
           s == ToSet(w.events)
           k == ToSet(w.tasks) \cup ToSet(batch)
<1>1. events = <<>> /\ c # None
  BY DEF NnSend, Unlocked
<1>2. PICK o \in UsockSend(w) :
         Leave([o EXCEPT !.r.outstate = "SENDING", !.r.pipeout = "ASYNC",
                         !.excl.outpipe = None])
  BY DEF NnSend
<1>3. c \in Conn
  BY <1>1 DEF IInv, TypeInv, Excls
<1>4. w \in Worlds /\ r = conn[c] /\ w.c = c /\ w.excl = excl
      /\ conn[c].sipc = "ACTIVE" /\ excl.pipe = c /\ conn[c].owner = "sipc"
      /\ (conn[c].usock = "ACTIVE" => /\ InFlow(c, r, excl, s, k)
                                      /\ OutFlow(c, r, excl, s, k))
  BY <1>1, <1>3, ReadyPipe, Zenon
<1> DEFINE p == [o.r EXCEPT !.outstate = "SENDING"]
           u == [p EXCEPT !.pipeout = "ASYNC"]
           y == [o.excl EXCEPT !.outpipe = None]
           v == [o EXCEPT !.r = u, !.excl = y]
<1> HIDE DEF c, w, r
<1>5. \/ /\ UsockEnds(w, o)
         /\ w.r.usock # "ACTIVE" \/ w.r.peer = "closed"
      \/ /\ Within(w, o) /\ o.r = w.r /\ w.r.usock = "ACTIVE"
         /\ \/ UsockTask(w.c, "SEND") \in ToSet(o.tasks)
            \/ Has(ToSet(o.events), w.c, "usock", "SENT")
  BY <1>4, UsockSendFlows
<1>6. Within(w, o) /\ Flows(w, o) /\ o.excl = w.excl
      /\ o.r.streamhdr = w.r.streamhdr
  BY <1>5 DEF UsockEnds, Within
<1>7. o \in Worlds /\ o.r \in Record /\ o.excl \in Excls
  BY <1>6 DEF Flows, Worlds
<1>8. /\ u.sipc = o.r.sipc /\ u.streamhdr = o.r.streamhdr
      /\ u.owner = o.r.owner /\ u.usock = o.r.usock /\ u.aipc = o.r.aipc
      /\ u.peer = o.r.peer /\ u.in = o.r.in /\ u.out = o.r.out
      /\ y.inpipe = excl.inpipe
  BY <1>4, <1>6, <1>7 DEF Record, Excls
<1>9. Leave(v)
  <2>1. [o EXCEPT !.r.outstate = "SENDING", !.r.pipeout = "ASYNC",
                  !.excl.outpipe = None] = v
    BY <1>7, Zenon DEF Worlds, Record, Excls
  <2> HIDE DEF v
  <2> QED BY <1>2, <2>1
<1>10. v.c = o.c /\ v.events = o.events /\ v.tasks = o.tasks /\ v.r = u
       /\ v.excl = y
  BY <1>7 DEF Worlds
<1> HIDE DEF p, u, y, v
<1>11. \/ o.r.usock = conn[c].usock
       \/ /\ o.r.usock # "ACTIVE"
          /\ conn[c].usock = "ACTIVE"
                => Told(ToSet(o.events), c, conn[c].owner)
  BY <1>4, <1>5 DEF UsockEnds, r
<1>12. v.r.usock = "ACTIVE" =>
          /\ InFlow(c, v.r, v.excl, ToSet(v.events),
                    ToSet(v.tasks) \cup ToSet(batch))
          /\ OutFlow(c, v.r, v.excl, ToSet(v.events),
                     ToSet(v.tasks) \cup ToSet(batch))
  <2> SUFFICES ASSUME v.r.usock = "ACTIVE"
               PROVE  /\ InFlow(c, v.r, v.excl, ToSet(v.events),
                                ToSet(v.tasks) \cup ToSet(batch))
                      /\ OutFlow(c, v.r, v.excl, ToSet(v.events),
                                 ToSet(v.tasks) \cup ToSet(batch))
    OBVIOUS
  <2> DEFINE t == ToSet(v.events)
             l == ToSet(v.tasks) \cup ToSet(batch)
  <2>1. o.r.usock = "ACTIVE"
    BY <1>8, <1>10
  <2>2. /\ o.r = r /\ r.usock = "ACTIVE"
        /\ \/ UsockTask(c, "SEND") \in l
           \/ Has(t, c, "usock", "SENT")
    BY <1>4, <1>5, <1>10, <2>1 DEF UsockEnds, r
  <2>3. s \subseteq t /\ k \subseteq l
    BY <1>6, <1>10 DEF Flows
  <2>4. InFlow(c, r, excl, s, k) /\ v.r.in = r.in
    BY <1>4, <1>8, <1>10, <2>2
  <2>5. v.excl.inpipe = excl.inpipe
    BY <1>8, <1>10
  <2> HIDE DEF s, t, k, l
  <2>6. \A src, g : Has(s, c, src, g) => Has(t, c, src, g)
    BY <2>3 DEF Has
  <2>7. InFlow(c, v.r, v.excl, t, l)
    BY <2>3, <2>4, <2>5, <2>6 DEF InFlow
  <2>8. OutFlow(c, v.r, v.excl, t, l)
    BY <2>2 DEF OutFlow
  <2> QED BY <2>7, <2>8 DEF t, l
<1>13. /\ v.r.sipc = o.r.sipc /\ v.r.streamhdr = o.r.streamhdr
       /\ v.r.owner = o.r.owner /\ v.r.usock = o.r.usock
       /\ v.r.aipc = o.r.aipc /\ v.r.peer = o.r.peer /\ v.r.in = o.r.in
       /\ v.r.out = o.r.out
       /\ o.r.streamhdr = conn[c].streamhdr
  BY <1>4, <1>6, <1>8, <1>10 DEF r
<1> QED BY <1>1, <1>3, <1>4, <1>6, <1>9, <1>10, <1>11, <1>12, <1>13, MainUse,
           Zenon
        DEF w

(* nn_recv.                                                                *)
LEMMA RecvUse ==
    ASSUME IInv, UsesInv, NnRecv
    PROVE  UsesInv'
<1> DEFINE c == excl.inpipe
           w == World(c)
           r == w.r
           s == ToSet(w.events)
           k == ToSet(w.tasks) \cup ToSet(batch)
           o == UsockRecv(w)
<1>1. events = <<>> /\ c # None
  BY DEF NnRecv, Unlocked
<1>2. Leave([o EXCEPT !.r.instate = "HDR", !.r.pipein = "ASYNC",
                      !.excl.inpipe = None])
  BY DEF NnRecv
<1>3. c \in Conn
  BY <1>1 DEF IInv, TypeInv, Excls
<1>4. w \in Worlds /\ r = conn[c] /\ w.c = c /\ w.excl = excl
      /\ conn[c].sipc = "ACTIVE" /\ excl.pipe = c /\ conn[c].owner = "sipc"
      /\ (conn[c].usock = "ACTIVE" => /\ InFlow(c, r, excl, s, k)
                                      /\ OutFlow(c, r, excl, s, k))
  BY <1>1, <1>3, ReadyPipe, Zenon
<1> DEFINE p == [o.r EXCEPT !.instate = "HDR"]
           u == [p EXCEPT !.pipein = "ASYNC"]
           y == [o.excl EXCEPT !.inpipe = None]
           v == [o EXCEPT !.r = u, !.excl = y]
<1> HIDE DEF c, w, r
<1>5. \/ /\ UsockEnds(w, o)
         /\ w.r.usock # "ACTIVE" \/ w.r.peer = "closed"
      \/ /\ Within(w, o) /\ o.r.streamhdr = w.r.streamhdr
         /\ w.r.usock = "ACTIVE" /\ o.r.usock = "ACTIVE"
         /\ \/ UsockTask(w.c, "RECV") \in ToSet(o.tasks)
            \/ Has(ToSet(o.events), w.c, "usock", "RECEIVED")
  BY <1>4, UsockRecvFlows
<1> HIDE DEF o
<1>6. Within(w, o) /\ Flows(w, o) /\ o.excl = w.excl
      /\ o.r.streamhdr = w.r.streamhdr
  BY <1>5 DEF UsockEnds, Within
<1>7. o \in Worlds /\ o.r \in Record /\ o.excl \in Excls
  BY <1>6 DEF Flows, Worlds
<1>8. /\ u.sipc = o.r.sipc /\ u.streamhdr = o.r.streamhdr
      /\ u.owner = o.r.owner /\ u.usock = o.r.usock /\ u.aipc = o.r.aipc
      /\ u.peer = o.r.peer /\ u.in = o.r.in /\ u.out = o.r.out
      /\ y.outpipe = excl.outpipe
  BY <1>4, <1>6, <1>7 DEF Record, Excls
<1>9. Leave(v)
  <2>1. [o EXCEPT !.r.instate = "HDR", !.r.pipein = "ASYNC",
                  !.excl.inpipe = None] = v
    BY <1>7, Zenon DEF Worlds, Record, Excls
  <2> HIDE DEF v
  <2> QED BY <1>2, <2>1
<1>10. v.c = o.c /\ v.events = o.events /\ v.tasks = o.tasks /\ v.r = u
       /\ v.excl = y
  BY <1>7 DEF Worlds
<1> HIDE DEF p, u, y, v
<1>11. \/ o.r.usock = conn[c].usock
       \/ /\ o.r.usock # "ACTIVE"
          /\ conn[c].usock = "ACTIVE"
                => Told(ToSet(o.events), c, conn[c].owner)
  BY <1>4, <1>5 DEF UsockEnds, r
<1>12. v.r.usock = "ACTIVE" =>
          /\ InFlow(c, v.r, v.excl, ToSet(v.events),
                    ToSet(v.tasks) \cup ToSet(batch))
          /\ OutFlow(c, v.r, v.excl, ToSet(v.events),
                     ToSet(v.tasks) \cup ToSet(batch))
  <2> SUFFICES ASSUME v.r.usock = "ACTIVE"
               PROVE  /\ InFlow(c, v.r, v.excl, ToSet(v.events),
                                ToSet(v.tasks) \cup ToSet(batch))
                      /\ OutFlow(c, v.r, v.excl, ToSet(v.events),
                                 ToSet(v.tasks) \cup ToSet(batch))
    OBVIOUS
  <2> DEFINE t == ToSet(v.events)
             l == ToSet(v.tasks) \cup ToSet(batch)
  <2>1. o.r.usock = "ACTIVE"
    BY <1>8, <1>10
  <2>2. /\ r.usock = "ACTIVE"
        /\ \/ UsockTask(c, "RECV") \in l
           \/ Has(t, c, "usock", "RECEIVED")
    BY <1>4, <1>5, <1>10, <2>1 DEF UsockEnds, r
  <2>3. s \subseteq t /\ k \subseteq l
    BY <1>6, <1>10 DEF Flows
  <2>4. OutFlow(c, r, excl, s, k) /\ v.r.out = r.out
    BY <1>4, <1>6, <1>8, <1>10, <2>2 DEF Flows, r
  <2>5. v.excl.outpipe = excl.outpipe
    BY <1>8, <1>10
  <2> HIDE DEF s, t, k, l
  <2>6. \A src, g : Has(s, c, src, g) => Has(t, c, src, g)
    BY <2>3 DEF Has
  <2>7. OutFlow(c, v.r, v.excl, t, l)
    BY <2>3, <2>4, <2>5, <2>6 DEF OutFlow
  <2>8. InFlow(c, v.r, v.excl, t, l)
    BY <2>2 DEF InFlow
  <2> QED BY <2>7, <2>8 DEF t, l
<1>13. /\ v.r.sipc = o.r.sipc /\ v.r.streamhdr = o.r.streamhdr
       /\ v.r.owner = o.r.owner /\ v.r.usock = o.r.usock
       /\ v.r.aipc = o.r.aipc /\ v.r.peer = o.r.peer /\ v.r.in = o.r.in
       /\ v.r.out = o.r.out
       /\ o.r.streamhdr = conn[c].streamhdr
  BY <1>4, <1>6, <1>8, <1>10 DEF r
<1> QED BY <1>1, <1>3, <1>4, <1>6, <1>9, <1>10, <1>11, <1>12, <1>13, MainUse,
           Zenon
        DEF w

(* nn_shutdown stops the connection that is accepting.                     *)
LEMMA ShutdownUse ==
    ASSUME IInv, UsesInv, NnShutdown
    PROVE  UsesInv'
<1> DEFINE a == bipc.aipc
           w == World(a)
           v == AipcStop(w)
<1>1. events = <<>> /\ bipc.state = "ACTIVE" /\ Enter(v) /\ batch' = batch
  BY DEF NnShutdown, Unlocked
<1>2. a \in Conn
  BY <1>1 DEF IInv, BipcInv, TypeInv, Bipcs
<1>3. w \in Worlds /\ w.c = a /\ w.r = conn[a] /\ w.excl = excl
      /\ NestInv(w.r) /\ UseInv(w.c, w.r, w.excl, ToSet(w.events),
                                ToSet(w.tasks) \cup ToSet(batch))
  BY <1>1, <1>2, IdleUse, Zenon
<1> HIDE DEF a, w
<1>4. Ending(w, v)
  BY <1>3, AipcStopFlows
<1> HIDE DEF v
<1>5. Around(w, v)
  BY <1>2, <1>3, <1>4, FlowsAround DEF Ending
<1>6. NewsInv(w.c, w.r, ToSet(w.events))
  BY <1>3 DEF UseInv
<1>7. UseInv(v.c, v.r, v.excl, ToSet(v.events),
             ToSet(v.tasks) \cup ToSet(batch))
  BY <1>3, <1>4, <1>6, EndingUse
<1> QED BY <1>1, <1>2, <1>5, <1>7, FirstUse DEF w

-----------------------------------------------------------------------------
(* Every step keeps connections in use as they have to be.                 *)
LEMMA NextUse ==
    ASSUME IInv, UsesInv, Next
    PROVE  UsesInv'
<1>1. CASE Process
  BY <1>1, StreamhdrHandlerUse, SipcHandlerUse, SockHandlerUse,
     AipcHandlerUse, BipcHandlerUse DEF Process
<1>2. CASE RunTask \/ TakeTasks \/ ListenerIn
  BY <1>2, RunTaskUse, TakeTasksUse, ListenerInUse
<1>3. ASSUME NEW c \in Conn, FdIn(c) \/ FdOut(c) \/ FdErr(c)
      PROVE  UsesInv'
  BY <1>3, DescriptorUse
<1>4. ASSUME NEW c \in Conn, TimerExpires(c)
      PROVE  UsesInv'
  BY <1>4, TimerExpiresUse
<1>5. ASSUME NEW c \in Conn, PeerSends(c) \/ PeerLeaves(c)
      PROVE  UsesInv'
  BY <1>5, PeerUse
<1>6. CASE Connect \/ NnSend \/ NnRecv \/ NnShutdown
  BY <1>6, ConnectUse, SendUse, RecvUse, ShutdownUse
<1> QED BY <1>1, <1>2, <1>3, <1>4, <1>5, <1>6 DEF Next

(* No connection is in use at first.                                       *)
LEMMA InitUse ==
    ASSUME Init
    PROVE  UsesInv
<1>1. \A c \in Conn : conn[c].sipc = "IDLE"
  <2>1. PICK a \in Conn :
           conn = [d \in Conn |->
                      IF d = a THEN [Fresh EXCEPT !.aipc = "ACCEPTING",
                                                  !.usock = "BEING_ACCEPTED"]
                               ELSE Fresh]
    BY DEF Init
  <2> QED BY <2>1 DEF Fresh
<1>2. ToSet(events) = {}
  BY DEF Init, ToSet
<1>3. ASSUME NEW c \in Conn
      PROVE  UseInv(c, conn[c], excl, {}, Pending)
  <2>1. conn[c].sipc = "IDLE"
    BY <1>1
  <2>2. NewsInv(c, conn[c], {})
    BY DEF NewsInv
  <2>3. FlowInv(c, conn[c], excl, {}, Pending)
    BY <2>1 DEF FlowInv
  <2>4. OpenInv(c, conn[c], {})
    BY <2>1 DEF OpenInv
  <2> QED BY <2>2, <2>3, <2>4 DEF UseInv
<1> QED BY <1>2, <1>3 DEF UsesInv

(* Whatever happens, in whatever order, something is under way in each     *)
(* direction of a connection in use.                                       *)
THEOREM InUse == Spec => []UsesInv
<1>1. IInv /\ UsesInv /\ [Next]_vars => UsesInv'
  <2>1. UsesInv /\ UNCHANGED vars => UsesInv'
    BY DEF UsesInv, Pending, vars
  <2> QED BY <2>1, NextUse
<1> QED BY <1>1, InitUse, Invariance, PTL DEF Spec

(* When nobody holds the lock, neither direction of a connection in use is *)
(* forgotten (usock.c, sipc.c, excl.c): main is offered it, the descriptor *)
(* is polled for it, or the worker was asked to.                           *)
THEOREM NotForgotten == Spec => []NothingForgotten
<1>1. IInv /\ UsesInv => NothingForgotten
  <2> SUFFICES ASSUME IInv, UsesInv, events = <<>>, NEW c \in Conn,
                      conn[c].sipc = "ACTIVE", conn[c].usock = "ACTIVE"
               PROVE  /\ excl.inpipe = c \/ conn[c].in \/ Queued(c, "RECV")
                      /\ excl.outpipe = c \/ conn[c].out \/ Queued(c, "SEND")
    BY DEF NothingForgotten, Unlocked
  <2>1. ToSet(events) = {}
    BY DEF ToSet
  <2>2. UseInv(c, conn[c], excl, {}, Pending)
    BY <2>1 DEF UsesInv
  <2>3. /\ InFlow(c, conn[c], excl, {}, Pending)
        /\ OutFlow(c, conn[c], excl, {}, Pending)
    BY <2>2 DEF UseInv, FlowInv
  <2>4. ASSUME NEW task, UsockTask(c, task) \in Pending
        PROVE  Queued(c, task)
    <3> DEFINE all == batch \o tasks
               t == UsockTask(c, task)
    <3>1. batch \in Seq(Tasks) /\ tasks \in Seq(Tasks)
      BY SameTypes
    <3>2. ASSUME NEW i \in DOMAIN batch, batch[i] = t
          PROVE  i \in DOMAIN all /\ all[i] = t
      BY <3>1, <3>2
    <3>3. ASSUME NEW i \in DOMAIN tasks, tasks[i] = t
          PROVE  Len(batch) + i \in DOMAIN all /\ all[Len(batch) + i] = t
      BY <3>1, <3>3
    <3>4. \/ \E i \in DOMAIN batch : batch[i] = t
          \/ \E i \in DOMAIN tasks : tasks[i] = t
      BY <2>4 DEF Pending, ToSet
    <3> HIDE DEF all
    <3>5. \E i \in DOMAIN all : all[i] = t
      BY <3>2, <3>3, <3>4
    <3> QED BY <3>5 DEF Queued, UsockTask, all
  <2> QED BY <2>3, <2>4 DEF InFlow, OutFlow, Has
<1> QED BY <1>1, Invariance, InUse, PTL

(* If a peer stays until headers were exchanged, sipc is active on a       *)
(* socket that is open whenever nobody holds the lock (sipc.c, usock.c).   *)
THEOREM ActiveIsOpen ==
    ASSUME ~LeavesEarly
    PROVE  Spec => []ActiveOnOpenSocket
<1>1. UsesInv => ActiveOnOpenSocket
  <2> SUFFICES ASSUME UsesInv, events = <<>>, NEW c \in Conn,
                      conn[c].sipc = "ACTIVE"
               PROVE  conn[c].usock = "ACTIVE"
    BY DEF ActiveOnOpenSocket, Unlocked
  <2>1. ToSet(events) = {}
    BY DEF ToSet
  <2>2. OpenInv(c, conn[c], {})
    BY <2>1 DEF UsesInv, UseInv
  <2> QED BY <2>2 DEF OpenInv, Told
<1> QED BY <1>1, InUse, PTL
=============================================================================
