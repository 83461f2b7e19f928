------------------------- MODULE IpcMachinesProofs -------------------------
(***************************************************************************)
(* What the operations of the machines of one connection keep true of it,  *)
(* and of the connections they do not touch: the invariant that IpcConn's  *)
(* theorems rest on, and a lemma for each operation of IpcMachines.        *)
(***************************************************************************)
EXTENDS IpcConn, TLAPS

Machines == {"streamhdr", "sipc", "sock", "aipc", "bipc"}

Events == [to : Machines,
           src : {"usock", "timer", "streamhdr", "pipe", "sipc", "aipc",
                  "listener"},
           type : {"SENT", "RECEIVED", "SHUTDOWN", "ERROR", "STOPPED",
                   "ACCEPTED", "ACCEPT_ERROR", "TIMEOUT", "OK", "IN", "OUT"},
           c : Conn]

Tasks == [fsm : {"usock", "timer"}, task : {"SEND", "RECV", "STOP", "START"},
          c : Conn]
         \cup [fsm : {"listener"}, task : {"ACCEPT", "STOP"}, c : {None}]

Listeners == [state : {"ACCEPTING", "ACCEPTING_ERROR", "CANCELLING",
                       "LISTENING", "IDLE"},
              polled : BOOLEAN, errnum : BOOLEAN]

Excls == [pipe : Conn \cup {None}, inpipe : Conn \cup {None},
          outpipe : Conn \cup {None}]

Worlds == [c : Conn, r : Record, listener : Listeners, backlog : Nat,
           excl : Excls, tasks : Seq(Tasks), events : Seq(Events)]

-----------------------------------------------------------------------------
(* Events.                                                                 *)

(* An event about the next connection to be accepted.                      *)
Acceptance(e) == e.type \in {"ACCEPTED", "ACCEPT_ERROR"}

(* What aipc and sipc tell their owners at the end.                        *)
AipcStopped(c) ==
    [to |-> "bipc", src |-> "aipc", type |-> "STOPPED", c |-> c]

SipcBroken(c) ==
    [to |-> "aipc", src |-> "sipc", type |-> "ERROR", c |-> c]

(* bipc's own event, that the listening socket is closed, carries the name *)
(* of the connection that was accepting.                                   *)
OfListener(e) == e.to = "bipc" /\ e.src = "listener" /\ e.type = "STOPPED"

(* There is one listener, so there is one event about it at a time.        *)
OneAcceptance(q) ==
    \A i, j \in DOMAIN q : Acceptance(q[i]) /\ Acceptance(q[j]) => i = j

(* The end of an aipc is the last that is heard of its connection.         *)
EndIsLast(q) ==
    \A i, j \in DOMAIN q :
        i < j /\ q[i] = AipcStopped(q[j].c) => OfListener(q[j])

QueueInv(q) == OneAcceptance(q) /\ EndIsLast(q)

-----------------------------------------------------------------------------
(* One connection: c with its record r, excl x, the queued events s, the   *)
(* listener l, and a, the connection that is accepting.                    *)

(* The machines of r start and stop inside out.                            *)
NestInv(r) ==
    /\ r.sipc \in {"PROTOHDR", "STOPPING_STREAMHDR", "ACTIVE"}
          => r.aipc = "ACTIVE"
    /\ r.aipc \in {"FREE", "IDLE"} => r.usock = "IDLE"
    /\ r.aipc \in {"FREE", "IDLE", "ACCEPTING", "STOPPING"}
          => r.sipc = "IDLE"
    /\ r.sipc = "IDLE" => r.streamhdr = "IDLE"
    /\ r.streamhdr = "IDLE" => r.timer = "IDLE"

(* A ready direction, or one that is about to be, of a pipe.               *)
Offered(c, s, ready, type) ==
    \/ ready = c
    \/ \E e \in s : e.c = c /\ e.src = "pipe" /\ e.type = type

(* excl has the pipe that is active, and a direction that is offered is    *)
(* ready down to sipc.                                                     *)
PipeInv(c, r, x, s) ==
    /\ r.pipe = "ACTIVE" <=> x.pipe = c
    /\ x.outpipe = c => x.pipe = c
    /\ x.inpipe = c => x.pipe = c
    /\ r.pipe = "ACTIVE" =>
          /\ r.aipc = "ACTIVE"
          /\ r.sipc = "ACTIVE" \/ (r.sipc = "DONE" /\ SipcBroken(c) \in s)
          /\ Offered(c, s, x.outpipe, "OUT")
                => r.outstate = "IDLE" /\ r.pipeout = "IDLE"
          /\ Offered(c, s, x.inpipe, "IN")
                => r.instate = "HASMSG" /\ r.pipein = "IDLE"

(* Nothing is left of an earlier use of the connection.                    *)
PastInv(c, r, s, a) ==
    \A e \in s : e.c = c =>
        /\ e.src = "pipe" => /\ r.aipc # "ACCEPTING"
                             /\ r.sipc \notin {"PROTOHDR", "STOPPING_STREAMHDR"}
        /\ r.aipc = "FREE" => OfListener(e)
        /\ e = AipcStopped(c) => r.aipc = "IDLE"
        /\ e.type = "ACCEPTED" => /\ c = a /\ r.usock # "BEING_ACCEPTED"
                                  /\ e.to = "bipc" => r.aipc # "ACCEPTING"

(* The connection that is accepting has the listener.                      *)
AcceptInv(c, r, s, l, a) ==
    /\ r.aipc = "ACCEPTING" \/ r.usock = "BEING_ACCEPTED" => c = a
    /\ r.aipc \in {"ACCEPTING", "ACTIVE"} => r.usock # "STOPPING_ACCEPT"
    /\ c = a => /\ l.state = "ACCEPTING" => r.usock = "BEING_ACCEPTED"
                /\ l.state = "CANCELLING" => r.usock = "STOPPING_ACCEPT"
                /\ r.aipc = "IDLE" => AipcStopped(c) \in s

ConnInv(c, r, x, s, l, a) ==
    /\ NestInv(r)
    /\ PipeInv(c, r, x, s)
    /\ PastInv(c, r, s, a)
    /\ AcceptInv(c, r, s, l, a)

-----------------------------------------------------------------------------
(* The whole state.                                                        *)

Bipcs == [state : {"ACTIVE", "STOPPING_AIPC", "STOPPING_USOCK",
                   "STOPPING_AIPCS", "IDLE"},
          aipc : Conn \cup {None}, aipcs : Seq(Conn)]

TypeInv ==
    /\ conn \in [Conn -> Record]
    /\ bipc \in Bipcs
    /\ listener \in Listeners
    /\ backlog \in 0..Cardinality(Conn)
    /\ excl \in Excls
    /\ events \in Seq(Events)
    /\ tasks \in Seq(Tasks)
    /\ batch \in Seq(Tasks)

(* bipc has a connection that is accepting until it is shut down, and the  *)
(* others in its list.                                                     *)
BipcInv ==
    /\ bipc.aipc # None <=> bipc.state \in {"ACTIVE", "STOPPING_AIPC"}
    /\ bipc.aipc # None => conn[bipc.aipc].aipc # "FREE"
    /\ listener.state \in {"ACCEPTING", "CANCELLING"} => bipc.aipc # None
    /\ \A i, j \in DOMAIN bipc.aipcs : bipc.aipcs[i] = bipc.aipcs[j] => i = j
    /\ \A i \in DOMAIN bipc.aipcs :
          /\ bipc.aipcs[i] # bipc.aipc
          /\ conn[bipc.aipcs[i]].aipc # "FREE"

(* The worker has no task of a connection that was freed.                  *)
TaskInv ==
    \A c \in Conn : conn[c].aipc = "FREE" =>
        /\ \A t \in ToSet(tasks) : t.c # c
        /\ \A t \in ToSet(batch) : t.c # c

IInv ==
    /\ TypeInv
    /\ QueueInv(events)
    /\ \A c \in Conn :
          ConnInv(c, conn[c], excl, ToSet(events), listener, bipc.aipc)
    /\ BipcInv
    /\ TaskInv

-----------------------------------------------------------------------------
(* Queues of events and tasks.                                             *)

(* What an operation on one connection does to the queue of events: it may *)
(* add events of the machines of c, none of which is for bipc.             *)
Plain(e, c) ==
    e.c = c /\ e.to # "bipc" /\ e.src # "pipe" /\ ~Acceptance(e)

More(q, p, c) ==
    /\ p \in Seq(Events)
    /\ ToSet(q) \subseteq ToSet(p)
    /\ \A e \in ToSet(p) : e \in ToSet(q) \/ Plain(e, c)
    /\ QueueInv(q) /\ AipcStopped(c) \notin ToSet(q) => QueueInv(p)

(* And to the worker's queue: tasks of c, or of no connection.             *)
MoreTasks(q, p, c) ==
    /\ p \in Seq(Tasks)
    /\ \A t \in ToSet(p) : t \in ToSet(q) \/ t.c \in {c, None}

(* What is in a queue that an element joins,                               *)
LEMMA AppendSet ==
    ASSUME NEW S, NEW q \in Seq(S), NEW e \in S
    PROVE  Append(q, e) \in Seq(S) /\ ToSet(Append(q, e)) = ToSet(q) \cup {e}
<1>1. Append(q, e) \in Seq(S) /\ Len(Append(q, e)) = Len(q) + 1
      /\ \A i \in 1..Len(q) : Append(q, e)[i] = q[i]
      /\ Append(q, e)[Len(q) + 1] = e
  OBVIOUS
<1>2. DOMAIN Append(q, e) = 1..(Len(q) + 1) /\ DOMAIN q = 1..Len(q)
      /\ Len(q) \in Nat
  BY <1>1
<1>3. ASSUME NEW x \in ToSet(Append(q, e))
      PROVE  x \in ToSet(q) \cup {e}
  BY <1>1, <1>2 DEF ToSet
<1>4. ASSUME NEW x \in ToSet(q) \cup {e}
      PROVE  x \in ToSet(Append(q, e))
  <2>1. CASE x \in ToSet(q)
    BY <1>1, <1>2, <2>1 DEF ToSet
  <2>2. CASE x = e
    BY <1>1, <1>2, <2>2 DEF ToSet
  <2> QED BY <2>1, <2>2, <1>4
<1> QED BY <1>1, <1>3, <1>4

(* or leaves.                                                              *)
LEMMA TailSet ==
    ASSUME NEW S, NEW q \in Seq(S), q # <<>>
    PROVE  /\ Head(q) \in S /\ Tail(q) \in Seq(S)
           /\ ToSet(q) = {Head(q)} \cup ToSet(Tail(q))
<1>1. Head(q) \in S /\ Tail(q) \in Seq(S) /\ Len(q) \in Nat \ {0}
      /\ Len(Tail(q)) = Len(q) - 1 /\ Head(q) = q[1]
      /\ \A i \in 1..(Len(q) - 1) : Tail(q)[i] = q[i + 1]
  OBVIOUS
<1>2. DOMAIN Tail(q) = 1..(Len(q) - 1) /\ DOMAIN q = 1..Len(q)
  BY <1>1
<1>3. ASSUME NEW x \in ToSet(q)
      PROVE  x \in {Head(q)} \cup ToSet(Tail(q))
  <2>1. PICK i \in 1..Len(q) : x = q[i]
    BY <1>2 DEF ToSet
  <2>2. CASE i = 1
    BY <2>1, <2>2, <1>1
  <2>3. CASE i # 1
    <3>1. i - 1 \in 1..(Len(q) - 1) /\ (i - 1) + 1 = i
      BY <2>3, <1>1
    <3> QED BY <2>1, <3>1, <1>1, <1>2, ZenonT(30) DEF ToSet
  <2> QED BY <2>2, <2>3
<1>4. ASSUME NEW x \in {Head(q)} \cup ToSet(Tail(q))
      PROVE  x \in ToSet(q)
  <2>1. CASE x = Head(q)
    BY <2>1, <1>1, <1>2 DEF ToSet
  <2>2. CASE x \in ToSet(Tail(q))
    <3>1. PICK i \in 1..(Len(q) - 1) : x = q[i + 1]
      BY <2>2, <1>1, <1>2 DEF ToSet
    <3>2. i + 1 \in 1..Len(q)
      BY <1>1
    <3> QED BY <3>1, <3>2, <1>2 DEF ToSet
  <2> QED BY <2>1, <2>2, <1>4
<1> QED BY <1>1, <1>3, <1>4

(* An event of c joins the queue: it has not ended, and there is no other  *)
(* event about the next connection if this is one.                         *)
LEMMA AppendQueue ==
    ASSUME NEW q \in Seq(Events), NEW e \in Events, QueueInv(q),
           AipcStopped(e.c) \notin ToSet(q) \/ OfListener(e),
           Acceptance(e) => \A f \in ToSet(q) : ~Acceptance(f)
    PROVE  QueueInv(Append(q, e))
<1> DEFINE p == Append(q, e)
<1>1. /\ DOMAIN p = 1..(Len(q) + 1) /\ DOMAIN q = 1..Len(q) /\ Len(q) \in Nat
      /\ \A i \in DOMAIN q : p[i] = q[i]
      /\ p[Len(q) + 1] = e
  OBVIOUS
<1>2. \A i \in DOMAIN p : i \in DOMAIN q \/ i = Len(q) + 1
  BY <1>1
<1>3. \A i \in DOMAIN q : q[i] \in ToSet(q)
  BY DEF ToSet
<1> HIDE DEF p
<1>4. OneAcceptance(p)
  BY <1>1, <1>2, <1>3 DEF OneAcceptance, QueueInv
<1>5. EndIsLast(p)
  <2> SUFFICES ASSUME NEW i \in DOMAIN p, NEW j \in DOMAIN p, i < j,
                      p[i] = AipcStopped(p[j].c)
               PROVE  OfListener(p[j])
    BY DEF EndIsLast
  <2>1. i \in DOMAIN q /\ p[i] = q[i]
    BY <1>1, <1>2
  <2>2. CASE j \in DOMAIN q
    BY <1>1, <2>1, <2>2 DEF EndIsLast, QueueInv
  <2>3. CASE j = Len(q) + 1
    BY <1>1, <1>3, <2>1, <2>3
  <2> QED BY <1>2, <2>2, <2>3
<1> QED BY <1>4, <1>5 DEF QueueInv, p

(* The event at the head leaves the queue.                                 *)
LEMMA TailQueue ==
    ASSUME NEW q \in Seq(Events), q # <<>>, QueueInv(q)
    PROVE  /\ QueueInv(Tail(q))
           /\ Acceptance(Head(q)) => \A f \in ToSet(Tail(q)) : ~Acceptance(f)
           /\ \A f \in ToSet(Tail(q)) :
                 Head(q) = AipcStopped(f.c) => OfListener(f)
<1> DEFINE p == Tail(q)
<1>1. /\ DOMAIN p = 1..(Len(q) - 1) /\ DOMAIN q = 1..Len(q)
      /\ Len(q) \in Nat \ {0} /\ Head(q) = q[1]
      /\ \A i \in DOMAIN p : p[i] = q[i + 1]
  OBVIOUS
<1>2. \A i \in DOMAIN p : i + 1 \in DOMAIN q /\ 1 < i + 1
  BY <1>1
<1>3. 1 \in DOMAIN q
  BY <1>1
<1> HIDE DEF p
<1>4. OneAcceptance(p)
  <2> SUFFICES ASSUME NEW i \in DOMAIN p, NEW j \in DOMAIN p,
                      Acceptance(p[i]), Acceptance(p[j])
               PROVE  i = j
    BY DEF OneAcceptance
  <2>1. i + 1 = j + 1
    BY <1>1, <1>2 DEF OneAcceptance, QueueInv
  <2> QED BY <2>1, <1>1
<1>5. EndIsLast(p)
  <2> SUFFICES ASSUME NEW i \in DOMAIN p, NEW j \in DOMAIN p, i < j,
                      p[i] = AipcStopped(p[j].c)
               PROVE  OfListener(p[j])
    BY DEF EndIsLast
  <2>1. i + 1 < j + 1
    BY <1>1
  <2> QED BY <1>1, <1>2, <2>1 DEF EndIsLast, QueueInv
<1>6. ASSUME NEW f \in ToSet(p)
      PROVE  /\ Acceptance(Head(q)) => ~Acceptance(f)
             /\ Head(q) = AipcStopped(f.c) => OfListener(f)
  <2>1. PICK i \in DOMAIN p : f = p[i]
    BY DEF ToSet
  <2>2. f = q[i + 1] /\ i + 1 \in DOMAIN q /\ 1 < i + 1 /\ i + 1 # 1
    BY <2>1, <1>1, <1>2
  <2> QED BY <2>2, <1>1, <1>3 DEF OneAcceptance, EndIsLast, QueueInv
<1> QED BY <1>4, <1>5, <1>6 DEF QueueInv, p

(* Nothing is added to the events,                                         *)
LEMMA MoreSame ==
    ASSUME NEW q \in Seq(Events), NEW c \in Conn
    PROVE  More(q, q, c)
BY DEF More

(* or something twice.                                                     *)
LEMMA MoreTrans ==
    ASSUME NEW q, NEW p, NEW o, NEW c \in Conn, More(q, p, c), More(p, o, c)
    PROVE  More(q, o, c)
<1>1. AipcStopped(c) \in ToSet(p) => AipcStopped(c) \in ToSet(q)
  BY DEF More, Plain, AipcStopped
<1> QED BY <1>1 DEF More

(* Nothing is added to the tasks,                                          *)
LEMMA MoreTasksSame ==
    ASSUME NEW q \in Seq(Tasks), NEW c
    PROVE  MoreTasks(q, q, c)
BY DEF MoreTasks

(* or something twice.                                                     *)
LEMMA MoreTasksTrans ==
    ASSUME NEW q, NEW p, NEW o, NEW c, MoreTasks(q, p, c), MoreTasks(p, o, c)
    PROVE  MoreTasks(q, o, c)
BY DEF MoreTasks

-----------------------------------------------------------------------------
(* The effect of an operation on one connection, from world w to world v.  *)

Adds(w, v) ==
    /\ v \in Worlds /\ v.c = w.c /\ v.backlog = w.backlog
    /\ More(w.events, v.events, w.c)
    /\ MoreTasks(w.tasks, v.tasks, w.c)

SamePipe(r, u) ==
    /\ u.pipe = r.pipe /\ u.pipein = r.pipein /\ u.pipeout = r.pipeout
    /\ u.instate = r.instate /\ u.outstate = r.outstate

(* The pair socket and the listener are left alone, and so are the         *)
(* machines of aipc and sipc.                                              *)
Below(w, v) ==
    /\ Adds(w, v)
    /\ v.excl = w.excl /\ v.listener = w.listener
    /\ SamePipe(w.r, v.r)
    /\ v.r.aipc = w.r.aipc /\ v.r.sipc = w.r.sipc

(* usock is still waiting to be accepted, or still not.                    *)
SameAccept(r, u) ==
    /\ u.usock = "BEING_ACCEPTED" <=> r.usock = "BEING_ACCEPTED"
    /\ u.usock = "STOPPING_ACCEPT" <=> r.usock = "STOPPING_ACCEPT"
    /\ r.usock = "IDLE" => u.usock = "IDLE"

(* An operation that does nothing.                                         *)
LEMMA AddsSame == ASSUME NEW w \in Worlds PROVE Adds(w, w)
BY MoreSame, MoreTasksSame DEF Adds, Worlds

(* Two operations, one after the other,                                    *)
LEMMA AddsTrans ==
    ASSUME NEW w \in Worlds, NEW v, NEW u, Adds(w, v), Adds(v, u)
    PROVE  Adds(w, u)
<1>1. w.c \in Conn
  BY DEF Worlds
<1>2. More(w.events, u.events, w.c)
  BY <1>1, MoreTrans DEF Adds
<1>3. MoreTasks(w.tasks, u.tasks, w.c)
  BY MoreTasksTrans DEF Adds
<1> QED BY <1>2, <1>3 DEF Adds

(* of the machines below sipc.                                             *)
LEMMA BelowTrans ==
    ASSUME NEW w \in Worlds, NEW v, NEW u, Below(w, v), Below(v, u)
    PROVE  Below(w, u)
BY AddsTrans DEF Below, SamePipe

-----------------------------------------------------------------------------
(* Raise, Execute.                                                         *)

(* An event is raised.                                                     *)
LEMMA RaiseEffect ==
    ASSUME NEW w \in Worlds, NEW to, NEW src, NEW type,
           [to |-> to, src |-> src, type |-> type, c |-> w.c] \in Events
    PROVE  LET v == Raise(w, to, src, type)
               e == [to |-> to, src |-> src, type |-> type, c |-> w.c]
           IN  /\ v \in Worlds /\ v.c = w.c /\ v.r = w.r
               /\ v.listener = w.listener /\ v.backlog = w.backlog
               /\ v.excl = w.excl /\ v.tasks = w.tasks
               /\ v.events = Append(w.events, e)
               /\ ToSet(v.events) = ToSet(w.events) \cup {e}
<1> DEFINE e == [to |-> to, src |-> src, type |-> type, c |-> w.c]
           v == Raise(w, to, src, type)
<1>1. e \in Events /\ w.events \in Seq(Events)
  BY DEF Worlds
<1> HIDE DEF e
<1>2. v = [w EXCEPT !.events = Append(w.events, e)]
  BY DEF Raise, e
<1>3. Append(w.events, e) \in Seq(Events)
      /\ ToSet(Append(w.events, e)) = ToSet(w.events) \cup {e}
  BY <1>1, AppendSet
<1> HIDE DEF v
<1>4. v \in Worlds /\ v.c = w.c /\ v.r = w.r /\ v.listener = w.listener
      /\ v.backlog = w.backlog /\ v.excl = w.excl /\ v.tasks = w.tasks
      /\ v.events = Append(w.events, e)
  BY <1>2, <1>3 DEF Worlds
<1> QED BY <1>3, <1>4 DEF v, e

(* It is none of bipc's, of a pipe or of the next connection.              *)
LEMMA RaiseAdds ==
    ASSUME NEW w \in Worlds, NEW to \in Machines \ {"bipc"},
           NEW src \in {"usock", "timer", "streamhdr", "sipc"},
           NEW type \in {"SENT", "RECEIVED", "SHUTDOWN", "ERROR", "STOPPED",
                         "TIMEOUT", "OK"}
    PROVE  LET v == Raise(w, to, src, type)
           IN  /\ Adds(w, v)
               /\ v.r = w.r /\ v.excl = w.excl /\ v.listener = w.listener
               /\ v.tasks = w.tasks
               /\ [to |-> to, src |-> src, type |-> type, c |-> w.c]
                     \in ToSet(v.events)
<1> DEFINE e == [to |-> to, src |-> src, type |-> type, c |-> w.c]
           v == Raise(w, to, src, type)
<1>1. e \in Events /\ e.c = w.c /\ e.to # "bipc" /\ e.src # "pipe"
      /\ ~Acceptance(e) /\ Plain(e, w.c) /\ w.events \in Seq(Events)
      /\ w.c \in Conn /\ w.tasks \in Seq(Tasks)
  BY DEF Events, Worlds, Acceptance, Plain
<1>2. /\ v \in Worlds /\ v.c = w.c /\ v.r = w.r
      /\ v.listener = w.listener /\ v.backlog = w.backlog
      /\ v.excl = w.excl /\ v.tasks = w.tasks
      /\ v.events = Append(w.events, e)
      /\ ToSet(v.events) = ToSet(w.events) \cup {e}
  BY <1>1, RaiseEffect
<1> HIDE DEF e, v
<1>3. QueueInv(w.events) /\ AipcStopped(w.c) \notin ToSet(w.events)
         => QueueInv(v.events)
  BY <1>1, <1>2, AppendQueue
<1>4. v.events \in Seq(Events)
  BY <1>2 DEF Worlds
<1>5. More(w.events, v.events, w.c)
  BY <1>1, <1>2, <1>3, <1>4 DEF More
<1>6. MoreTasks(w.tasks, v.tasks, w.c)
  BY <1>1, <1>2, MoreTasksSame
<1>7. Adds(w, v)
  BY <1>2, <1>5, <1>6 DEF Adds
<1>8. e \in ToSet(v.events)
  BY <1>2
<1> QED BY <1>2, <1>7, <1>8 DEF e, v

(* A task is handed to the worker,                                         *)
LEMMA TaskAdds ==
    ASSUME NEW w \in Worlds, NEW t \in Tasks, t.c \in {w.c, None}
    PROVE  LET v == [w EXCEPT !.tasks = Append(@, t)]
           IN  /\ Adds(w, v)
               /\ v.r = w.r /\ v.excl = w.excl /\ v.listener = w.listener
               /\ v.events = w.events
<1> DEFINE v == [w EXCEPT !.tasks = Append(@, t)]
<1>1. w.events \in Seq(Events) /\ w.tasks \in Seq(Tasks) /\ w.c \in Conn
  BY DEF Worlds
<1>2. Append(w.tasks, t) \in Seq(Tasks)
      /\ ToSet(Append(w.tasks, t)) = ToSet(w.tasks) \cup {t}
  BY <1>1, AppendSet
<1>3. v \in Worlds /\ v.c = w.c /\ v.r = w.r /\ v.listener = w.listener
      /\ v.backlog = w.backlog /\ v.excl = w.excl /\ v.events = w.events
      /\ v.tasks = Append(w.tasks, t)
  BY <1>2 DEF Worlds
<1> HIDE DEF v
<1>4. MoreTasks(w.tasks, v.tasks, w.c)
  BY <1>2, <1>3 DEF MoreTasks
<1>5. More(w.events, v.events, w.c)
  BY <1>1, <1>3, MoreSame
<1>6. Adds(w, v)
  BY <1>3, <1>4, <1>5 DEF Adds
<1> QED BY <1>3, <1>6 DEF v

(* of a usock or a timer,                                                  *)
LEMMA ExecuteAdds ==
    ASSUME NEW w \in Worlds, NEW fsm \in {"usock", "timer"},
           NEW task \in {"SEND", "RECV", "STOP", "START"}
    PROVE  LET v == Execute(w, fsm, task)
           IN  /\ Adds(w, v)
               /\ v.r = w.r /\ v.excl = w.excl /\ v.listener = w.listener
               /\ v.events = w.events
<1> DEFINE t == [fsm |-> fsm, task |-> task, c |-> w.c]
<1>1. t \in Tasks /\ t.c \in {w.c, None}
  BY DEF Tasks, Worlds
<1> HIDE DEF t
<1>2. Execute(w, fsm, task) = [w EXCEPT !.tasks = Append(@, t)]
  BY DEF Execute, t
<1> QED BY <1>1, <1>2, TaskAdds

(* or of the listener.                                                     *)
LEMMA ListenerTaskAdds ==
    ASSUME NEW w \in Worlds, NEW task \in {"ACCEPT", "STOP"}
    PROVE  LET v == ListenerTask(w, task)
           IN  /\ Adds(w, v)
               /\ v.r = w.r /\ v.excl = w.excl /\ v.listener = w.listener
               /\ v.events = w.events
<1> DEFINE t == [fsm |-> "listener", task |-> task, c |-> None]
<1>1. t \in Tasks /\ t.c \in {w.c, None}
  BY DEF Tasks
<1> HIDE DEF t
<1>2. ListenerTask(w, task) = [w EXCEPT !.tasks = Append(@, t)]
  BY DEF ListenerTask, t
<1> QED BY <1>1, <1>2, TaskAdds

(* The record of the connection changes.                                   *)
LEMMA SetAdds ==
    ASSUME NEW w \in Worlds, NEW u \in Record
    PROVE  LET v == [w EXCEPT !.r = u]
           IN  /\ Adds(w, v)
               /\ v.r = u /\ v.events = w.events /\ v.tasks = w.tasks
               /\ v.excl = w.excl /\ v.listener = w.listener
<1> DEFINE v == [w EXCEPT !.r = u]
<1>1. w.events \in Seq(Events) /\ w.tasks \in Seq(Tasks) /\ w.c \in Conn
  BY DEF Worlds
<1>2. v \in Worlds /\ v.c = w.c /\ v.r = u /\ v.listener = w.listener
      /\ v.backlog = w.backlog /\ v.excl = w.excl /\ v.events = w.events
      /\ v.tasks = w.tasks
  BY DEF Worlds
<1> HIDE DEF v
<1>3. More(w.events, v.events, w.c) /\ MoreTasks(w.tasks, v.tasks, w.c)
  BY <1>1, <1>2, MoreSame, MoreTasksSame
<1> QED BY <1>2, <1>3 DEF v, Adds

-----------------------------------------------------------------------------
(* usock.                                                                  *)

(* The other machines keep their states.                                   *)
UsockOnly(w, v) ==
    /\ Below(w, v)
    /\ v.r.streamhdr = w.r.streamhdr /\ v.r.timer = w.r.timer

(* Two operations of usock, one after the other.                           *)
LEMMA UsockOnlyTrans ==
    ASSUME NEW w \in Worlds, NEW v, NEW u, UsockOnly(w, v), UsockOnly(v, u)
    PROVE  UsockOnly(w, u)
BY BelowTrans DEF UsockOnly

(* usock's state alone is set.                                             *)
LEMMA UsockSet ==
    ASSUME NEW w \in Worlds,
           NEW s \in {"IDLE", "BEING_ACCEPTED", "ACCEPTED", "ACTIVE",
                      "REMOVING_FD", "DONE", "STOPPING", "STOPPING_ACCEPT"}
    PROVE  LET v == [w EXCEPT !.r.usock = s]
           IN  UsockOnly(w, v) /\ v.r.usock = s /\ v.events = w.events
<1> DEFINE v == [w EXCEPT !.r.usock = s]
           u == [w.r EXCEPT !.usock = s]
<1>1. w.r \in Record /\ v = [w EXCEPT !.r = u]
  BY DEF Worlds
<1>2. u \in Record /\ u.usock = s /\ SamePipe(w.r, u) /\ u.aipc = w.r.aipc
      /\ u.sipc = w.r.sipc /\ u.streamhdr = w.r.streamhdr
      /\ u.timer = w.r.timer
  BY <1>1 DEF Record, SamePipe
<1> HIDE DEF u, v
<1>3. Adds(w, v) /\ v.r = u /\ v.excl = w.excl /\ v.listener = w.listener
      /\ v.events = w.events
  BY <1>1, <1>2, SetAdds
<1> QED BY <1>2, <1>3 DEF v, UsockOnly, Below

(* usock tells its owner.                                                  *)
LEMMA RaiseUsockOnly ==
    ASSUME NEW w \in Worlds,
           NEW type \in {"SENT", "RECEIVED", "SHUTDOWN", "ERROR", "STOPPED"}
    PROVE  LET v == RaiseUsock(w, type)
           IN  UsockOnly(w, v) /\ v.r = w.r
<1>1. w.r.owner \in Machines \ {"bipc"}
  BY DEF Worlds, Record, Machines
<1>2. type \in {"SENT", "RECEIVED", "SHUTDOWN", "ERROR", "STOPPED",
               "TIMEOUT", "OK"}
  OBVIOUS
<1> DEFINE v == Raise(w, w.r.owner, "usock", type)
<1>3. Adds(w, v) /\ v.r = w.r /\ v.excl = w.excl /\ v.listener = w.listener
  BY <1>1, <1>2, RaiseAdds, ZenonT(60)
<1> HIDE DEF v
<1>4. UsockOnly(w, v) /\ v.r = w.r
  BY <1>3 DEF UsockOnly, Below, SamePipe
<1> QED BY <1>4 DEF v, RaiseUsock

(* usock asks the worker for something.                                    *)
LEMMA ExecuteUsockOnly ==
    ASSUME NEW w \in Worlds, NEW task \in {"SEND", "RECV", "STOP"}
    PROVE  LET v == Execute(w, "usock", task)
           IN  UsockOnly(w, v) /\ v.r = w.r /\ v.events = w.events
BY ExecuteAdds DEF UsockOnly, Below, SamePipe

(* usock asks the worker to take its descriptor out of the poll set.       *)
LEMMA AsyncStopOnly ==
    ASSUME NEW w \in Worlds
    PROVE  UsockOnly(w, AsyncStop(w)) /\ AsyncStop(w).r = w.r
<1> DEFINE v == Execute(w, "usock", "STOP")
<1>1. UsockOnly(w, v) /\ v.r = w.r
  BY ExecuteUsockOnly
<1>2. v \in Worlds
  BY <1>1 DEF UsockOnly, Below, Adds
<1>3. AsyncStop(w) = RaiseUsock(v, "SHUTDOWN")
  BY DEF AsyncStop
<1> HIDE DEF v
<1>4. UsockOnly(v, AsyncStop(w)) /\ AsyncStop(w).r = v.r
  BY <1>2, <1>3, RaiseUsockOnly
<1> QED BY <1>1, <1>4, UsockOnlyTrans

(* Sending and receiving may find that the socket failed.                  *)
MayFail(w, v) ==
    /\ UsockOnly(w, v)
    /\ v.r.usock = w.r.usock \/ (w.r.usock = "ACTIVE"
                                 /\ v.r.usock = "REMOVING_FD")

(* usock meets an error.                                                   *)
LEMMA UsockFailsEffect ==
    ASSUME NEW w \in Worlds
    PROVE  MayFail(w, UsockFails(w))
<1>1. CASE w.r.usock = "ACTIVE"
  <2> DEFINE v == [w EXCEPT !.r.usock = "REMOVING_FD"]
  <2>1. UsockOnly(w, v) /\ v.r.usock = "REMOVING_FD"
    BY UsockSet
  <2>2. v \in Worlds
    BY <2>1 DEF UsockOnly, Below, Adds
  <2>3. UsockFails(w) = AsyncStop(v)
    BY <1>1 DEF UsockFails
  <2> HIDE DEF v
  <2>4. UsockOnly(v, UsockFails(w)) /\ UsockFails(w).r = v.r
    BY <2>2, <2>3, AsyncStopOnly
  <2> QED BY <1>1, <2>1, <2>4, UsockOnlyTrans DEF MayFail
<1>2. CASE w.r.usock # "ACTIVE"
  BY <1>2, AddsSame DEF UsockFails, MayFail, UsockOnly, Below, SamePipe
<1> QED BY <1>1, <1>2

(* nn_usock_send.                                                          *)
LEMMA UsockSendEffect ==
    ASSUME NEW w \in Worlds, NEW v \in UsockSend(w)
    PROVE  MayFail(w, v)
<1>1. v \in {UsockFails(w), RaiseUsock(w, "SENT"),
             Execute(w, "usock", "SEND")}
  BY DEF UsockSend
<1>2. MayFail(w, UsockFails(w))
  BY UsockFailsEffect
<1>3. MayFail(w, RaiseUsock(w, "SENT"))
  BY RaiseUsockOnly DEF MayFail
<1>4. MayFail(w, Execute(w, "usock", "SEND"))
  BY ExecuteUsockOnly DEF MayFail
<1> QED BY <1>1, <1>2, <1>3, <1>4

(* nn_usock_recv.                                                          *)
LEMMA UsockRecvEffect ==
    ASSUME NEW w \in Worlds
    PROVE  MayFail(w, UsockRecv(w))
<1>1. CASE w.r.usock = "ACTIVE" /\ w.r.unread > 0
  <2> DEFINE u == [w.r EXCEPT !.unread = @ - 1]
             v == [w EXCEPT !.r = u]
  <2>1. w.r \in Record /\ w.r.unread \in 0..MaxUnread /\ MaxUnread \in Nat
    BY BoundsAssumption DEF Worlds, Record
  <2>2. w.r.unread - 1 \in 0..MaxUnread
    BY <2>1, <1>1
  <2>3. u \in Record /\ u.usock = w.r.usock /\ SamePipe(w.r, u)
        /\ u.aipc = w.r.aipc /\ u.sipc = w.r.sipc
        /\ u.streamhdr = w.r.streamhdr /\ u.timer = w.r.timer
    BY <2>1, <2>2 DEF Record, SamePipe
  <2>4. UsockRecv(w) = RaiseUsock(v, "RECEIVED")
    BY <1>1, <2>1 DEF UsockRecv, Worlds
  <2> HIDE DEF u
  <2>5. u \in Record
    BY <2>3
  <2>6. Adds(w, v) /\ v.r = u /\ v.excl = w.excl /\ v.listener = w.listener
    BY <2>5, SetAdds
  <2> HIDE DEF v
  <2>7. UsockOnly(w, v) /\ v.r.usock = w.r.usock /\ v \in Worlds
    BY <2>3, <2>6 DEF UsockOnly, Below, Adds
  <2>8. UsockOnly(v, UsockRecv(w)) /\ UsockRecv(w).r = v.r
    BY <2>4, <2>7, RaiseUsockOnly
  <2> QED BY <2>7, <2>8, UsockOnlyTrans DEF MayFail
<1>2. CASE ~(w.r.usock = "ACTIVE" /\ w.r.unread > 0)
  <2>1. UsockRecv(w) \in {UsockFails(w), Execute(w, "usock", "RECV")}
    BY <1>2 DEF UsockRecv
  <2>2. MayFail(w, UsockFails(w))
    BY UsockFailsEffect
  <2>3. MayFail(w, Execute(w, "usock", "RECV"))
    BY ExecuteUsockOnly DEF MayFail
  <2> QED BY <2>1, <2>2, <2>3
<1> QED BY <1>1, <1>2

(* The descriptor is closed.                                               *)
LEMMA UsockDoneEffect ==
    ASSUME NEW w \in Worlds
    PROVE  UsockOnly(w, UsockDone(w)) /\ UsockDone(w).r.usock = "DONE"
<1> DEFINE v == [w EXCEPT !.r.usock = "DONE"]
<1>1. UsockOnly(w, v) /\ v.r.usock = "DONE"
  BY UsockSet
<1>2. v \in Worlds
  BY <1>1 DEF UsockOnly, Below, Adds
<1>3. UsockDone(w) = RaiseUsock(v, "ERROR")
  BY DEF UsockDone
<1> HIDE DEF v
<1>4. UsockOnly(v, UsockDone(w)) /\ UsockDone(w).r = v.r
  BY <1>2, <1>3, RaiseUsockOnly
<1> QED BY <1>1, <1>4, UsockOnlyTrans

(* usock has stopped.                                                      *)
LEMMA UsockStoppedEffect ==
    ASSUME NEW w \in Worlds
    PROVE  UsockOnly(w, UsockStopped(w)) /\ UsockStopped(w).r.usock = "IDLE"
<1> DEFINE v == [w EXCEPT !.r.usock = "IDLE"]
<1>1. UsockOnly(w, v) /\ v.r.usock = "IDLE"
  BY UsockSet
<1>2. v \in Worlds
  BY <1>1 DEF UsockOnly, Below, Adds
<1>3. UsockStopped(w) = RaiseUsock(v, "STOPPED")
  BY DEF UsockStopped
<1> HIDE DEF v
<1>4. UsockOnly(v, UsockStopped(w)) /\ UsockStopped(w).r = v.r
  BY <1>2, <1>3, RaiseUsockOnly
<1> QED BY <1>1, <1>4, UsockOnlyTrans

(* A socket that waits to be accepted takes the listener's state with it.  *)
LEMMA UsockStopEffect ==
    ASSUME NEW w \in Worlds
    PROVE  LET v == UsockStop(w)
           IN  /\ Adds(w, v) /\ v.excl = w.excl /\ SamePipe(w.r, v.r)
               /\ v.r.aipc = w.r.aipc /\ v.r.sipc = w.r.sipc
               /\ v.r.streamhdr = w.r.streamhdr /\ v.r.timer = w.r.timer
               /\ w.r.usock = "BEING_ACCEPTED" =>
                     /\ v.r.usock = "STOPPING_ACCEPT"
                     /\ v.listener = [w.listener EXCEPT !.state = "CANCELLING"]
               /\ w.r.usock # "BEING_ACCEPTED" =>
                     /\ v.listener = w.listener
                     /\ v.r.usock = w.r.usock
                        \/ (v.r.usock \in {"IDLE", "STOPPING"}
                            /\ w.r.usock \in {"DONE", "ACTIVE", "REMOVING_FD"})
<1> DEFINE v == UsockStop(w)
<1>1. CASE w.r.usock = "DONE"
  <2>1. v = UsockStopped(w)
    BY <1>1 DEF UsockStop
  <2> QED BY <1>1, <2>1, UsockStoppedEffect DEF UsockOnly, Below
<1>2. CASE w.r.usock = "BEING_ACCEPTED"
  <2> DEFINE u == [w.r EXCEPT !.usock = "STOPPING_ACCEPT"]
             l == [w.listener EXCEPT !.state = "CANCELLING"]
             o == [w EXCEPT !.r = u]
             p == [o EXCEPT !.listener = l]
  <2>1. w.r \in Record /\ w.listener \in Listeners
    BY DEF Worlds
  <2>2. u \in Record /\ SamePipe(w.r, u) /\ u.aipc = w.r.aipc
        /\ u.sipc = w.r.sipc /\ u.streamhdr = w.r.streamhdr
        /\ u.timer = w.r.timer /\ u.usock = "STOPPING_ACCEPT"
    BY <2>1 DEF Record, SamePipe
  <2>3. l \in Listeners
    BY <2>1 DEF Listeners
  <2>4. v = ListenerTask(p, "STOP")
    BY <1>2, <2>1 DEF UsockStop, Worlds
  <2> HIDE DEF u, l
  <2>5. Adds(w, o) /\ o.r = u /\ o.excl = w.excl
    BY <2>2, SetAdds
  <2>6. o \in Worlds
    BY <2>5 DEF Adds
  <2> HIDE DEF o
  <2>7. p \in Worlds /\ Adds(o, p) /\ p.r = u /\ p.excl = w.excl
        /\ p.listener = l
    BY <2>3, <2>5, <2>6, MoreSame, MoreTasksSame DEF Worlds, Adds
  <2> HIDE DEF p
  <2>8. Adds(p, v) /\ v.r = u /\ v.excl = w.excl /\ v.listener = l
    BY <2>4, <2>7, ListenerTaskAdds
  <2>9. Adds(w, v)
    BY <2>5, <2>6, <2>7, <2>8, AddsTrans
  <2> QED BY <1>2, <2>2, <2>8, <2>9 DEF l
<1>3. CASE w.r.usock = "ACTIVE"
  <2> DEFINE o == [w EXCEPT !.r.usock = "STOPPING"]
  <2>1. UsockOnly(w, o) /\ o.r.usock = "STOPPING"
    BY UsockSet
  <2>2. o \in Worlds
    BY <2>1 DEF UsockOnly, Below, Adds
  <2>3. v = AsyncStop(o)
    BY <1>3 DEF UsockStop
  <2> HIDE DEF o
  <2>4. UsockOnly(o, v) /\ v.r = o.r
    BY <2>2, <2>3, AsyncStopOnly
  <2>5. UsockOnly(w, v)
    BY <2>1, <2>4, UsockOnlyTrans
  <2> QED BY <1>3, <2>1, <2>4, <2>5 DEF UsockOnly, Below
<1>4. CASE w.r.usock = "REMOVING_FD"
  <2> DEFINE o == [w EXCEPT !.r.usock = "STOPPING"]
  <2>1. UsockOnly(w, o) /\ o.r.usock = "STOPPING"
    BY UsockSet
  <2>2. v = o
    BY <1>4 DEF UsockStop
  <2> QED BY <1>4, <2>1, <2>2 DEF UsockOnly, Below
<1>5. CASE w.r.usock \notin {"DONE", "BEING_ACCEPTED", "ACTIVE",
                             "REMOVING_FD"}
  <2>1. v = w
    BY <1>5 DEF UsockStop
  <2> QED BY <1>5, <2>1, AddsSame DEF SamePipe
<1> QED BY <1>1, <1>2, <1>3, <1>4, <1>5

-----------------------------------------------------------------------------
(* timer, streamhdr.                                                       *)

(* usock keeps its state.                                                  *)
TimerOnly(w, v) ==
    /\ Below(w, v)
    /\ v.r.usock = w.r.usock

(* Two operations of timer, one after the other.                           *)
LEMMA TimerOnlyTrans ==
    ASSUME NEW w \in Worlds, NEW v, NEW u, TimerOnly(w, v), TimerOnly(v, u)
    PROVE  TimerOnly(w, u)
BY BelowTrans DEF TimerOnly

(* timer's state alone is set,                                             *)
LEMMA TimerSet ==
    ASSUME NEW w \in Worlds, NEW s \in {"IDLE", "ACTIVE", "STOPPING"}
    PROVE  LET v == [w EXCEPT !.r.timer = s]
           IN  /\ TimerOnly(w, v) /\ v.r.timer = s
               /\ v.r.streamhdr = w.r.streamhdr
<1> DEFINE v == [w EXCEPT !.r.timer = s]
           u == [w.r EXCEPT !.timer = s]
<1>1. w.r \in Record /\ v = [w EXCEPT !.r = u]
  BY DEF Worlds
<1>2. u \in Record /\ u.usock = w.r.usock /\ SamePipe(w.r, u)
      /\ u.aipc = w.r.aipc /\ u.sipc = w.r.sipc
      /\ u.streamhdr = w.r.streamhdr /\ u.timer = s
  BY <1>1 DEF Record, SamePipe
<1> HIDE DEF u, v
<1>3. Adds(w, v) /\ v.r = u /\ v.excl = w.excl /\ v.listener = w.listener
  BY <1>1, <1>2, SetAdds
<1> QED BY <1>2, <1>3 DEF v, TimerOnly, Below

(* streamhdr's,                                                            *)
LEMMA StreamhdrSet ==
    ASSUME NEW w \in Worlds,
           NEW s \in {"IDLE", "SENDING", "RECEIVING", "DONE", "STOPPING",
                      "STOPPING_TIMER_ERROR", "STOPPING_TIMER_DONE"}
    PROVE  LET v == [w EXCEPT !.r.streamhdr = s]
           IN  /\ TimerOnly(w, v) /\ v.r.timer = w.r.timer
               /\ v.r.streamhdr = s
<1> DEFINE v == [w EXCEPT !.r.streamhdr = s]
           u == [w.r EXCEPT !.streamhdr = s]
<1>1. w.r \in Record /\ v = [w EXCEPT !.r = u]
  BY DEF Worlds
<1>2. u \in Record /\ u.usock = w.r.usock /\ SamePipe(w.r, u)
      /\ u.aipc = w.r.aipc /\ u.sipc = w.r.sipc
      /\ u.streamhdr = s /\ u.timer = w.r.timer
  BY <1>1 DEF Record, SamePipe
<1> HIDE DEF u, v
<1>3. Adds(w, v) /\ v.r = u /\ v.excl = w.excl /\ v.listener = w.listener
  BY <1>1, <1>2, SetAdds
<1> QED BY <1>2, <1>3 DEF v, TimerOnly, Below

(* or the owner of usock.                                                  *)
LEMMA OwnerSet ==
    ASSUME NEW w \in Worlds, NEW s \in {"aipc", "sipc", "streamhdr"}
    PROVE  LET v == [w EXCEPT !.r.owner = s]
           IN  /\ TimerOnly(w, v) /\ v.r.timer = w.r.timer
               /\ v.r.streamhdr = w.r.streamhdr
<1> DEFINE v == [w EXCEPT !.r.owner = s]
           u == [w.r EXCEPT !.owner = s]
<1>1. w.r \in Record /\ v = [w EXCEPT !.r = u]
  BY DEF Worlds
<1>2. u \in Record /\ u.usock = w.r.usock /\ SamePipe(w.r, u)
      /\ u.aipc = w.r.aipc /\ u.sipc = w.r.sipc
      /\ u.streamhdr = w.r.streamhdr /\ u.timer = w.r.timer
  BY <1>1 DEF Record, SamePipe
<1> HIDE DEF u, v
<1>3. Adds(w, v) /\ v.r = u /\ v.excl = w.excl /\ v.listener = w.listener
  BY <1>1, <1>2, SetAdds
<1> QED BY <1>2, <1>3 DEF v, TimerOnly, Below

(* nn_timer_start.                                                         *)
LEMMA TimerStartEffect ==
    ASSUME NEW w \in Worlds
    PROVE  LET v == TimerStart(w)
           IN  /\ TimerOnly(w, v) /\ v.r.timer = "ACTIVE"
               /\ v.r.streamhdr = w.r.streamhdr
<1> DEFINE o == [w EXCEPT !.r.timer = "ACTIVE"]
           v == TimerStart(w)
<1>1. TimerOnly(w, o) /\ o.r.timer = "ACTIVE"
      /\ o.r.streamhdr = w.r.streamhdr
  BY TimerSet
<1>2. v = Execute(o, "timer", "START") /\ o \in Worlds
  BY <1>1 DEF TimerStart, TimerOnly, Below, Adds
<1> HIDE DEF o, v
<1>3. Adds(o, v) /\ v.r = o.r /\ v.excl = o.excl /\ v.listener = o.listener
  BY <1>2, ExecuteAdds
<1>4. TimerOnly(o, v)
  BY <1>3 DEF TimerOnly, Below, SamePipe
<1>5. TimerOnly(w, v)
  BY <1>1, <1>4, TimerOnlyTrans
<1> QED BY <1>1, <1>3, <1>5 DEF v

(* nn_timer_stop.                                                          *)
LEMMA TimerStopEffect ==
    ASSUME NEW w \in Worlds
    PROVE  LET v == TimerStop(w)
           IN  /\ TimerOnly(w, v)
               /\ v.r.timer = w.r.timer
                  \/ (w.r.timer = "ACTIVE" /\ v.r.timer = "STOPPING")
               /\ v.r.streamhdr = w.r.streamhdr
<1>1. CASE w.r.timer = "ACTIVE"
  <2> DEFINE o == [w EXCEPT !.r.timer = "STOPPING"]
             v == TimerStop(w)
  <2>1. TimerOnly(w, o) /\ o.r.timer = "STOPPING"
        /\ o.r.streamhdr = w.r.streamhdr
    BY TimerSet
  <2>2. v = Execute(o, "timer", "STOP") /\ o \in Worlds
    BY <1>1, <2>1 DEF TimerStop, TimerOnly, Below, Adds
  <2> HIDE DEF o, v
  <2>3. Adds(o, v) /\ v.r = o.r /\ v.excl = o.excl /\ v.listener = o.listener
    BY <2>2, ExecuteAdds
  <2>4. TimerOnly(o, v)
    BY <2>3 DEF TimerOnly, Below, SamePipe
  <2>5. TimerOnly(w, v)
    BY <2>1, <2>4, TimerOnlyTrans
  <2> QED BY <1>1, <2>1, <2>3, <2>5 DEF v
<1>2. CASE w.r.timer # "ACTIVE"
  BY <1>2, AddsSame DEF TimerStop, TimerOnly, Below, SamePipe
<1> QED BY <1>1, <1>2

(* nn_streamhdr_start.                                                     *)
LEMMA StreamhdrStartEffect ==
    ASSUME NEW w \in Worlds, NEW v \in StreamhdrStart(w)
    PROVE  /\ Below(w, v)
           /\ v.r.usock = w.r.usock
              \/ (w.r.usock = "ACTIVE" /\ v.r.usock = "REMOVING_FD")
           /\ v.r.streamhdr = "SENDING"
<1> DEFINE o == [w EXCEPT !.r.owner = "streamhdr"]
           p == TimerStart(o)
<1>1. TimerOnly(w, o) /\ o \in Worlds
  BY OwnerSet DEF TimerOnly, Below, Adds
<1>2. PICK u \in UsockSend(p) : v = [u EXCEPT !.r.streamhdr = "SENDING"]
  BY DEF StreamhdrStart
<1> HIDE DEF o
<1>3. TimerOnly(o, p) /\ p \in Worlds
  BY <1>1, TimerStartEffect DEF TimerOnly, Below, Adds
<1> HIDE DEF p
<1>4. MayFail(p, u) /\ u \in Worlds
  BY <1>3, UsockSendEffect DEF MayFail, UsockOnly, Below, Adds
<1>5. TimerOnly(u, v) /\ v.r.streamhdr = "SENDING"
  BY <1>2, <1>4, StreamhdrSet
<1>6. Below(w, p) /\ p.r.usock = w.r.usock
  BY <1>1, <1>3, BelowTrans DEF TimerOnly
<1>7. Below(w, u) /\ Below(u, v)
  BY <1>4, <1>5, <1>6, BelowTrans DEF MayFail, UsockOnly, TimerOnly
<1>8. Below(w, v)
  BY <1>7, BelowTrans
<1> QED BY <1>4, <1>5, <1>6, <1>8 DEF MayFail, TimerOnly

(* streamhdr stops when its timer has.                                     *)
LEMMA StreamhdrStoppingEffect ==
    ASSUME NEW w \in Worlds
    PROVE  LET v == StreamhdrStopping(w)
           IN  /\ TimerOnly(w, v) /\ v.r.timer = w.r.timer
               /\ \/ v = w
                  \/ w.r.timer = "IDLE" /\ v.r.streamhdr = "IDLE"
<1> DEFINE v == StreamhdrStopping(w)
<1>1. CASE Idle(w, "timer")
  <2> DEFINE o == [w EXCEPT !.r.streamhdr = "IDLE"]
  <2>1. TimerOnly(w, o) /\ o.r.timer = w.r.timer /\ o.r.streamhdr = "IDLE"
    BY StreamhdrSet
  <2>2. v = Raise(o, "sipc", "streamhdr", "STOPPED") /\ o \in Worlds
    BY <1>1, <2>1 DEF StreamhdrStopping, TimerOnly, Below, Adds
  <2>3. w.r.timer = "IDLE" /\ "sipc" \in Machines \ {"bipc"}
    BY <1>1 DEF Idle, Machines
  <2> HIDE DEF o, v
  <2>4. Adds(o, v) /\ v.r = o.r /\ v.excl = o.excl /\ v.listener = o.listener
    BY <2>2, <2>3, RaiseAdds
  <2>5. TimerOnly(o, v)
    BY <2>4 DEF TimerOnly, Below, SamePipe
  <2>6. TimerOnly(w, v)
    BY <2>1, <2>5, TimerOnlyTrans
  <2> QED BY <2>1, <2>3, <2>4, <2>6 DEF v
<1>2. CASE ~Idle(w, "timer")
  BY <1>2, AddsSame DEF StreamhdrStopping, TimerOnly, Below, SamePipe
<1> QED BY <1>1, <1>2

(* nn_streamhdr_stop.                                                      *)
LEMMA StreamhdrStopEffect ==
    ASSUME NEW w \in Worlds
    PROVE  LET v == StreamhdrStop(w)
           IN  /\ TimerOnly(w, v)
               /\ v.r.streamhdr \in {"IDLE", "STOPPING"}
               /\ \/ v.r.streamhdr = w.r.streamhdr /\ v.r.timer = w.r.timer
                  \/ v.r.streamhdr = "STOPPING"
                  \/ v.r.timer = "IDLE"
<1> DEFINE v == StreamhdrStop(w)
<1>1. CASE w.r.streamhdr \in {"IDLE", "STOPPING"}
  BY <1>1, AddsSame DEF StreamhdrStop, TimerOnly, Below, SamePipe
<1>2. CASE w.r.streamhdr \notin {"IDLE", "STOPPING"}
  <2> DEFINE o == TimerStop(w)
             p == [o EXCEPT !.r.streamhdr = "STOPPING"]
  <2>1. TimerOnly(w, o) /\ o \in Worlds
    BY TimerStopEffect DEF TimerOnly, Below, Adds
  <2>2. v = StreamhdrStopping(p)
    BY <1>2 DEF StreamhdrStop
  <2> HIDE DEF o, v
  <2>3. TimerOnly(o, p) /\ p.r.streamhdr = "STOPPING"
    BY <2>1, StreamhdrSet
  <2>4. p \in Worlds
    BY <2>3 DEF TimerOnly, Below, Adds
  <2> HIDE DEF p
  <2>5. /\ TimerOnly(p, v) /\ v.r.timer = p.r.timer
        /\ \/ v = p
           \/ p.r.timer = "IDLE" /\ v.r.streamhdr = "IDLE"
    BY <2>2, <2>4, StreamhdrStoppingEffect
  <2>6. TimerOnly(w, v)
    BY <2>1, <2>3, <2>5, TimerOnlyTrans
  <2> QED BY <2>3, <2>5, <2>6 DEF v
<1> QED BY <1>1, <1>2

-----------------------------------------------------------------------------
(* The invariant of the connection of a world.                             *)

Good(w, a) ==
    /\ w \in Worlds
    /\ QueueInv(w.events)
    /\ ConnInv(w.c, w.r, w.excl, ToSet(w.events), w.listener, a)

(* An operation on a connection in use keeps the order of events,          *)
LEMMA QueueKept ==
    ASSUME NEW w \in Worlds, NEW v, NEW a, Good(w, a), Adds(w, v),
           w.r.aipc # "IDLE"
    PROVE  QueueInv(v.events)
<1>1. w.c \in Conn /\ AipcStopped(w.c).c = w.c
  BY DEF Worlds, AipcStopped
<1>2. AipcStopped(w.c) \notin ToSet(w.events)
  BY <1>1 DEF Good, ConnInv, PastInv
<1> QED BY <1>2 DEF Good, Adds, More

(* what is left of an earlier use,                                         *)
LEMMA PastKept ==
    ASSUME NEW w \in Worlds, NEW v, NEW a, Good(w, a), Adds(w, v),
           w.r.aipc \notin {"FREE", "IDLE"}, v.r.aipc # "FREE",
           v.r.aipc = "ACCEPTING" => w.r.aipc = "ACCEPTING",
           v.r.usock = "BEING_ACCEPTED" => w.r.usock = "BEING_ACCEPTED",
           v.r.sipc \in {"PROTOHDR", "STOPPING_STREAMHDR"}
              => w.r.sipc \in {"PROTOHDR", "STOPPING_STREAMHDR"}
    PROVE  PastInv(v.c, v.r, ToSet(v.events), a)
<1> SUFFICES ASSUME NEW e \in ToSet(v.events), e.c = v.c
             PROVE  /\ e.src = "pipe" =>
                          /\ v.r.aipc # "ACCEPTING"
                          /\ v.r.sipc \notin {"PROTOHDR", "STOPPING_STREAMHDR"}
                    /\ e # AipcStopped(v.c)
                    /\ e.type = "ACCEPTED" =>
                          /\ v.c = a /\ v.r.usock # "BEING_ACCEPTED"
                          /\ e.to = "bipc" => v.r.aipc # "ACCEPTING"
  BY DEF PastInv
<1>1. v.c = w.c
  BY DEF Adds
<1>2. CASE e \in ToSet(w.events)
  BY <1>1, <1>2 DEF Good, ConnInv, PastInv
<1>3. CASE Plain(e, w.c)
  BY <1>1, <1>3 DEF Plain, Acceptance, AipcStopped
<1> QED BY <1>2, <1>3 DEF Adds, More

(* who has the listener,                                                   *)
LEMMA AcceptKept ==
    ASSUME NEW w \in Worlds, NEW v, NEW a, Good(w, a), Adds(w, v),
           v.listener = w.listener, SameAccept(w.r, v.r),
           v.r.aipc = "ACCEPTING" => w.r.aipc = "ACCEPTING",
           v.r.aipc = "ACTIVE" => w.r.aipc \in {"ACCEPTING", "ACTIVE"},
           v.r.aipc = "IDLE" => w.r.aipc = "IDLE"
    PROVE  AcceptInv(v.c, v.r, ToSet(v.events), v.listener, a)
BY DEF Good, ConnInv, AcceptInv, Adds, More, SameAccept

(* and the agreement of excl and the pipe.                                 *)
LEMMA PipeKept ==
    ASSUME NEW w \in Worlds, NEW v, NEW a, Good(w, a), Adds(w, v),
           SamePipe(w.r, v.r), v.excl = w.excl,
           w.r.pipe = "ACTIVE" =>
              /\ v.r.aipc = "ACTIVE"
              /\ \/ v.r.sipc = w.r.sipc
                 \/ v.r.sipc = "DONE" /\ SipcBroken(v.c) \in ToSet(v.events)
    PROVE  PipeInv(v.c, v.r, v.excl, ToSet(v.events))
<1>1. v.c = w.c /\ ToSet(w.events) \subseteq ToSet(v.events)
  BY DEF Adds, More
<1>2. \A e \in ToSet(v.events) : e.src = "pipe" => e \in ToSet(w.events)
  BY DEF Adds, More, Plain
<1>3. ASSUME NEW x, NEW type, Offered(v.c, ToSet(v.events), x, type)
      PROVE  Offered(w.c, ToSet(w.events), x, type)
  BY <1>1, <1>2, <1>3 DEF Offered
<1>4. PipeInv(w.c, w.r, w.excl, ToSet(w.events))
  BY DEF Good, ConnInv
<1>5. CASE w.r.pipe = "ACTIVE"
  <2>1. SipcBroken(w.c) \in ToSet(w.events)
           => SipcBroken(v.c) \in ToSet(v.events)
    BY <1>1
  <2>2. v.r.pipe = "ACTIVE" /\ v.excl.pipe = v.c
    BY <1>1, <1>4, <1>5 DEF PipeInv, SamePipe
  <2>3. v.r.sipc = "ACTIVE"
        \/ (v.r.sipc = "DONE" /\ SipcBroken(v.c) \in ToSet(v.events))
    BY <1>4, <1>5, <2>1 DEF PipeInv
  <2>4. Offered(v.c, ToSet(v.events), v.excl.outpipe, "OUT")
           => v.r.outstate = "IDLE" /\ v.r.pipeout = "IDLE"
    BY <1>3, <1>4, <1>5 DEF PipeInv, SamePipe
  <2>5. Offered(v.c, ToSet(v.events), v.excl.inpipe, "IN")
           => v.r.instate = "HASMSG" /\ v.r.pipein = "IDLE"
    BY <1>3, <1>4, <1>5 DEF PipeInv, SamePipe
  <2> QED BY <1>5, <2>2, <2>3, <2>4, <2>5 DEF PipeInv
<1>6. CASE w.r.pipe # "ACTIVE"
  BY <1>1, <1>4, <1>6 DEF PipeInv, SamePipe
<1> QED BY <1>5, <1>6

(* Most steps: an operation below aipc and sipc, and what the handler      *)
(* assigns.                                                                *)
LEMMA GoodKept ==
    ASSUME NEW w \in Worlds, NEW v, NEW a, Good(w, a), Adds(w, v),
           w.r.aipc \notin {"FREE", "IDLE"},
           v.r.aipc \notin {"FREE", "IDLE"},
           v.r.aipc = "ACCEPTING" => w.r.aipc = "ACCEPTING",
           v.r.aipc = "ACTIVE" => w.r.aipc \in {"ACCEPTING", "ACTIVE"},
           v.listener = w.listener, SameAccept(w.r, v.r),
           v.r.sipc \in {"PROTOHDR", "STOPPING_STREAMHDR"}
              => w.r.sipc \in {"PROTOHDR", "STOPPING_STREAMHDR"},
           NestInv(v.r), PipeInv(v.c, v.r, v.excl, ToSet(v.events))
    PROVE  Good(v, a)
<1>1. QueueInv(v.events)
  BY QueueKept
<1>2. PastInv(v.c, v.r, ToSet(v.events), a)
  BY PastKept DEF SameAccept
<1>3. AcceptInv(v.c, v.r, ToSet(v.events), v.listener, a)
  BY AcceptKept
<1> QED BY <1>1, <1>2, <1>3 DEF Good, ConnInv, Adds

(* What the other connections see of it.                                   *)
SameExcl(x, y, c) ==
    \A d \in Conn \ {c} : /\ y.pipe = d <=> x.pipe = d
                          /\ y.outpipe = d => x.outpipe = d
                          /\ y.inpipe = d => x.inpipe = d

Apart(w, v, a) ==
    /\ v.c = w.c
    /\ ToSet(w.events) \subseteq ToSet(v.events)
    /\ \A e \in ToSet(v.events) : e \in ToSet(w.events) \/ e.c = w.c
    /\ v.listener = w.listener \/ w.c = a
    /\ SameExcl(w.excl, v.excl, w.c)

(* What an operation on one connection does to the others: nothing.        *)
LEMMA ApartKeeps ==
    ASSUME NEW w \in Worlds, NEW v, NEW a, NEW d \in Conn \ {w.c}, NEW r,
           Apart(w, v, a),
           ConnInv(d, r, w.excl, ToSet(w.events), w.listener, a)
    PROVE  ConnInv(d, r, v.excl, ToSet(v.events), v.listener, a)
<1> DEFINE s == ToSet(w.events)
           t == ToSet(v.events)
           x == w.excl
           y == v.excl
<1>1. \A e : e.c = d => (e \in t <=> e \in s)
  BY DEF Apart
<1>2. (y.pipe = d <=> x.pipe = d) /\ (y.outpipe = d => x.outpipe = d)
      /\ (y.inpipe = d => x.inpipe = d)
  BY DEF Apart, SameExcl
<1>3. SipcBroken(d).c = d /\ AipcStopped(d).c = d
  BY DEF SipcBroken, AipcStopped
<1>4. d = a => v.listener = w.listener
  BY DEF Apart
<1> HIDE DEF s, t, x, y
<1>5. ConnInv(d, r, x, s, w.listener, a)
  BY DEF s, x
<1>6. \A type : /\ Offered(d, t, y.outpipe, type)
                      => Offered(d, s, x.outpipe, type)
                /\ Offered(d, t, y.inpipe, type)
                      => Offered(d, s, x.inpipe, type)
  BY <1>1, <1>2 DEF Offered
<1>7. PipeInv(d, r, y, t)
  BY <1>1, <1>2, <1>3, <1>5, <1>6 DEF ConnInv, PipeInv
<1>8. PastInv(d, r, t, a)
  BY <1>1, <1>5 DEF ConnInv, PastInv
<1>9. AcceptInv(d, r, t, v.listener, a)
  BY <1>1, <1>3, <1>4, <1>5 DEF ConnInv, AcceptInv
<1> QED BY <1>5, <1>7, <1>8, <1>9 DEF ConnInv, t, y

(* An operation that leaves the listener alone and takes no other pipe.    *)
LEMMA AddsApart ==
    ASSUME NEW w \in Worlds, NEW v, NEW a, Adds(w, v),
           v.listener = w.listener \/ w.c = a,
           SameExcl(w.excl, v.excl, w.c)
    PROVE  Apart(w, v, a)
BY DEF Apart, Adds, More, Plain

-----------------------------------------------------------------------------
(* pipe and excl.                                                          *)

(* The pair socket loses its peer, or keeps it; so does the connection.    *)
PipeGone(w, v) ==
    /\ v.r.pipe \in {w.r.pipe, "IDLE"} \ {"ACTIVE"}
    /\ v.excl = IF w.r.pipe = "ACTIVE" THEN NoPipes ELSE w.excl

(* excl without a pipe.                                                    *)
LEMMA NoPipesExcl == NoPipes \in Excls
BY DEF NoPipes, Excls

(* nn_pipebase_stop.                                                       *)
LEMMA PipeStopEffect ==
    ASSUME NEW w \in Worlds
    PROVE  LET v == PipeStop(w)
           IN  /\ Adds(w, v) /\ PipeGone(w, v) /\ v.r.pipe = "IDLE"
               /\ v.listener = w.listener
               /\ v.r.aipc = w.r.aipc /\ v.r.sipc = w.r.sipc
               /\ v.r.streamhdr = w.r.streamhdr /\ v.r.timer = w.r.timer
               /\ v.r.usock = w.r.usock
<1> DEFINE u == [w.r EXCEPT !.pipe = "IDLE"]
           x == IF w.r.pipe = "ACTIVE" THEN NoPipes ELSE w.excl
           o == [w EXCEPT !.r = u]
           v == PipeStop(w)
<1>1. w.r \in Record /\ w.excl \in Excls
  BY DEF Worlds
<1>2. u \in Record /\ u.pipe = "IDLE" /\ u.aipc = w.r.aipc
      /\ u.sipc = w.r.sipc /\ u.streamhdr = w.r.streamhdr
      /\ u.timer = w.r.timer /\ u.usock = w.r.usock
  BY <1>1 DEF Record
<1>3. x \in Excls
  BY <1>1, NoPipesExcl
<1>4. v = [o EXCEPT !.excl = x]
  BY <1>1 DEF PipeStop, Worlds
<1> HIDE DEF u, x, v
<1>5. Adds(w, o) /\ o.r = u /\ o.listener = w.listener /\ o \in Worlds
  BY <1>2, SetAdds DEF Adds
<1> HIDE DEF o
<1>6. Adds(o, v) /\ v.r = o.r /\ v.listener = o.listener /\ v.excl = x
  BY <1>3, <1>4, <1>5, MoreSame, MoreTasksSame DEF Worlds, Adds
<1>7. Adds(w, v)
  BY <1>5, <1>6, AddsTrans
<1> QED BY <1>2, <1>5, <1>6, <1>7 DEF PipeGone, v, x

(* Without its pipe, the connection agrees with excl.                      *)
LEMMA PipeGoneInv ==
    ASSUME NEW w \in Worlds, NEW v, NEW a, Good(w, a), v.c = w.c,
           PipeGone(w, v)
    PROVE  /\ PipeInv(v.c, v.r, v.excl, ToSet(v.events))
           /\ SameExcl(w.excl, v.excl, w.c)
<1>1. w.c \in Conn /\ w.c # None /\ None \notin Conn
  BY IpcAssumption DEF Worlds
<1>2. PipeInv(w.c, w.r, w.excl, ToSet(w.events))
  BY DEF Good, ConnInv
<1>3. CASE w.r.pipe = "ACTIVE"
  <2>1. v.excl.pipe = None /\ v.excl.inpipe = None /\ v.excl.outpipe = None
    BY <1>3 DEF PipeGone, NoPipes
  <2>2. w.excl.pipe = w.c
    BY <1>2, <1>3 DEF PipeInv
  <2> QED BY <1>1, <2>1, <2>2 DEF PipeGone, PipeInv, SameExcl
<1>4. CASE w.r.pipe # "ACTIVE"
  BY <1>1, <1>2, <1>4 DEF PipeGone, PipeInv, SameExcl
<1> QED BY <1>3, <1>4

-----------------------------------------------------------------------------
(* sipc.                                                                   *)

(* sipc's state alone is set.                                              *)
LEMMA SipcSet ==
    ASSUME NEW w \in Worlds,
           NEW s \in {"IDLE", "PROTOHDR", "STOPPING_STREAMHDR", "ACTIVE",
                      "SHUTTING_DOWN", "DONE", "STOPPING"}
    PROVE  LET v == [w EXCEPT !.r.sipc = s]
           IN  /\ Adds(w, v) /\ v.excl = w.excl /\ v.listener = w.listener
               /\ v.events = w.events
               /\ SamePipe(w.r, v.r) /\ v.r.aipc = w.r.aipc /\ v.r.sipc = s
               /\ v.r.streamhdr = w.r.streamhdr /\ v.r.timer = w.r.timer
               /\ v.r.usock = w.r.usock
<1> DEFINE v == [w EXCEPT !.r.sipc = s]
           u == [w.r EXCEPT !.sipc = s]
<1>1. w.r \in Record /\ v = [w EXCEPT !.r = u]
  BY DEF Worlds
<1>2. u \in Record /\ u.usock = w.r.usock /\ SamePipe(w.r, u)
      /\ u.aipc = w.r.aipc /\ u.sipc = s
      /\ u.streamhdr = w.r.streamhdr /\ u.timer = w.r.timer
  BY <1>1 DEF Record, SamePipe
<1> HIDE DEF u, v
<1>3. Adds(w, v) /\ v.r = u /\ v.excl = w.excl /\ v.listener = w.listener
      /\ v.events = w.events
  BY <1>1, <1>2, SetAdds
<1> QED BY <1>2, <1>3 DEF v

(* sipc tells aipc that the connection is broken.                          *)
LEMMA SipcDoneEffect ==
    ASSUME NEW w \in Worlds
    PROVE  LET v == SipcDone(w)
           IN  /\ Adds(w, v) /\ v.excl = w.excl /\ v.listener = w.listener
               /\ SamePipe(w.r, v.r) /\ v.r.aipc = w.r.aipc
               /\ v.r.sipc = "DONE" /\ SipcBroken(v.c) \in ToSet(v.events)
               /\ v.r.streamhdr = w.r.streamhdr /\ v.r.timer = w.r.timer
               /\ v.r.usock = w.r.usock
<1> DEFINE o == [w EXCEPT !.r.sipc = "DONE"]
           v == SipcDone(w)
<1>1. /\ Adds(w, o) /\ o.excl = w.excl /\ o.listener = w.listener
      /\ SamePipe(w.r, o.r) /\ o.r.aipc = w.r.aipc /\ o.r.sipc = "DONE"
      /\ o.r.streamhdr = w.r.streamhdr /\ o.r.timer = w.r.timer
      /\ o.r.usock = w.r.usock
  BY SipcSet
<1>2. v = Raise(o, "aipc", "sipc", "ERROR")
      /\ "aipc" \in Machines \ {"bipc"}
  BY DEF SipcDone, Machines
<1>3. o \in Worlds
  BY <1>1 DEF Adds
<1> HIDE DEF o, v
<1>4. Adds(o, v) /\ v.r = o.r /\ v.excl = o.excl /\ v.listener = o.listener
      /\ SipcBroken(o.c) \in ToSet(v.events)
  BY <1>2, <1>3, RaiseAdds, ZenonT(30) DEF SipcBroken
<1>5. Adds(w, v) /\ v.c = o.c
  BY <1>1, <1>4, AddsTrans DEF Adds
<1> QED BY <1>1, <1>4, <1>5 DEF v

(* sipc stops when streamhdr has.                                          *)
LEMMA SipcStoppingEffect ==
    ASSUME NEW w \in Worlds
    PROVE  LET v == SipcStopping(w)
           IN  /\ Adds(w, v) /\ v.excl = w.excl /\ v.listener = w.listener
               /\ SamePipe(w.r, v.r) /\ v.r.aipc = w.r.aipc
               /\ v.r.streamhdr = w.r.streamhdr /\ v.r.timer = w.r.timer
               /\ v.r.usock = w.r.usock
               /\ \/ v = w
                  \/ w.r.streamhdr = "IDLE" /\ v.r.sipc = "IDLE"
<1> DEFINE v == SipcStopping(w)
<1>1. CASE Idle(w, "streamhdr")
  <2> DEFINE o == [w EXCEPT !.r.sipc = "IDLE"]
             p == [o EXCEPT !.r.owner = "aipc"]
  <2>1. /\ Adds(w, o) /\ o.excl = w.excl /\ o.listener = w.listener
        /\ SamePipe(w.r, o.r) /\ o.r.aipc = w.r.aipc /\ o.r.sipc = "IDLE"
        /\ o.r.streamhdr = w.r.streamhdr /\ o.r.timer = w.r.timer
        /\ o.r.usock = w.r.usock
    BY SipcSet, ZenonT(30)
  <2>2. o \in Worlds
    BY <2>1 DEF Adds
  <2>3. v = Raise(p, "aipc", "sipc", "STOPPED")
        /\ "aipc" \in Machines \ {"bipc"}
    BY <1>1 DEF SipcStopping, Machines, Worlds, Record
  <2>4. w.r.streamhdr = "IDLE"
    BY <1>1 DEF Idle
  <2> HIDE DEF o, v
  <2>5. TimerOnly(o, p) /\ p.r.timer = o.r.timer
        /\ p.r.streamhdr = o.r.streamhdr /\ p \in Worlds
    BY <2>2, OwnerSet DEF TimerOnly, Below, Adds
  <2> HIDE DEF p
  <2>6. Adds(p, v) /\ v.r = p.r /\ v.excl = p.excl
        /\ v.listener = p.listener
    BY <2>3, <2>5, RaiseAdds, ZenonT(30)
  <2>7. Adds(w, v)
    BY <2>1, <2>2, <2>5, <2>6, AddsTrans DEF TimerOnly, Below
  <2> QED BY <2>1, <2>4, <2>5, <2>6, <2>7
          DEF v, TimerOnly, Below, SamePipe
<1>2. CASE ~Idle(w, "streamhdr")
  BY <1>2, AddsSame DEF SipcStopping, SamePipe
<1> QED BY <1>1, <1>2

(* nn_sipc_stop.                                                           *)
LEMMA SipcStopEffect ==
    ASSUME NEW w \in Worlds, NestInv(w.r)
    PROVE  LET v == SipcStop(w)
           IN  /\ Adds(w, v) /\ v.listener = w.listener
               /\ v.r.aipc = w.r.aipc /\ v.r.usock = w.r.usock
               /\ v.r.sipc \in {"IDLE", "STOPPING"}
               /\ \/ v = w
                  \/ /\ w.r.sipc \notin {"IDLE", "STOPPING"}
                     /\ PipeGone(w, v)
                     /\ v.r.sipc = "IDLE" => v.r.streamhdr = "IDLE"
                     /\ v.r.streamhdr = "IDLE" => v.r.timer = "IDLE"
<1> DEFINE v == SipcStop(w)
<1>1. CASE w.r.sipc \in {"IDLE", "STOPPING"}
  BY <1>1, AddsSame DEF SipcStop
<1>2. CASE w.r.sipc \notin {"IDLE", "STOPPING"}
  <2> DEFINE o == PipeStop(w)
             p == StreamhdrStop(o)
             t == [p EXCEPT !.r.sipc = "STOPPING"]
  <2>1. /\ Adds(w, o) /\ PipeGone(w, o) /\ o.listener = w.listener
        /\ o.r.aipc = w.r.aipc /\ o.r.usock = w.r.usock
        /\ o.r.streamhdr = w.r.streamhdr /\ o.r.timer = w.r.timer
    BY PipeStopEffect
  <2>2. v = SipcStopping(t)
    BY <1>2 DEF SipcStop
  <2>3. o \in Worlds
    BY <2>1 DEF Adds
  <2> HIDE DEF o, v
  <2>4. /\ TimerOnly(o, p)
        /\ p.r.streamhdr \in {"IDLE", "STOPPING"}
        /\ \/ p.r.streamhdr = o.r.streamhdr /\ p.r.timer = o.r.timer
           \/ p.r.streamhdr = "STOPPING"
           \/ p.r.timer = "IDLE"
    BY <2>3, StreamhdrStopEffect
  <2>5. p \in Worlds
    BY <2>4 DEF TimerOnly, Below, Adds
  <2> HIDE DEF p
  <2>6. /\ Adds(p, t) /\ t.excl = p.excl /\ t.listener = p.listener
        /\ SamePipe(p.r, t.r) /\ t.r.aipc = p.r.aipc
        /\ t.r.sipc = "STOPPING"
        /\ t.r.streamhdr = p.r.streamhdr /\ t.r.timer = p.r.timer
        /\ t.r.usock = p.r.usock
    BY <2>5, SipcSet
  <2>7. t \in Worlds
    BY <2>6 DEF Adds
  <2> HIDE DEF t
  <2>8. /\ Adds(t, v) /\ v.excl = t.excl /\ v.listener = t.listener
        /\ SamePipe(t.r, v.r) /\ v.r.aipc = t.r.aipc
        /\ v.r.streamhdr = t.r.streamhdr /\ v.r.timer = t.r.timer
        /\ v.r.usock = t.r.usock
        /\ v = t \/ (t.r.streamhdr = "IDLE" /\ v.r.sipc = "IDLE")
    BY <2>2, <2>7, SipcStoppingEffect
  <2>9. Adds(w, v)
    <3>1. Adds(o, p)
      BY <2>4 DEF TimerOnly, Below
    <3>2. Adds(w, p)
      BY <2>1, <3>1, AddsTrans
    <3>3. Adds(w, t)
      BY <2>6, <3>2, AddsTrans
    <3> QED BY <2>8, <3>3, AddsTrans
  <2>10. PipeGone(w, v)
    BY <2>1, <2>4, <2>6, <2>8 DEF PipeGone, TimerOnly, Below, SamePipe
  <2>11. v.r.aipc = w.r.aipc /\ v.r.usock = w.r.usock
         /\ v.listener = w.listener
    BY <2>1, <2>4, <2>6, <2>8 DEF TimerOnly, Below
  <2>12. v.r.sipc \in {"IDLE", "STOPPING"}
         /\ (v.r.sipc = "IDLE" => v.r.streamhdr = "IDLE")
    BY <2>6, <2>8
  <2>13. v.r.streamhdr = "IDLE" => v.r.timer = "IDLE"
    BY <2>1, <2>4, <2>6, <2>8 DEF NestInv
  <2> QED BY <1>2, <2>9, <2>10, <2>11, <2>12, <2>13 DEF v
<1> QED BY <1>1, <1>2

(* sipc can be stopped at any time, and has no pipe then.                  *)
LEMMA SipcStopGood ==
    ASSUME NEW w \in Worlds, NEW a, Good(w, a)
    PROVE  LET v == SipcStop(w)
           IN  /\ Good(v, a) /\ Adds(w, v) /\ v.listener = w.listener
               /\ SameExcl(w.excl, v.excl, w.c) /\ PipeGone(w, v)
               /\ v.r.aipc = w.r.aipc /\ v.r.usock = w.r.usock
               /\ v.r.sipc \in {"IDLE", "STOPPING"}
<1> DEFINE v == SipcStop(w)
<1>1. NestInv(w.r) /\ PipeInv(w.c, w.r, w.excl, ToSet(w.events))
  BY DEF Good, ConnInv
<1>2. /\ Adds(w, v) /\ v.listener = w.listener
      /\ v.r.aipc = w.r.aipc /\ v.r.usock = w.r.usock
      /\ v.r.sipc \in {"IDLE", "STOPPING"}
      /\ \/ v = w
         \/ /\ w.r.sipc \notin {"IDLE", "STOPPING"}
            /\ PipeGone(w, v)
            /\ v.r.sipc = "IDLE" => v.r.streamhdr = "IDLE"
            /\ v.r.streamhdr = "IDLE" => v.r.timer = "IDLE"
  BY <1>1, SipcStopEffect
<1> HIDE DEF v
<1>3. v.c = w.c
  BY <1>2 DEF Adds
<1>4. CASE v = w
  <2>1. PipeGone(w, v)
    BY <1>1, <1>2, <1>4 DEF PipeGone, PipeInv
  <2> QED BY <1>2, <1>4, <2>1 DEF v, SameExcl
<1>5. CASE /\ w.r.sipc \notin {"IDLE", "STOPPING"}
           /\ PipeGone(w, v)
           /\ v.r.sipc = "IDLE" => v.r.streamhdr = "IDLE"
           /\ v.r.streamhdr = "IDLE" => v.r.timer = "IDLE"
  <2>1. w.r.aipc \notin {"FREE", "IDLE", "ACCEPTING", "STOPPING"}
    BY <1>1, <1>5 DEF NestInv
  <2>2. NestInv(v.r)
    BY <1>1, <1>2, <1>5, <2>1 DEF NestInv
  <2>3. /\ PipeInv(v.c, v.r, v.excl, ToSet(v.events))
        /\ SameExcl(w.excl, v.excl, w.c)
    BY <1>3, <1>5, PipeGoneInv
  <2>4. SameAccept(w.r, v.r)
    BY <1>2 DEF SameAccept
  <2>5. Good(v, a)
    BY <1>2, <2>1, <2>2, <2>3, <2>4, GoodKept
  <2> QED BY <1>2, <1>5, <2>3, <2>5 DEF v
<1> QED BY <1>2, <1>4, <1>5

-----------------------------------------------------------------------------
(* aipc.                                                                   *)

(* aipc's state alone is set.                                              *)
LEMMA AipcSet ==
    ASSUME NEW w \in Worlds,
           NEW s \in {"FREE", "IDLE", "ACCEPTING", "ACTIVE", "STOPPING_SIPC",
                      "STOPPING_USOCK", "DONE", "STOPPING_SIPC_FINAL",
                      "STOPPING"}
    PROVE  LET v == [w EXCEPT !.r.aipc = s]
           IN  /\ Adds(w, v) /\ v.excl = w.excl /\ v.listener = w.listener
               /\ v.events = w.events /\ v.tasks = w.tasks
               /\ SamePipe(w.r, v.r) /\ v.r.aipc = s /\ v.r.sipc = w.r.sipc
               /\ v.r.streamhdr = w.r.streamhdr /\ v.r.timer = w.r.timer
               /\ v.r.usock = w.r.usock
<1> DEFINE v == [w EXCEPT !.r.aipc = s]
           u == [w.r EXCEPT !.aipc = s]
<1>1. w.r \in Record /\ v = [w EXCEPT !.r = u]
  BY DEF Worlds
<1>2. u \in Record /\ u.usock = w.r.usock /\ SamePipe(w.r, u)
      /\ u.aipc = s /\ u.sipc = w.r.sipc
      /\ u.streamhdr = w.r.streamhdr /\ u.timer = w.r.timer
  BY <1>1 DEF Record, SamePipe
<1> HIDE DEF u, v
<1>3. Adds(w, v) /\ v.r = u /\ v.excl = w.excl /\ v.listener = w.listener
      /\ v.events = w.events /\ v.tasks = w.tasks
  BY <1>1, <1>2, SetAdds
<1> QED BY <1>2, <1>3 DEF v

(* What stopping a connection does to it and to the others.                *)
Ends(w, v, a) ==
    /\ Good(v, a) /\ Apart(w, v, a)
    /\ v.backlog = w.backlog
    /\ MoreTasks(w.tasks, v.tasks, w.c)
    /\ PipeGone(w, v)
    /\ v.r.aipc \in {"STOPPING_SIPC_FINAL", "STOPPING", "IDLE"}

(* nn_usock_stop, by aipc.                                                 *)
LEMMA UsockStopGood ==
    ASSUME NEW w \in Worlds, NEW a, Good(w, a),
           w.r.aipc \notin {"FREE", "IDLE", "ACCEPTING", "ACTIVE"}
    PROVE  LET v == UsockStop(w)
           IN  /\ Good(v, a) /\ Adds(w, v) /\ v.excl = w.excl
               /\ SamePipe(w.r, v.r)
               /\ v.r.aipc = w.r.aipc /\ v.r.sipc = w.r.sipc
               /\ v.listener = w.listener \/ w.c = a
<1> DEFINE v == UsockStop(w)
<1>1. /\ Adds(w, v) /\ v.excl = w.excl /\ SamePipe(w.r, v.r)
      /\ v.r.aipc = w.r.aipc /\ v.r.sipc = w.r.sipc
      /\ v.r.streamhdr = w.r.streamhdr /\ v.r.timer = w.r.timer
      /\ w.r.usock = "BEING_ACCEPTED" =>
            /\ v.r.usock = "STOPPING_ACCEPT"
            /\ v.listener = [w.listener EXCEPT !.state = "CANCELLING"]
      /\ w.r.usock # "BEING_ACCEPTED" =>
            /\ v.listener = w.listener
            /\ v.r.usock = w.r.usock
               \/ (v.r.usock \in {"IDLE", "STOPPING"}
                   /\ w.r.usock \in {"DONE", "ACTIVE", "REMOVING_FD"})
  BY UsockStopEffect
<1> HIDE DEF v
<1>2. v.c = w.c /\ NestInv(w.r) /\ w.listener \in Listeners
      /\ PipeInv(w.c, w.r, w.excl, ToSet(w.events))
      /\ AcceptInv(w.c, w.r, ToSet(w.events), w.listener, a)
  BY <1>1 DEF Good, Adds, ConnInv, Worlds
<1>3. NestInv(v.r)
  BY <1>1, <1>2 DEF NestInv
<1>4. w.r.pipe # "ACTIVE"
  BY <1>2 DEF PipeInv
<1>5. PipeInv(v.c, v.r, v.excl, ToSet(v.events))
  BY <1>1, <1>4, PipeKept
<1>6. PastInv(v.c, v.r, ToSet(v.events), a)
  BY <1>1, PastKept
<1>7. w.r.usock = "BEING_ACCEPTED" => v.listener.state = "CANCELLING"
  BY <1>1, <1>2 DEF Listeners
<1>8. AcceptInv(v.c, v.r, ToSet(v.events), v.listener, a)
  BY <1>1, <1>2, <1>7 DEF AcceptInv
<1>9. QueueInv(v.events)
  BY <1>1, QueueKept
<1>10. v.listener = w.listener \/ w.c = a
  BY <1>1, <1>2 DEF AcceptInv
<1>11. Good(v, a)
  BY <1>1, <1>3, <1>5, <1>6, <1>8, <1>9 DEF Good, ConnInv, Adds
<1> QED BY <1>1, <1>10, <1>11 DEF v

(* aipc stops when usock has,                                              *)
LEMMA AipcStoppingEnds ==
    ASSUME NEW w \in Worlds, NEW a, Good(w, a), w.r.aipc = "STOPPING"
    PROVE  Ends(w, AipcStopping(w), a) /\ AipcStopping(w).listener = w.listener
<1> DEFINE v == AipcStopping(w)
<1>1. /\ NestInv(w.r) /\ PipeInv(w.c, w.r, w.excl, ToSet(w.events))
      /\ PastInv(w.c, w.r, ToSet(w.events), a)
      /\ AcceptInv(w.c, w.r, ToSet(w.events), w.listener, a)
      /\ QueueInv(w.events) /\ w.c \in Conn
      /\ w.events \in Seq(Events) /\ w.tasks \in Seq(Tasks)
  BY DEF Good, ConnInv, Worlds
<1>2. w.r.pipe # "ACTIVE"
  BY <1>1 DEF PipeInv
<1>3. CASE Idle(w, "usock")
  <2> DEFINE o == [w EXCEPT !.r.aipc = "IDLE"]
             e == [to |-> "bipc", src |-> "aipc", type |-> "STOPPED",
                   c |-> o.c]
  <2>1. /\ Adds(w, o) /\ o.excl = w.excl /\ o.listener = w.listener
        /\ o.events = w.events /\ o.tasks = w.tasks
        /\ SamePipe(w.r, o.r) /\ o.r.aipc = "IDLE" /\ o.r.sipc = w.r.sipc
        /\ o.r.streamhdr = w.r.streamhdr /\ o.r.timer = w.r.timer
        /\ o.r.usock = w.r.usock
    BY AipcSet
  <2>2. v = Raise(o, "bipc", "aipc", "STOPPED") /\ w.r.usock = "IDLE"
    BY <1>3 DEF AipcStopping, Idle
  <2> HIDE DEF o
  <2>3. o \in Worlds /\ o.c = w.c /\ o.backlog = w.backlog
    BY <2>1 DEF Adds
  <2>4. e = AipcStopped(w.c) /\ e \in Events /\ e.c = w.c
        /\ e.src # "pipe" /\ ~Acceptance(e)
        /\ e.type = "STOPPED" /\ ~OfListener(e)
    BY <1>1, <2>3 DEF AipcStopped, Events, Machines, Acceptance, OfListener
  <2> HIDE DEF v
  <2>5. /\ v \in Worlds /\ v.c = w.c /\ v.r = o.r
        /\ v.listener = w.listener /\ v.backlog = w.backlog
        /\ v.excl = w.excl /\ v.tasks = w.tasks
        /\ v.events = Append(w.events, e)
        /\ ToSet(v.events) = ToSet(w.events) \cup {e}
    BY <2>1, <2>2, <2>3, <2>4, RaiseEffect
  <2> HIDE DEF e
  <2>6. AipcStopped(e.c) \notin ToSet(w.events)
    BY <1>1, <2>4 DEF PastInv, AipcStopped
  <2>7. QueueInv(v.events)
    BY <1>1, <2>4, <2>5, <2>6, AppendQueue
  <2>8. NestInv(v.r)
    BY <1>1, <2>1, <2>2, <2>5 DEF NestInv
  <2>9. PipeGone(w, v)
    BY <1>2, <2>1, <2>5 DEF PipeGone, SamePipe
  <2>10. PipeInv(v.c, v.r, v.excl, ToSet(v.events))
         /\ SameExcl(w.excl, v.excl, w.c)
    BY <2>5, <2>9, PipeGoneInv
  <2>11. PastInv(v.c, v.r, ToSet(v.events), a)
    BY <1>1, <2>1, <2>2, <2>4, <2>5 DEF PastInv, NestInv
  <2>12. AcceptInv(v.c, v.r, ToSet(v.events), v.listener, a)
    BY <1>1, <2>1, <2>2, <2>4, <2>5 DEF AcceptInv
  <2>13. Good(v, a)
    BY <2>5, <2>7, <2>8, <2>10, <2>11, <2>12 DEF Good, ConnInv
  <2>14. Apart(w, v, a)
    BY <2>4, <2>5, <2>10 DEF Apart
  <2>15. MoreTasks(w.tasks, v.tasks, w.c)
    BY <1>1, <2>5, MoreTasksSame
  <2>16. Ends(w, v, a)
    BY <2>1, <2>5, <2>9, <2>13, <2>14, <2>15 DEF Ends
  <2> QED BY <2>5, <2>16 DEF v
<1>4. CASE ~Idle(w, "usock")
  <2>1. AipcStopping(w) = w
    BY <1>4 DEF AipcStopping
  <2> QED BY <1>1, <1>2, <2>1, MoreTasksSame
          DEF Ends, Apart, SameExcl, PipeGone
<1> QED BY <1>3, <1>4

(* which it stops when sipc has.                                           *)
LEMMA AipcStoppingSipcEnds ==
    ASSUME NEW w \in Worlds, NEW a, Good(w, a),
           w.r.aipc = "STOPPING_SIPC_FINAL"
    PROVE  Ends(w, AipcStoppingSipc(w), a)
<1> DEFINE v == AipcStoppingSipc(w)
<1>1. NestInv(w.r) /\ PipeInv(w.c, w.r, w.excl, ToSet(w.events))
      /\ w.tasks \in Seq(Tasks)
      /\ AcceptInv(w.c, w.r, ToSet(w.events), w.listener, a)
  BY DEF Good, ConnInv, Worlds
<1>2. w.r.pipe # "ACTIVE"
  BY <1>1 DEF PipeInv
<1>3. CASE Idle(w, "sipc")
  <2> DEFINE o == UsockStop(w)
             p == [o EXCEPT !.r.aipc = "STOPPING"]
  <2>1. /\ Good(o, a) /\ Adds(w, o) /\ o.excl = w.excl
        /\ SamePipe(w.r, o.r)
        /\ o.r.aipc = w.r.aipc /\ o.r.sipc = w.r.sipc
        /\ o.listener = w.listener \/ w.c = a
    BY UsockStopGood
  <2>2. v = AipcStopping(p) /\ w.r.sipc = "IDLE"
    BY <1>3 DEF AipcStoppingSipc, Idle
  <2>3. o \in Worlds
    BY <2>1 DEF Adds
  <2> HIDE DEF o, v
  <2>4. /\ Adds(o, p) /\ p.excl = o.excl /\ p.listener = o.listener
        /\ p.events = o.events /\ p.tasks = o.tasks
        /\ SamePipe(o.r, p.r) /\ p.r.aipc = "STOPPING" /\ p.r.sipc = o.r.sipc
        /\ p.r.streamhdr = o.r.streamhdr /\ p.r.timer = o.r.timer
        /\ p.r.usock = o.r.usock
    BY <2>3, AipcSet
  <2> HIDE DEF p
  <2>5. NestInv(p.r) /\ SameAccept(o.r, p.r) /\ p \in Worlds
    BY <1>1, <2>1, <2>2, <2>4 DEF Good, ConnInv, NestInv, SameAccept, Adds
  <2>6. PipeInv(p.c, p.r, p.excl, ToSet(p.events))
    BY <1>2, <2>1, <2>3, <2>4, PipeKept DEF SamePipe
  <2>7. Good(p, a)
    BY <2>1, <2>2, <2>3, <2>4, <2>5, <2>6, GoodKept
  <2>8. Ends(p, v, a) /\ v.listener = p.listener
    BY <2>2, <2>4, <2>5, <2>7, AipcStoppingEnds
  <2>9. Adds(w, p)
    BY <2>1, <2>4, AddsTrans
  <2>10. Apart(w, p, a)
    <3>1. SameExcl(w.excl, p.excl, w.c)
      BY <2>1, <2>4 DEF SameExcl
    <3> QED BY <2>1, <2>4, <2>9, <3>1, AddsApart
  <2>11. Apart(w, v, a)
    <3>1. v.excl = p.excl
      BY <1>2, <2>1, <2>4, <2>8 DEF Ends, PipeGone, SamePipe
    <3>2. v.listener = w.listener \/ w.c = a
      BY <2>1, <2>4, <2>8
    <3> QED BY <2>8, <2>10, <3>1, <3>2 DEF Ends, Apart
  <2>12. MoreTasks(w.tasks, v.tasks, w.c)
    BY <2>8, <2>9, MoreTasksTrans DEF Ends, Adds
  <2>13. PipeGone(w, v)
    BY <1>2, <2>1, <2>4, <2>8 DEF Ends, PipeGone, SamePipe
  <2>14. v.backlog = w.backlog
    BY <2>8, <2>9 DEF Ends, Adds
  <2>15. Good(v, a) /\ v.r.aipc \in {"STOPPING_SIPC_FINAL", "STOPPING", "IDLE"}
    BY <2>8 DEF Ends
  <2> QED BY <2>11, <2>12, <2>13, <2>14, <2>15 DEF v, Ends
<1>4. CASE ~Idle(w, "sipc")
  <2>1. AipcStoppingSipc(w) = w
    BY <1>4 DEF AipcStoppingSipc
  <2> QED BY <1>1, <1>2, <2>1, MoreTasksSame
          DEF Ends, Apart, SameExcl, PipeGone
<1> QED BY <1>3, <1>4

(* A connection in use can be stopped at any time.                         *)
LEMMA AipcStopEnds ==
    ASSUME NEW w \in Worlds, NEW a, Good(w, a), w.r.aipc # "FREE"
    PROVE  Ends(w, AipcStop(w), a)
<1> DEFINE v == AipcStop(w)
<1>1. NestInv(w.r) /\ PipeInv(w.c, w.r, w.excl, ToSet(w.events))
      /\ w.tasks \in Seq(Tasks)
  BY DEF Good, ConnInv, Worlds
<1>2. CASE w.r.aipc \in {"IDLE", "STOPPING_SIPC_FINAL", "STOPPING"}
  <2>1. v = w
    BY <1>2 DEF AipcStop
  <2>2. w.r.pipe # "ACTIVE"
    BY <1>1, <1>2 DEF PipeInv
  <2> HIDE DEF v
  <2> QED BY <1>1, <1>2, <2>1, <2>2, MoreTasksSame
          DEF v, Ends, Apart, SameExcl, PipeGone
<1>3. CASE w.r.aipc \notin {"IDLE", "STOPPING_SIPC_FINAL", "STOPPING"}
  <2> DEFINE o == SipcStop(w)
             p == [o EXCEPT !.r.aipc = "STOPPING_SIPC_FINAL"]
  <2>1. /\ Good(o, a) /\ Adds(w, o) /\ o.listener = w.listener
        /\ SameExcl(w.excl, o.excl, w.c) /\ PipeGone(w, o)
        /\ o.r.aipc = w.r.aipc /\ o.r.usock = w.r.usock
        /\ o.r.sipc \in {"IDLE", "STOPPING"}
    BY SipcStopGood
  <2>2. v = AipcStoppingSipc(p)
    BY <1>3 DEF AipcStop
  <2>3. o \in Worlds
    BY <2>1 DEF Adds
  <2> HIDE DEF o, v
  <2>4. /\ Adds(o, p) /\ p.excl = o.excl /\ p.listener = o.listener
        /\ SamePipe(o.r, p.r) /\ p.r.aipc = "STOPPING_SIPC_FINAL"
        /\ p.r.sipc = o.r.sipc
        /\ p.r.streamhdr = o.r.streamhdr /\ p.r.timer = o.r.timer
        /\ p.r.usock = o.r.usock
    BY <2>3, AipcSet, ZenonT(30)
  <2> HIDE DEF p
  <2>5. NestInv(p.r) /\ SameAccept(o.r, p.r) /\ p \in Worlds
    BY <2>1, <2>4 DEF Good, ConnInv, NestInv, SameAccept, Adds
  <2>6. PipeInv(p.c, p.r, p.excl, ToSet(p.events))
    BY <2>1, <2>3, <2>4, PipeKept DEF PipeGone
  <2>7. Good(p, a)
    BY <1>3, <2>1, <2>3, <2>4, <2>5, <2>6, GoodKept
  <2>8. Ends(p, v, a)
    BY <2>2, <2>4, <2>5, <2>7, AipcStoppingSipcEnds
  <2>9. Adds(w, p)
    BY <2>1, <2>4, AddsTrans
  <2>10. Apart(w, p, a)
    BY <2>1, <2>4, <2>9, AddsApart
  <2>11. v.excl = p.excl /\ v.r.pipe \in {o.r.pipe, "IDLE"} \ {"ACTIVE"}
         /\ p.c = w.c
    BY <2>1, <2>4, <2>8, <2>9 DEF Ends, PipeGone, SamePipe, Adds
  <2>12. Apart(w, v, a)
    BY <2>8, <2>10, <2>11, <2>1, <2>4 DEF Ends, Apart
  <2>13. MoreTasks(w.tasks, v.tasks, w.c)
    BY <2>8, <2>9, <2>11, MoreTasksTrans DEF Ends, Adds
  <2>14. PipeGone(w, v)
    BY <2>1, <2>4, <2>11 DEF PipeGone
  <2>15. v.backlog = w.backlog /\ Good(v, a)
         /\ v.r.aipc \in {"STOPPING_SIPC_FINAL", "STOPPING", "IDLE"}
    BY <2>8, <2>9 DEF Ends, Adds
  <2> QED BY <2>12, <2>13, <2>14, <2>15 DEF v, Ends
<1> QED BY <1>2, <1>3

-----------------------------------------------------------------------------
(* The next connection.                                                    *)

Accepts(w, v, a) ==
    /\ Good(v, a) /\ Apart(w, v, a)
    /\ v.backlog \in 0..w.backlog
    /\ MoreTasks(w.tasks, v.tasks, w.c)
    /\ v.excl = w.excl
    /\ v.r.aipc \notin {"FREE", "IDLE"}

(* The listener may accept it: there is no event yet about one it has.     *)
MayAccept(w, a) ==
    /\ w \in Worlds
    /\ QueueInv(w.events)
    /\ NestInv(w.r)
    /\ PipeInv(w.c, w.r, w.excl, ToSet(w.events))
    /\ PastInv(w.c, w.r, ToSet(w.events), a)
    /\ \A e \in ToSet(w.events) : ~Acceptance(e)
    /\ w.r.aipc \notin {"FREE", "IDLE"}
    /\ w.r.usock = "BEING_ACCEPTED"
    /\ w.c = a

(* accept succeeds,                                                        *)
LEMMA AcceptedAccepts ==
    ASSUME NEW w \in Worlds, NEW a, MayAccept(w, a), w.backlog > 0,
           NEW v \in Accepted(w)
    PROVE  Accepts(w, v, a)
<1>1. PICK peer \in {"none", "open", "closed"}, unread \in 0..1 :
         v = AcceptedFrom(w, peer, unread)
  BY DEF Accepted
<1> DEFINE u == [w.r EXCEPT !.usock = "ACCEPTED", !.peer = peer,
                            !.unread = unread]
           l == [w.listener EXCEPT !.state = "LISTENING", !.polled = FALSE]
           o == [w EXCEPT !.r = u, !.listener = l, !.backlog = @ - 1]
           owner == o.r.owner
           e == [to |-> owner, src |-> "usock", type |-> "ACCEPTED",
                 c |-> o.c]
<1>2. w.r \in Record /\ w.listener \in Listeners /\ w.backlog \in Nat
      /\ w.c \in Conn /\ w.events \in Seq(Events) /\ w.tasks \in Seq(Tasks)
  BY DEF Worlds
<1>3. unread \in 0..MaxUnread
  BY BoundsAssumption
<1>4. u \in Record /\ u.usock = "ACCEPTED" /\ SamePipe(w.r, u)
      /\ u.aipc = w.r.aipc /\ u.sipc = w.r.sipc
      /\ u.streamhdr = w.r.streamhdr /\ u.timer = w.r.timer
      /\ u.owner \in {"aipc", "sipc", "streamhdr"}
  <2>1. u \in Record
    <3> DEFINE t == [w.r EXCEPT !.unread = unread]
               p == [t EXCEPT !.peer = peer]
    <3>1. t \in Record
      BY <1>2, <1>3 DEF Record
    <3> HIDE DEF t
    <3>2. p \in Record
      BY <3>1 DEF Record
    <3>3. u = [p EXCEPT !.usock = "ACCEPTED"]
      BY <1>2 DEF Record, p, t
    <3> HIDE DEF p, u
    <3> QED BY <3>2, <3>3 DEF Record
  <2>2. u.usock = "ACCEPTED" /\ SamePipe(w.r, u)
        /\ u.aipc = w.r.aipc /\ u.sipc = w.r.sipc
        /\ u.streamhdr = w.r.streamhdr /\ u.timer = w.r.timer
    BY <1>2 DEF Record, SamePipe
  <2> HIDE DEF u
  <2> QED BY <2>1, <2>2 DEF Record
<1>5. l \in Listeners /\ l.state = "LISTENING"
  BY <1>2 DEF Listeners
<1>6. v = RaiseUsock(o, "ACCEPTED")
  BY <1>1, <1>2 DEF Worlds, AcceptedFrom
<1> HIDE DEF u, l
<1>7. w.backlog - 1 \in 0..w.backlog /\ w.backlog - 1 \in Nat
  BY <1>2 DEF MayAccept
<1>8. o \in Worlds /\ o.c = w.c /\ o.r = u /\ o.listener = l
      /\ o.backlog = w.backlog - 1 /\ o.excl = w.excl
      /\ o.tasks = w.tasks /\ o.events = w.events
  BY <1>4, <1>5, <1>7 DEF Worlds
<1> HIDE DEF o
<1>9. e \in Events /\ e.c = w.c /\ e.src = "usock" /\ e.to # "bipc"
      /\ ~OfListener(e) /\ e # AipcStopped(w.c)
  BY <1>2, <1>4, <1>8 DEF Events, Machines, OfListener, AipcStopped
<1>10. v = Raise(o, owner, "usock", "ACCEPTED")
  BY <1>6 DEF RaiseUsock
<1> HIDE DEF owner
<1>11. /\ v \in Worlds /\ v.c = w.c /\ v.r = u
       /\ v.listener = l /\ v.backlog = w.backlog - 1
       /\ v.excl = w.excl /\ v.tasks = w.tasks
       /\ v.events = Append(w.events, e)
       /\ ToSet(v.events) = ToSet(w.events) \cup {e}
  <2>1. o \in Worlds
    BY <1>8
  <2>2. [to |-> owner, src |-> "usock", type |-> "ACCEPTED",
         c |-> o.c] \in Events
    BY <1>9
  <2>3. /\ v \in Worlds /\ v.c = o.c /\ v.r = o.r
        /\ v.listener = o.listener /\ v.backlog = o.backlog
        /\ v.excl = o.excl /\ v.tasks = o.tasks
        /\ v.events = Append(o.events, e)
        /\ ToSet(v.events) = ToSet(o.events) \cup {e}
    BY <1>10, <2>1, <2>2, RaiseEffect
  <2> QED BY <1>8, <2>3
<1> HIDE DEF e
<1>12. AipcStopped(e.c) \notin ToSet(w.events)
  BY <1>9 DEF MayAccept, PastInv, AipcStopped
<1>13. QueueInv(v.events)
  BY <1>2, <1>9, <1>11, <1>12, AppendQueue DEF MayAccept
<1>14. NestInv(v.r)
  BY <1>4, <1>11 DEF NestInv, MayAccept
<1>15. PipeInv(v.c, v.r, v.excl, ToSet(v.events))
  BY <1>4, <1>9, <1>11 DEF PipeInv, MayAccept, SamePipe, Offered
<1>16. PastInv(v.c, v.r, ToSet(v.events), a)
  BY <1>4, <1>9, <1>11 DEF PastInv, MayAccept
<1>17. AcceptInv(v.c, v.r, ToSet(v.events), v.listener, a)
  BY <1>4, <1>5, <1>11 DEF AcceptInv, MayAccept
<1>18. Good(v, a)
  BY <1>11, <1>13, <1>14, <1>15, <1>16, <1>17 DEF Good, ConnInv
<1>19. Apart(w, v, a)
  BY <1>9, <1>11 DEF Apart, SameExcl, MayAccept
<1>20. MoreTasks(w.tasks, v.tasks, w.c)
  BY <1>2, <1>11, MoreTasksSame
<1> QED BY <1>4, <1>7, <1>11, <1>18, <1>19, <1>20 DEF Accepts, MayAccept

(* or fails.                                                               *)
LEMMA AcceptErrorAccepts ==
    ASSUME NEW w \in Worlds, NEW a, MayAccept(w, a)
    PROVE  Accepts(w, AcceptError(w), a)
<1> DEFINE l == [state |-> "ACCEPTING_ERROR", polled |-> FALSE,
                 errnum |-> TRUE]
           o == [w EXCEPT !.listener = l]
           e == [to |-> "aipc", src |-> "listener", type |-> "ACCEPT_ERROR",
                 c |-> o.c]
           v == AcceptError(w)
<1>1. w.r \in Record /\ w.backlog \in Nat
      /\ w.c \in Conn /\ w.events \in Seq(Events) /\ w.tasks \in Seq(Tasks)
  BY DEF Worlds
<1>2. l \in Listeners /\ l.state = "ACCEPTING_ERROR"
  BY DEF Listeners
<1>3. v = Raise(o, "aipc", "listener", "ACCEPT_ERROR")
  BY DEF AcceptError
<1> HIDE DEF l, v
<1>4. o \in Worlds /\ o.c = w.c /\ o.r = w.r /\ o.listener = l
      /\ o.backlog = w.backlog /\ o.excl = w.excl
      /\ o.tasks = w.tasks /\ o.events = w.events
  BY <1>2 DEF Worlds
<1> HIDE DEF o
<1>5. e \in Events /\ e.c = w.c /\ e.src = "listener" /\ e.to = "aipc"
      /\ e.type = "ACCEPT_ERROR"
      /\ ~OfListener(e) /\ e # AipcStopped(w.c)
  BY <1>1, <1>4 DEF Events, Machines, OfListener, AipcStopped
<1>6. /\ v \in Worlds /\ v.c = w.c /\ v.r = w.r
      /\ v.listener = l /\ v.backlog = w.backlog
      /\ v.excl = w.excl /\ v.tasks = w.tasks
      /\ v.events = Append(w.events, e)
      /\ ToSet(v.events) = ToSet(w.events) \cup {e}
  <2>1. [to |-> "aipc", src |-> "listener", type |-> "ACCEPT_ERROR",
         c |-> o.c] \in Events
    BY <1>5
  <2>2. /\ v \in Worlds /\ v.c = o.c /\ v.r = o.r
        /\ v.listener = o.listener /\ v.backlog = o.backlog
        /\ v.excl = o.excl /\ v.tasks = o.tasks
        /\ v.events = Append(o.events, e)
        /\ ToSet(v.events) = ToSet(o.events) \cup {e}
    BY <1>3, <1>4, <2>1, RaiseEffect
  <2> QED BY <1>4, <2>2
<1> HIDE DEF e
<1>7. AipcStopped(e.c) \notin ToSet(w.events)
  BY <1>5 DEF MayAccept, PastInv, AipcStopped
<1>8. QueueInv(v.events)
  BY <1>1, <1>5, <1>6, <1>7, AppendQueue DEF MayAccept
<1>9. NestInv(v.r)
  BY <1>6 DEF MayAccept
<1>10. PipeInv(v.c, v.r, v.excl, ToSet(v.events))
  BY <1>5, <1>6 DEF PipeInv, MayAccept, Offered
<1>11. PastInv(v.c, v.r, ToSet(v.events), a)
  BY <1>5, <1>6 DEF PastInv, MayAccept
<1>12. AcceptInv(v.c, v.r, ToSet(v.events), v.listener, a)
  BY <1>2, <1>6 DEF AcceptInv, MayAccept
<1>13. Good(v, a)
  BY <1>6, <1>8, <1>9, <1>10, <1>11, <1>12 DEF Good, ConnInv
<1>14. Apart(w, v, a)
  BY <1>5, <1>6 DEF Apart, SameExcl, MayAccept
<1>15. MoreTasks(w.tasks, v.tasks, w.c)
  BY <1>1, <1>6, MoreTasksSame
<1> QED BY <1>1, <1>6, <1>13, <1>14, <1>15 DEF Accepts, MayAccept, v

(* nn_usock_accept, by an aipc that has the listener.                      *)
LEMMA AcceptAccepts ==
    ASSUME NEW w \in Worlds, NEW a, NEW v \in Accept(w),
           QueueInv(w.events), NestInv(w.r),
           PipeInv(w.c, w.r, w.excl, ToSet(w.events)),
           PastInv(w.c, w.r, ToSet(w.events), a),
           \A e \in ToSet(w.events) : ~Acceptance(e),
           w.r.aipc = "ACCEPTING", w.c = a
    PROVE  Accepts(w, v, a)
<1> DEFINE u == [w.r EXCEPT !.usock = "BEING_ACCEPTED"]
           l == [w.listener EXCEPT !.state = "ACCEPTING"]
           p == [w EXCEPT !.r = u]
           o == [p EXCEPT !.listener = l]
           wait == ListenerTask(o, "ACCEPT")
<1>1. w.r \in Record /\ w.listener \in Listeners /\ w.backlog \in Nat
      /\ w.events \in Seq(Events) /\ w.tasks \in Seq(Tasks)
  BY DEF Worlds
<1>2. u \in Record /\ u.usock = "BEING_ACCEPTED" /\ SamePipe(w.r, u)
      /\ u.aipc = w.r.aipc /\ u.sipc = w.r.sipc
      /\ u.streamhdr = w.r.streamhdr /\ u.timer = w.r.timer
  BY <1>1 DEF Record, SamePipe
<1>3. l \in Listeners /\ l.state = "ACCEPTING"
  BY <1>1 DEF Listeners
<1>4. o = [w EXCEPT !.r.usock = "BEING_ACCEPTED",
                    !.listener.state = "ACCEPTING"]
  BY <1>1 DEF Worlds
<1>5. v \in (IF o.backlog > 0 THEN Accepted(o) ELSE {wait})
            \cup {AcceptError(o), wait}
  BY <1>4 DEF Accept
<1> HIDE DEF u, l
<1>6. o \in Worlds /\ o.c = w.c /\ o.r = u /\ o.listener = l
      /\ o.backlog = w.backlog /\ o.excl = w.excl
      /\ o.tasks = w.tasks /\ o.events = w.events
  BY <1>2, <1>3 DEF Worlds
<1> HIDE DEF o, wait
<1>7. MayAccept(o, a)
  <2>1. NestInv(u)
    BY <1>2 DEF NestInv
  <2>2. PipeInv(w.c, u, w.excl, ToSet(w.events))
    BY <1>2 DEF PipeInv, SamePipe
  <2>3. PastInv(w.c, u, ToSet(w.events), a)
    BY <1>2 DEF PastInv, Acceptance
  <2> QED BY <1>2, <1>6, <2>1, <2>2, <2>3 DEF MayAccept
<1>8. Apart(w, o, a)
  BY <1>6 DEF Apart, SameExcl
<1>9. CASE o.backlog > 0 /\ v \in Accepted(o)
  <2>1. Accepts(o, v, a)
    BY <1>6, <1>7, <1>9, AcceptedAccepts
  <2> QED BY <1>6, <1>8, <2>1 DEF Accepts, Apart
<1>10. CASE v = AcceptError(o)
  <2>1. Accepts(o, v, a)
    BY <1>6, <1>7, <1>10, AcceptErrorAccepts
  <2> QED BY <1>6, <1>8, <2>1 DEF Accepts, Apart
<1>11. CASE v = wait
  <2>1. /\ Adds(o, v)
        /\ v.r = o.r /\ v.excl = o.excl /\ v.listener = o.listener
        /\ v.events = o.events
    BY <1>6, <1>11, ListenerTaskAdds DEF wait
  <2>2. v \in Worlds /\ v.c = w.c /\ v.backlog = w.backlog
        /\ MoreTasks(w.tasks, v.tasks, w.c)
    BY <1>6, <2>1 DEF Adds
  <2>3. AcceptInv(v.c, v.r, ToSet(v.events), v.listener, a)
    BY <1>2, <1>3, <1>6, <2>1, <2>2 DEF AcceptInv
  <2>4. Good(v, a)
    BY <1>6, <1>7, <2>1, <2>2, <2>3 DEF Good, ConnInv, MayAccept
  <2>5. Apart(w, v, a)
    BY <1>6, <2>1, <2>2 DEF Apart, SameExcl
  <2> QED BY <1>1, <1>2, <1>6, <2>1, <2>2, <2>4, <2>5 DEF Accepts
<1> QED BY <1>5, <1>9, <1>10, <1>11

(* A new aipc takes the listener over, on a connection that was freed.     *)
LEMMA AipcStartAccepts ==
    ASSUME NEW w \in Worlds, NEW a, NEW v \in AipcStart(w),
           QueueInv(w.events), w.c = a,
           \A e \in ToSet(w.events) : ~Acceptance(e),
           \A e \in ToSet(w.events) : e.c = w.c => OfListener(e),
           w.excl.pipe # w.c, w.excl.inpipe # w.c, w.excl.outpipe # w.c
    PROVE  Accepts(w, v, a)
<1> DEFINE u == [Fresh EXCEPT !.aipc = "ACCEPTING"]
           o == [w EXCEPT !.r = u]
<1>1. u \in Record
  <2>1. 0 \in 0..MaxUnread
    BY BoundsAssumption
  <2>2. Fresh \in Record
    BY <2>1, Zenon DEF Fresh, Record
  <2> QED BY <2>2 DEF Record
<1>2. u.aipc = "ACCEPTING" /\ u.sipc = "IDLE" /\ u.streamhdr = "IDLE"
      /\ u.timer = "IDLE" /\ u.pipe = "IDLE"
  BY DEF Fresh
<1>3. v \in Accept(o)
  BY DEF AipcStart
<1> HIDE DEF u
<1>4. o \in Worlds /\ o.c = w.c /\ o.r = u /\ o.listener = w.listener
      /\ o.backlog = w.backlog /\ o.excl = w.excl
      /\ o.tasks = w.tasks /\ o.events = w.events
  BY <1>1 DEF Worlds
<1> HIDE DEF o
<1>5. NestInv(u)
  BY <1>2 DEF NestInv
<1>6. PipeInv(w.c, u, w.excl, ToSet(w.events))
  BY <1>2 DEF PipeInv
<1>7. PastInv(w.c, u, ToSet(w.events), a)
  BY <1>2 DEF PastInv, OfListener, AipcStopped
<1>8. Accepts(o, v, a)
  BY <1>2, <1>3, <1>4, <1>5, <1>6, <1>7, AcceptAccepts
<1>9. Apart(w, v, a)
  BY <1>4, <1>8 DEF Accepts, Apart
<1> QED BY <1>4, <1>8, <1>9 DEF Accepts
=============================================================================
