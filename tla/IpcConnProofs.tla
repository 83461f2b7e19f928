---------------------------- MODULE IpcConnProofs ----------------------------
(***************************************************************************)
(* Theorems of IpcConn, for every number of connections, whatever accept,  *)
(* the peers and nn_shutdown do: the machines stay in their states, what   *)
(* is freed is forgotten, the ready directions are ready, and the machines *)
(* implement the pair socket.  IpcMachinesProofs has the invariant, and    *)
(* what each operation on a connection does to it.                         *)
(***************************************************************************)
EXTENDS IpcMachinesProofs, FiniteSetTheorems, WellFoundedInduction

(***************************************************************************)
(* A step.  The pair socket changes as it may, and the invariant holds     *)
(* after it.                                                               *)
(***************************************************************************)
LosesPeer ==
    \E c \in Conn : /\ excl.pipe = c /\ excl' = NoPipes
                    /\ conn[c].pipe = "ACTIVE" /\ conn'[c].pipe = "IDLE"

ExclStep ==
    \/ excl' = excl
    \/ \E c \in Conn : excl.pipe = None /\ excl' = [excl EXCEPT !.pipe = c]
    \/ /\ excl.outpipe = None /\ excl.pipe # None
       /\ excl' = [excl EXCEPT !.outpipe = excl.pipe]
    \/ /\ excl.inpipe = None /\ excl.pipe # None
       /\ excl' = [excl EXCEPT !.inpipe = excl.pipe]
    \/ excl.outpipe # None /\ excl' = [excl EXCEPT !.outpipe = None]
    \/ excl.inpipe # None /\ excl' = [excl EXCEPT !.inpipe = None]
    \/ LosesPeer

Kept == IInv' /\ ExclStep

(* The part of the state that an operation on connection c may touch.      *)
LEMMA WorldType ==
    ASSUME IInv, NEW c \in Conn
    PROVE  /\ World(c) \in Worlds /\ World(c).c = c /\ World(c).r = conn[c]
           /\ World(c).excl = excl /\ World(c).listener = listener
           /\ World(c).backlog = backlog /\ World(c).tasks = tasks
           /\ events = <<>> => World(c).events = events
           /\ events # <<>> => World(c).events = Tail(events)
<1> DEFINE q == IF events = <<>> THEN <<>> ELSE Tail(events)
<1>1. q \in Seq(Events)
  <2>1. events \in Seq(Events)
    BY DEF IInv, TypeInv
  <2>2. CASE events = <<>>
    BY <2>2
  <2>3. CASE events # <<>>
    BY <2>1, <2>3, TailSet
  <2> QED BY <2>2, <2>3
<1>2. conn[c] \in Record /\ listener \in Listeners /\ backlog \in Nat
      /\ excl \in Excls /\ tasks \in Seq(Tasks)
  <2>1. Cardinality(Conn) \in Nat
    BY FS_CardinalityType, BoundsAssumption
  <2> QED BY <2>1 DEF IInv, TypeInv
<1>3. World(c) = [c |-> c, r |-> conn[c], listener |-> listener,
                  backlog |-> backlog, excl |-> excl, tasks |-> tasks,
                  events |-> q]
  BY DEF World
<1> HIDE DEF q
<1>4. World(c) \in Worlds
  BY <1>1, <1>2, <1>3 DEF Worlds
<1> QED BY <1>3, <1>4 DEF q

(* Without an event to handle.                                             *)
LEMMA IdleWorld ==
    ASSUME IInv, NEW c \in Conn, events = <<>>
    PROVE  /\ World(c) \in Worlds /\ World(c).c = c /\ World(c).r = conn[c]
           /\ World(c).excl = excl /\ World(c).listener = listener
           /\ World(c).backlog = backlog /\ World(c).tasks = tasks
           /\ World(c).events = <<>> /\ ToSet(World(c).events) = {}
           /\ Good(World(c), bipc.aipc)
           /\ \A d \in Conn \ {c} :
                 ConnInv(d, conn[d], excl, ToSet(World(c).events), listener,
                         bipc.aipc)
<1>1. /\ World(c) \in Worlds /\ World(c).c = c /\ World(c).r = conn[c]
      /\ World(c).excl = excl /\ World(c).listener = listener
      /\ World(c).backlog = backlog /\ World(c).tasks = tasks
      /\ World(c).events = events
  BY WorldType
<1>2. ToSet(events) = {}
  BY DEF ToSet
<1>3. QueueInv(events)
      /\ \A d \in Conn : ConnInv(d, conn[d], excl, ToSet(events), listener,
                                 bipc.aipc)
  BY DEF IInv
<1>4. Good(World(c), bipc.aipc)
  BY <1>1, <1>3 DEF Good
<1> QED BY <1>1, <1>2, <1>3, <1>4

(* The event at the head is taken from the queue.                          *)
LEMMA HandledWorld ==
    ASSUME IInv, events # <<>>
    PROVE  /\ C \in Conn /\ Head(events) \in Events
           /\ W \in Worlds /\ W.c = C /\ W.r = conn[C]
           /\ W.excl = excl /\ W.listener = listener
           /\ W.backlog = backlog /\ W.tasks = tasks
           /\ W.events = Tail(events) /\ QueueInv(W.events)
           /\ ToSet(events) = {Head(events)} \cup ToSet(W.events)
           /\ ConnInv(C, conn[C], excl, ToSet(events), listener, bipc.aipc)
           /\ Acceptance(Head(events))
                 => \A f \in ToSet(W.events) : ~Acceptance(f)
           /\ \A f \in ToSet(W.events) :
                 Head(events) = AipcStopped(f.c) => OfListener(f)
           /\ \A d \in Conn \ {C} :
                 ConnInv(d, conn[d], excl, ToSet(W.events), listener,
                         bipc.aipc)
<1>1. events \in Seq(Events) /\ QueueInv(events)
      /\ \A d \in Conn : ConnInv(d, conn[d], excl, ToSet(events), listener,
                                 bipc.aipc)
  BY DEF IInv, TypeInv
<1>2. Head(events) \in Events
      /\ ToSet(events) = {Head(events)} \cup ToSet(Tail(events))
  BY <1>1, TailSet
<1>3. C \in Conn
  BY <1>2 DEF C, Events
<1>4. /\ W \in Worlds /\ W.c = C /\ W.r = conn[C]
      /\ W.excl = excl /\ W.listener = listener
      /\ W.backlog = backlog /\ W.tasks = tasks /\ W.events = Tail(events)
  BY <1>3, WorldType DEF W
<1>5. /\ QueueInv(Tail(events))
      /\ Acceptance(Head(events))
            => \A f \in ToSet(Tail(events)) : ~Acceptance(f)
      /\ \A f \in ToSet(Tail(events)) :
            Head(events) = AipcStopped(f.c) => OfListener(f)
  BY <1>1, TailQueue
<1>6. ASSUME NEW d \in Conn \ {C}
      PROVE  ConnInv(d, conn[d], excl, ToSet(Tail(events)), listener,
                     bipc.aipc)
  <2> DEFINE s == ToSet(events)
             t == ToSet(Tail(events))
             r == conn[d]
  <2>1. \A e : e.c = d => (e \in t <=> e \in s)
    BY <1>2 DEF C
  <2>2. SipcBroken(d).c = d /\ AipcStopped(d).c = d
    BY DEF SipcBroken, AipcStopped
  <2>3. ConnInv(d, r, excl, s, listener, bipc.aipc)
    BY <1>1
  <2> HIDE DEF s, t, r
  <2>4. \A x, type : Offered(d, t, x, type) => Offered(d, s, x, type)
    BY <2>1 DEF Offered
  <2>5. PipeInv(d, r, excl, t)
    BY <2>1, <2>2, <2>3, <2>4 DEF ConnInv, PipeInv
  <2>6. PastInv(d, r, t, bipc.aipc)
    BY <2>1, <2>3 DEF ConnInv, PastInv
  <2>7. AcceptInv(d, r, t, listener, bipc.aipc)
    BY <2>1, <2>2, <2>3 DEF ConnInv, AcceptInv
  <2> QED BY <2>3, <2>5, <2>6, <2>7 DEF ConnInv, t, r
<1>7. ConnInv(C, conn[C], excl, ToSet(events), listener, bipc.aipc)
  BY <1>1, <1>3
<1> QED BY <1>2, <1>3, <1>4, <1>5, <1>6, <1>7

(* The connection is as it was, unless aipc or sipc told its end.          *)
LEMMA HandledGood ==
    ASSUME IInv, events # <<>>,
           Head(events) # AipcStopped(C) \/ conn[C].aipc # "IDLE",
           Head(events) # SipcBroken(C) \/ conn[C].pipe # "ACTIVE"
    PROVE  Good(W, bipc.aipc)
<1> DEFINE s == ToSet(events)
           t == ToSet(W.events)
           r == conn[C]
           a == bipc.aipc
<1>1. /\ C \in Conn /\ W \in Worlds /\ W.c = C /\ W.r = r
      /\ W.excl = excl /\ W.listener = listener /\ QueueInv(W.events)
      /\ s = {Head(events)} \cup t
      /\ ConnInv(C, r, excl, s, listener, a)
  BY HandledWorld
<1>2. Head(events) # AipcStopped(C) \/ r.aipc # "IDLE"
  OBVIOUS
<1>3. Head(events) # SipcBroken(C) \/ r.pipe # "ACTIVE"
  OBVIOUS
<1> HIDE DEF s, t, r, a
<1>4. NestInv(r) /\ PipeInv(C, r, excl, s) /\ PastInv(C, r, s, a)
      /\ AcceptInv(C, r, s, listener, a)
  BY <1>1 DEF ConnInv
<1>5. \A x, type : Offered(C, t, x, type) => Offered(C, s, x, type)
  BY <1>1 DEF Offered
<1>6. PipeInv(C, r, excl, t)
  BY <1>1, <1>3, <1>4, <1>5 DEF PipeInv
<1>7. PastInv(C, r, t, a)
  BY <1>1, <1>4 DEF PastInv
<1>8. AcceptInv(C, r, t, listener, a)
  BY <1>1, <1>2, <1>4 DEF AcceptInv
<1> QED BY <1>1, <1>4, <1>6, <1>7, <1>8 DEF Good, ConnInv, t, a

(* What a step leaves behind, one variable at a time.                      *)
LEMMA EnterFacts ==
    ASSUME NEW v, Enter(v)
    PROVE  /\ conn' = [conn EXCEPT ![v.c] = v.r]
           /\ listener' = v.listener /\ backlog' = v.backlog
           /\ excl' = v.excl /\ events' = v.events /\ tasks' = v.tasks
BY DEF Enter

(* A step of one connection, which stays in use.                           *)
LEMMA StepKeeps ==
    ASSUME IInv, NEW w \in Worlds, w.excl = excl, w.listener = listener,
           w.tasks = tasks,
           \A d \in Conn \ {w.c} :
              ConnInv(d, conn[d], excl, ToSet(w.events), listener, bipc.aipc),
           NEW v, Enter(v), Good(v, bipc.aipc), Apart(w, v, bipc.aipc),
           MoreTasks(w.tasks, v.tasks, w.c),
           v.backlog \in 0..Cardinality(Conn),
           v.r.aipc # "FREE",
           bipc' \in Bipcs, bipc'.aipc = bipc.aipc, bipc'.aipcs = bipc.aipcs,
           bipc'.state \in {"ACTIVE", "STOPPING_AIPC"}
              <=> bipc.state \in {"ACTIVE", "STOPPING_AIPC"},
           batch' \in Seq(Tasks), ToSet(batch') \subseteq ToSet(batch)
    PROVE  IInv'
<1>1. /\ conn' = [conn EXCEPT ![v.c] = v.r]
      /\ listener' = v.listener /\ backlog' = v.backlog
      /\ excl' = v.excl /\ events' = v.events /\ tasks' = v.tasks
  BY EnterFacts
<1>2. v.c = w.c /\ w.c \in Conn /\ v \in Worlds
  BY DEF Apart, Good, Worlds
<1>3. /\ conn \in [Conn -> Record] /\ v.r \in Record
      /\ v.listener \in Listeners /\ v.excl \in Excls
      /\ v.events \in Seq(Events) /\ v.tasks \in Seq(Tasks)
  BY <1>2 DEF IInv, TypeInv, Worlds
<1>4. conn' \in [Conn -> Record] /\ conn'[w.c] = v.r
      /\ \A d \in Conn \ {w.c} : conn'[d] = conn[d]
  BY <1>1, <1>2, <1>3
<1>5. TypeInv'
  BY <1>1, <1>3, <1>4 DEF TypeInv
<1>6. QueueInv(events')
  BY <1>1 DEF Good
<1>7. ASSUME NEW d \in Conn
      PROVE  ConnInv(d, conn'[d], excl', ToSet(events'), listener',
                     bipc'.aipc)
  <2>1. CASE d = w.c
    BY <1>1, <1>2, <1>4, <2>1 DEF Good
  <2>2. CASE d # w.c
    <3>1. ConnInv(d, conn[d], w.excl, ToSet(w.events), w.listener, bipc.aipc)
      BY <2>2
    <3>2. ConnInv(d, conn[d], v.excl, ToSet(v.events), v.listener, bipc.aipc)
      BY <2>2, <3>1, ApartKeeps
    <3> QED BY <1>1, <1>4, <2>2, <3>2
  <2> QED BY <2>1, <2>2
<1>8. BipcInv'
  <2>1. BipcInv /\ bipc.aipcs \in Seq(Conn)
    BY DEF IInv, TypeInv, Bipcs
  <2>2. listener' = listener \/ bipc.aipc # None
    BY <1>1, <1>2, IpcAssumption DEF Apart
  <2>3. ASSUME NEW i \in DOMAIN bipc.aipcs
        PROVE  conn'[bipc.aipcs[i]].aipc # "FREE"
    <3>1. bipc.aipcs[i] \in Conn
      BY <2>1
    <3> QED BY <1>4, <2>1, <3>1 DEF BipcInv
  <2>4. bipc.aipc # None => conn'[bipc.aipc].aipc # "FREE"
    <3>1. bipc.aipc \in Conn \cup {None}
      BY DEF IInv, TypeInv, Bipcs
    <3> QED BY <1>4, <2>1, <3>1 DEF BipcInv
  <2> QED BY <2>1, <2>2, <2>3, <2>4 DEF BipcInv
<1>9. TaskInv'
  <2> SUFFICES ASSUME NEW d \in Conn, conn'[d].aipc = "FREE"
               PROVE  /\ \A t \in ToSet(tasks') : t.c # d
                      /\ \A t \in ToSet(batch') : t.c # d
    BY DEF TaskInv
  <2>1. d # w.c /\ d # None /\ conn[d].aipc = "FREE"
    BY <1>4, IpcAssumption
  <2>2. TaskInv
    BY DEF IInv
  <2> QED BY <1>1, <2>1, <2>2 DEF TaskInv, MoreTasks
<1> QED BY <1>5, <1>6, <1>7, <1>8, <1>9 DEF IInv

(* A step that leaves bipc's machine alone.                                *)
LEMMA SameBipc ==
    ASSUME IInv, bipc' = bipc
    PROVE  /\ bipc' \in Bipcs /\ bipc'.aipc = bipc.aipc
           /\ bipc'.aipcs = bipc.aipcs
           /\ bipc'.state \in {"ACTIVE", "STOPPING_AIPC"}
                 <=> bipc.state \in {"ACTIVE", "STOPPING_AIPC"}
BY DEF IInv, TypeInv

(* The other connections keep theirs, and excl is as its pipe leaves it.   *)
LEMMA ExclGone ==
    ASSUME IInv, NEW w, NEW v, Enter(v), v.c = w.c, w.c \in Conn,
           w.excl = excl, w.r = conn[w.c], PipeGone(w, v)
    PROVE  ExclStep
<1>1. excl' = v.excl /\ conn' = [conn EXCEPT ![v.c] = v.r]
  BY EnterFacts
<1>2. conn \in [Conn -> Record] /\ PipeInv(w.c, conn[w.c], excl, ToSet(events))
  BY DEF IInv, TypeInv, ConnInv
<1>3. conn'[w.c] = v.r
  BY <1>1, <1>2
<1>4. CASE conn[w.c].pipe = "ACTIVE"
  <2>1. excl.pipe = w.c /\ excl' = NoPipes /\ conn'[w.c].pipe = "IDLE"
    BY <1>1, <1>2, <1>3, <1>4 DEF PipeGone, PipeInv
  <2> QED BY <1>4, <2>1 DEF ExclStep, LosesPeer
<1>5. CASE conn[w.c].pipe # "ACTIVE"
  BY <1>1, <1>5 DEF PipeGone, ExclStep
<1> QED BY <1>4, <1>5

(* A first step of one connection.                                         *)
LEMMA FirstKeeps ==
    ASSUME IInv, events = <<>>, NEW c \in Conn, NEW v, Enter(v),
           Good(v, bipc.aipc), Adds(World(c), v), v.r.aipc # "FREE",
           v.listener = listener, SameExcl(excl, v.excl, c),
           bipc' = bipc, batch' \in Seq(Tasks),
           ToSet(batch') \subseteq ToSet(batch)
    PROVE  IInv'
<1> DEFINE w == World(c)
<1>1. /\ w \in Worlds /\ w.c = c /\ w.excl = excl /\ w.listener = listener
      /\ w.backlog = backlog /\ w.tasks = tasks
      /\ \A d \in Conn \ {c} :
            ConnInv(d, conn[d], excl, ToSet(w.events), listener, bipc.aipc)
  BY IdleWorld
<1>2. Adds(w, v)
  OBVIOUS
<1> HIDE DEF w
<1>3. Apart(w, v, bipc.aipc)
  BY <1>1, <1>2, AddsApart
<1>4. MoreTasks(w.tasks, v.tasks, w.c) /\ v.backlog \in 0..Cardinality(Conn)
  BY <1>1, <1>2 DEF Adds, IInv, TypeInv
<1> QED BY <1>1, <1>3, <1>4, StepKeeps, SameBipc

(* A handler's step.                                                       *)
LEMMA HandlerKeeps ==
    ASSUME IInv, events # <<>>, NEW v, Leave(v),
           Good(v, bipc.aipc), Adds(W, v), v.r.aipc # "FREE",
           v.listener = listener, SameExcl(excl, v.excl, C)
    PROVE  IInv'
<1> DEFINE w == W
<1>1. /\ w \in Worlds /\ w.c = C /\ w.excl = excl /\ w.listener = listener
      /\ w.backlog = backlog /\ w.tasks = tasks
      /\ \A d \in Conn \ {C} :
            ConnInv(d, conn[d], excl, ToSet(w.events), listener, bipc.aipc)
  BY HandledWorld
<1>2. Adds(w, v) /\ Enter(v) /\ bipc' = bipc /\ batch' = batch
  BY DEF Leave
<1> HIDE DEF w
<1>3. Apart(w, v, bipc.aipc)
  BY <1>1, <1>2, AddsApart
<1>4. MoreTasks(w.tasks, v.tasks, w.c) /\ v.backlog \in 0..Cardinality(Conn)
      /\ batch \in Seq(Tasks)
  BY <1>1, <1>2 DEF Adds, IInv, TypeInv
<1> QED BY <1>1, <1>2, <1>3, <1>4, StepKeeps, SameBipc

(***************************************************************************)
(* Most steps leave the pair socket, the listener and the connection's     *)
(* pipe alone.                                                             *)
(***************************************************************************)
Quiet(w, v) ==
    /\ Adds(w, v)
    /\ v.excl = w.excl /\ v.listener = w.listener
    /\ SamePipe(w.r, v.r) /\ SameAccept(w.r, v.r)
    /\ w.r.aipc \notin {"FREE", "IDLE"} /\ v.r.aipc \notin {"FREE", "IDLE"}
    /\ v.r.aipc = "ACCEPTING" => w.r.aipc = "ACCEPTING"
    /\ v.r.aipc = "ACTIVE" => w.r.aipc = "ACTIVE"
    /\ v.r.sipc \in {"PROTOHDR", "STOPPING_STREAMHDR"}
          => w.r.sipc \in {"PROTOHDR", "STOPPING_STREAMHDR"}
    /\ NestInv(v.r)
    /\ w.r.pipe = "ACTIVE" =>
          /\ v.r.aipc = w.r.aipc
          /\ \/ v.r.sipc = w.r.sipc
             \/ v.r.sipc = "DONE" /\ SipcBroken(v.c) \in ToSet(v.events)

(* Such an operation keeps its own connection's part of the invariant,     *)
LEMMA QuietGood ==
    ASSUME NEW w \in Worlds, NEW v, NEW a, Good(w, a), Quiet(w, v)
    PROVE  Good(v, a) /\ SameExcl(w.excl, v.excl, w.c)
<1>1. w.r.pipe = "ACTIVE" => w.r.aipc = "ACTIVE"
  BY DEF Good, ConnInv, PipeInv
<1>2. PipeInv(v.c, v.r, v.excl, ToSet(v.events))
  BY <1>1, PipeKept DEF Quiet
<1>3. Good(v, a)
  BY <1>2, GoodKept DEF Quiet
<1> QED BY <1>3 DEF Quiet, SameExcl

(* and as a first step the whole of it,                                    *)
LEMMA QuietFirst ==
    ASSUME IInv, events = <<>>, NEW c \in Conn, NEW v, Enter(v),
           Quiet(World(c), v), bipc' = bipc, batch' \in Seq(Tasks),
           ToSet(batch') \subseteq ToSet(batch)
    PROVE  Kept
<1> DEFINE w == World(c)
<1>1. /\ w \in Worlds /\ w.c = c /\ w.excl = excl /\ w.listener = listener
      /\ Good(w, bipc.aipc)
  BY IdleWorld
<1>2. Good(v, bipc.aipc) /\ SameExcl(w.excl, v.excl, w.c)
  BY <1>1, QuietGood
<1>3. Adds(w, v) /\ v.r.aipc # "FREE" /\ v.listener = w.listener
      /\ v.excl = w.excl
  BY DEF Quiet
<1> HIDE DEF w
<1>4. IInv'
  BY <1>1, <1>2, <1>3, FirstKeeps DEF w
<1>5. excl' = excl
  BY <1>1, <1>3, EnterFacts
<1> QED BY <1>4, <1>5 DEF Kept, ExclStep

(* and as the step of a handler.                                           *)
LEMMA QuietHandler ==
    ASSUME IInv, events # <<>>, Good(W, bipc.aipc), NEW v, Leave(v),
           Quiet(W, v)
    PROVE  Kept
<1> DEFINE w == W
<1>1. w \in Worlds /\ w.c = C /\ w.excl = excl /\ w.listener = listener
  BY HandledWorld
<1>2. Good(v, bipc.aipc) /\ SameExcl(w.excl, v.excl, w.c)
  BY <1>1, QuietGood
<1>3. Adds(w, v) /\ v.r.aipc # "FREE" /\ v.listener = w.listener
      /\ v.excl = w.excl
  BY DEF Quiet
<1> HIDE DEF w
<1>4. IInv'
  BY <1>1, <1>2, <1>3, HandlerKeeps DEF w
<1>5. excl' = excl
  BY <1>1, <1>3, EnterFacts DEF Leave
<1> QED BY <1>4, <1>5 DEF Kept, ExclStep

(* An event for streamhdr or sipc is no end of an aipc, nor of an sipc.    *)
LEMMA InnerGood ==
    ASSUME IInv, events # <<>>, Head(events).to \notin {"aipc", "bipc"}
    PROVE  Good(W, bipc.aipc) /\ W \in Worlds /\ W.c = C /\ NestInv(W.r)
           /\ W.excl = excl /\ W.listener = listener /\ W.r = conn[C]
<1>1. Head(events) # AipcStopped(C) /\ Head(events) # SipcBroken(C)
  BY DEF AipcStopped, SipcBroken
<1>2. Good(W, bipc.aipc)
  BY <1>1, HandledGood
<1>3. W \in Worlds /\ W.c = C /\ W.excl = excl /\ W.listener = listener
      /\ W.r = conn[C]
  BY HandledWorld
<1> QED BY <1>2, <1>3 DEF Good, ConnInv

-----------------------------------------------------------------------------
(* streamhdr's handler.                                                    *)
LEMMA StreamhdrHandlerKeeps ==
    ASSUME IInv, StreamhdrHandler
    PROVE  Kept
<1>1. events # <<>> /\ Head(events).to = "streamhdr"
  BY DEF StreamhdrHandler, On, StreamhdrSent, StreamhdrReceived,
         StreamhdrShutdown, StreamhdrFails, StreamhdrIgnores,
         StreamhdrTimerStopped, StreamhdrStops
<1> DEFINE w == W
           r == W.r
<1>2. Good(w, bipc.aipc) /\ w \in Worlds /\ NestInv(r)
  BY <1>1, InnerGood
<1> HIDE DEF w, r
<1>3. r = w.r
  BY DEF w, r
<1>4. SUFFICES ASSUME r.streamhdr # "IDLE"
               PROVE  \E v : Leave(v) /\ Quiet(w, v)
  <2>1. W.r.streamhdr # "IDLE"
    BY DEF StreamhdrHandler, StreamhdrSent, StreamhdrReceived,
           StreamhdrShutdown, StreamhdrFails, StreamhdrIgnores,
           StreamhdrTimerStopped, StreamhdrStops
  <2> QED BY <1>1, <1>2, <2>1, QuietHandler DEF w, r
<1>5. /\ r.sipc # "IDLE"
      /\ r.aipc \notin {"FREE", "IDLE", "ACCEPTING", "STOPPING"}
  BY <1>2, <1>4 DEF NestInv
<1>6. CASE StreamhdrSent
  <2> DEFINE o == UsockRecv(w)
             v == [o EXCEPT !.r.streamhdr = "RECEIVING"]
  <2>1. Leave(v)
    BY <1>6 DEF StreamhdrSent, w
  <2>2. MayFail(w, o) /\ o \in Worlds
    BY <1>2, UsockRecvEffect DEF MayFail, UsockOnly, Below, Adds
  <2> HIDE DEF o
  <2>3. TimerOnly(o, v) /\ v.r.timer = o.r.timer
        /\ v.r.streamhdr = "RECEIVING"
    BY <2>2, StreamhdrSet
  <2>4. Below(w, v)
    BY <1>2, <2>2, <2>3, BelowTrans DEF MayFail, UsockOnly, TimerOnly
  <2>5. v.r.aipc = r.aipc /\ v.r.sipc = r.sipc /\ SameAccept(r, v.r)
    BY <1>3, <2>2, <2>3, <2>4
       DEF Below, MayFail, UsockOnly, TimerOnly, SameAccept
  <2>6. NestInv(v.r)
    BY <1>2, <1>5, <2>3, <2>5 DEF NestInv
  <2>7. Quiet(w, v)
    BY <1>3, <1>5, <2>4, <2>5, <2>6 DEF Quiet, Below
  <2> QED BY <2>1, <2>7
<1>7. CASE StreamhdrReceived
  <2>1. PICK next \in {"STOPPING_TIMER_DONE", "STOPPING_TIMER_ERROR"} :
           Leave([TimerStop(w) EXCEPT !.r.streamhdr = next])
    BY <1>7 DEF StreamhdrReceived, w
  <2> DEFINE o == TimerStop(w)
             v == [o EXCEPT !.r.streamhdr = next]
  <2>2. TimerOnly(w, o) /\ o \in Worlds
    BY <1>2, TimerStopEffect DEF TimerOnly, Below, Adds
  <2> HIDE DEF o
  <2>3. TimerOnly(o, v) /\ v.r.streamhdr = next
    <3>1. next \in {"IDLE", "SENDING", "RECEIVING", "DONE", "STOPPING",
                    "STOPPING_TIMER_ERROR", "STOPPING_TIMER_DONE"}
      OBVIOUS
    <3> QED BY <2>2, <3>1, StreamhdrSet, Zenon
  <2>4. TimerOnly(w, v)
    BY <1>2, <2>2, <2>3, TimerOnlyTrans
  <2>5. v.r.aipc = r.aipc /\ v.r.sipc = r.sipc /\ SameAccept(r, v.r)
        /\ v.r.usock = r.usock
    BY <1>3, <2>4 DEF Below, TimerOnly, SameAccept
  <2>6. NestInv(v.r)
    BY <1>2, <1>5, <2>3, <2>5 DEF NestInv
  <2>7. Quiet(w, v)
    BY <1>3, <1>5, <2>4, <2>5, <2>6 DEF Quiet, Below, TimerOnly
  <2> QED BY <2>1, <2>7 DEF o
<1>8. CASE StreamhdrShutdown \/ StreamhdrIgnores
  <2>1. Leave(w)
    BY <1>8 DEF StreamhdrShutdown, StreamhdrIgnores, w
  <2>2. Quiet(w, w)
    BY <1>2, <1>3, <1>5, AddsSame DEF Quiet, SamePipe, SameAccept
  <2> QED BY <2>1, <2>2
<1>9. CASE StreamhdrFails
  <2> DEFINE o == TimerStop(w)
             v == [o EXCEPT !.r.streamhdr = "STOPPING_TIMER_ERROR"]
  <2>1. Leave(v)
    BY <1>9 DEF StreamhdrFails, w
  <2>2. TimerOnly(w, o) /\ o \in Worlds
    BY <1>2, TimerStopEffect DEF TimerOnly, Below, Adds
  <2> HIDE DEF o
  <2>3. TimerOnly(o, v) /\ v.r.streamhdr = "STOPPING_TIMER_ERROR"
    BY <2>2, StreamhdrSet, Zenon
  <2>4. TimerOnly(w, v)
    BY <1>2, <2>2, <2>3, TimerOnlyTrans
  <2>5. v.r.aipc = r.aipc /\ v.r.sipc = r.sipc /\ SameAccept(r, v.r)
        /\ v.r.usock = r.usock
    BY <1>3, <2>4 DEF Below, TimerOnly, SameAccept
  <2>6. NestInv(v.r)
    BY <1>2, <1>5, <2>3, <2>5 DEF NestInv
  <2>7. Quiet(w, v)
    BY <1>3, <1>5, <2>4, <2>5, <2>6 DEF Quiet, Below, TimerOnly
  <2> QED BY <2>1, <2>7
<1>10. CASE StreamhdrTimerStopped
  <2> DEFINE type == IF w.r.streamhdr = "STOPPING_TIMER_DONE"
                     THEN "OK" ELSE "ERROR"
             o == [w EXCEPT !.r.streamhdr = "DONE"]
             p == [o EXCEPT !.r.owner = "sipc"]
             v == Raise(p, "sipc", "streamhdr", type)
  <2>1. Leave(v)
    BY <1>2, <1>10 DEF StreamhdrTimerStopped, w, Worlds, Record
  <2>2. (type = "OK" \/ type = "ERROR") /\ "sipc" \in Machines \ {"bipc"}
    BY DEF Machines
  <2> HIDE DEF type
  <2>3. TimerOnly(w, o) /\ o.r.streamhdr = "DONE" /\ o \in Worlds
    BY <1>2, StreamhdrSet, ZenonT(30) DEF TimerOnly, Below, Adds
  <2> HIDE DEF o
  <2>4. TimerOnly(o, p) /\ p.r.streamhdr = o.r.streamhdr /\ p \in Worlds
    BY <2>3, OwnerSet, Zenon DEF TimerOnly, Below, Adds
  <2> HIDE DEF p
  <2>5. Adds(p, v) /\ v.r = p.r /\ v.excl = p.excl /\ v.listener = p.listener
    <3>1. CASE type = "OK"
      BY <2>2, <2>4, <3>1, RaiseAdds, ZenonT(30)
    <3>2. CASE type = "ERROR"
      BY <2>2, <2>4, <3>2, RaiseAdds, ZenonT(30)
    <3> QED BY <2>2, <3>1, <3>2
  <2> HIDE DEF v
  <2>6. TimerOnly(p, v)
    BY <2>5 DEF TimerOnly, Below, SamePipe
  <2>7. TimerOnly(w, v)
    BY <1>2, <2>3, <2>4, <2>6, TimerOnlyTrans
  <2>8. v.r.aipc = r.aipc /\ v.r.sipc = r.sipc /\ SameAccept(r, v.r)
        /\ v.r.usock = r.usock
    BY <1>3, <2>7 DEF Below, TimerOnly, SameAccept
  <2>9. NestInv(v.r)
    BY <1>2, <1>5, <2>3, <2>4, <2>5, <2>8 DEF NestInv
  <2>10. Quiet(w, v)
    BY <1>3, <1>5, <2>7, <2>8, <2>9 DEF Quiet, Below, TimerOnly
  <2> QED BY <2>1, <2>10
<1>11. CASE StreamhdrStops
  <2> DEFINE v == StreamhdrStopping(w)
  <2>1. Leave(v)
    BY <1>11 DEF StreamhdrStops, w
  <2>2. /\ TimerOnly(w, v) /\ v.r.timer = w.r.timer
        /\ v = w \/ (w.r.timer = "IDLE" /\ v.r.streamhdr = "IDLE")
    BY <1>2, StreamhdrStoppingEffect
  <2> HIDE DEF v
  <2>3. v.r.aipc = r.aipc /\ v.r.sipc = r.sipc /\ SameAccept(r, v.r)
        /\ v.r.usock = r.usock
    BY <1>3, <2>2 DEF Below, TimerOnly, SameAccept
  <2>4. NestInv(v.r)
    BY <1>2, <1>3, <1>5, <2>2, <2>3 DEF NestInv
  <2>5. Quiet(w, v)
    BY <1>3, <1>5, <2>2, <2>3, <2>4 DEF Quiet, Below, TimerOnly
  <2> QED BY <2>1, <2>5
<1> QED BY <1>6, <1>7, <1>8, <1>9, <1>10, <1>11 DEF StreamhdrHandler

-----------------------------------------------------------------------------
(* What sipc and the pair socket tell each other about the pipe.           *)

(* The machines are left alone.                                            *)
SameMachines(r, u) ==
    /\ u.aipc = r.aipc /\ u.sipc = r.sipc /\ u.streamhdr = r.streamhdr
    /\ u.timer = r.timer /\ u.usock = r.usock

(* Only what is received, or sent, may have changed.                       *)
SetsIn(w, v) ==
    /\ Adds(w, v) /\ v.excl = w.excl /\ v.listener = w.listener
    /\ v.events = w.events /\ SameMachines(w.r, v.r) /\ v.r.pipe = w.r.pipe
    /\ v.r.outstate = w.r.outstate /\ v.r.pipeout = w.r.pipeout

SetsOut(w, v) ==
    /\ Adds(w, v) /\ v.excl = w.excl /\ v.listener = w.listener
    /\ v.events = w.events /\ SameMachines(w.r, v.r) /\ v.r.pipe = w.r.pipe
    /\ v.r.instate = w.r.instate /\ v.r.pipein = w.r.pipein

(* sipc's state of reception alone is set,                                 *)
LEMMA InstateSet ==
    ASSUME NEW w \in Worlds, NEW x \in {"NONE", "HDR", "BODY", "HASMSG"}
    PROVE  LET v == [w EXCEPT !.r.instate = x]
           IN  SetsIn(w, v) /\ v.r.instate = x /\ v.r.pipein = w.r.pipein
<1> DEFINE u == [w.r EXCEPT !.instate = x]
           v == [w EXCEPT !.r.instate = x]
<1>1. w.r \in Record /\ v = [w EXCEPT !.r = u]
  BY DEF Worlds
<1>2. u \in Record /\ u.instate = x /\ u.pipein = w.r.pipein
      /\ u.outstate = w.r.outstate /\ u.pipeout = w.r.pipeout
      /\ u.pipe = w.r.pipe /\ SameMachines(w.r, u)
  BY <1>1 DEF Record, SameMachines
<1> HIDE DEF u, v
<1>3. Adds(w, v) /\ v.r = u /\ v.excl = w.excl /\ v.listener = w.listener
      /\ v.events = w.events
  BY <1>1, <1>2, SetAdds
<1> QED BY <1>2, <1>3 DEF v, SetsIn

(* the pipe's,                                                             *)
LEMMA PipeinSet ==
    ASSUME NEW w \in Worlds, NEW x \in {"DEACTIVATED", "IDLE", "ASYNC"}
    PROVE  LET v == [w EXCEPT !.r.pipein = x]
           IN  SetsIn(w, v) /\ v.r.pipein = x /\ v.r.instate = w.r.instate
<1> DEFINE u == [w.r EXCEPT !.pipein = x]
           v == [w EXCEPT !.r.pipein = x]
<1>1. w.r \in Record /\ v = [w EXCEPT !.r = u]
  BY DEF Worlds
<1>2. u \in Record /\ u.instate = w.r.instate /\ u.pipein = x
      /\ u.outstate = w.r.outstate /\ u.pipeout = w.r.pipeout
      /\ u.pipe = w.r.pipe /\ SameMachines(w.r, u)
  BY <1>1 DEF Record, SameMachines
<1> HIDE DEF u, v
<1>3. Adds(w, v) /\ v.r = u /\ v.excl = w.excl /\ v.listener = w.listener
      /\ v.events = w.events
  BY <1>1, <1>2, SetAdds
<1> QED BY <1>2, <1>3 DEF v, SetsIn

(* sipc's state of sending,                                                *)
LEMMA OutstateSet ==
    ASSUME NEW w \in Worlds, NEW x \in {"NONE", "IDLE", "SENDING"}
    PROVE  LET v == [w EXCEPT !.r.outstate = x]
           IN  SetsOut(w, v) /\ v.r.outstate = x /\ v.r.pipeout = w.r.pipeout
<1> DEFINE u == [w.r EXCEPT !.outstate = x]
           v == [w EXCEPT !.r.outstate = x]
<1>1. w.r \in Record /\ v = [w EXCEPT !.r = u]
  BY DEF Worlds
<1>2. u \in Record /\ u.outstate = x /\ u.pipeout = w.r.pipeout
      /\ u.instate = w.r.instate /\ u.pipein = w.r.pipein
      /\ u.pipe = w.r.pipe /\ SameMachines(w.r, u)
  BY <1>1 DEF Record, SameMachines
<1> HIDE DEF u, v
<1>3. Adds(w, v) /\ v.r = u /\ v.excl = w.excl /\ v.listener = w.listener
      /\ v.events = w.events
  BY <1>1, <1>2, SetAdds
<1> QED BY <1>2, <1>3 DEF v, SetsOut

(* and the pipe's.                                                         *)
LEMMA PipeoutSet ==
    ASSUME NEW w \in Worlds, NEW x \in {"DEACTIVATED", "IDLE", "ASYNC"}
    PROVE  LET v == [w EXCEPT !.r.pipeout = x]
           IN  SetsOut(w, v) /\ v.r.pipeout = x /\ v.r.outstate = w.r.outstate
<1> DEFINE u == [w.r EXCEPT !.pipeout = x]
           v == [w EXCEPT !.r.pipeout = x]
<1>1. w.r \in Record /\ v = [w EXCEPT !.r = u]
  BY DEF Worlds
<1>2. u \in Record /\ u.outstate = w.r.outstate /\ u.pipeout = x
      /\ u.instate = w.r.instate /\ u.pipein = w.r.pipein
      /\ u.pipe = w.r.pipe /\ SameMachines(w.r, u)
  BY <1>1 DEF Record, SameMachines
<1> HIDE DEF u, v
<1>3. Adds(w, v) /\ v.r = u /\ v.excl = w.excl /\ v.listener = w.listener
      /\ v.events = w.events
  BY <1>1, <1>2, SetAdds
<1> QED BY <1>2, <1>3 DEF v, SetsOut

(* Two operations on the incoming direction, one after the other,          *)
LEMMA SetsInTrans ==
    ASSUME NEW w \in Worlds, NEW v, NEW u, SetsIn(w, v), SetsIn(v, u)
    PROVE  SetsIn(w, u)
BY AddsTrans DEF SetsIn, SameMachines

(* and on the outgoing one.                                                *)
LEMMA SetsOutTrans ==
    ASSUME NEW w \in Worlds, NEW v, NEW u, SetsOut(w, v), SetsOut(v, u)
    PROVE  SetsOut(w, u)
BY AddsTrans DEF SetsOut, SameMachines

(* What was not offered may change.                                        *)
LEMMA SetsInGood ==
    ASSUME NEW w \in Worlds, NEW v, NEW a, Good(w, a), SetsIn(w, v),
           w.r.aipc = "ACTIVE",
           \/ w.r.instate # "HASMSG" \/ w.r.pipein # "IDLE"
           \/ v.r.instate = "HASMSG" /\ v.r.pipein = "IDLE"
           \/ ~Offered(w.c, ToSet(w.events), w.excl.inpipe, "IN")
    PROVE  Good(v, a)
<1>1. NestInv(w.r) /\ PipeInv(w.c, w.r, w.excl, ToSet(w.events))
      /\ v.c = w.c /\ SameMachines(w.r, v.r)
  BY DEF Good, ConnInv, SetsIn, Adds
<1>2. PipeInv(v.c, v.r, v.excl, ToSet(v.events))
  BY <1>1 DEF PipeInv, SetsIn, SameMachines
<1>3. NestInv(v.r)
  BY <1>1 DEF NestInv, SameMachines
<1> QED BY <1>1, <1>2, <1>3, GoodKept DEF SetsIn, SameMachines, SameAccept

(* The same of the outgoing direction.                                     *)
LEMMA SetsOutGood ==
    ASSUME NEW w \in Worlds, NEW v, NEW a, Good(w, a), SetsOut(w, v),
           w.r.aipc = "ACTIVE",
           \/ w.r.outstate # "IDLE" \/ w.r.pipeout # "IDLE"
           \/ v.r.outstate = "IDLE" /\ v.r.pipeout = "IDLE"
           \/ ~Offered(w.c, ToSet(w.events), w.excl.outpipe, "OUT")
    PROVE  Good(v, a)
<1>1. NestInv(w.r) /\ PipeInv(w.c, w.r, w.excl, ToSet(w.events))
      /\ v.c = w.c /\ SameMachines(w.r, v.r)
  BY DEF Good, ConnInv, SetsOut, Adds
<1>2. PipeInv(v.c, v.r, v.excl, ToSet(v.events))
  BY <1>1 DEF PipeInv, SetsOut, SameMachines
<1>3. NestInv(v.r)
  BY <1>1 DEF NestInv, SameMachines
<1> QED BY <1>1, <1>2, <1>3, GoodKept DEF SetsOut, SameMachines, SameAccept

(* Two operations on one connection, one after the other.                  *)
LEMMA ApartTrans ==
    ASSUME NEW w, NEW v, NEW u, NEW a, Apart(w, v, a), Apart(v, u, a)
    PROVE  Apart(w, u, a)
BY DEF Apart, SameExcl

(* A handler's step, whatever it raises.                                   *)
LEMMA HandlerApart ==
    ASSUME IInv, events # <<>>, NEW v, Leave(v), Good(v, bipc.aipc),
           Apart(W, v, bipc.aipc), MoreTasks(W.tasks, v.tasks, C),
           v.backlog \in 0..W.backlog, v.r.aipc # "FREE"
    PROVE  IInv'
<1> DEFINE w == W
<1>1. /\ w \in Worlds /\ w.c = C /\ w.excl = excl /\ w.listener = listener
      /\ w.backlog = backlog /\ w.tasks = tasks
      /\ \A d \in Conn \ {C} :
            ConnInv(d, conn[d], excl, ToSet(w.events), listener, bipc.aipc)
  BY HandledWorld
<1>2. Apart(w, v, bipc.aipc) /\ MoreTasks(w.tasks, v.tasks, w.c)
      /\ v.backlog \in 0..w.backlog
      /\ Enter(v) /\ bipc' = bipc /\ batch' = batch
  BY <1>1 DEF Leave
<1> HIDE DEF w
<1>3. v.backlog \in 0..Cardinality(Conn) /\ batch \in Seq(Tasks)
  <2>1. backlog \in 0..Cardinality(Conn) /\ batch \in Seq(Tasks)
    BY DEF IInv, TypeInv
  <2>2. Cardinality(Conn) \in Nat
    BY FS_CardinalityType, BoundsAssumption
  <2> QED BY <1>1, <1>2, <2>1, <2>2
<1> QED BY <1>1, <1>2, <1>3, StepKeeps, SameBipc

(* sipc offers its pipe, in a direction that is ready.                     *)
LEMMA OfferGood ==
    ASSUME NEW w \in Worlds, NEW a, Good(w, a),
           w.r.aipc = "ACTIVE", w.r.sipc = "ACTIVE",
           NEW type \in {"IN", "OUT"},
           type = "OUT" => w.r.outstate = "IDLE" /\ w.r.pipeout = "IDLE",
           type = "IN" => w.r.instate = "HASMSG" /\ w.r.pipein = "IDLE"
    PROVE  LET v == Raise(w, "sock", "pipe", type)
           IN  /\ Good(v, a) /\ Apart(w, v, a)
               /\ v.r = w.r /\ v.excl = w.excl /\ v.tasks = w.tasks
               /\ v.backlog = w.backlog
<1> DEFINE v == Raise(w, "sock", "pipe", type)
           e == [to |-> "sock", src |-> "pipe", type |-> type, c |-> w.c]
<1>1. w.c \in Conn /\ w.events \in Seq(Events)
  BY DEF Worlds
<1>2. e \in Events
  BY <1>1 DEF Events, Machines
<1>3. /\ v \in Worlds /\ v.c = w.c /\ v.r = w.r
      /\ v.listener = w.listener /\ v.backlog = w.backlog
      /\ v.excl = w.excl /\ v.tasks = w.tasks
      /\ v.events = Append(w.events, e)
      /\ ToSet(v.events) = ToSet(w.events) \cup {e}
  BY <1>2, RaiseEffect
<1>4. e.c = w.c /\ e.to = "sock" /\ e.src = "pipe" /\ e.type = type
      /\ type \notin {"ACCEPTED", "ACCEPT_ERROR"}
      /\ e # AipcStopped(w.c) /\ e # SipcBroken(w.c)
  BY DEF AipcStopped, SipcBroken
<1> HIDE DEF v, e
<1> DEFINE r == w.r
           s == ToSet(w.events)
           t == ToSet(v.events)
<1>5. NestInv(r) /\ PipeInv(w.c, r, w.excl, s) /\ PastInv(w.c, r, s, a)
      /\ AcceptInv(w.c, r, s, w.listener, a) /\ QueueInv(w.events)
  BY DEF Good, ConnInv
<1>6. t = s \cup {e} /\ v.r = r
  BY <1>3
<1>7. AipcStopped(w.c) \notin s /\ AipcStopped(w.c).c = w.c
  BY <1>5 DEF PastInv, AipcStopped
<1>8. QueueInv(v.events)
  BY <1>1, <1>2, <1>3, <1>4, <1>5, <1>7, AppendQueue DEF Acceptance
<1>9. r.aipc = "ACTIVE" /\ r.sipc = "ACTIVE"
      /\ (type = "OUT" => r.outstate = "IDLE" /\ r.pipeout = "IDLE")
      /\ (type = "IN" => r.instate = "HASMSG" /\ r.pipein = "IDLE")
  OBVIOUS
<1> HIDE DEF r, s, t
<1>10. PipeInv(w.c, r, w.excl, t)
  <2>1. \A x, y : Offered(w.c, t, x, y)
                     => Offered(w.c, s, x, y) \/ y = type
    BY <1>4, <1>6 DEF Offered
  <2> QED BY <1>5, <1>6, <1>9, <2>1 DEF PipeInv
<1>11. PastInv(w.c, r, t, a)
  BY <1>4, <1>5, <1>6, <1>9 DEF PastInv
<1>12. AcceptInv(w.c, r, t, w.listener, a)
  BY <1>5, <1>6 DEF AcceptInv
<1>13. Good(v, a)
  BY <1>3, <1>5, <1>6, <1>8, <1>10, <1>11, <1>12 DEF Good, ConnInv, t
<1>14. Apart(w, v, a)
  BY <1>3, <1>4 DEF Apart, SameExcl
<1> QED BY <1>3, <1>13, <1>14 DEF v

(* A message is complete: sipc offers it.                                  *)
LEMMA CompleteKeeps ==
    ASSUME IInv, events # <<>>, Good(W, bipc.aipc), W.r.sipc = "ACTIVE",
           W.r.pipein = "ASYNC", Leave(Complete(W))
    PROVE  Kept
<1> DEFINE w == W
           a == bipc.aipc
           o == [w EXCEPT !.r.instate = "HASMSG"]
           u == [o EXCEPT !.r.pipein = "IDLE"]
           v == Raise(u, "sock", "pipe", "IN")
<1>1. w \in Worlds /\ w.c = C /\ w.excl = excl /\ w.listener = listener
  BY HandledWorld
<1>2. Good(w, a) /\ w.r.sipc = "ACTIVE" /\ w.r.pipein = "ASYNC"
  OBVIOUS
<1>3. Leave(v)
  <2>1. v = Complete(w)
    BY <1>1 DEF Complete, Raise, Worlds, Record
  <2> HIDE DEF v
  <2> QED BY <2>1
<1> HIDE DEF w, a
<1>4. w.r.aipc = "ACTIVE"
  BY <1>2 DEF Good, ConnInv, NestInv
<1>5. SetsIn(w, o) /\ o.r.instate = "HASMSG" /\ o \in Worlds
  BY <1>1, InstateSet, ZenonT(30) DEF SetsIn, Adds
<1> HIDE DEF o
<1>6. SetsIn(o, u) /\ u.r.pipein = "IDLE" /\ u.r.instate = "HASMSG"
      /\ u \in Worlds
  BY <1>5, PipeinSet, ZenonT(30) DEF SetsIn, Adds
<1> HIDE DEF u
<1>7. SetsIn(w, u)
  BY <1>1, <1>5, <1>6, SetsInTrans
<1>8. u.r.sipc = "ACTIVE" /\ u.r.aipc = "ACTIVE"
  BY <1>2, <1>4, <1>7 DEF SetsIn, SameMachines
<1>9. Good(u, a)
  BY <1>1, <1>2, <1>4, <1>6, <1>7, SetsInGood
<1>10. /\ Good(v, a) /\ Apart(u, v, a) /\ v.r = u.r /\ v.excl = u.excl
       /\ v.tasks = u.tasks /\ v.backlog = u.backlog
  BY <1>6, <1>8, <1>9, OfferGood
<1> HIDE DEF v
<1>11. Apart(w, u, a)
  <2>1. SameExcl(w.excl, u.excl, w.c) /\ Adds(w, u)
        /\ u.listener = w.listener
    BY <1>7 DEF SameExcl, SetsIn
  <2> QED BY <1>1, <2>1, AddsApart
<1>12. Apart(w, v, a)
  BY <1>10, <1>11, ApartTrans
<1>13. MoreTasks(w.tasks, v.tasks, w.c) /\ v.backlog = w.backlog
       /\ w.backlog \in Nat
  BY <1>1, <1>7, <1>10 DEF SetsIn, Adds, Worlds
<1>14. v.r.aipc # "FREE"
  BY <1>8, <1>10
<1>15. IInv'
  BY <1>1, <1>3, <1>10, <1>12, <1>13, <1>14, HandlerApart DEF w, a
<1>16. excl' = excl
  BY <1>1, <1>7, <1>10, <1>3, EnterFacts DEF Leave, SetsIn
<1> QED BY <1>15, <1>16 DEF Kept, ExclStep

(* The pipe starts.                                                        *)
LEMMA PipeStarts ==
    ASSUME IInv, events # <<>>, Good(W, bipc.aipc),
           W.r.sipc = "STOPPING_STREAMHDR", excl.pipe = None,
           Leave([UsockRecv(PipeStart(W)) EXCEPT !.r.instate = "HDR",
                                                 !.r.outstate = "IDLE",
                                                 !.r.sipc = "ACTIVE"])
    PROVE  Kept
<1> DEFINE w == W
           a == bipc.aipc
           x == [w.excl EXCEPT !.pipe = w.c]
           y == [w.r EXCEPT !.pipe = "ACTIVE"]
           z == [y EXCEPT !.pipein = "ASYNC"]
           u == [z EXCEPT !.pipeout = "IDLE"]
           n == [w EXCEPT !.excl = x]
           m == [n EXCEPT !.r = u]
           o == Raise(m, "sock", "pipe", "OUT")
           p == UsockRecv(o)
           f == [p.r EXCEPT !.instate = "HDR"]
           g == [f EXCEPT !.outstate = "IDLE"]
           h == [g EXCEPT !.sipc = "ACTIVE"]
           v == [p EXCEPT !.r = h]
           e == [to |-> "sock", src |-> "pipe", type |-> "OUT", c |-> w.c]
<1>1. w \in Worlds /\ w.c = C /\ w.excl = excl /\ w.listener = listener
  BY HandledWorld
<1>2. Good(w, a) /\ w.r.sipc = "STOPPING_STREAMHDR" /\ w.excl.pipe = None
      /\ Leave([UsockRecv(PipeStart(w)) EXCEPT !.r.instate = "HDR",
                                               !.r.outstate = "IDLE",
                                               !.r.sipc = "ACTIVE"])
  BY <1>1
<1> HIDE DEF w, a
<1>3. w.c \in Conn /\ w.r \in Record /\ w.excl \in Excls /\ w.c # None
      /\ w.tasks \in Seq(Tasks) /\ w.events \in Seq(Events)
      /\ w.backlog \in Nat
  BY <1>1, IpcAssumption DEF Worlds
<1>4. PipeStart(w) = o
  BY <1>1, <1>3, ZenonT(30) DEF PipeStart, Raise, Worlds, Record
<1>5. NestInv(w.r) /\ PipeInv(w.c, w.r, w.excl, ToSet(w.events))
      /\ PastInv(w.c, w.r, ToSet(w.events), a)
      /\ AcceptInv(w.c, w.r, ToSet(w.events), w.listener, a)
      /\ QueueInv(w.events) /\ w.r.aipc = "ACTIVE"
  BY <1>2 DEF Good, ConnInv, NestInv
<1>6. x \in Excls /\ x.pipe = w.c /\ x.inpipe = w.excl.inpipe
      /\ x.outpipe = w.excl.outpipe
  BY <1>3 DEF Excls
<1>7. y \in Record /\ y.pipe = "ACTIVE"
      /\ y.aipc = w.r.aipc /\ y.sipc = w.r.sipc /\ y.usock = w.r.usock
      /\ y.streamhdr = w.r.streamhdr /\ y.timer = w.r.timer
  BY <1>3 DEF Record
<1>8. x = [excl EXCEPT !.pipe = w.c]
  BY <1>1
<1> HIDE DEF x, y
<1>9. z \in Record /\ z.pipe = "ACTIVE" /\ z.pipein = "ASYNC"
      /\ z.aipc = y.aipc /\ z.sipc = y.sipc /\ z.usock = y.usock
      /\ z.streamhdr = y.streamhdr /\ z.timer = y.timer
  BY <1>7 DEF Record
<1> HIDE DEF z
<1>10. u \in Record /\ u.pipe = "ACTIVE" /\ u.pipeout = "IDLE"
       /\ u.aipc = z.aipc /\ u.sipc = z.sipc /\ u.usock = z.usock
       /\ u.streamhdr = z.streamhdr /\ u.timer = z.timer
  BY <1>9 DEF Record
<1> HIDE DEF u
<1>11. n \in Worlds /\ n.c = w.c /\ n.excl = x /\ n.listener = w.listener
       /\ n.backlog = w.backlog /\ n.tasks = w.tasks /\ n.events = w.events
  BY <1>1, <1>6 DEF Worlds
<1> HIDE DEF n
<1>12. m \in Worlds /\ m.c = w.c /\ m.r = u /\ m.excl = x
       /\ m.listener = w.listener /\ m.backlog = w.backlog
       /\ m.tasks = w.tasks /\ m.events = w.events
  BY <1>10, <1>11 DEF Worlds
<1> HIDE DEF m
<1>13. e \in Events
  BY <1>3 DEF Events, Machines
<1>14. /\ o \in Worlds /\ o.c = w.c /\ o.r = u /\ o.listener = w.listener
       /\ o.backlog = w.backlog /\ o.excl = x /\ o.tasks = w.tasks
       /\ o.events = Append(w.events, e)
       /\ ToSet(o.events) = ToSet(w.events) \cup {e}
  <2>1. [to |-> "sock", src |-> "pipe", type |-> "OUT", c |-> m.c] \in Events
        /\ m \in Worlds
    BY <1>12, <1>13
  <2>2. /\ o \in Worlds /\ o.c = m.c /\ o.r = m.r /\ o.listener = m.listener
        /\ o.backlog = m.backlog /\ o.excl = m.excl /\ o.tasks = m.tasks
        /\ o.events = Append(m.events, [to |-> "sock", src |-> "pipe",
                                        type |-> "OUT", c |-> m.c])
        /\ ToSet(o.events) = ToSet(m.events)
              \cup {[to |-> "sock", src |-> "pipe", type |-> "OUT",
                     c |-> m.c]}
    BY <2>1, RaiseEffect
  <2> HIDE DEF o
  <2> QED BY <1>12, <2>2
<1>15. e.c = w.c /\ e.to = "sock" /\ e.src = "pipe" /\ e.type = "OUT"
       /\ ~Acceptance(e) /\ e # AipcStopped(w.c)
  BY DEF AipcStopped, Acceptance
<1> HIDE DEF o, e
<1>16. AipcStopped(w.c) \notin ToSet(w.events) /\ AipcStopped(w.c).c = w.c
  BY <1>5 DEF PastInv, AipcStopped
<1>17. QueueInv(o.events)
  BY <1>3, <1>5, <1>13, <1>14, <1>15, <1>16, AppendQueue
<1>18. MayFail(o, p) /\ p \in Worlds
  BY <1>14, UsockRecvEffect, Zenon DEF MayFail, UsockOnly, Below, Adds
<1>19. Leave([p EXCEPT !.r.instate = "HDR", !.r.outstate = "IDLE",
                       !.r.sipc = "ACTIVE"])
  BY <1>2, <1>4
<1> HIDE DEF p
<1>20. p.r.aipc = u.aipc
       /\ p.r.streamhdr = u.streamhdr /\ p.r.timer = u.timer
       /\ p.r.pipe = "ACTIVE" /\ p.r.pipeout = "IDLE"
       /\ (p.r.usock = u.usock
           \/ (u.usock = "ACTIVE" /\ p.r.usock = "REMOVING_FD"))
  BY <1>10, <1>14, <1>18 DEF MayFail, UsockOnly, Below, SamePipe
<1>21. p.c = w.c /\ p.excl = x /\ p.listener = w.listener
       /\ p.backlog = w.backlog
  BY <1>14, <1>18 DEF MayFail, UsockOnly, Below, Adds
<1>22. MoreTasks(w.tasks, p.tasks, w.c) /\ More(o.events, p.events, w.c)
  BY <1>14, <1>18 DEF MayFail, UsockOnly, Below, Adds
<1>23. p.r \in Record
  BY <1>18 DEF Worlds
<1>24. f \in Record /\ f.aipc = p.r.aipc /\ f.streamhdr = p.r.streamhdr
       /\ f.timer = p.r.timer /\ f.pipe = p.r.pipe
       /\ f.pipeout = p.r.pipeout /\ f.usock = p.r.usock
  BY <1>23 DEF Record
<1>25. Leave(v)
  <2>1. [p EXCEPT !.r.instate = "HDR", !.r.outstate = "IDLE",
                  !.r.sipc = "ACTIVE"] = v
    BY <1>18, <1>23, Zenon DEF Worlds, Record
  <2> HIDE DEF v
  <2> QED BY <1>19, <2>1
<1> HIDE DEF f
<1>26. g \in Record /\ g.aipc = f.aipc /\ g.streamhdr = f.streamhdr
       /\ g.timer = f.timer /\ g.pipe = f.pipe /\ g.outstate = "IDLE"
       /\ g.pipeout = f.pipeout /\ g.usock = f.usock
  BY <1>24 DEF Record
<1> HIDE DEF g
<1>27. h \in Record /\ h.aipc = g.aipc /\ h.streamhdr = g.streamhdr
       /\ h.timer = g.timer /\ h.pipe = g.pipe /\ h.outstate = "IDLE"
       /\ h.pipeout = g.pipeout /\ h.usock = g.usock /\ h.sipc = "ACTIVE"
  BY <1>26 DEF Record
<1> HIDE DEF h
<1>28. v \in Worlds /\ v.c = w.c /\ v.r = h /\ v.excl = x
       /\ v.listener = w.listener /\ v.backlog = w.backlog
       /\ v.tasks = p.tasks /\ v.events = p.events
  <2>1. p \in Worlds /\ h \in Record
    BY <1>18, <1>27
  <2>2. v \in Worlds /\ v.c = p.c /\ v.r = h /\ v.excl = p.excl
        /\ v.listener = p.listener /\ v.backlog = p.backlog
        /\ v.tasks = p.tasks /\ v.events = p.events
    BY <2>1 DEF Worlds
  <2> HIDE DEF v
  <2> QED BY <1>21, <2>2
<1> HIDE DEF v
<1> DEFINE s == ToSet(w.events)
           t == ToSet(v.events)
<1>29. /\ s \cup {e} \subseteq t
       /\ \A d \in t : d \in s \/ d = e \/ Plain(d, w.c)
  BY <1>14, <1>22, <1>28 DEF More
<1>30. QueueInv(v.events)
  BY <1>14, <1>15, <1>16, <1>17, <1>22, <1>28 DEF More
<1>31. NestInv(w.r) /\ PipeInv(w.c, w.r, w.excl, s)
       /\ PastInv(w.c, w.r, s, a) /\ AcceptInv(w.c, w.r, s, w.listener, a)
  BY <1>5
<1> HIDE DEF s, t
<1>32. h.aipc = "ACTIVE" /\ h.pipe = "ACTIVE" /\ h.pipeout = "IDLE"
       /\ (h.usock = w.r.usock
           \/ (w.r.usock = "ACTIVE" /\ h.usock = "REMOVING_FD"))
       /\ h.streamhdr = w.r.streamhdr /\ h.timer = w.r.timer
  BY <1>5, <1>7, <1>9, <1>10, <1>20, <1>24, <1>26, <1>27
<1>33. NestInv(h)
  BY <1>27, <1>31, <1>32 DEF NestInv
<1>34. PipeInv(w.c, h, x, t)
  <2>1. ~Offered(w.c, t, x.inpipe, "IN")
    <3>1. x.inpipe # w.c
      BY <1>2, <1>3, <1>6, <1>31 DEF PipeInv
    <3>2. \A d \in t : ~(d.c = w.c /\ d.src = "pipe" /\ d.type = "IN")
      BY <1>2, <1>15, <1>29, <1>31 DEF PastInv, Plain
    <3> QED BY <3>1, <3>2 DEF Offered
  <2> QED BY <1>6, <1>27, <1>32, <2>1 DEF PipeInv
<1>35. PastInv(w.c, h, t, a)
  BY <1>5, <1>15, <1>27, <1>29, <1>31, <1>32
     DEF PastInv, Plain, Acceptance, AipcStopped
<1>36. AcceptInv(w.c, h, t, w.listener, a)
  BY <1>5, <1>31, <1>32 DEF AcceptInv
<1>37. Good(v, a)
  BY <1>28, <1>30, <1>33, <1>34, <1>35, <1>36 DEF Good, ConnInv, t
<1>38. Apart(w, v, a)
  <2>1. SameExcl(w.excl, v.excl, w.c)
    BY <1>2, <1>3, <1>6, <1>28, IpcAssumption DEF SameExcl
  <2>2. \A d \in t : d \in s \/ d.c = w.c
    BY <1>15, <1>29 DEF Plain
  <2> QED BY <1>28, <1>29, <2>1, <2>2 DEF Apart, s, t
<1>39. v.backlog \in 0..w.backlog /\ MoreTasks(w.tasks, v.tasks, w.c)
       /\ v.r.aipc # "FREE"
  BY <1>3, <1>22, <1>28, <1>32
<1>40. IInv'
  BY <1>1, <1>25, <1>37, <1>38, <1>39, HandlerApart DEF w, a
<1>41. excl' = [excl EXCEPT !.pipe = w.c] /\ excl.pipe = None
  BY <1>1, <1>2, <1>8, <1>25, <1>28, EnterFacts DEF Leave
<1> QED BY <1>3, <1>40, <1>41 DEF Kept, ExclStep

-----------------------------------------------------------------------------
(* sipc's handler.                                                         *)

(* The peer's header is not what sipc expects, or its message too large.   *)
LEMMA SipcDoneKeeps ==
    ASSUME IInv, events # <<>>, Good(W, bipc.aipc), W.r.sipc # "IDLE",
           Leave(SipcDone(W))
    PROVE  Kept
<1> DEFINE w == W
           v == SipcDone(w)
<1>1. w \in Worlds /\ Good(w, bipc.aipc) /\ w.r.sipc # "IDLE"
  BY HandledWorld
<1>2. Leave(v)
  OBVIOUS
<1>3. IInv /\ events # <<>>
  OBVIOUS
<1>4. SUFFICES Quiet(w, v)
  BY <1>1, <1>2, <1>3, QuietHandler
<1> HIDE DEF w
<1>5. NestInv(w.r) /\ w.r.aipc \notin {"FREE", "IDLE", "ACCEPTING", "STOPPING"}
  BY <1>1 DEF Good, ConnInv, NestInv
<1>6. /\ Adds(w, v) /\ v.excl = w.excl /\ v.listener = w.listener
      /\ SamePipe(w.r, v.r) /\ v.r.aipc = w.r.aipc
      /\ v.r.sipc = "DONE" /\ SipcBroken(v.c) \in ToSet(v.events)
      /\ v.r.streamhdr = w.r.streamhdr /\ v.r.timer = w.r.timer
      /\ v.r.usock = w.r.usock
  BY <1>1, SipcDoneEffect
<1> HIDE DEF v
<1>7. NestInv(v.r)
  BY <1>5, <1>6 DEF NestInv
<1> QED BY <1>5, <1>6, <1>7 DEF Quiet, SameAccept

(* The pair socket has a pipe: this one is turned away.                    *)
LEMMA PipeRefused ==
    ASSUME IInv, events # <<>>, Good(W, bipc.aipc),
           W.r.sipc = "STOPPING_STREAMHDR", W.r.pipe = "IDLE",
           Leave(SipcDone([W EXCEPT !.r.pipe = "FAILED",
                                    !.r.pipein = "ASYNC",
                                    !.r.pipeout = "IDLE"]))
    PROVE  Kept
<1> DEFINE w == W
           a == bipc.aipc
           y == [w.r EXCEPT !.pipe = "FAILED"]
           z == [y EXCEPT !.pipein = "ASYNC"]
           x == [z EXCEPT !.pipeout = "IDLE"]
           u == [w EXCEPT !.r = x]
           v == SipcDone(u)
<1>1. w \in Worlds /\ w.c = C /\ w.excl = excl /\ w.listener = listener
  BY HandledWorld
<1>2. Good(w, a) /\ w.r.sipc = "STOPPING_STREAMHDR" /\ w.r.pipe = "IDLE"
  OBVIOUS
<1>3. Leave(v)
  <2>1. [w EXCEPT !.r.pipe = "FAILED", !.r.pipein = "ASYNC",
                  !.r.pipeout = "IDLE"] = u
    BY <1>1, Zenon DEF Worlds, Record
  <2>2. Leave(SipcDone([w EXCEPT !.r.pipe = "FAILED", !.r.pipein = "ASYNC",
                                 !.r.pipeout = "IDLE"]))
    OBVIOUS
  <2> HIDE DEF u
  <2> QED BY <2>1, <2>2
<1> HIDE DEF w, a
<1>4. w.r.aipc = "ACTIVE" /\ w.r \in Record /\ NestInv(w.r)
      /\ PipeInv(w.c, w.r, w.excl, ToSet(w.events))
  BY <1>1, <1>2 DEF Good, ConnInv, NestInv, Worlds
<1>5. y \in Record /\ y.pipe = "FAILED" /\ SameMachines(w.r, y)
  BY <1>4 DEF Record, SameMachines
<1> HIDE DEF y
<1>6. z \in Record /\ z.pipe = "FAILED" /\ SameMachines(y, z)
  BY <1>5 DEF Record, SameMachines
<1> HIDE DEF z
<1>7. x \in Record /\ x.pipe = "FAILED" /\ SameMachines(z, x)
  BY <1>6 DEF Record, SameMachines
<1> HIDE DEF x
<1>8. /\ Adds(w, u) /\ u.r = x /\ u.events = w.events
      /\ u.excl = w.excl /\ u.listener = w.listener /\ u \in Worlds
      /\ u.c = w.c
  BY <1>1, <1>7, SetAdds DEF Adds
<1> HIDE DEF u
<1>9. SameMachines(w.r, u.r) /\ u.r.pipe = "FAILED"
  BY <1>5, <1>6, <1>7, <1>8 DEF SameMachines
<1>10. /\ Adds(u, v) /\ v.excl = u.excl /\ v.listener = u.listener
       /\ SamePipe(u.r, v.r) /\ v.r.aipc = u.r.aipc
       /\ v.r.sipc = "DONE" /\ v.r.streamhdr = u.r.streamhdr
       /\ v.r.timer = u.r.timer /\ v.r.usock = u.r.usock
  BY <1>8, SipcDoneEffect
<1> HIDE DEF v
<1>11. Adds(w, v) /\ v.excl = w.excl /\ v.listener = w.listener
       /\ v.r.aipc = "ACTIVE" /\ v.r.pipe = "FAILED" /\ v.r.sipc = "DONE"
       /\ v.r.streamhdr = w.r.streamhdr /\ v.r.timer = w.r.timer
       /\ v.r.usock = w.r.usock
  BY <1>1, <1>4, <1>8, <1>9, <1>10, AddsTrans DEF SamePipe, SameMachines
<1>12. NestInv(v.r)
  BY <1>2, <1>4, <1>11 DEF NestInv
<1>13. v.c = w.c
  BY <1>11 DEF Adds
<1>14. PipeInv(v.c, v.r, v.excl, ToSet(v.events))
  BY <1>2, <1>4, <1>11, <1>13 DEF PipeInv
<1>15. Good(v, a)
  BY <1>1, <1>2, <1>4, <1>11, <1>12, <1>14, GoodKept DEF SameAccept
<1>16. IInv' /\ excl' = excl
  <2>1. Adds(W, v) /\ v.r.aipc # "FREE" /\ v.listener = listener
        /\ SameExcl(excl, v.excl, C) /\ Good(v, bipc.aipc)
    BY <1>1, <1>11, <1>15 DEF w, a, SameExcl
  <2>2. excl' = v.excl
    BY <1>3, EnterFacts DEF Leave
  <2> QED BY <1>1, <1>3, <1>11, <2>1, <2>2, HandlerKeeps
<1> QED BY <1>16 DEF Kept, ExclStep

(* A pipe that stops leaves the pair socket without one.                   *)
LEMMA PipeStopsKeeps ==
    ASSUME IInv, events # <<>>, Good(W, bipc.aipc), NEW v, Leave(v),
           Adds(W, v), PipeGone(W, v), v.listener = W.listener,
           W.r.aipc = "ACTIVE", v.r.aipc = "ACTIVE",
           SameAccept(W.r, v.r), NestInv(v.r),
           v.r.sipc \notin {"PROTOHDR", "STOPPING_STREAMHDR"}
    PROVE  Kept
<1> DEFINE w == W
           a == bipc.aipc
<1>1. w \in Worlds /\ w.c = C /\ w.excl = excl /\ w.listener = listener
      /\ w.r = conn[C] /\ C \in Conn
  BY HandledWorld
<1>2. Good(w, a) /\ Adds(w, v) /\ PipeGone(w, v) /\ v.listener = w.listener
      /\ w.r.aipc = "ACTIVE" /\ SameAccept(w.r, v.r) /\ v.c = w.c
  BY DEF Adds
<1> HIDE DEF w, a
<1>3. PipeInv(v.c, v.r, v.excl, ToSet(v.events))
      /\ SameExcl(w.excl, v.excl, w.c)
  BY <1>1, <1>2, PipeGoneInv
<1>4. Good(v, a)
  BY <1>1, <1>2, <1>3, GoodKept
<1>5. IInv'
  BY <1>1, <1>2, <1>3, <1>4, HandlerKeeps DEF a
<1>6. ExclStep
  BY <1>1, <1>2, ExclGone DEF Leave
<1> QED BY <1>5, <1>6 DEF Kept

(* sipc's handler.                                                         *)
LEMMA SipcHandlerKeeps ==
    ASSUME IInv, SipcHandler
    PROVE  Kept
<1>1. events # <<>> /\ Head(events).to = "sipc"
  BY DEF SipcHandler, On, SipcHeaderExchanged, SipcHeaderFailed,
         SipcStartsPipe, SipcSent, SipcReceivedHdr, SipcReceivedBody,
         SipcShutdown, SipcError, SipcStops
<1> DEFINE w == W
           r == W.r
<1>2. Good(w, bipc.aipc) /\ w \in Worlds /\ NestInv(r) /\ w.c = C
      /\ w.excl = excl /\ w.listener = listener
      /\ PipeInv(w.c, w.r, w.excl, ToSet(w.events))
  BY <1>1, InnerGood DEF Good, ConnInv
<1>3. r = w.r /\ r.sipc # "IDLE"
  BY DEF SipcHandler, SipcHeaderExchanged, SipcHeaderFailed,
         SipcStartsPipe, SipcSent, SipcReceivedHdr, SipcReceivedBody,
         SipcShutdown, SipcError, SipcStops
<1>4. \A v : Leave(v) /\ Quiet(w, v) => Kept
  BY <1>1, <1>2, QuietHandler
<1>5. ASSUME Leave(SipcDone(w)) PROVE Kept
  BY <1>1, <1>2, <1>3, <1>5, SipcDoneKeeps
<1>6. ASSUME Leave(Complete(w)), r.sipc = "ACTIVE", r.pipein = "ASYNC"
      PROVE  Kept
  BY <1>1, <1>2, <1>6, CompleteKeeps
<1>7. ASSUME NEW v, Leave(v), Adds(w, v), PipeGone(w, v),
             v.listener = w.listener, r.aipc = "ACTIVE", v.r.aipc = "ACTIVE",
             SameAccept(r, v.r), NestInv(v.r),
             v.r.sipc \notin {"PROTOHDR", "STOPPING_STREAMHDR"}
      PROVE  Kept
  BY <1>1, <1>2, <1>7, PipeStopsKeeps
<1>8. CASE SipcStartsPipe
  <2>1. w.r.sipc = "STOPPING_STREAMHDR" /\ w.r.pipe = "IDLE"
    BY <1>8 DEF SipcStartsPipe
  <2>2. CASE excl.pipe = None
               /\ Leave([UsockRecv(PipeStart(W)) EXCEPT !.r.instate = "HDR",
                                                        !.r.outstate = "IDLE",
                                                        !.r.sipc = "ACTIVE"])
    BY <1>1, <1>2, <2>1, <2>2, PipeStarts
  <2>3. CASE Leave(SipcDone([W EXCEPT !.r.pipe = "FAILED",
                                      !.r.pipein = "ASYNC",
                                      !.r.pipeout = "IDLE"]))
    BY <1>1, <1>2, <2>1, <2>3, PipeRefused
  <2> QED BY <1>8, <2>2, <2>3 DEF SipcStartsPipe
<1> HIDE DEF w, r
<1>9. r.aipc \notin {"FREE", "IDLE", "ACCEPTING", "STOPPING"}
  BY <1>2, <1>3 DEF NestInv
<1>10. CASE SipcHeaderExchanged
  <2> DEFINE o == StreamhdrStop(w)
             v == [o EXCEPT !.r.sipc = "STOPPING_STREAMHDR"]
  <2>1. Leave(v) /\ r.sipc = "PROTOHDR"
    BY <1>10 DEF SipcHeaderExchanged, w, r
  <2>2. r.aipc = "ACTIVE" /\ r.pipe # "ACTIVE"
    BY <1>2, <1>3, <2>1 DEF NestInv, PipeInv
  <2>3. TimerOnly(w, o) /\ o \in Worlds
        /\ o.r.streamhdr \in {"IDLE", "STOPPING"}
        /\ \/ o.r.streamhdr = w.r.streamhdr /\ o.r.timer = w.r.timer
           \/ o.r.streamhdr = "STOPPING"
           \/ o.r.timer = "IDLE"
    BY <1>2, StreamhdrStopEffect DEF TimerOnly, Below, Adds
  <2> HIDE DEF o
  <2>4. /\ Adds(o, v) /\ v.excl = o.excl /\ v.listener = o.listener
        /\ v.events = o.events
        /\ SamePipe(o.r, v.r) /\ v.r.aipc = o.r.aipc
        /\ v.r.sipc = "STOPPING_STREAMHDR"
        /\ v.r.streamhdr = o.r.streamhdr /\ v.r.timer = o.r.timer
        /\ v.r.usock = o.r.usock
    BY <2>3, SipcSet, ZenonT(30)
  <2> HIDE DEF v
  <2>5. /\ Adds(w, v) /\ v.excl = w.excl /\ v.listener = w.listener
        /\ SamePipe(r, v.r) /\ v.r.aipc = r.aipc /\ v.r.usock = r.usock
    BY <1>2, <1>3, <2>3, <2>4, AddsTrans DEF TimerOnly, Below, SamePipe
  <2>6. NestInv(v.r)
    BY <1>2, <1>3, <2>2, <2>3, <2>4, <2>5 DEF NestInv
  <2>7. Quiet(w, v)
    BY <1>3, <2>1, <2>2, <2>5, <2>6 DEF Quiet, SameAccept
  <2> QED BY <1>4, <2>1, <2>7
<1>11. CASE SipcHeaderFailed
  BY <1>5, <1>11 DEF SipcHeaderFailed, w
<1>12. CASE SipcSent
  <2> DEFINE o == [w EXCEPT !.r.outstate = "IDLE"]
             u == [o EXCEPT !.r.pipeout = "IDLE"]
             v == Raise(u, "sock", "pipe", "OUT")
  <2>1. Leave(v)
    <3>1. Leave(Raise([w EXCEPT !.r.outstate = "IDLE", !.r.pipeout = "IDLE"],
                      "sock", "pipe", "OUT"))
      BY <1>12 DEF SipcSent, w
    <3>2. [w EXCEPT !.r.outstate = "IDLE", !.r.pipeout = "IDLE"] = u
      BY <1>2 DEF Worlds, Record
    <3> HIDE DEF u
    <3> QED BY <3>1, <3>2
  <2>2. r.sipc = "ACTIVE" /\ r.aipc = "ACTIVE"
    BY <1>2, <1>12 DEF SipcSent, NestInv, w, r
  <2>3. SetsOut(w, o) /\ o.r.outstate = "IDLE" /\ o \in Worlds
    BY <1>2, OutstateSet, Zenon DEF SetsOut, Adds
  <2> HIDE DEF o
  <2>4. SetsOut(o, u) /\ u.r.pipeout = "IDLE" /\ u.r.outstate = "IDLE"
        /\ u \in Worlds
    BY <2>3, PipeoutSet, Zenon DEF SetsOut, Adds
  <2> HIDE DEF u
  <2>5. SetsOut(w, u)
    BY <1>2, <2>3, <2>4, SetsOutTrans
  <2>6. u.r.sipc = "ACTIVE" /\ u.r.aipc = "ACTIVE"
    BY <1>3, <2>2, <2>5 DEF SetsOut, SameMachines
  <2>7. Good(u, bipc.aipc)
    BY <1>2, <1>3, <2>2, <2>4, <2>5, SetsOutGood
  <2>8. /\ Good(v, bipc.aipc) /\ Apart(u, v, bipc.aipc) /\ v.r = u.r
        /\ v.excl = u.excl /\ v.tasks = u.tasks /\ v.backlog = u.backlog
    BY <2>4, <2>6, <2>7, OfferGood
  <2> HIDE DEF v
  <2>9. Apart(w, u, bipc.aipc)
    <3>1. SameExcl(w.excl, u.excl, w.c) /\ Adds(w, u)
          /\ u.listener = w.listener
      BY <2>5 DEF SameExcl, SetsOut
    <3> QED BY <1>2, <3>1, AddsApart
  <2>10. Apart(w, v, bipc.aipc)
    BY <2>8, <2>9, ApartTrans
  <2>11. MoreTasks(w.tasks, v.tasks, w.c) /\ v.backlog = w.backlog
         /\ w.backlog \in Nat
    BY <1>2, <2>5, <2>8 DEF SetsOut, Adds, Worlds
  <2>12. v.r.aipc # "FREE"
    BY <2>6, <2>8
  <2>13. IInv'
    BY <1>1, <1>2, <2>1, <2>8, <2>10, <2>11, <2>12, HandlerApart DEF w
  <2>14. excl' = excl
    BY <1>2, <2>1, <2>5, <2>8, EnterFacts DEF Leave, SetsOut
  <2> QED BY <2>13, <2>14 DEF Kept, ExclStep
<1>13. CASE SipcReceivedHdr
  <2>1. r.sipc = "ACTIVE" /\ r.instate = "HDR" /\ r.aipc = "ACTIVE"
    BY <1>2, <1>13 DEF SipcReceivedHdr, NestInv, w, r
  <2>2. CASE Leave(SipcDone(w))
    BY <1>5, <2>2
  <2>3. CASE r.pipein = "ASYNC" /\ Leave(Complete(w))
    BY <1>6, <2>1, <2>3
  <2>4. CASE Leave(UsockRecv([w EXCEPT !.r.instate = "BODY"]))
    <3> DEFINE u == [w EXCEPT !.r.instate = "BODY"]
               v == UsockRecv(u)
    <3>1. Leave(v)
      BY <2>4
    <3>2. SetsIn(w, u) /\ u.r.instate = "BODY" /\ u \in Worlds
          /\ Adds(w, u)
      BY <1>2, InstateSet, Zenon DEF SetsIn, Adds
    <3> HIDE DEF u
    <3>3. Good(u, bipc.aipc)
      BY <1>2, <1>3, <2>1, <3>2, SetsInGood
    <3>4. MayFail(u, v)
      BY <3>2, UsockRecvEffect
    <3> HIDE DEF v
    <3>5. NestInv(u.r) /\ u.r.aipc = "ACTIVE" /\ u.r.sipc = "ACTIVE"
          /\ u.excl = w.excl /\ u.listener = w.listener /\ u.c = w.c
      BY <1>3, <2>1, <3>2, <3>3
         DEF Good, ConnInv, SetsIn, SameMachines, Adds
    <3>6. v.r.aipc = u.r.aipc /\ v.r.sipc = u.r.sipc /\ Adds(u, v)
          /\ v.r.streamhdr = u.r.streamhdr /\ v.r.timer = u.r.timer
          /\ (v.r.usock = u.r.usock
              \/ (u.r.usock = "ACTIVE" /\ v.r.usock = "REMOVING_FD"))
          /\ SamePipe(u.r, v.r) /\ v.excl = u.excl /\ v.listener = u.listener
      BY <3>4 DEF MayFail, UsockOnly, Below
    <3>7. NestInv(v.r)
      BY <3>5, <3>6 DEF NestInv
    <3>8. Quiet(u, v)
      BY <3>5, <3>6, <3>7 DEF Quiet, SameAccept
    <3>9. Good(v, bipc.aipc)
      BY <3>2, <3>3, <3>8, QuietGood
    <3>10. Adds(w, v) /\ v.r.aipc # "FREE" /\ v.listener = listener
           /\ v.excl = excl
      BY <1>2, <3>2, <3>5, <3>6, AddsTrans
    <3>11. SameExcl(excl, v.excl, C)
      BY <3>10 DEF SameExcl
    <3>12. IInv'
      BY <1>1, <3>1, <3>9, <3>10, <3>11, HandlerKeeps DEF w
    <3>13. excl' = excl
      BY <3>1, <3>10, EnterFacts DEF Leave
    <3> QED BY <3>12, <3>13 DEF Kept, ExclStep
  <2> QED BY <1>13, <2>2, <2>3, <2>4 DEF SipcReceivedHdr, w, r
<1>14. CASE SipcReceivedBody
  BY <1>6, <1>14 DEF SipcReceivedBody, w, r
<1>15. CASE SipcShutdown
  <2> DEFINE o == PipeStop(w)
             v == [o EXCEPT !.r.sipc = "SHUTTING_DOWN"]
  <2>1. Leave(v) /\ r.aipc = "ACTIVE"
    BY <1>2, <1>15 DEF SipcShutdown, NestInv, w, r
  <2>2. /\ Adds(w, o) /\ PipeGone(w, o) /\ o.listener = w.listener
        /\ o.r.aipc = w.r.aipc /\ o.r.sipc = w.r.sipc
        /\ o.r.streamhdr = w.r.streamhdr /\ o.r.timer = w.r.timer
        /\ o.r.usock = w.r.usock /\ o \in Worlds
    BY <1>2, PipeStopEffect DEF Adds
  <2> HIDE DEF o
  <2>3. /\ Adds(o, v) /\ v.excl = o.excl /\ v.listener = o.listener
        /\ SamePipe(o.r, v.r) /\ v.r.aipc = o.r.aipc
        /\ v.r.sipc = "SHUTTING_DOWN"
        /\ v.r.streamhdr = o.r.streamhdr /\ v.r.timer = o.r.timer
        /\ v.r.usock = o.r.usock
    BY <2>2, SipcSet, ZenonT(30)
  <2> HIDE DEF v
  <2>4. /\ Adds(w, v) /\ PipeGone(w, v) /\ v.listener = w.listener
        /\ v.r.aipc = r.aipc /\ v.r.usock = r.usock
        /\ v.r.streamhdr = r.streamhdr /\ v.r.timer = r.timer
    BY <1>2, <1>3, <2>2, <2>3, AddsTrans DEF PipeGone, SamePipe
  <2>5. NestInv(v.r)
    BY <1>2, <2>1, <2>3, <2>4 DEF NestInv
  <2> QED BY <1>7, <2>1, <2>3, <2>4, <2>5 DEF SameAccept
<1>16. CASE SipcError
  <2>1. CASE W.r.sipc = "ACTIVE" /\ Leave(SipcDone(PipeStop(W)))
    <3> DEFINE o == PipeStop(w)
               v == SipcDone(o)
    <3>1. Leave(v) /\ r.aipc = "ACTIVE"
      BY <1>2, <2>1 DEF NestInv, w, r
    <3>2. /\ Adds(w, o) /\ PipeGone(w, o) /\ o.listener = w.listener
          /\ o.r.aipc = w.r.aipc /\ o.r.sipc = w.r.sipc
          /\ o.r.streamhdr = w.r.streamhdr /\ o.r.timer = w.r.timer
          /\ o.r.usock = w.r.usock /\ o \in Worlds
      BY <1>2, PipeStopEffect DEF Adds
    <3> HIDE DEF o
    <3>3. /\ Adds(o, v) /\ v.excl = o.excl /\ v.listener = o.listener
          /\ SamePipe(o.r, v.r) /\ v.r.aipc = o.r.aipc
          /\ v.r.sipc = "DONE"
          /\ v.r.streamhdr = o.r.streamhdr /\ v.r.timer = o.r.timer
          /\ v.r.usock = o.r.usock
      BY <3>2, SipcDoneEffect
    <3> HIDE DEF v
    <3>4. /\ Adds(w, v) /\ PipeGone(w, v) /\ v.listener = w.listener
          /\ v.r.aipc = r.aipc /\ v.r.usock = r.usock
          /\ v.r.streamhdr = r.streamhdr /\ v.r.timer = r.timer
      BY <1>2, <1>3, <3>2, <3>3, AddsTrans DEF PipeGone, SamePipe
    <3>5. NestInv(v.r)
      BY <1>2, <3>1, <3>3, <3>4 DEF NestInv
    <3> QED BY <1>7, <3>1, <3>3, <3>4, <3>5 DEF SameAccept
  <2>2. CASE Leave(SipcDone(W))
    BY <1>5, <2>2 DEF w
  <2> QED BY <1>16, <2>1, <2>2 DEF SipcError
<1>17. CASE SipcStops
  <2> DEFINE v == SipcStopping(w)
  <2>1. Leave(v) /\ r.sipc = "STOPPING"
    BY <1>17 DEF SipcStops, w, r
  <2>2. /\ Adds(w, v) /\ v.excl = w.excl /\ v.listener = w.listener
        /\ SamePipe(w.r, v.r) /\ v.r.aipc = w.r.aipc
        /\ v.r.streamhdr = w.r.streamhdr /\ v.r.timer = w.r.timer
        /\ v.r.usock = w.r.usock
        /\ \/ v = w
           \/ w.r.streamhdr = "IDLE" /\ v.r.sipc = "IDLE"
    BY <1>2, SipcStoppingEffect
  <2> HIDE DEF v
  <2>3. v.r.sipc \in {"STOPPING", "IDLE"} /\ r.pipe # "ACTIVE"
    BY <1>2, <1>3, <2>1, <2>2 DEF PipeInv
  <2>4. NestInv(v.r)
    BY <1>2, <1>3, <2>2, <2>3 DEF NestInv
  <2>5. Quiet(w, v)
    BY <1>3, <1>9, <2>2, <2>3, <2>4 DEF Quiet, SameAccept
  <2> QED BY <1>4, <2>1, <2>5
<1> QED BY <1>8, <1>10, <1>11, <1>12, <1>13, <1>14, <1>15, <1>16, <1>17
        DEF SipcHandler

-----------------------------------------------------------------------------
(* The pair socket's handler.                                              *)

(* A direction of the pipe is ready, or is no more.                        *)
LEMMA OutpipeSet ==
    ASSUME NEW w \in Worlds, NEW x \in Conn \cup {None}
    PROVE  LET v == [w EXCEPT !.excl.outpipe = x]
           IN  /\ Adds(w, v) /\ v.r = w.r /\ v.listener = w.listener
               /\ v.events = w.events
               /\ v.excl.outpipe = x /\ v.excl.pipe = w.excl.pipe
               /\ v.excl.inpipe = w.excl.inpipe
               /\ v.excl = [w.excl EXCEPT !.outpipe = x]
<1> DEFINE v == [w EXCEPT !.excl.outpipe = x]
           y == [w.excl EXCEPT !.outpipe = x]
<1>1. w.excl \in Excls /\ v = [w EXCEPT !.excl = y] /\ w.events \in Seq(Events)
      /\ w.tasks \in Seq(Tasks) /\ w.c \in Conn
  BY DEF Worlds
<1>2. y \in Excls /\ y.outpipe = x /\ y.pipe = w.excl.pipe
      /\ y.inpipe = w.excl.inpipe
  BY <1>1 DEF Excls
<1>3. y = [w.excl EXCEPT !.outpipe = x]
  OBVIOUS
<1> HIDE DEF y, v
<1>4. v \in Worlds /\ v.c = w.c /\ v.r = w.r /\ v.listener = w.listener
      /\ v.backlog = w.backlog /\ v.excl = y /\ v.events = w.events
      /\ v.tasks = w.tasks
  BY <1>1, <1>2 DEF Worlds
<1> QED BY <1>1, <1>2, <1>3, <1>4, MoreSame, MoreTasksSame DEF Adds, v

(* excl has the pipe as its inpipe, or not.                                *)
LEMMA InpipeSet ==
    ASSUME NEW w \in Worlds, NEW x \in Conn \cup {None}
    PROVE  LET v == [w EXCEPT !.excl.inpipe = x]
           IN  /\ Adds(w, v) /\ v.r = w.r /\ v.listener = w.listener
               /\ v.events = w.events
               /\ v.excl.inpipe = x /\ v.excl.pipe = w.excl.pipe
               /\ v.excl.outpipe = w.excl.outpipe
               /\ v.excl = [w.excl EXCEPT !.inpipe = x]
<1> DEFINE v == [w EXCEPT !.excl.inpipe = x]
           y == [w.excl EXCEPT !.inpipe = x]
<1>1. w.excl \in Excls /\ v = [w EXCEPT !.excl = y] /\ w.events \in Seq(Events)
      /\ w.tasks \in Seq(Tasks) /\ w.c \in Conn
  BY DEF Worlds
<1>2. y \in Excls /\ y.inpipe = x /\ y.pipe = w.excl.pipe
      /\ y.outpipe = w.excl.outpipe
  BY <1>1 DEF Excls
<1>3. y = [w.excl EXCEPT !.inpipe = x]
  OBVIOUS
<1> HIDE DEF y, v
<1>4. v \in Worlds /\ v.c = w.c /\ v.r = w.r /\ v.listener = w.listener
      /\ v.backlog = w.backlog /\ v.excl = y /\ v.events = w.events
      /\ v.tasks = w.tasks
  BY <1>1, <1>2 DEF Worlds
<1> QED BY <1>1, <1>2, <1>3, <1>4, MoreSame, MoreTasksSame DEF Adds, v

(* The event at the head says that the pipe it is from is ready.           *)
LEMMA OfferedKeeps ==
    ASSUME IInv, events # <<>>, Head(events).to = "sock",
           Head(events).src = "pipe", excl.pipe = C,
           NEW v, Leave(v), Adds(W, v), v.r = W.r, v.listener = W.listener,
           v.events = W.events, v.excl.pipe = excl.pipe,
           \/ /\ v.excl.outpipe = C /\ v.excl.inpipe = excl.inpipe
              /\ Head(events).type = "OUT"
           \/ /\ v.excl.inpipe = C /\ v.excl.outpipe = excl.outpipe
              /\ Head(events).type = "IN"
    PROVE  IInv'
<1> DEFINE w == W
           a == bipc.aipc
           s == ToSet(events)
           t == ToSet(W.events)
           e == Head(events)
           x == excl
<1>1. Good(w, a) /\ w \in Worlds /\ w.c = C /\ w.excl = x
      /\ w.listener = listener /\ w.r = conn[C]
  BY InnerGood
<1>2. e.c = C /\ e.src = "pipe" /\ e \in s /\ s = {e} \cup t
      /\ PipeInv(C, conn[C], x, s) /\ t = ToSet(w.events)
  BY HandledWorld DEF C, ConnInv
<1>3. /\ v.excl.pipe = x.pipe /\ x.pipe = C /\ v.r = w.r
      /\ v.listener = w.listener /\ v.events = w.events
      /\ Adds(w, v) /\ v.c = C
      /\ \/ /\ v.excl.outpipe = C /\ v.excl.inpipe = x.inpipe
            /\ e.type = "OUT"
         \/ /\ v.excl.inpipe = C /\ v.excl.outpipe = x.outpipe
            /\ e.type = "IN"
  BY <1>1 DEF Adds
<1> HIDE DEF w, a, s, t, e, x
<1>4. PipeInv(C, w.r, v.excl, t)
  <2>1. w.r.pipe = "ACTIVE" /\ w.r = conn[C]
    BY <1>1, <1>2, <1>3 DEF PipeInv
  <2>2. PipeInv(C, w.r, x, t)
    BY <1>1, <1>2 DEF Good, ConnInv
  <2>3. CASE v.excl.outpipe = C /\ v.excl.inpipe = x.inpipe /\ e.type = "OUT"
    <3>1. w.r.outstate = "IDLE" /\ w.r.pipeout = "IDLE"
      BY <1>2, <2>1, <2>3 DEF PipeInv, Offered
    <3> QED BY <1>3, <2>1, <2>2, <2>3, <3>1 DEF PipeInv
  <2>4. CASE v.excl.inpipe = C /\ v.excl.outpipe = x.outpipe /\ e.type = "IN"
    <3>1. w.r.instate = "HASMSG" /\ w.r.pipein = "IDLE"
      BY <1>2, <2>1, <2>4 DEF PipeInv, Offered
    <3> QED BY <1>3, <2>1, <2>2, <2>4, <3>1 DEF PipeInv
  <2> QED BY <1>3, <2>3, <2>4
<1>5. w.r.aipc = "ACTIVE"
  BY <1>1, <1>2, <1>3 DEF PipeInv
<1>6. Good(v, a)
  BY <1>1, <1>2, <1>3, <1>4 DEF Good, ConnInv, Adds
<1>7. SameExcl(x, v.excl, C)
  BY <1>3 DEF SameExcl
<1> QED BY <1>1, <1>3, <1>5, <1>6, <1>7, HandlerKeeps DEF w, a, x

(* The pair socket's handler.                                              *)
LEMMA SockHandlerKeeps ==
    ASSUME IInv, SockHandler
    PROVE  Kept
<1> DEFINE w == W
<1>1. events # <<>> /\ Head(events).to = "sock" /\ Head(events).src = "pipe"
      /\ excl.pipe = C
  BY DEF SockHandler, SockIn, SockOut, On
<1>2. w \in Worlds /\ w.excl = excl /\ C \in Conn
  BY <1>1, HandledWorld
<1>3. C # None
  BY <1>2, IpcAssumption
<1> HIDE DEF w
<1>4. CASE SockIn
  <2> DEFINE v == [w EXCEPT !.excl.inpipe = C]
  <2>1. Leave(v) /\ excl.inpipe = None /\ Head(events).type = "IN"
    BY <1>4 DEF SockIn, On, w
  <2>2. /\ Adds(w, v) /\ v.r = w.r /\ v.listener = w.listener
        /\ v.events = w.events
        /\ v.excl.inpipe = C /\ v.excl.pipe = w.excl.pipe
        /\ v.excl.outpipe = w.excl.outpipe
        /\ v.excl = [w.excl EXCEPT !.inpipe = C]
    BY <1>2, InpipeSet
  <2> HIDE DEF v
  <2>3. IInv'
    BY <1>1, <1>2, <2>1, <2>2, OfferedKeeps DEF w
  <2>4. excl' = [excl EXCEPT !.inpipe = excl.pipe]
    BY <1>1, <1>2, <2>1, <2>2, EnterFacts DEF Leave
  <2> QED BY <1>1, <1>3, <2>1, <2>3, <2>4 DEF Kept, ExclStep
<1>5. CASE SockOut
  <2> DEFINE v == [w EXCEPT !.excl.outpipe = C]
  <2>1. Leave(v) /\ excl.outpipe = None /\ Head(events).type = "OUT"
    BY <1>5 DEF SockOut, On, w
  <2>2. /\ Adds(w, v) /\ v.r = w.r /\ v.listener = w.listener
        /\ v.events = w.events
        /\ v.excl.outpipe = C /\ v.excl.pipe = w.excl.pipe
        /\ v.excl.inpipe = w.excl.inpipe
        /\ v.excl = [w.excl EXCEPT !.outpipe = C]
    BY <1>2, OutpipeSet
  <2> HIDE DEF v
  <2>3. IInv'
    BY <1>1, <1>2, <2>1, <2>2, OfferedKeeps DEF w
  <2>4. excl' = [excl EXCEPT !.outpipe = excl.pipe]
    BY <1>1, <1>2, <2>1, <2>2, EnterFacts DEF Leave
  <2> QED BY <1>1, <1>3, <2>1, <2>3, <2>4 DEF Kept, ExclStep
<1> QED BY <1>4, <1>5 DEF SockHandler

-----------------------------------------------------------------------------
(* Peers, and what the worker asks the poller for.                         *)

(* What a connection polls for, its timer, and what its peer sent, are not *)
(* in the invariant; nor are whether the listener is polled, and the       *)
(* connections that wait in the kernel.                                    *)
LEMMA PollsKeep ==
    ASSUME IInv, conn' \in [Conn -> Record],
           \A d \in Conn : /\ SameMachines(conn[d], conn'[d])
                           /\ SamePipe(conn[d], conn'[d]),
           bipc' = bipc,
           listener' \in Listeners, listener'.state = listener.state,
           backlog' \in 0..Cardinality(Conn), excl' = excl, events' = events,
           tasks' = tasks,
           batch' \in Seq(Tasks), ToSet(batch') \subseteq ToSet(batch)
    PROVE  Kept
<1>1. conn \in [Conn -> Record] /\ bipc \in Bipcs
  BY DEF IInv, TypeInv
<1>2. TypeInv'
  BY <1>1 DEF IInv, TypeInv
<1>3. QueueInv(events')
  BY DEF IInv
<1>4. ASSUME NEW d \in Conn
      PROVE  /\ ConnInv(d, conn'[d], excl', ToSet(events'), listener',
                        bipc'.aipc)
             /\ conn'[d].aipc = conn[d].aipc
  <2>1. ConnInv(d, conn[d], excl, ToSet(events), listener, bipc.aipc)
    BY DEF IInv
  <2>2. SameMachines(conn[d], conn'[d]) /\ SamePipe(conn[d], conn'[d])
    OBVIOUS
  <2> DEFINE r == conn[d]
             z == conn'[d]
             l == listener'
             s == ToSet(events)
             a == bipc.aipc
  <2> HIDE DEF r, z, l, s, a
  <2>3. SameMachines(r, z) /\ SamePipe(r, z) /\ l.state = listener.state
        /\ NestInv(r) /\ PipeInv(d, r, excl, s) /\ PastInv(d, r, s, a)
        /\ AcceptInv(d, r, s, listener, a)
    BY <2>1, <2>2 DEF ConnInv, r, z, l, s, a
  <2>4. NestInv(z)
    BY <2>3 DEF NestInv, SameMachines
  <2>5. PipeInv(d, z, excl, s)
    BY <2>3 DEF PipeInv, SameMachines, SamePipe
  <2>6. PastInv(d, z, s, a)
    BY <2>3 DEF PastInv, SameMachines
  <2>7. AcceptInv(d, z, s, l, a)
    BY <2>3 DEF AcceptInv, SameMachines
  <2>8. ConnInv(d, z, excl, s, l, a) /\ z.aipc = r.aipc
    BY <2>3, <2>4, <2>5, <2>6, <2>7 DEF ConnInv, SameMachines
  <2> QED BY <2>8 DEF r, z, l, s, a
<1>5. BipcInv'
  <2>1. BipcInv /\ bipc.aipcs \in Seq(Conn) /\ bipc.aipc \in Conn \cup {None}
    BY DEF IInv, TypeInv, Bipcs
  <2>2. \A i \in DOMAIN bipc.aipcs : bipc.aipcs[i] \in Conn
    BY <2>1
  <2>3. bipc' = bipc /\ listener'.state = listener.state
    OBVIOUS
  <2> QED BY <1>4, <2>1, <2>2, <2>3 DEF BipcInv
<1>6. TaskInv'
  BY <1>4 DEF IInv, TaskInv
<1> QED BY <1>2, <1>3, <1>4, <1>5, <1>6 DEF Kept, IInv, ExclStep

(* The same of one connection.                                             *)
LEMMA PollKeeps ==
    ASSUME IInv, NEW c \in Conn, NEW u \in Record,
           SameMachines(conn[c], u), SamePipe(conn[c], u),
           conn' = [conn EXCEPT ![c] = u], bipc' = bipc,
           listener' \in Listeners, listener'.state = listener.state,
           backlog' \in 0..Cardinality(Conn), excl' = excl, events' = events,
           tasks' = tasks,
           batch' \in Seq(Tasks), ToSet(batch') \subseteq ToSet(batch)
    PROVE  Kept
<1>1. conn \in [Conn -> Record]
  BY DEF IInv, TypeInv
<1>2. conn' \in [Conn -> Record] /\ conn'[c] = u
      /\ \A d \in Conn \ {c} : conn'[d] = conn[d]
  BY <1>1
<1>3. \A d \in Conn : SameMachines(conn[d], conn'[d])
                       /\ SamePipe(conn[d], conn'[d])
  BY <1>2 DEF SameMachines, SamePipe
<1> QED BY <1>2, <1>3, PollsKeep

(* The types of the variables.                                             *)
LEMMA SameTypes ==
    ASSUME IInv
    PROVE  /\ conn \in [Conn -> Record] /\ listener \in Listeners
           /\ backlog \in 0..Cardinality(Conn) /\ Cardinality(Conn) \in Nat
           /\ batch \in Seq(Tasks) /\ tasks \in Seq(Tasks)
BY FS_CardinalityType, BoundsAssumption DEF IInv, TypeInv

(* A connection waits in the kernel.                                       *)
LEMMA ConnectKeeps ==
    ASSUME IInv, Connect
    PROVE  Kept
<1> DEFINE free == {c \in Conn : conn[c].aipc = "FREE"}
           waits == IF conn[bipc.aipc].usock = "BEING_ACCEPTED" THEN 0 ELSE 1
<1>1. Cardinality(free) \in Nat /\ Cardinality(free) <= Cardinality(Conn)
  <2>1. free \subseteq Conn /\ IsFiniteSet(Conn)
    BY BoundsAssumption
  <2>2. IsFiniteSet(free) /\ Cardinality(free) <= Cardinality(Conn)
    BY <2>1, FS_Subset
  <2> QED BY <2>2, FS_CardinalityType
<1>2. waits \in 0..1
  OBVIOUS
<1>3. backlog + waits < Cardinality(free) /\ backlog' = backlog + 1
  BY DEF Connect, ToReplace
<1> HIDE DEF free, waits
<1>4. backlog' \in 0..Cardinality(Conn)
  BY <1>1, <1>2, <1>3, SameTypes
<1>5. \A d \in Conn : /\ SameMachines(conn[d], conn[d])
                       /\ SamePipe(conn[d], conn[d])
  BY DEF SameMachines, SamePipe
<1>6. conn' = conn /\ bipc' = bipc /\ listener' = listener /\ excl' = excl
      /\ events' = events /\ tasks' = tasks /\ batch' = batch
  BY DEF Connect
<1> QED BY <1>4, <1>5, <1>6, SameTypes, PollsKeep

(* unread and peer.                                                        *)
LEMMA PeerKeeps ==
    ASSUME IInv, NEW c \in Conn, PeerSends(c) \/ PeerLeaves(c)
    PROVE  Kept
<1>1. conn[c] \in Record /\ MaxUnread \in Nat
  BY SameTypes, BoundsAssumption
<1>2. bipc' = bipc /\ listener' = listener /\ excl' = excl
      /\ events' = events /\ tasks' = tasks /\ batch' = batch
      /\ backlog' = backlog
  BY DEF PeerSends, PeerLeaves
<1>3. CASE PeerSends(c)
  <2> DEFINE u == [conn[c] EXCEPT !.unread = @ + 1]
  <2>1. conn' = [conn EXCEPT ![c] = u] /\ conn[c].unread < MaxUnread
    BY <1>3, SameTypes DEF PeerSends
  <2>2. conn[c].unread \in 0..MaxUnread
    BY <1>1 DEF Record
  <2>3. conn[c].unread + 1 \in 0..MaxUnread
    BY <1>1, <2>1, <2>2
  <2>4. u \in Record /\ SameMachines(conn[c], u) /\ SamePipe(conn[c], u)
    BY <1>1, <2>3 DEF Record, SameMachines, SamePipe
  <2> HIDE DEF u
  <2> QED BY <1>2, <2>1, <2>4, SameTypes, PollKeeps
<1>4. CASE PeerLeaves(c)
  <2> DEFINE u == [conn[c] EXCEPT !.peer = "closed"]
  <2>1. conn' = [conn EXCEPT ![c] = u]
    BY <1>4, SameTypes DEF PeerLeaves
  <2>2. u \in Record /\ SameMachines(conn[c], u) /\ SamePipe(conn[c], u)
    BY <1>1 DEF Record, SameMachines, SamePipe
  <2> HIDE DEF u
  <2> QED BY <1>2, <2>1, <2>2, SameTypes, PollKeeps
<1> QED BY <1>3, <1>4

(* The worker's own copy of the queue of tasks.                            *)
LEMMA TakeTasksKeeps ==
    ASSUME IInv, TakeTasks
    PROVE  Kept
<1>1. batch = <<>> /\ batch' = tasks /\ tasks' = <<>>
      /\ conn' = conn /\ bipc' = bipc /\ listener' = listener
      /\ backlog' = backlog /\ excl' = excl /\ events' = events
  BY DEF TakeTasks, WorkerReady
<1>2. TypeInv'
  BY <1>1 DEF IInv, TypeInv
<1>3. ToSet(tasks') = {}
  BY <1>1 DEF ToSet
<1>4. TaskInv'
  BY <1>1, <1>3 DEF IInv, TaskInv
<1>5. BipcInv'
  BY <1>1 DEF IInv, BipcInv
<1>6. QueueInv(events')
      /\ \A c \in Conn : ConnInv(c, conn'[c], excl', ToSet(events'), listener',
                                 bipc'.aipc)
  BY <1>1 DEF IInv
<1> QED BY <1>1, <1>2, <1>4, <1>5, <1>6 DEF Kept, IInv, ExclStep

(* A task or a timer that only changes what is polled for.                 *)
LEMMA PollStep ==
    ASSUME IInv, events = <<>>, NEW c \in Conn, NEW u \in Record,
           SameMachines(conn[c], u), SamePipe(conn[c], u),
           Enter([World(c) EXCEPT !.r = u]), bipc' = bipc,
           batch' \in Seq(Tasks), ToSet(batch') \subseteq ToSet(batch)
    PROVE  Kept
<1> DEFINE w == World(c)
           v == [w EXCEPT !.r = u]
<1>1. /\ w \in Worlds /\ w.c = c /\ w.excl = excl /\ w.listener = listener
      /\ w.backlog = backlog /\ w.tasks = tasks /\ w.events = events
  BY IdleWorld
<1>2. Enter(v)
  OBVIOUS
<1> HIDE DEF w
<1>3. v.c = c /\ v.r = u /\ v.excl = excl /\ v.listener = listener
      /\ v.backlog = backlog /\ v.tasks = tasks /\ v.events = events
  BY <1>1 DEF Worlds
<1> HIDE DEF v
<1>4. /\ conn' = [conn EXCEPT ![c] = u]
      /\ listener' = listener /\ backlog' = backlog
      /\ excl' = excl /\ events' = events /\ tasks' = tasks
  BY <1>2, <1>3, EnterFacts
<1> QED BY <1>4, SameTypes, PollKeeps

-----------------------------------------------------------------------------
(* The worker: poller, timers, tasks.                                      *)

(* An event for usock or the timer.                                        *)
LEMMA BelowStep ==
    ASSUME IInv, events = <<>>, NEW c \in Conn, NEW v, Enter(v),
           Below(World(c), v), SameAccept(conn[c], v.r), NestInv(v.r),
           conn[c].aipc \notin {"FREE", "IDLE"},
           bipc' = bipc, batch' \in Seq(Tasks),
           ToSet(batch') \subseteq ToSet(batch)
    PROVE  Kept
<1>1. World(c).r = conn[c]
  BY IdleWorld
<1>2. Quiet(World(c), v)
  BY <1>1 DEF Quiet, Below
<1> QED BY <1>2, QuietFirst

(* An operation that asks the poller for something else.                   *)
LEMMA PollSet ==
    ASSUME NEW w \in Worlds, NEW u \in Record, SameMachines(w.r, u),
           SamePipe(w.r, u)
    PROVE  LET v == [w EXCEPT !.r = u]
           IN  UsockOnly(w, v) /\ v.r = u /\ v \in Worlds
<1> DEFINE v == [w EXCEPT !.r = u]
<1>1. Adds(w, v) /\ v.r = u /\ v.excl = w.excl /\ v.listener = w.listener
  BY SetAdds
<1> HIDE DEF v
<1> QED BY <1>1 DEF UsockOnly, Below, SameMachines, Adds, v

(* The socket that is open has an aipc that uses it.                       *)
LEMMA UsockUsed ==
    ASSUME IInv, NEW c \in Conn, conn[c].usock # "IDLE"
    PROVE  conn[c].aipc \notin {"FREE", "IDLE"}
BY DEF IInv, ConnInv, NestInv

(* A first step of a connection's usock.                                   *)
LEMMA UsockStep ==
    ASSUME IInv, events = <<>>, NEW c \in Conn, NEW v, Enter(v),
           UsockOnly(World(c), v),
           conn[c].usock \notin {"IDLE", "BEING_ACCEPTED", "STOPPING_ACCEPT"},
           v.r.usock \notin {"BEING_ACCEPTED", "STOPPING_ACCEPT"},
           bipc' = bipc, batch' \in Seq(Tasks),
           ToSet(batch') \subseteq ToSet(batch)
    PROVE  Kept
<1> DEFINE r == conn[c]
<1>1. World(c).r = r /\ NestInv(r)
  BY IdleWorld DEF IInv, ConnInv
<1>2. r.aipc \notin {"FREE", "IDLE"}
  BY UsockUsed
<1>3. r.usock \notin {"IDLE", "BEING_ACCEPTED", "STOPPING_ACCEPT"}
  OBVIOUS
<1> HIDE DEF r
<1>4. Below(World(c), v) /\ v.r.aipc = r.aipc /\ v.r.sipc = r.sipc
      /\ v.r.streamhdr = r.streamhdr /\ v.r.timer = r.timer
  BY <1>1 DEF UsockOnly, Below
<1>5. NestInv(v.r) /\ SameAccept(r, v.r)
  BY <1>1, <1>2, <1>3, <1>4 DEF NestInv, SameAccept
<1> QED BY <1>2, <1>4, <1>5, BelowStep DEF r

(* A handler leaves the tasks of the worker alone.                         *)
LEMMA SameBatch ==
    ASSUME IInv, NEW v, Leave(v)
    PROVE  /\ Enter(v) /\ bipc' = bipc /\ batch' \in Seq(Tasks)
           /\ ToSet(batch') \subseteq ToSet(batch)
BY SameTypes DEF Leave

(* The poller reports a descriptor.                                        *)
LEMMA DescriptorKeeps ==
    ASSUME IInv, NEW c \in Conn, FdIn(c) \/ FdOut(c) \/ FdErr(c)
    PROVE  Kept
<1> DEFINE w == World(c)
<1>1. events = <<>> /\ conn[c].usock = "ACTIVE"
  BY DEF FdIn, FdOut, FdErr, WorkerReady, Unlocked
<1>2. w \in Worlds /\ w.r = conn[c] /\ w.r \in Record /\ MaxUnread \in Nat
  BY <1>1, IdleWorld, BoundsAssumption DEF Worlds
<1>3. SUFFICES \E v : Leave(v) /\ UsockOnly(w, v)
                      /\ v.r.usock \in {"ACTIVE", "DONE"}
  BY <1>1, SameBatch, UsockStep
<1>4. w.r.usock = "ACTIVE"
  BY <1>1, <1>2
<1>5. ASSUME Leave(UsockDone(w))
      PROVE  \E v : Leave(v) /\ UsockOnly(w, v)
                    /\ v.r.usock \in {"ACTIVE", "DONE"}
  BY <1>2, <1>5, UsockDoneEffect
<1>6. ASSUME NEW u \in Record, SameMachines(w.r, u), SamePipe(w.r, u),
             NEW type \in {"SENT", "RECEIVED", "SHUTDOWN", "ERROR", "STOPPED"},
             Leave(RaiseUsock([w EXCEPT !.r = u], type))
      PROVE  \E v : Leave(v) /\ UsockOnly(w, v)
                    /\ v.r.usock \in {"ACTIVE", "DONE"}
  <2> DEFINE o == [w EXCEPT !.r = u]
             v == RaiseUsock(o, type)
  <2>1. Leave(v)
    BY <1>6
  <2> HIDE DEF w
  <2>2. UsockOnly(w, o) /\ o.r = u /\ o \in Worlds
    BY <1>2, <1>6, PollSet
  <2> HIDE DEF o
  <2>3. UsockOnly(o, v) /\ v.r = o.r
    BY <2>2, RaiseUsockOnly
  <2> HIDE DEF v
  <2>4. UsockOnly(w, v)
    BY <1>2, <2>2, <2>3, UsockOnlyTrans
  <2>5. v.r.usock = "ACTIVE"
    BY <1>4, <1>6, <2>2, <2>3 DEF SameMachines
  <2> QED BY <2>1, <2>4, <2>5
<1> DEFINE Goal == \E v : Leave(v) /\ UsockOnly(w, v)
                          /\ v.r.usock \in {"ACTIVE", "DONE"}
<1>7. CASE FdIn(c)
  <2>1. CASE /\ w.r.unread > 0
             /\ Leave(RaiseUsock([w EXCEPT !.r.unread = @ - 1,
                                           !.r.in = FALSE], "RECEIVED"))
    <3> DEFINE f == [w.r EXCEPT !.unread = @ - 1]
               u == [f EXCEPT !.in = FALSE]
    <3> HIDE DEF Goal
    <3>1. w.r.unread \in 0..MaxUnread
      BY <1>2 DEF Record
    <3>2. w.r.unread - 1 \in 0..MaxUnread
      BY <1>2, <2>1, <3>1
    <3>3. f \in Record /\ SameMachines(w.r, f) /\ SamePipe(w.r, f)
      BY <1>2, <3>2 DEF Record, SameMachines, SamePipe
    <3>4. [w EXCEPT !.r.unread = @ - 1, !.r.in = FALSE] = [w EXCEPT !.r = u]
      BY <1>2 DEF Worlds
    <3> HIDE DEF f
    <3>5. u \in Record /\ SameMachines(f, u) /\ SamePipe(f, u)
      BY <3>3, Zenon DEF Record, SameMachines, SamePipe
    <3>6. Leave(RaiseUsock([w EXCEPT !.r = u], "RECEIVED"))
      BY <2>1, <3>4
    <3> HIDE DEF u, w
    <3>7. SameMachines(w.r, u) /\ SamePipe(w.r, u)
      BY <3>3, <3>5 DEF SameMachines, SamePipe
    <3> QED BY <1>6, <3>5, <3>6, <3>7 DEF Goal, w
  <2>2. CASE Leave(UsockDone(w))
    BY <1>5, <2>2
  <2> QED BY <1>7, <2>1, <2>2 DEF FdIn
<1>8. CASE FdOut(c)
  <2>1. CASE /\ w.r.peer = "open"
             /\ Leave(RaiseUsock([w EXCEPT !.r.out = FALSE], "SENT"))
    <3> DEFINE u == [w.r EXCEPT !.out = FALSE]
    <3> HIDE DEF Goal
    <3>1. u \in Record /\ SameMachines(w.r, u) /\ SamePipe(w.r, u)
      BY <1>2, Zenon DEF Record, SameMachines, SamePipe
    <3>2. [w EXCEPT !.r.out = FALSE] = [w EXCEPT !.r = u]
      BY <1>2 DEF Worlds
    <3> HIDE DEF u
    <3>3. Leave(RaiseUsock([w EXCEPT !.r = u], "SENT"))
      BY <2>1, <3>2
    <3> HIDE DEF w
    <3> QED BY <1>6, <3>1, <3>3 DEF Goal, w
  <2>2. CASE Leave(UsockDone(w))
    BY <1>5, <2>2
  <2> QED BY <1>8, <2>1, <2>2 DEF FdOut
<1>9. CASE FdErr(c)
  BY <1>5, <1>9 DEF FdErr
<1> QED BY <1>7, <1>8, <1>9

(* A timer that is running is streamhdr's.                                 *)
LEMMA TimerUsed ==
    ASSUME IInv, NEW c \in Conn, conn[c].timer # "IDLE"
    PROVE  conn[c].aipc \notin {"FREE", "IDLE"} /\ conn[c].streamhdr # "IDLE"
BY DEF IInv, ConnInv, NestInv

(* streamhdr's timer expires.                                              *)
LEMMA TimerExpiresKeeps ==
    ASSUME IInv, NEW c \in Conn, TimerExpires(c)
    PROVE  Kept
<1> DEFINE w == World(c)
           u == [w.r EXCEPT !.armed = FALSE]
           o == [w EXCEPT !.r = u]
           v == Raise(o, "streamhdr", "timer", "TIMEOUT")
<1>1. events = <<>>
  BY DEF TimerExpires, WorkerReady, Unlocked
<1>2. w \in Worlds /\ w.r = conn[c] /\ w.r \in Record
  BY <1>1, IdleWorld DEF Worlds
<1>3. u \in Record /\ SameMachines(w.r, u) /\ SamePipe(w.r, u)
      /\ u.timer = w.r.timer
  BY <1>2, Zenon DEF Record, SameMachines, SamePipe
<1>4. [w EXCEPT !.r.armed = FALSE] = o /\ o.r = u
  BY <1>2 DEF Worlds
<1>5. Leave(IF o.r.timer = "ACTIVE" THEN v ELSE o)
  <2>1. Leave(IF [w EXCEPT !.r.armed = FALSE].r.timer = "ACTIVE"
              THEN Raise([w EXCEPT !.r.armed = FALSE], "streamhdr", "timer",
                         "TIMEOUT")
              ELSE [w EXCEPT !.r.armed = FALSE])
    BY DEF TimerExpires
  <2> HIDE DEF w, o
  <2> QED BY <1>4, <2>1
<1>6. CASE u.timer # "ACTIVE"
  <2>1. Leave(o)
    BY <1>4, <1>5, <1>6
  <2> HIDE DEF u
  <2> QED BY <1>1, <1>2, <1>3, <2>1, SameBatch, PollStep
<1>7. CASE u.timer = "ACTIVE"
  <2>1. Leave(v)
    BY <1>4, <1>5, <1>7
  <2>2. w.r.aipc \notin {"FREE", "IDLE"} /\ NestInv(w.r)
    BY <1>2, <1>3, <1>7, TimerUsed DEF IInv, ConnInv
  <2> HIDE DEF w, u
  <2>3. UsockOnly(w, o) /\ o \in Worlds
    BY <1>2, <1>3, PollSet
  <2> HIDE DEF o
  <2>4. Adds(o, v) /\ v.r = o.r /\ v.excl = o.excl /\ v.listener = o.listener
    <3>1. "streamhdr" \in Machines \ {"bipc"}
      BY DEF Machines
    <3> QED BY <2>3, <3>1, RaiseAdds, Zenon
  <2> HIDE DEF v
  <2>5. Below(w, v)
    <3>1. Below(o, v)
      BY <2>4 DEF Below, SamePipe
    <3> QED BY <1>2, <2>3, <3>1, BelowTrans DEF UsockOnly
  <2>6. SameMachines(w.r, v.r)
    BY <1>3, <1>4, <2>4
  <2>7. NestInv(v.r) /\ SameAccept(w.r, v.r)
    BY <2>2, <2>6 DEF NestInv, SameAccept, SameMachines
  <2> QED BY <1>1, <1>2, <2>1, <2>2, <2>5, <2>7, SameBatch, BelowStep DEF w
<1> QED BY <1>6, <1>7

(* The task at the head is one of the worker's.                            *)
LEMMA TaskFacts ==
    ASSUME IInv, NEW fsm, NEW task, Task(fsm, task), batch' = Tail(batch)
    PROVE  /\ events = <<>> /\ batch' \in Seq(Tasks)
           /\ ToSet(batch') \subseteq ToSet(batch)
           /\ fsm \in {"usock", "timer"} => Head(batch).c \in Conn
<1>1. events = <<>> /\ batch # <<>> /\ Head(batch).fsm = fsm
  BY DEF Task, Unlocked
<1>2. batch \in Seq(Tasks)
  BY SameTypes
<1>3. Head(batch) \in Tasks /\ Tail(batch) \in Seq(Tasks)
      /\ ToSet(batch) = {Head(batch)} \cup ToSet(Tail(batch))
  BY <1>1, <1>2, TailSet
<1> QED BY <1>1, <1>3 DEF Tasks

(* The worker polls for what usock asked for.                              *)
LEMMA UsockTaskKeeps ==
    ASSUME IInv, UsockSendTask \/ UsockRecvTask
    PROVE  Kept
<1> DEFINE c == Head(batch).c
           w == World(c)
<1>1. bipc' = bipc /\ batch' = Tail(batch)
  BY DEF UsockSendTask, UsockRecvTask, Ran
<1>2. events = <<>> /\ batch' \in Seq(Tasks)
      /\ ToSet(batch') \subseteq ToSet(batch) /\ c \in Conn
  BY <1>1, TaskFacts DEF UsockSendTask, UsockRecvTask
<1> HIDE DEF c
<1>3. w \in Worlds /\ w.r = conn[c] /\ w.r \in Record
  BY <1>2, IdleWorld DEF Worlds
<1>4. CASE UsockSendTask
  <2> DEFINE u == [w.r EXCEPT !.out = TRUE]
  <2>1. Enter([w EXCEPT !.r.out = TRUE])
    BY <1>4 DEF UsockSendTask, Ran, T, c
  <2>2. [w EXCEPT !.r.out = TRUE] = [w EXCEPT !.r = u]
    BY <1>3 DEF Worlds
  <2>3. u \in Record /\ SameMachines(conn[c], u) /\ SamePipe(conn[c], u)
    BY <1>3, Zenon DEF Record, SameMachines, SamePipe
  <2> HIDE DEF u
  <2>4. Enter([w EXCEPT !.r = u])
    BY <2>1, <2>2
  <2> QED BY <1>1, <1>2, <2>3, <2>4, PollStep
<1>5. CASE UsockRecvTask
  <2> DEFINE u == [w.r EXCEPT !.in = TRUE]
  <2>1. Enter([w EXCEPT !.r.in = TRUE])
    BY <1>5 DEF UsockRecvTask, Ran, T, c
  <2>2. [w EXCEPT !.r.in = TRUE] = [w EXCEPT !.r = u]
    BY <1>3 DEF Worlds
  <2>3. u \in Record /\ SameMachines(conn[c], u) /\ SamePipe(conn[c], u)
    BY <1>3, Zenon DEF Record, SameMachines, SamePipe
  <2> HIDE DEF u
  <2>4. Enter([w EXCEPT !.r = u])
    BY <2>1, <2>2
  <2> QED BY <1>1, <1>2, <2>3, <2>4, PollStep
<1> QED BY <1>4, <1>5

(* The worker takes the descriptor of a usock out of the poll set.         *)
LEMMA UsockStopTaskKeeps ==
    ASSUME IInv, UsockStopTask
    PROVE  Kept
<1> DEFINE c == Head(batch).c
           w == World(c)
<1>1. bipc' = bipc /\ batch' = Tail(batch)
  BY DEF UsockStopTask, Ran
<1>2. events = <<>> /\ batch' \in Seq(Tasks)
      /\ ToSet(batch') \subseteq ToSet(batch) /\ c \in Conn
  BY <1>1, TaskFacts DEF UsockStopTask
<1>3. \/ w.r.usock = "REMOVING_FD" /\ Enter(UsockDone(w))
      \/ w.r.usock = "STOPPING" /\ Enter(UsockStopped(w))
  BY DEF UsockStopTask, Ran, T
<1> HIDE DEF c
<1>4. w \in Worlds /\ w.r = conn[c]
  BY <1>2, IdleWorld
<1>5. CASE w.r.usock = "REMOVING_FD" /\ Enter(UsockDone(w))
  <2>1. UsockOnly(w, UsockDone(w)) /\ UsockDone(w).r.usock = "DONE"
    BY <1>4, UsockDoneEffect
  <2>2. conn[c].usock = "REMOVING_FD"
    BY <1>4, <1>5
  <2> QED BY <1>1, <1>2, <1>5, <2>1, <2>2, UsockStep
<1>6. CASE w.r.usock = "STOPPING" /\ Enter(UsockStopped(w))
  <2>1. UsockOnly(w, UsockStopped(w)) /\ UsockStopped(w).r.usock = "IDLE"
    BY <1>4, UsockStoppedEffect
  <2>2. conn[c].usock = "STOPPING"
    BY <1>4, <1>6
  <2> QED BY <1>1, <1>2, <1>6, <2>1, <2>2, UsockStep
<1> QED BY <1>3, <1>5, <1>6

(* The worker arms the timer,                                              *)
LEMMA TimerStartTaskKeeps ==
    ASSUME IInv, TimerStartTask
    PROVE  Kept
<1> DEFINE c == Head(batch).c
           w == World(c)
           armed == (w.r.timer = "ACTIVE")
           u == [w.r EXCEPT !.armed = armed]
<1>1. bipc' = bipc /\ batch' = Tail(batch)
  BY DEF TimerStartTask, Ran
<1>2. events = <<>> /\ batch' \in Seq(Tasks)
      /\ ToSet(batch') \subseteq ToSet(batch) /\ c \in Conn
  BY <1>1, TaskFacts DEF TimerStartTask
<1>3. Enter([w EXCEPT !.r.armed = armed])
  BY DEF TimerStartTask, Ran, T
<1>4. armed \in BOOLEAN
  OBVIOUS
<1> HIDE DEF c, armed
<1>5. w \in Worlds /\ w.r = conn[c] /\ w.r \in Record
  BY <1>2, IdleWorld DEF Worlds
<1>6. [w EXCEPT !.r.armed = armed] = [w EXCEPT !.r = u]
  BY <1>5 DEF Worlds
<1>7. u \in Record /\ SameMachines(conn[c], u) /\ SamePipe(conn[c], u)
  BY <1>4, <1>5 DEF Record, SameMachines, SamePipe
<1> HIDE DEF u
<1>8. Enter([w EXCEPT !.r = u])
  BY <1>3, <1>6
<1> QED BY <1>1, <1>2, <1>7, <1>8, PollStep

(* and disarms it.                                                         *)
LEMMA TimerStopTaskKeeps ==
    ASSUME IInv, TimerStopTask
    PROVE  Kept
<1> DEFINE c == Head(batch).c
           w == World(c)
           u == [w.r EXCEPT !.armed = FALSE]
           o == [w EXCEPT !.r = u]
           p == [o EXCEPT !.r.timer = "IDLE"]
           v == Raise(p, "streamhdr", "timer", "STOPPED")
<1>1. bipc' = bipc /\ batch' = Tail(batch) /\ w.r.timer = "STOPPING"
  BY DEF TimerStopTask, Ran, T
<1>2. events = <<>> /\ batch' \in Seq(Tasks)
      /\ ToSet(batch') \subseteq ToSet(batch) /\ c \in Conn
  BY <1>1, TaskFacts DEF TimerStopTask
<1>3. Enter(Raise([w EXCEPT !.r.armed = FALSE, !.r.timer = "IDLE"],
                  "streamhdr", "timer", "STOPPED"))
  BY DEF TimerStopTask, Ran, T
<1> HIDE DEF c
<1>4. w \in Worlds /\ w.r = conn[c] /\ w.r \in Record
  BY <1>2, IdleWorld DEF Worlds
<1>5. [w EXCEPT !.r.armed = FALSE, !.r.timer = "IDLE"] = p
  BY <1>4 DEF Worlds, Record
<1>6. Enter(v)
  <2> HIDE DEF p
  <2> QED BY <1>3, <1>5
<1>7. u \in Record /\ SameMachines(w.r, u) /\ SamePipe(w.r, u)
  BY <1>4, Zenon DEF Record, SameMachines, SamePipe
<1>8. w.r.aipc \notin {"FREE", "IDLE"} /\ NestInv(w.r)
      /\ w.r.streamhdr # "IDLE"
  BY <1>1, <1>2, <1>4, TimerUsed DEF IInv, ConnInv
<1> HIDE DEF w, u
<1>9. UsockOnly(w, o) /\ o.r = u /\ o \in Worlds
  BY <1>4, <1>7, PollSet
<1> HIDE DEF o
<1>10. TimerOnly(o, p) /\ p.r.timer = "IDLE"
       /\ p.r.streamhdr = o.r.streamhdr /\ p \in Worlds
  BY <1>9, TimerSet, Zenon DEF TimerOnly, Below, Adds
<1> HIDE DEF p
<1>11. Adds(p, v) /\ v.r = p.r /\ v.excl = p.excl /\ v.listener = p.listener
  <2>1. "streamhdr" \in Machines \ {"bipc"}
    BY DEF Machines
  <2> QED BY <1>10, <2>1, RaiseAdds, Zenon
<1> HIDE DEF v
<1>12. Below(w, v)
  <2>1. Below(p, v)
    BY <1>11 DEF Below, SamePipe
  <2>2. Below(o, v)
    BY <1>9, <1>10, <2>1, BelowTrans DEF TimerOnly
  <2> QED BY <1>4, <1>9, <2>2, BelowTrans DEF UsockOnly
<1>13. v.r.aipc = w.r.aipc /\ v.r.sipc = w.r.sipc /\ v.r.timer = "IDLE"
       /\ v.r.streamhdr = w.r.streamhdr /\ v.r.usock = w.r.usock
  BY <1>7, <1>9, <1>10, <1>11, <1>12 DEF SameMachines, TimerOnly, Below
<1>14. NestInv(v.r) /\ SameAccept(w.r, v.r)
  BY <1>8, <1>13 DEF NestInv, SameAccept
<1> QED BY <1>1, <1>2, <1>4, <1>6, <1>8, <1>12, <1>14, BelowStep DEF w

(* The worker polls for a connection.                                      *)
LEMMA ListenerAcceptTaskKeeps ==
    ASSUME IInv, ListenerAcceptTask
    PROVE  Kept
<1> DEFINE a == bipc.aipc
           l == [listener EXCEPT !.polled = TRUE]
           w == [c |-> a, r |-> conn[a], listener |-> listener,
                 backlog |-> backlog, excl |-> excl, tasks |-> tasks,
                 events |-> events]
           v == [w EXCEPT !.listener = l]
<1>1. bipc' = bipc /\ batch' = Tail(batch)
      /\ Enter([World(a) EXCEPT !.listener.polled = TRUE])
  BY DEF ListenerAcceptTask, Ran
<1>2. events = <<>> /\ batch' \in Seq(Tasks)
      /\ ToSet(batch') \subseteq ToSet(batch)
  BY <1>1, TaskFacts DEF ListenerAcceptTask
<1>3. conn \in [Conn -> Record] /\ listener \in Listeners
      /\ backlog \in 0..Cardinality(Conn)
  BY SameTypes
<1>4. l \in Listeners /\ l.state = listener.state
  BY <1>3 DEF Listeners
<1>5. World(a) = w
  BY <1>2 DEF World
<1> HIDE DEF a
<1>6. w.listener = listener
  OBVIOUS
<1>7. [w EXCEPT !.listener.polled = TRUE] = v
  <2> HIDE DEF w
  <2> QED BY <1>6
<1> HIDE DEF l
<1>8. v.c = a /\ v.r = conn[a] /\ v.listener = l /\ v.backlog = backlog
      /\ v.excl = excl /\ v.tasks = tasks /\ v.events = events
  OBVIOUS
<1> HIDE DEF v, w
<1>9. /\ conn' = [conn EXCEPT ![a] = conn[a]] /\ listener' = l
      /\ backlog' = backlog /\ excl' = excl /\ events' = events
      /\ tasks' = tasks
  <2>1. Enter(v)
    BY <1>1, <1>5, <1>7
  <2> QED BY <1>8, <2>1, EnterFacts
<1>10. \A d \in Conn : conn'[d] = conn[d]
  BY <1>3, <1>9
<1>11. conn' \in [Conn -> Record]
       /\ \A d \in Conn : /\ SameMachines(conn[d], conn'[d])
                          /\ SamePipe(conn[d], conn'[d])
  BY <1>3, <1>9, <1>10 DEF SameMachines, SamePipe
<1> QED BY <1>1, <1>2, <1>3, <1>4, <1>9, <1>11, PollsKeep

(* A first step, whatever it raises.                                       *)
LEMMA FirstApart ==
    ASSUME IInv, events = <<>>, NEW c \in Conn, NEW v, Enter(v),
           Good(v, bipc.aipc), Apart(World(c), v, bipc.aipc),
           MoreTasks(World(c).tasks, v.tasks, c),
           v.backlog \in 0..World(c).backlog, v.r.aipc # "FREE",
           bipc' \in Bipcs, bipc'.aipc = bipc.aipc, bipc'.aipcs = bipc.aipcs,
           bipc'.state \in {"ACTIVE", "STOPPING_AIPC"}
              <=> bipc.state \in {"ACTIVE", "STOPPING_AIPC"},
           batch' \in Seq(Tasks), ToSet(batch') \subseteq ToSet(batch)
    PROVE  IInv'
<1> DEFINE w == World(c)
<1>1. /\ w \in Worlds /\ w.c = c /\ w.excl = excl /\ w.listener = listener
      /\ w.backlog = backlog /\ w.tasks = tasks
      /\ \A d \in Conn \ {c} :
            ConnInv(d, conn[d], excl, ToSet(w.events), listener, bipc.aipc)
  BY IdleWorld
<1>2. Apart(w, v, bipc.aipc) /\ MoreTasks(w.tasks, v.tasks, w.c)
      /\ v.backlog \in 0..w.backlog
  BY <1>1
<1> HIDE DEF w
<1>3. v.backlog \in 0..Cardinality(Conn)
  BY <1>1, <1>2, SameTypes
<1> QED BY <1>1, <1>2, <1>3, StepKeeps

(* The worker gives up accepting.                                          *)
LEMMA ListenerStopKeeps ==
    ASSUME IInv, ListenerStopTask
    PROVE  Kept
<1> DEFINE a == bipc.aipc
           w == World(a)
           k == [w.listener EXCEPT !.polled = FALSE]
           l == [k EXCEPT !.state = "LISTENING"]
           o == [w EXCEPT !.listener = l]
           v == UsockStopped(o)
           s == ToSet(w.events)
           t == ToSet(v.events)
<1>1. bipc' = bipc /\ batch' = Tail(batch) /\ listener.state = "CANCELLING"
      /\ Enter(UsockStopped([w EXCEPT !.listener.polled = FALSE,
                                      !.listener.state = "LISTENING"]))
  BY DEF ListenerStopTask, Ran
<1>2. events = <<>> /\ batch' \in Seq(Tasks)
      /\ ToSet(batch') \subseteq ToSet(batch)
  BY <1>1, TaskFacts DEF ListenerStopTask
<1>3. a \in Conn
  BY <1>1 DEF IInv, BipcInv, TypeInv, Bipcs
<1> HIDE DEF a
<1>4. w \in Worlds /\ w.r = conn[a] /\ w.c = a /\ w.listener = listener
      /\ w.listener \in Listeners /\ w.excl = excl /\ Good(w, bipc.aipc)
  BY <1>2, <1>3, IdleWorld DEF Worlds
<1>5. [w EXCEPT !.listener.polled = FALSE,
                !.listener.state = "LISTENING"] = o
  BY <1>4 DEF Worlds, Listeners
<1>6. Enter(v)
  <2> HIDE DEF o
  <2> QED BY <1>1, <1>5
<1>7. a = bipc.aipc
  BY DEF a
<1> HIDE DEF w
<1>8. k \in Listeners
  BY <1>4 DEF Listeners
<1> HIDE DEF k
<1>9. l \in Listeners /\ l.state = "LISTENING"
  BY <1>8 DEF Listeners
<1> HIDE DEF l
<1>10. o \in Worlds /\ o.c = w.c /\ o.r = w.r /\ o.excl = w.excl
       /\ o.listener = l /\ o.backlog = w.backlog /\ o.tasks = w.tasks
       /\ o.events = w.events
  BY <1>4, <1>9 DEF Worlds
<1> HIDE DEF o
<1>11. UsockOnly(o, v) /\ v.r.usock = "IDLE"
  BY <1>10, UsockStoppedEffect
<1> HIDE DEF v
<1>12. /\ v.c = w.c /\ v.excl = w.excl /\ v.listener = l
       /\ SamePipe(w.r, v.r)
       /\ v.r.aipc = w.r.aipc /\ v.r.sipc = w.r.sipc
       /\ v.r.streamhdr = w.r.streamhdr /\ v.r.timer = w.r.timer
       /\ v.backlog = w.backlog /\ More(w.events, v.events, w.c)
       /\ MoreTasks(w.tasks, v.tasks, w.c) /\ v \in Worlds /\ Adds(w, v)
  BY <1>10, <1>11 DEF UsockOnly, Below, Adds
<1>13. NestInv(w.r) /\ AcceptInv(w.c, w.r, s, w.listener, a)
       /\ PastInv(w.c, w.r, s, a)
  BY <1>4, <1>7 DEF Good, ConnInv
<1>14. w.r.usock = "STOPPING_ACCEPT" /\ w.r.aipc \notin {"FREE", "IDLE"}
       /\ w.r.aipc \notin {"ACCEPTING", "ACTIVE"}
  BY <1>1, <1>4, <1>13 DEF AcceptInv, NestInv
<1>15. NestInv(v.r)
  BY <1>11, <1>12, <1>13, <1>14 DEF NestInv
<1>16. QueueInv(v.events)
  BY <1>4, <1>12, <1>14, QueueKept
<1>17. PipeInv(v.c, v.r, v.excl, t)
  <2>1. w.r.pipe # "ACTIVE"
    BY <1>4, <1>14 DEF Good, ConnInv, PipeInv
  <2> QED BY <1>4, <1>12, <2>1, PipeKept
<1>18. PastInv(v.c, v.r, t, a)
  BY <1>4, <1>7, <1>11, <1>12, <1>14, PastKept
<1>19. AcceptInv(v.c, v.r, t, v.listener, a)
  <2> HIDE DEF t
  <2> QED BY <1>4, <1>9, <1>11, <1>12, <1>13, <1>14 DEF AcceptInv
<1>20. Good(v, bipc.aipc)
  BY <1>7, <1>12, <1>15, <1>16, <1>17, <1>18, <1>19 DEF Good, ConnInv
<1>21. Apart(w, v, bipc.aipc)
  BY <1>4, <1>7, <1>12, AddsApart DEF SameExcl
<1>22. w.backlog \in Nat /\ v.r.aipc # "FREE"
  BY <1>4, <1>12, <1>14 DEF Worlds
<1>23. IInv'
  <2>1. MoreTasks(World(a).tasks, v.tasks, a)
        /\ v.backlog \in 0..World(a).backlog
        /\ Apart(World(a), v, bipc.aipc)
    BY <1>4, <1>12, <1>21, <1>22 DEF w
  <2> QED BY <1>1, <1>2, <1>3, <1>6, <1>20, <1>22, <2>1, FirstApart, SameBipc
<1>24. excl' = excl
  BY <1>4, <1>6, <1>12, EnterFacts
<1> QED BY <1>23, <1>24 DEF Kept, ExclStep

(* The worker runs a task.                                                 *)
LEMMA RunTaskKeeps ==
    ASSUME IInv, RunTask
    PROVE  Kept
BY UsockTaskKeeps, UsockStopTaskKeeps, TimerStartTaskKeeps,
   TimerStopTaskKeeps, ListenerAcceptTaskKeeps, ListenerStopKeeps
   DEF RunTask

(* The listener accepts a connection, or fails to.                         *)
LEMMA ListenerInKeeps ==
    ASSUME IInv, ListenerIn
    PROVE  Kept
<1> DEFINE a == bipc.aipc
           w == World(a)
<1>1. events = <<>> /\ listener.state = "ACCEPTING" /\ backlog > 0
  BY DEF ListenerIn, WorkerReady, Unlocked
<1>2. \E v : Leave(v) /\ (v \in Accepted(w) \/ v = AcceptError(w))
  BY DEF ListenerIn
<1>3. a \in Conn
  BY <1>1 DEF IInv, BipcInv, TypeInv, Bipcs
<1>4. w \in Worlds /\ w.r = conn[a] /\ w.c = a /\ w.listener = listener
      /\ w.excl = excl /\ w.backlog = backlog /\ ToSet(w.events) = {}
      /\ Good(w, a)
  BY <1>1, <1>3, IdleWorld
<1> HIDE DEF w
<1>5. MayAccept(w, a)
  <2>1. NestInv(w.r) /\ PipeInv(w.c, w.r, w.excl, ToSet(w.events))
        /\ PastInv(w.c, w.r, ToSet(w.events), a) /\ QueueInv(w.events)
        /\ AcceptInv(w.c, w.r, ToSet(w.events), w.listener, a)
    BY <1>4 DEF Good, ConnInv
  <2>2. w.r.usock = "BEING_ACCEPTED"
    BY <1>1, <1>4, <2>1 DEF AcceptInv
  <2>3. w.r.aipc \notin {"FREE", "IDLE"}
    BY <2>1, <2>2 DEF NestInv
  <2> QED BY <1>4, <2>1, <2>2, <2>3 DEF MayAccept
<1>6. PICK v : Leave(v) /\ (v \in Accepted(w) \/ v = AcceptError(w))
  BY <1>2
<1>7. Accepts(w, v, a)
  BY <1>1, <1>4, <1>5, <1>6, AcceptedAccepts, AcceptErrorAccepts
<1>8. IInv'
  <2>1. Good(v, bipc.aipc) /\ Apart(World(a), v, bipc.aipc)
        /\ MoreTasks(World(a).tasks, v.tasks, a)
        /\ v.backlog \in 0..World(a).backlog /\ v.r.aipc # "FREE"
    BY <1>4, <1>7 DEF Accepts, w
  <2> QED BY <1>1, <1>3, <1>6, <2>1, FirstApart, SameBatch, SameBipc
<1>9. excl' = excl
  BY <1>4, <1>6, <1>7, EnterFacts DEF Leave, Accepts
<1> QED BY <1>8, <1>9 DEF Kept, ExclStep

-----------------------------------------------------------------------------
(* main's thread.                                                          *)

(* What nn_send and nn_recv do to usock before they note it.               *)
LEMMA MayFailGood ==
    ASSUME NEW w \in Worlds, NEW a, Good(w, a), NEW v, MayFail(w, v),
           w.r.aipc = "ACTIVE"
    PROVE  Good(v, a) /\ v \in Worlds
<1>1. NestInv(w.r)
  BY DEF Good, ConnInv
<1>2. /\ Adds(w, v) /\ v.excl = w.excl /\ v.listener = w.listener
      /\ SamePipe(w.r, v.r)
      /\ v.r.aipc = w.r.aipc /\ v.r.sipc = w.r.sipc
      /\ v.r.streamhdr = w.r.streamhdr /\ v.r.timer = w.r.timer
      /\ v.r.usock = w.r.usock
         \/ (w.r.usock = "ACTIVE" /\ v.r.usock = "REMOVING_FD")
  BY DEF MayFail, UsockOnly, Below
<1>3. NestInv(v.r) /\ SameAccept(w.r, v.r)
  BY <1>1, <1>2 DEF NestInv, SameAccept
<1>4. Quiet(w, v)
  BY <1>2, <1>3 DEF Quiet
<1> QED BY <1>2, <1>4, QuietGood DEF Adds

(* nn_send.                                                                *)
LEMMA SendKeeps ==
    ASSUME IInv, NnSend
    PROVE  Kept
<1> DEFINE c == excl.outpipe
           a == bipc.aipc
           w == World(c)
<1>1. events = <<>> /\ c # None
  BY DEF NnSend, Unlocked
<1>2. PICK o \in UsockSend(w) :
         Leave([o EXCEPT !.r.outstate = "SENDING", !.r.pipeout = "ASYNC",
                         !.excl.outpipe = None])
  BY DEF NnSend
<1>3. c \in Conn
  BY <1>1 DEF IInv, TypeInv, Excls
<1>4. w \in Worlds /\ w.r = conn[c] /\ w.c = c /\ w.excl = excl
      /\ w.listener = listener /\ Good(w, a) /\ ToSet(w.events) = {}
      /\ w.excl.outpipe = w.c
  BY <1>1, <1>3, IdleWorld, Zenon
<1> HIDE DEF c, w, a
<1>5. PipeInv(w.c, w.r, w.excl, ToSet(w.events)) /\ w.r.aipc = "ACTIVE"
  BY <1>4 DEF Good, ConnInv, PipeInv
<1>6. MayFail(w, o)
  BY <1>4, UsockSendEffect
<1>7. Good(o, a) /\ o \in Worlds
  BY <1>4, <1>5, <1>6, MayFailGood
<1>8. o.r.aipc = "ACTIVE" /\ o.c = w.c /\ o.excl = w.excl /\ Adds(w, o)
      /\ o.listener = w.listener /\ \A e \in ToSet(o.events) : Plain(e, w.c)
  BY <1>4, <1>5, <1>6 DEF MayFail, UsockOnly, Below, Adds, More
<1> DEFINE p == [o EXCEPT !.excl.outpipe = None]
           f == [p EXCEPT !.r.outstate = "SENDING"]
           v == [f EXCEPT !.r.pipeout = "ASYNC"]
<1>9. Leave(v)
  <2>1. [o EXCEPT !.r.outstate = "SENDING", !.r.pipeout = "ASYNC",
                  !.excl.outpipe = None] = v
    BY <1>7, Zenon DEF Worlds, Record, Excls
  <2> HIDE DEF v
  <2> QED BY <1>2, <2>1
<1>10. /\ Adds(o, p) /\ p.r = o.r /\ p.listener = o.listener
       /\ p.events = o.events
       /\ p.excl.outpipe = None /\ p.excl.pipe = o.excl.pipe
       /\ p.excl.inpipe = o.excl.inpipe
       /\ p.excl = [o.excl EXCEPT !.outpipe = None]
  BY <1>7, OutpipeSet
<1> HIDE DEF p
<1>11. p \in Worlds /\ p.c = o.c /\ p.c \in Conn /\ p.c # None
  BY <1>3, <1>4, <1>8, <1>10, IpcAssumption DEF Adds
<1>12. Good(p, a)
  <2>1. PipeInv(o.c, o.r, o.excl, ToSet(o.events))
    BY <1>7 DEF Good, ConnInv
  <2>2. PipeInv(p.c, p.r, p.excl, ToSet(p.events))
    BY <1>10, <1>11, <2>1 DEF PipeInv, Offered
  <2> QED BY <1>7, <1>10, <1>11, <2>2 DEF Good, ConnInv
<1>13. SetsOut(p, f) /\ f \in Worlds
  BY <1>11, OutstateSet, Zenon DEF SetsOut, Adds
<1> HIDE DEF f
<1>14. SetsOut(f, v)
  BY <1>13, PipeoutSet
<1> HIDE DEF v
<1>15. SetsOut(p, v)
  BY <1>11, <1>13, <1>14, SetsOutTrans
<1>16. Good(v, a)
  <2>1. ~Offered(p.c, ToSet(p.events), p.excl.outpipe, "OUT")
    BY <1>8, <1>10, <1>11 DEF Offered, Plain
  <2>2. p.r.aipc = "ACTIVE"
    BY <1>8, <1>10
  <2> QED BY <1>11, <1>12, <1>15, <2>1, <2>2, SetsOutGood
<1>17. Adds(w, v) /\ v.r.aipc # "FREE" /\ v.listener = listener
       /\ v.excl = [excl EXCEPT !.outpipe = None]
  <2>1. Adds(p, v) /\ v.excl = p.excl /\ v.listener = p.listener
        /\ v.r.aipc = p.r.aipc
    BY <1>15 DEF SetsOut, SameMachines
  <2>2. Adds(w, p)
    BY <1>4, <1>8, <1>10, AddsTrans
  <2> QED BY <1>4, <1>8, <1>10, <2>1, <2>2, AddsTrans
<1>18. SameExcl(excl, v.excl, c)
  BY <1>4, <1>8, <1>10, <1>15, IpcAssumption DEF SameExcl, SetsOut
<1>19. IInv'
  BY <1>1, <1>3, <1>9, <1>16, <1>17, <1>18, FirstKeeps, SameBatch DEF w, a
<1>20. excl' = [excl EXCEPT !.outpipe = None] /\ excl.outpipe # None
  BY <1>1, <1>9, <1>17, EnterFacts DEF Leave, c
<1> QED BY <1>19, <1>20 DEF Kept, ExclStep

(* nn_recv.                                                                *)
LEMMA RecvKeeps ==
    ASSUME IInv, NnRecv
    PROVE  Kept
<1> DEFINE c == excl.inpipe
           a == bipc.aipc
           w == World(c)
           o == UsockRecv(w)
<1>1. events = <<>> /\ c # None
  BY DEF NnRecv, Unlocked
<1>2. Leave([o EXCEPT !.r.instate = "HDR", !.r.pipein = "ASYNC",
                      !.excl.inpipe = None])
  BY DEF NnRecv
<1>3. c \in Conn
  BY <1>1 DEF IInv, TypeInv, Excls
<1>4. w \in Worlds /\ w.r = conn[c] /\ w.c = c /\ w.excl = excl
      /\ w.listener = listener /\ Good(w, a) /\ ToSet(w.events) = {}
      /\ w.excl.inpipe = w.c
  BY <1>1, <1>3, IdleWorld
<1> HIDE DEF c, w, a
<1>5. PipeInv(w.c, w.r, w.excl, ToSet(w.events)) /\ w.r.aipc = "ACTIVE"
  BY <1>4 DEF Good, ConnInv, PipeInv
<1>6. MayFail(w, o)
  BY <1>4, UsockRecvEffect
<1> HIDE DEF o
<1>7. Good(o, a) /\ o \in Worlds
  BY <1>4, <1>5, <1>6, MayFailGood
<1>8. o.r.aipc = "ACTIVE" /\ o.c = w.c /\ o.excl = w.excl /\ Adds(w, o)
      /\ o.listener = w.listener /\ \A e \in ToSet(o.events) : Plain(e, w.c)
  BY <1>4, <1>5, <1>6 DEF MayFail, UsockOnly, Below, Adds, More
<1> DEFINE p == [o EXCEPT !.excl.inpipe = None]
           f == [p EXCEPT !.r.instate = "HDR"]
           v == [f EXCEPT !.r.pipein = "ASYNC"]
<1>9. Leave(v)
  <2>1. [o EXCEPT !.r.instate = "HDR", !.r.pipein = "ASYNC",
                  !.excl.inpipe = None] = v
    BY <1>7, Zenon DEF Worlds, Record, Excls
  <2> HIDE DEF v
  <2> QED BY <1>2, <2>1
<1>10. /\ Adds(o, p) /\ p.r = o.r /\ p.listener = o.listener
       /\ p.events = o.events
       /\ p.excl.inpipe = None /\ p.excl.pipe = o.excl.pipe
       /\ p.excl.outpipe = o.excl.outpipe
       /\ p.excl = [o.excl EXCEPT !.inpipe = None]
  BY <1>7, InpipeSet
<1> HIDE DEF p
<1>11. p \in Worlds /\ p.c = o.c /\ p.c \in Conn /\ p.c # None
  BY <1>3, <1>4, <1>8, <1>10, IpcAssumption DEF Adds
<1>12. Good(p, a)
  <2>1. PipeInv(o.c, o.r, o.excl, ToSet(o.events))
    BY <1>7 DEF Good, ConnInv
  <2>2. PipeInv(p.c, p.r, p.excl, ToSet(p.events))
    BY <1>10, <1>11, <2>1 DEF PipeInv, Offered
  <2> QED BY <1>7, <1>10, <1>11, <2>2 DEF Good, ConnInv
<1>13. SetsIn(p, f) /\ f \in Worlds
  BY <1>11, InstateSet, Zenon DEF SetsIn, Adds
<1> HIDE DEF f
<1>14. SetsIn(f, v)
  BY <1>13, PipeinSet
<1> HIDE DEF v
<1>15. SetsIn(p, v)
  BY <1>11, <1>13, <1>14, SetsInTrans
<1>16. Good(v, a)
  <2>1. ~Offered(p.c, ToSet(p.events), p.excl.inpipe, "IN")
    BY <1>8, <1>10, <1>11 DEF Offered, Plain
  <2>2. p.r.aipc = "ACTIVE"
    BY <1>8, <1>10
  <2> QED BY <1>11, <1>12, <1>15, <2>1, <2>2, SetsInGood
<1>17. Adds(w, v) /\ v.r.aipc # "FREE" /\ v.listener = listener
       /\ v.excl = [excl EXCEPT !.inpipe = None]
  <2>1. Adds(p, v) /\ v.excl = p.excl /\ v.listener = p.listener
        /\ v.r.aipc = p.r.aipc
    BY <1>15 DEF SetsIn, SameMachines
  <2>2. Adds(w, p)
    BY <1>4, <1>8, <1>10, AddsTrans
  <2> QED BY <1>4, <1>8, <1>10, <2>1, <2>2, AddsTrans
<1>18. SameExcl(excl, v.excl, c)
  BY <1>4, <1>8, <1>10, <1>15, IpcAssumption DEF SameExcl, SetsIn
<1>19. IInv'
  BY <1>1, <1>3, <1>9, <1>16, <1>17, <1>18, FirstKeeps, SameBatch DEF w, a
<1>20. excl' = [excl EXCEPT !.inpipe = None] /\ excl.inpipe # None
  BY <1>1, <1>9, <1>17, EnterFacts DEF Leave, c
<1> QED BY <1>19, <1>20 DEF Kept, ExclStep

(* nn_shutdown stops the connection that is accepting.                     *)
LEMMA ShutdownKeeps ==
    ASSUME IInv, NnShutdown
    PROVE  Kept
<1> DEFINE a == bipc.aipc
           w == World(a)
           v == AipcStop(w)
<1>1. events = <<>> /\ bipc.state = "ACTIVE" /\ Enter(v) /\ batch' = batch
      /\ bipc' = [bipc EXCEPT !.state = "STOPPING_AIPC"]
  BY DEF NnShutdown, Unlocked
<1>2. a \in Conn /\ conn[a].aipc # "FREE" /\ bipc \in Bipcs
  BY <1>1 DEF IInv, BipcInv, TypeInv, Bipcs
<1>3. w \in Worlds /\ w.r = conn[a] /\ w.c = a /\ w.listener = listener
      /\ w.excl = excl /\ w.backlog \in Nat /\ Good(w, a)
  BY <1>1, <1>2, IdleWorld DEF Worlds
<1>4. bipc' \in Bipcs /\ bipc'.aipc = a /\ bipc'.aipcs = bipc.aipcs
      /\ bipc'.state = "STOPPING_AIPC"
  BY <1>1, <1>2 DEF Bipcs
<1> HIDE DEF w
<1>5. Ends(w, v, a)
  BY <1>2, <1>3, AipcStopEnds
<1> HIDE DEF v
<1>6. IInv'
  <2>1. Good(v, bipc.aipc) /\ Apart(World(a), v, bipc.aipc)
        /\ MoreTasks(World(a).tasks, v.tasks, a)
        /\ v.backlog \in 0..World(a).backlog /\ v.r.aipc # "FREE"
    BY <1>3, <1>5 DEF Ends, w
  <2>2. batch' \in Seq(Tasks) /\ ToSet(batch') \subseteq ToSet(batch)
    BY <1>1, SameTypes
  <2> QED BY <1>1, <1>2, <1>4, <2>1, <2>2, FirstApart
<1>7. ExclStep
  BY <1>1, <1>2, <1>3, <1>5, ExclGone DEF Ends, Apart
<1> QED BY <1>6, <1>7 DEF Kept

-----------------------------------------------------------------------------
(* aipc.                                                                   *)

(* aipc tells bipc something.                                              *)
LEMMA TellBipc ==
    ASSUME NEW w \in Worlds, NEW type \in {"ACCEPTED", "ERROR"}
    PROVE  LET v == Raise(w, "bipc", "aipc", type)
               e == [to |-> "bipc", src |-> "aipc", type |-> type, c |-> w.c]
           IN  /\ v \in Worlds /\ v.c = w.c /\ v.r = w.r
               /\ v.listener = w.listener /\ v.backlog = w.backlog
               /\ v.excl = w.excl /\ v.tasks = w.tasks
               /\ v.events = Append(w.events, e)
               /\ ToSet(v.events) = ToSet(w.events) \cup {e}
               /\ e \in Events /\ e.c = w.c /\ e.src # "pipe"
               /\ e.type = type /\ e.to = "bipc"
               /\ ~OfListener(e) /\ e # AipcStopped(w.c)
<1> DEFINE v == Raise(w, "bipc", "aipc", type)
           e == [to |-> "bipc", src |-> "aipc", type |-> type, c |-> w.c]
<1>1. w.c \in Conn
  BY DEF Worlds
<1>2. e \in Events
  BY <1>1 DEF Events, Machines
<1>3. /\ v \in Worlds /\ v.c = w.c /\ v.r = w.r
      /\ v.listener = w.listener /\ v.backlog = w.backlog
      /\ v.excl = w.excl /\ v.tasks = w.tasks
      /\ v.events = Append(w.events, e)
      /\ ToSet(v.events) = ToSet(w.events) \cup {e}
  BY <1>2, RaiseEffect
<1>4. e.c = w.c /\ e.src # "pipe" /\ e.type = type /\ e.to = "bipc"
      /\ ~OfListener(e) /\ e # AipcStopped(w.c)
  BY DEF OfListener, AipcStopped
<1> QED BY <1>2, <1>3, <1>4

(* The accepted connection: no acceptance is queued any more.              *)
LEMMA AcceptedKeeps ==
    ASSUME IInv, AipcAccepted
    PROVE  Kept
<1> DEFINE a == bipc.aipc
           w == W
           s == ToSet(w.events)
<1>1. events # <<>> /\ Head(events).to = "aipc"
      /\ Head(events).type = "ACCEPTED" /\ w.r.aipc = "ACCEPTING"
  BY DEF AipcAccepted, On
<1>2. PICK v \in StreamhdrStart(Raise([w EXCEPT !.r.aipc = "ACTIVE",
                                                !.r.usock = "ACTIVE",
                                                !.r.sipc = "PROTOHDR"],
                                      "bipc", "aipc", "ACCEPTED")) : Leave(v)
  BY DEF AipcAccepted
<1>3. /\ C \in Conn /\ Head(events) \in Events
      /\ w \in Worlds /\ w.c = C /\ w.r = conn[C]
      /\ w.excl = excl /\ w.listener = listener
      /\ w.backlog = backlog /\ w.tasks = tasks
      /\ ToSet(events) = {Head(events)} \cup ToSet(w.events)
      /\ ConnInv(C, conn[C], excl, ToSet(events), listener, bipc.aipc)
  BY <1>1, HandledWorld
<1>4. \A f \in s : ~Acceptance(f)
  <2>1. Acceptance(Head(events))
    BY <1>1 DEF Acceptance
  <2> QED BY <1>1, <2>1, HandledWorld
<1>5. Good(w, a) /\ Head(events).c = C
  <2>1. Head(events) # AipcStopped(C) /\ Head(events) # SipcBroken(C)
    BY <1>1 DEF AipcStopped, SipcBroken
  <2> QED BY <1>1, <2>1, HandledGood DEF C
<1>6. C = a /\ w.r.usock # "BEING_ACCEPTED"
  <2>1. PastInv(C, w.r, ToSet(events), a) /\ Head(events) \in ToSet(events)
    BY <1>3 DEF ConnInv
  <2> QED BY <1>1, <1>5, <2>1 DEF PastInv
<1>7. [w EXCEPT !.r.aipc = "ACTIVE", !.r.usock = "ACTIVE",
                !.r.sipc = "PROTOHDR"]
      = [[[w EXCEPT !.r.aipc = "ACTIVE"] EXCEPT !.r.usock = "ACTIVE"]
            EXCEPT !.r.sipc = "PROTOHDR"]
  BY <1>3 DEF Worlds, Record
<1> HIDE DEF w, a
<1> DEFINE k == [w EXCEPT !.r.aipc = "ACTIVE"]
           m == [k EXCEPT !.r.usock = "ACTIVE"]
           n == [m EXCEPT !.r.sipc = "PROTOHDR"]
           o == Raise(n, "bipc", "aipc", "ACCEPTED")
           e == [to |-> "bipc", src |-> "aipc", type |-> "ACCEPTED",
                 c |-> n.c]
<1>8. v \in StreamhdrStart(o)
  <2>1. [w EXCEPT !.r.aipc = "ACTIVE", !.r.usock = "ACTIVE",
                  !.r.sipc = "PROTOHDR"] = n
    BY <1>7
  <2> HIDE DEF n
  <2> QED BY <1>2, <2>1
<1>9. /\ Adds(w, k) /\ k.excl = w.excl /\ k.listener = w.listener
      /\ k.events = w.events /\ k.tasks = w.tasks
      /\ SamePipe(w.r, k.r) /\ k.r.aipc = "ACTIVE" /\ k.r.sipc = w.r.sipc
      /\ k.r.streamhdr = w.r.streamhdr /\ k.r.timer = w.r.timer
      /\ k.r.usock = w.r.usock
  BY <1>3, AipcSet, Zenon
<1>10. k \in Worlds
  BY <1>9 DEF Adds
<1> HIDE DEF k
<1>11. UsockOnly(k, m) /\ m.r.usock = "ACTIVE" /\ m.events = k.events
  BY <1>10, UsockSet
<1>12. m \in Worlds
  BY <1>11 DEF UsockOnly, Below, Adds
<1> HIDE DEF m
<1>13. /\ Adds(m, n) /\ n.excl = m.excl /\ n.listener = m.listener
       /\ n.events = m.events
       /\ SamePipe(m.r, n.r) /\ n.r.aipc = m.r.aipc /\ n.r.sipc = "PROTOHDR"
       /\ n.r.streamhdr = m.r.streamhdr /\ n.r.timer = m.r.timer
       /\ n.r.usock = m.r.usock
  BY <1>12, SipcSet, Zenon
<1>14. n \in Worlds
  BY <1>13 DEF Adds
<1> HIDE DEF n
<1>15. /\ n.c = w.c /\ n.excl = w.excl /\ n.listener = w.listener
       /\ n.events = w.events /\ n.backlog = w.backlog
       /\ SamePipe(w.r, n.r) /\ n.r.aipc = "ACTIVE"
       /\ n.r.sipc = "PROTOHDR" /\ n.r.streamhdr = w.r.streamhdr
       /\ n.r.timer = w.r.timer /\ n.r.usock = "ACTIVE"
       /\ MoreTasks(w.tasks, n.tasks, w.c)
  <2>1. Adds(k, m) /\ Adds(w, m)
    BY <1>3, <1>9, <1>11, AddsTrans DEF UsockOnly, Below
  <2>2. Adds(w, n)
    BY <1>3, <1>13, <2>1, AddsTrans
  <2>3. n.c = w.c /\ n.backlog = w.backlog /\ MoreTasks(w.tasks, n.tasks, w.c)
    BY <2>2 DEF Adds
  <2> QED BY <1>9, <1>11, <1>13, <2>3 DEF UsockOnly, Below, SamePipe
<1>16. /\ o \in Worlds /\ o.c = n.c /\ o.r = n.r
       /\ o.listener = n.listener /\ o.backlog = n.backlog
       /\ o.excl = n.excl /\ o.tasks = n.tasks
       /\ o.events = Append(n.events, e)
       /\ ToSet(o.events) = ToSet(n.events) \cup {e}
       /\ e \in Events /\ e.c = n.c /\ e.src # "pipe"
       /\ e.type = "ACCEPTED" /\ e.to = "bipc"
       /\ ~OfListener(e) /\ e # AipcStopped(n.c)
  BY <1>14, TellBipc
<1> HIDE DEF o, e
<1> DEFINE r == w.r
           t == ToSet(o.events)
<1>17. NestInv(r) /\ PipeInv(w.c, r, w.excl, s) /\ PastInv(w.c, r, s, a)
       /\ AcceptInv(w.c, r, s, w.listener, a) /\ QueueInv(w.events)
       /\ r.aipc = "ACCEPTING" /\ w.events \in Seq(Events)
  BY <1>1, <1>3, <1>5 DEF Good, ConnInv, Worlds, w
<1>18. t = s \cup {e} /\ o.r = n.r
  BY <1>15, <1>16
<1> HIDE DEF r, s, t
<1>19. SamePipe(r, n.r) /\ n.r.streamhdr = r.streamhdr
       /\ n.r.timer = r.timer
  BY <1>15 DEF r
<1>20. NestInv(n.r)
  BY <1>15, <1>17, <1>19 DEF NestInv
<1>21. r.pipe # "ACTIVE" /\ r.sipc = "IDLE"
  BY <1>17 DEF PipeInv, NestInv
<1>22. PipeInv(w.c, n.r, w.excl, t)
  BY <1>17, <1>18, <1>19, <1>21 DEF PipeInv, SamePipe
<1>23. PastInv(w.c, n.r, t, a)
  BY <1>3, <1>6, <1>15, <1>16, <1>17, <1>18 DEF PastInv, w
<1>24. AcceptInv(w.c, n.r, t, w.listener, a)
  <2>1. w.listener.state # "ACCEPTING" /\ w.listener.state # "CANCELLING"
    BY <1>3, <1>6, <1>17 DEF AcceptInv, w, r
  <2> QED BY <1>3, <1>6, <1>15, <2>1 DEF AcceptInv
<1>25. QueueInv(o.events)
  <2>1. AipcStopped(w.c) \notin s /\ AipcStopped(w.c).c = w.c
    BY <1>17 DEF PastInv, AipcStopped
  <2> QED BY <1>4, <1>15, <1>16, <1>17, <2>1, AppendQueue DEF s
<1>26. Good(o, a)
  BY <1>15, <1>16, <1>20, <1>22, <1>23, <1>24, <1>25 DEF Good, ConnInv, t
<1>27. Apart(w, o, a)
  BY <1>15, <1>16 DEF Apart, SameExcl
<1>28. /\ Below(o, v)
       /\ v.r.usock = o.r.usock
          \/ (o.r.usock = "ACTIVE" /\ v.r.usock = "REMOVING_FD")
       /\ v.r.streamhdr = "SENDING"
  BY <1>8, <1>16, StreamhdrStartEffect
<1>29. Quiet(o, v)
  <2>1. v.r.aipc = "ACTIVE" /\ v.r.sipc = "PROTOHDR" /\ o.r.aipc = "ACTIVE"
        /\ o.r.sipc = "PROTOHDR" /\ SameAccept(o.r, v.r)
    BY <1>15, <1>16, <1>28 DEF Below, SameAccept
  <2>2. NestInv(v.r)
    BY <1>28, <2>1 DEF NestInv
  <2> QED BY <1>28, <2>1, <2>2 DEF Quiet, Below
<1>30. Good(v, a) /\ SameExcl(o.excl, v.excl, o.c)
  BY <1>16, <1>26, <1>29, QuietGood
<1>31. Adds(o, v) /\ v.listener = o.listener /\ v.excl = o.excl
       /\ v.r.aipc = "ACTIVE"
  BY <1>15, <1>16, <1>28 DEF Below
<1>32. Apart(w, v, a)
  BY <1>16, <1>27, <1>30, <1>31, AddsApart, ApartTrans
<1>33. MoreTasks(w.tasks, v.tasks, w.c) /\ v.backlog = w.backlog
  BY <1>15, <1>16, <1>31, MoreTasksTrans DEF Adds
<1>34. IInv'
  <2>1. Good(v, bipc.aipc) /\ Apart(W, v, bipc.aipc)
        /\ MoreTasks(W.tasks, v.tasks, C) /\ v.backlog \in 0..W.backlog
    BY <1>3, <1>30, <1>32, <1>33 DEF w, a, Worlds
  <2> QED BY <1>1, <1>2, <1>31, <2>1, HandlerApart
<1>35. excl' = excl
  <2>1. v.excl = excl
    BY <1>3, <1>15, <1>16, <1>31 DEF w
  <2> QED BY <1>2, <2>1, EnterFacts DEF Leave
<1> QED BY <1>34, <1>35 DEF Kept, ExclStep

(* A handler's step that changes no ready direction.                       *)
LEMMA ApartKept ==
    ASSUME IInv, events # <<>>, NEW v, Leave(v), Good(v, bipc.aipc),
           Apart(W, v, bipc.aipc), MoreTasks(W.tasks, v.tasks, C),
           v.backlog = W.backlog, v.r.aipc # "FREE",
           PipeGone(W, v) \/ v.excl = W.excl
    PROVE  Kept
<1>1. W \in Worlds /\ W.c = C /\ C \in Conn /\ W.excl = excl
      /\ W.r = conn[C]
  BY HandledWorld
<1>2. v.backlog \in 0..W.backlog
  BY <1>1 DEF Worlds
<1>3. IInv'
  BY <1>2, HandlerApart
<1>4. v.c = W.c /\ Enter(v)
  BY DEF Apart, Leave
<1>5. CASE PipeGone(W, v)
  BY <1>1, <1>3, <1>4, <1>5, ExclGone DEF Kept
<1>6. CASE v.excl = W.excl
  <2>1. excl' = excl
    BY <1>1, <1>4, <1>6, EnterFacts
  <2> QED BY <1>3, <2>1 DEF Kept, ExclStep
<1> QED BY <1>5, <1>6

(* A handler that stops its connection.                                    *)
LEMMA EndsKept ==
    ASSUME IInv, events # <<>>, NEW v, Leave(v), Ends(W, v, bipc.aipc)
    PROVE  Kept
<1>1. W.c = C
  BY HandledWorld
<1> QED BY <1>1, ApartKept DEF Ends

(* accept failed: the listener waits for the next connection.              *)
LEMMA AcceptErrorKeeps ==
    ASSUME IInv, AipcAcceptError
    PROVE  Kept
<1> DEFINE a == bipc.aipc
           w == W
<1>1. events # <<>> /\ Head(events).to = "aipc"
      /\ Head(events).type = "ACCEPT_ERROR" /\ w.r.aipc = "ACCEPTING"
  BY DEF AipcAcceptError, On
<1>2. PICK v \in Accept(w) : Leave(v)
  BY DEF AipcAcceptError
<1>3. /\ C \in Conn /\ w \in Worlds /\ w.c = C
      /\ w.excl = excl /\ w.listener = listener
      /\ w.backlog = backlog /\ w.tasks = tasks
  BY <1>1, HandledWorld
<1>4. \A f \in ToSet(w.events) : ~Acceptance(f)
  <2>1. Acceptance(Head(events))
    BY <1>1 DEF Acceptance
  <2> QED BY <1>1, <2>1, HandledWorld
<1>5. Good(w, a)
  <2>1. Head(events) # AipcStopped(C) /\ Head(events) # SipcBroken(C)
    BY <1>1 DEF AipcStopped, SipcBroken
  <2> QED BY <1>1, <2>1, HandledGood
<1> HIDE DEF w, a
<1>6. NestInv(w.r) /\ PipeInv(w.c, w.r, w.excl, ToSet(w.events))
      /\ PastInv(w.c, w.r, ToSet(w.events), a) /\ QueueInv(w.events)
      /\ w.c = a
  BY <1>1, <1>5 DEF Good, ConnInv, AcceptInv
<1>7. Accepts(w, v, a)
  BY <1>1, <1>2, <1>3, <1>4, <1>6, AcceptAccepts
<1>8. IInv'
  <2>1. Good(v, bipc.aipc) /\ Apart(W, v, bipc.aipc)
        /\ MoreTasks(W.tasks, v.tasks, C) /\ v.backlog \in 0..W.backlog
        /\ v.r.aipc # "FREE"
    BY <1>3, <1>7 DEF w, a, Accepts
  <2> QED BY <1>1, <1>2, <2>1, HandlerApart
<1>9. excl' = excl
  <2>1. v.excl = excl
    BY <1>3, <1>7 DEF Accepts
  <2> QED BY <1>2, <2>1, EnterFacts DEF Leave
<1> QED BY <1>8, <1>9 DEF Kept, ExclStep

(* sipc is broken: aipc stops it, which takes its pipe out.                *)
LEMMA BrokenKeeps ==
    ASSUME IInv, AipcBroken
    PROVE  Kept
<1> DEFINE a == bipc.aipc
           w == W
           o == SipcStop(w)
           v == [o EXCEPT !.r.aipc = "STOPPING_SIPC"]
           r == w.r
           s == ToSet(events)
           t == ToSet(v.events)
<1>1. events # <<>> /\ w.r.aipc = "ACTIVE" /\ Leave(v)
      /\ Head(events).to = "aipc"
  BY DEF AipcBroken, On
<1>2. /\ C \in Conn /\ w \in Worlds /\ w.c = C /\ w.r = conn[C]
      /\ w.excl = excl /\ w.listener = listener /\ QueueInv(w.events)
      /\ s = {Head(events)} \cup ToSet(w.events)
      /\ ConnInv(C, conn[C], excl, s, listener, bipc.aipc)
  BY <1>1, HandledWorld
<1>3. NestInv(r) /\ PipeInv(C, r, excl, s) /\ PastInv(C, r, s, a)
      /\ AcceptInv(C, r, s, listener, a)
  BY <1>2 DEF ConnInv
<1> HIDE DEF w, a
<1>4. /\ Adds(w, o) /\ o.listener = w.listener
      /\ o.r.aipc = w.r.aipc /\ o.r.usock = w.r.usock
      /\ o.r.sipc \in {"IDLE", "STOPPING"}
      /\ \/ o = w
         \/ /\ w.r.sipc \notin {"IDLE", "STOPPING"}
            /\ PipeGone(w, o)
            /\ o.r.sipc = "IDLE" => o.r.streamhdr = "IDLE"
            /\ o.r.streamhdr = "IDLE" => o.r.timer = "IDLE"
  BY <1>2, <1>3, SipcStopEffect
<1>5. o \in Worlds
  BY <1>4 DEF Adds
<1>6. PipeGone(w, o) /\ (o.r.sipc = "IDLE" => o.r.streamhdr = "IDLE")
      /\ (o.r.streamhdr = "IDLE" => o.r.timer = "IDLE")
  <2>1. CASE o = w
    <3>1. w.r.sipc \in {"IDLE", "STOPPING"}
      BY <1>4, <2>1
    <3> QED BY <1>3, <2>1, <3>1 DEF PipeGone, PipeInv, NestInv
  <2> QED BY <1>4, <2>1
<1> HIDE DEF o
<1>7. /\ Adds(o, v) /\ v.excl = o.excl /\ v.listener = o.listener
      /\ v.events = o.events /\ v.tasks = o.tasks
      /\ SamePipe(o.r, v.r) /\ v.r.aipc = "STOPPING_SIPC"
      /\ v.r.sipc = o.r.sipc
      /\ v.r.streamhdr = o.r.streamhdr /\ v.r.timer = o.r.timer
      /\ v.r.usock = o.r.usock
  BY <1>5, AipcSet, ZenonT(30)
<1> HIDE DEF v
<1>8. Adds(w, v)
  BY <1>2, <1>4, <1>7, AddsTrans
<1>9. /\ v \in Worlds /\ v.c = C /\ v.backlog = w.backlog
      /\ MoreTasks(w.tasks, v.tasks, C)
      /\ \A e \in t : e \in s \/ Plain(e, C)
      /\ (QueueInv(w.events) /\ AipcStopped(C) \notin ToSet(w.events)
             => QueueInv(v.events))
      /\ v.listener = listener /\ v.r.usock = r.usock
  BY <1>2, <1>4, <1>7, <1>8 DEF Adds, More, r
<1>10. PipeGone(w, v)
  BY <1>6, <1>7 DEF PipeGone, SamePipe
<1>11. r.aipc = "ACTIVE" /\ r = w.r
  BY <1>1 DEF w
<1>12. ToSet(w.events) \subseteq s /\ AipcStopped(C).c = C
       /\ C # None /\ None \notin Conn
  BY <1>2, IpcAssumption DEF AipcStopped
<1> HIDE DEF r, s, t
<1>13. NestInv(v.r)
  BY <1>4, <1>6, <1>7 DEF NestInv
<1>14. PipeInv(v.c, v.r, v.excl, t) /\ SameExcl(w.excl, v.excl, w.c)
  <2>1. CASE w.r.pipe = "ACTIVE"
    <3>1. v.excl.pipe = None /\ v.excl.inpipe = None /\ v.excl.outpipe = None
      BY <1>10, <2>1 DEF PipeGone, NoPipes
    <3>2. excl.pipe = C
      BY <1>3, <1>11, <2>1 DEF PipeInv
    <3> QED BY <1>2, <1>9, <1>10, <1>12, <3>1, <3>2
            DEF PipeGone, PipeInv, SameExcl
  <2>2. CASE w.r.pipe # "ACTIVE"
    BY <1>2, <1>3, <1>9, <1>10, <1>11, <1>12, <2>2
       DEF PipeGone, PipeInv, SameExcl
  <2> QED BY <2>1, <2>2
<1>15. PastInv(v.c, v.r, t, a)
  BY <1>3, <1>4, <1>7, <1>9, <1>11, <1>12
     DEF PastInv, Plain, Acceptance, AipcStopped
<1>16. AcceptInv(v.c, v.r, t, v.listener, a)
  BY <1>3, <1>7, <1>9, <1>11 DEF AcceptInv
<1>17. QueueInv(v.events)
  BY <1>2, <1>3, <1>9, <1>11, <1>12 DEF PastInv
<1>18. Good(v, a)
  BY <1>9, <1>13, <1>14, <1>15, <1>16, <1>17 DEF Good, ConnInv, t
<1>19. Apart(w, v, a)
  BY <1>2, <1>8, <1>9, <1>14, AddsApart
<1>20. Good(v, bipc.aipc) /\ Apart(W, v, bipc.aipc)
       /\ MoreTasks(W.tasks, v.tasks, C) /\ v.backlog = W.backlog
       /\ v.r.aipc # "FREE" /\ PipeGone(W, v)
  BY <1>7, <1>9, <1>10, <1>18, <1>19 DEF w, a
<1> QED BY <1>1, <1>20, ApartKept

(* The usock is stopped when sipc has given it back.                       *)
LEMMA SipcStoppedKeeps ==
    ASSUME IInv, AipcSipcStopped
    PROVE  Kept
<1> DEFINE a == bipc.aipc
           w == W
           o == UsockStop(w)
           v == [o EXCEPT !.r.aipc = "STOPPING_USOCK"]
<1>1. events # <<>> /\ w.r.aipc = "STOPPING_SIPC" /\ Leave(v)
      /\ Head(events).to = "aipc" /\ Head(events).type = "STOPPED"
  BY DEF AipcSipcStopped, On
<1>2. w \in Worlds /\ w.c = C
  BY <1>1, HandledWorld
<1>3. Good(w, a)
  <2>1. Head(events) # AipcStopped(C) /\ Head(events) # SipcBroken(C)
    BY <1>1 DEF AipcStopped, SipcBroken
  <2> QED BY <1>1, <2>1, HandledGood
<1> HIDE DEF w, a
<1>4. /\ Good(o, a) /\ Adds(w, o) /\ o.excl = w.excl
      /\ SamePipe(w.r, o.r)
      /\ o.r.aipc = w.r.aipc /\ o.r.sipc = w.r.sipc
      /\ o.listener = w.listener \/ w.c = a
  BY <1>1, <1>2, <1>3, UsockStopGood
<1>5. o \in Worlds
  BY <1>4 DEF Adds
<1> HIDE DEF o
<1>6. /\ Adds(o, v) /\ v.excl = o.excl /\ v.listener = o.listener
      /\ v.events = o.events /\ v.tasks = o.tasks
      /\ SamePipe(o.r, v.r) /\ v.r.aipc = "STOPPING_USOCK"
      /\ v.r.sipc = o.r.sipc
      /\ v.r.streamhdr = o.r.streamhdr /\ v.r.timer = o.r.timer
      /\ v.r.usock = o.r.usock
  BY <1>5, AipcSet, ZenonT(30)
<1> HIDE DEF v
<1>7. NestInv(o.r) /\ PipeInv(o.c, o.r, o.excl, ToSet(o.events))
  BY <1>4 DEF Good, ConnInv
<1>8. o.r.pipe # "ACTIVE"
  BY <1>1, <1>4, <1>7 DEF PipeInv
<1>9. NestInv(v.r) /\ SameAccept(o.r, v.r)
  BY <1>1, <1>4, <1>6, <1>7 DEF NestInv, SameAccept
<1>10. PipeInv(v.c, v.r, v.excl, ToSet(v.events))
  BY <1>4, <1>5, <1>6, <1>8, PipeKept
<1>11. Good(v, a)
  BY <1>1, <1>4, <1>5, <1>6, <1>9, <1>10, GoodKept
<1>12. Adds(w, v)
  BY <1>2, <1>4, <1>6, AddsTrans
<1>13. Apart(w, v, a)
  BY <1>2, <1>4, <1>6, <1>12, AddsApart DEF SameExcl
<1>14. Good(v, bipc.aipc) /\ Apart(W, v, bipc.aipc)
       /\ MoreTasks(W.tasks, v.tasks, C) /\ v.backlog = W.backlog
       /\ v.r.aipc # "FREE" /\ v.excl = W.excl
  BY <1>2, <1>4, <1>6, <1>11, <1>12, <1>13 DEF Adds, w, a
<1> QED BY <1>1, <1>14, ApartKept

(* The usock is stopped: aipc has nothing left to stop.                    *)
LEMMA UsockStoppedKeeps ==
    ASSUME IInv, AipcUsockStopped
    PROVE  Kept
<1> DEFINE a == bipc.aipc
           w == W
           o == [w EXCEPT !.r.aipc = "DONE"]
           v == Raise(o, "bipc", "aipc", "ERROR")
           e == [to |-> "bipc", src |-> "aipc", type |-> "ERROR", c |-> o.c]
           s == ToSet(o.events)
           t == ToSet(v.events)
           r == v.r
<1>1. events # <<>> /\ w.r.aipc = "STOPPING_USOCK" /\ Leave(v)
      /\ Head(events).to = "aipc" /\ Head(events).type = "STOPPED"
  BY DEF AipcUsockStopped, On
<1>2. w \in Worlds /\ w.c = C
  BY <1>1, HandledWorld
<1>3. Good(w, a)
  <2>1. Head(events) # AipcStopped(C) /\ Head(events) # SipcBroken(C)
    BY <1>1 DEF AipcStopped, SipcBroken
  <2> QED BY <1>1, <2>1, HandledGood
<1> HIDE DEF w, a
<1>4. /\ Adds(w, o) /\ o.excl = w.excl /\ o.listener = w.listener
      /\ o.events = w.events /\ o.tasks = w.tasks
      /\ SamePipe(w.r, o.r) /\ o.r.aipc = "DONE" /\ o.r.sipc = w.r.sipc
      /\ o.r.streamhdr = w.r.streamhdr /\ o.r.timer = w.r.timer
      /\ o.r.usock = w.r.usock
  BY <1>2, AipcSet, Zenon
<1>5. o \in Worlds
  BY <1>4 DEF Adds
<1> HIDE DEF o
<1>6. NestInv(w.r) /\ PipeInv(w.c, w.r, w.excl, ToSet(w.events))
  BY <1>3 DEF Good, ConnInv
<1>7. w.r.pipe # "ACTIVE"
  BY <1>1, <1>6 DEF PipeInv
<1>8. NestInv(o.r) /\ SameAccept(w.r, o.r)
  BY <1>1, <1>4, <1>6 DEF NestInv, SameAccept
<1>9. PipeInv(o.c, o.r, o.excl, ToSet(o.events))
  BY <1>2, <1>3, <1>4, <1>7, PipeKept
<1>10. Good(o, a)
  BY <1>1, <1>2, <1>3, <1>4, <1>8, <1>9, GoodKept
<1>11. /\ v \in Worlds /\ v.c = o.c /\ v.r = o.r
       /\ v.listener = o.listener /\ v.backlog = o.backlog
       /\ v.excl = o.excl /\ v.tasks = o.tasks
       /\ v.events = Append(o.events, e)
       /\ ToSet(v.events) = ToSet(o.events) \cup {e}
       /\ e \in Events /\ e.c = o.c /\ e.src # "pipe"
       /\ e.type = "ERROR" /\ e.to = "bipc"
       /\ ~OfListener(e) /\ e # AipcStopped(o.c)
  BY <1>5, TellBipc
<1> HIDE DEF v, e
<1>12. PipeInv(o.c, r, o.excl, s) /\ PastInv(o.c, r, s, a)
       /\ AcceptInv(o.c, r, s, o.listener, a) /\ QueueInv(o.events)
       /\ NestInv(r) /\ r.aipc = "DONE" /\ o.events \in Seq(Events)
       /\ r.pipe # "ACTIVE"
  BY <1>4, <1>5, <1>7, <1>10, <1>11 DEF Good, ConnInv, Worlds, SamePipe
<1>13. t = s \cup {e}
  BY <1>11
<1> HIDE DEF s, t, r
<1>14. PipeInv(o.c, r, o.excl, t)
  BY <1>12, <1>13 DEF PipeInv
<1>15. PastInv(o.c, r, t, a)
  BY <1>11, <1>12, <1>13 DEF PastInv
<1>16. AcceptInv(o.c, r, t, o.listener, a)
  BY <1>12, <1>13 DEF AcceptInv
<1>17. QueueInv(v.events)
  <2>1. AipcStopped(o.c) \notin s /\ AipcStopped(o.c).c = o.c
    BY <1>12 DEF PastInv, AipcStopped
  <2>2. ~Acceptance(e)
    BY <1>11 DEF Acceptance
  <2> QED BY <1>11, <1>12, <2>1, <2>2, AppendQueue DEF s
<1>18. Good(v, a)
  BY <1>11, <1>12, <1>14, <1>15, <1>16, <1>17 DEF Good, ConnInv, t, r
<1>19. Apart(w, o, a) /\ Apart(o, v, a)
  <2>1. SameExcl(w.excl, o.excl, w.c)
    BY <1>4 DEF SameExcl
  <2> QED BY <1>2, <1>4, <1>11, <2>1, AddsApart, Zenon DEF Apart, SameExcl
<1>20. Apart(w, v, a)
  BY <1>19, ApartTrans
<1>21. Good(v, bipc.aipc) /\ Apart(W, v, bipc.aipc)
       /\ MoreTasks(W.tasks, v.tasks, C) /\ v.backlog = W.backlog
       /\ v.r.aipc # "FREE" /\ v.excl = W.excl
  BY <1>2, <1>4, <1>11, <1>18, <1>20 DEF Adds, w, a
<1> QED BY <1>1, <1>21, ApartKept

(* aipc's handler.                                                         *)
LEMMA AipcHandlerKeeps ==
    ASSUME IInv, AipcHandler
    PROVE  Kept
<1>1. CASE AipcShutdown
  <2> DEFINE w == W
  <2>1. events # <<>> /\ Leave(w) /\ w.r.aipc = "STOPPING_USOCK"
        /\ Head(events).to = "aipc" /\ Head(events).type = "SHUTDOWN"
    BY <1>1 DEF AipcShutdown, On
  <2>2. Good(w, bipc.aipc)
    <3>1. Head(events) # AipcStopped(C) /\ Head(events) # SipcBroken(C)
      BY <2>1 DEF AipcStopped, SipcBroken
    <3> QED BY <2>1, <3>1, HandledGood
  <2>3. w \in Worlds /\ w.c = C
    BY <2>1, HandledWorld
  <2> HIDE DEF w
  <2>4. Apart(w, w, bipc.aipc) /\ MoreTasks(w.tasks, w.tasks, C)
    BY <2>3, MoreTasksSame DEF Apart, SameExcl, Worlds
  <2> QED BY <2>1, <2>2, <2>4, ApartKept DEF w
<1>2. CASE AipcStops
  <2> DEFINE w == W
             a == bipc.aipc
  <2>1. events # <<>> /\ Head(events).to = "aipc"
    BY <1>2 DEF AipcStops
  <2>2. \/ w.r.aipc = "STOPPING_SIPC_FINAL" /\ Leave(AipcStoppingSipc(w))
        \/ w.r.aipc = "STOPPING" /\ Leave(AipcStopping(w))
    BY <1>2 DEF AipcStops
  <2>3. /\ w \in Worlds /\ w.r = conn[C] /\ C \in Conn
        /\ ConnInv(C, conn[C], excl, ToSet(events), listener, bipc.aipc)
    BY <2>1, HandledWorld
  <2>4. Good(w, a)
    <3>1. Head(events) # AipcStopped(C)
      BY <2>1 DEF AipcStopped
    <3>2. conn[C].pipe # "ACTIVE"
      BY <2>2, <2>3 DEF ConnInv, PipeInv
    <3> QED BY <2>1, <3>1, <3>2, HandledGood
  <2> HIDE DEF w
  <2>5. \E v : Leave(v) /\ Ends(w, v, a)
    BY <2>2, <2>3, <2>4, AipcStoppingEnds, AipcStoppingSipcEnds
  <2> QED BY <2>1, <2>5, EndsKept DEF w
<1> QED BY <1>1, <1>2, AcceptedKeeps, AcceptErrorKeeps, BrokenKeeps,
           SipcStoppedKeeps, UsockStoppedKeeps
        DEF AipcHandler

-----------------------------------------------------------------------------
(* bipc.                                                                   *)

(* The aipc of a connection that failed is stopped.                        *)
LEMMA ErrorKeeps ==
    ASSUME IInv, BipcError
    PROVE  Kept
<1> DEFINE w == W
           v == AipcStop(w)
<1>1. events # <<>> /\ Leave(v) /\ Head(events).type = "ERROR"
      /\ Head(events).to = "bipc" /\ Head(events).src = "aipc"
  BY DEF BipcError, On
<1>2. w \in Worlds /\ w.r = conn[C] /\ C \in Conn /\ Head(events).c = C
      /\ ConnInv(C, conn[C], excl, ToSet(events), listener, bipc.aipc)
      /\ Head(events) \in ToSet(events)
  BY <1>1, HandledWorld DEF C
<1>3. Good(w, bipc.aipc)
  <2>1. Head(events) # AipcStopped(C) /\ Head(events) # SipcBroken(C)
    BY <1>1 DEF AipcStopped, SipcBroken
  <2> QED BY <1>1, <2>1, HandledGood
<1>4. w.r.aipc # "FREE"
  BY <1>1, <1>2 DEF ConnInv, PastInv, OfListener
<1> HIDE DEF w
<1>5. Ends(w, v, bipc.aipc)
  BY <1>2, <1>3, <1>4, AipcStopEnds
<1> QED BY <1>1, <1>5, EndsKept DEF w

(* While bipc waits for the connection that is accepting to stop, what     *)
(* others tell it is dropped.                                              *)
LEMMA DropKeeps ==
    ASSUME IInv, events # <<>>, Leave(W), Head(events).to = "bipc",
           Head(events) # AipcStopped(C) \/ C # bipc.aipc
    PROVE  Kept
<1> DEFINE a == bipc.aipc
           w == W
           s == ToSet(events)
           t == ToSet(w.events)
           r == conn[C]
<1>1. /\ C \in Conn /\ Head(events) \in Events /\ Head(events).c = C
      /\ w \in Worlds /\ w.c = C /\ w.r = conn[C]
      /\ w.excl = excl /\ w.listener = listener
      /\ w.backlog = backlog /\ w.tasks = tasks
      /\ w.events \in Seq(Events) /\ QueueInv(w.events)
      /\ s = {Head(events)} \cup t
      /\ ConnInv(C, r, excl, s, listener, a)
      /\ \A d \in Conn \ {C} :
            ConnInv(d, conn[d], excl, t, listener, a)
  BY HandledWorld DEF C, Worlds
<1>2. Head(events) # SipcBroken(C)
      /\ (Head(events) # AipcStopped(C) \/ C # a)
  BY DEF SipcBroken
<1>3. conn' = [conn EXCEPT ![w.c] = w.r] /\ listener' = w.listener
      /\ backlog' = w.backlog /\ excl' = w.excl /\ events' = w.events
      /\ tasks' = w.tasks /\ bipc' = bipc /\ batch' = batch
  BY EnterFacts DEF Leave
<1> HIDE DEF w, s, t, a
<1>4. conn' = conn /\ listener' = listener /\ backlog' = backlog
      /\ excl' = excl /\ tasks' = tasks
  <2>1. conn \in [Conn -> Record]
    BY SameTypes
  <2> QED BY <1>1, <1>3, <2>1
<1>5. ConnInv(C, r, excl, t, listener, a)
  <2> HIDE DEF r
  <2>1. NestInv(r) /\ PipeInv(C, r, excl, s) /\ PastInv(C, r, s, a)
        /\ AcceptInv(C, r, s, listener, a)
    BY <1>1 DEF ConnInv
  <2>2. \A x, type : Offered(C, t, x, type) => Offered(C, s, x, type)
    BY <1>1 DEF Offered
  <2>3. PipeInv(C, r, excl, t)
    BY <1>1, <1>2, <2>1, <2>2 DEF PipeInv
  <2>4. PastInv(C, r, t, a)
    BY <1>1, <2>1 DEF PastInv
  <2>5. AcceptInv(C, r, t, listener, a)
    BY <1>1, <1>2, <2>1 DEF AcceptInv
  <2> QED BY <2>1, <2>3, <2>4, <2>5 DEF ConnInv
<1>6. \A d \in Conn : ConnInv(d, conn'[d], excl', ToSet(events'), listener',
                              bipc'.aipc)
  <2>1. \A d \in Conn : ConnInv(d, conn[d], excl, t, listener, a)
    BY <1>1, <1>5
  <2> QED BY <1>3, <1>4, <2>1 DEF t, a
<1>7. TypeInv' /\ BipcInv' /\ TaskInv' /\ QueueInv(events')
  BY <1>1, <1>3, <1>4 DEF IInv, TypeInv, BipcInv, TaskInv
<1> QED BY <1>4, <1>6, <1>7 DEF Kept, ExclStep, IInv

(* The end of the connection that is accepting is not dropped: nothing is  *)
(* heard of it later.                                                      *)
LEMMA DropsKeeps ==
    ASSUME IInv, BipcDrops
    PROVE  Kept
<1> DEFINE a == bipc.aipc
           w == W
           u == World(a)
<1>1. events # <<>> /\ Leave(w) /\ Head(events).to = "bipc"
      /\ bipc.state = "STOPPING_AIPC" /\ ~Idle(u, "aipc")
  BY DEF BipcDrops
<1>2. a \in Conn
  BY <1>1 DEF IInv, BipcInv, TypeInv, Bipcs
<1>3. /\ C \in Conn /\ Head(events) \in ToSet(events) /\ Head(events).c = C
      /\ w.events = Tail(events)
      /\ ConnInv(C, conn[C], excl, ToSet(events), listener, a)
      /\ \A f \in ToSet(w.events) :
            Head(events) = AipcStopped(f.c) => OfListener(f)
  BY <1>1, HandledWorld DEF C
<1>4. u.c = a /\ u.r = conn[a] /\ u.events = w.events
  BY <1>1, <1>2, <1>3, WorldType
<1>5. ASSUME Head(events) = AipcStopped(C), C = a
      PROVE  FALSE
  <2>1. conn[a].aipc = "IDLE"
    BY <1>3, <1>5 DEF ConnInv, PastInv
  <2>2. PICK i \in DOMAIN u.events : /\ u.events[i].c = a
                                     /\ u.events[i].src = "aipc"
    BY <1>1, <1>4, <2>1 DEF Idle
  <2>3. u.events[i] \in ToSet(w.events)
    BY <1>4, <2>2 DEF ToSet
  <2> QED BY <1>3, <1>5, <2>2, <2>3 DEF OfListener
<1> QED BY <1>1, <1>5, DropKeeps

(* The accepted connection joins the list, and a new aipc accepts: the     *)
(* connection it takes was forgotten.                                      *)
LEMMA BipcAcceptedKeeps ==
    ASSUME IInv, BipcAccepted
    PROVE  Kept
<1> DEFINE a == bipc.aipc
           s == ToSet(events)
<1>1. events # <<>> /\ Head(events).to = "bipc"
      /\ Head(events).type = "ACCEPTED" /\ Head(events).src = "aipc"
      /\ bipc.state = "ACTIVE" /\ batch' = batch
  BY DEF BipcAccepted, On
<1>2. PICK d \in Conn : /\ conn[d].aipc = "FREE"
                        /\ \E v \in AipcStart(World(d)) : Enter(v)
                        /\ bipc' = [bipc EXCEPT !.aipc = d,
                                                !.aipcs = Append(@, C)]
  BY DEF BipcAccepted
<1>3. /\ C \in Conn /\ Head(events) \in Events /\ Head(events).c = C
      /\ W.events = Tail(events) /\ QueueInv(W.events)
      /\ s = {Head(events)} \cup ToSet(W.events)
      /\ \A f \in ToSet(W.events) : ~Acceptance(f)
  <2>1. Acceptance(Head(events))
    BY <1>1 DEF Acceptance
  <2> QED BY <1>1, <2>1, HandledWorld DEF C
<1>4. /\ \A c \in Conn : ConnInv(c, conn[c], excl, s, listener, a)
      /\ TypeInv /\ BipcInv /\ TaskInv
  BY DEF IInv
<1>5. C = a /\ conn[C].aipc \notin {"FREE", "ACCEPTING"}
      /\ conn[C].usock # "BEING_ACCEPTED"
  <2>1. PastInv(C, conn[C], s, a) /\ Head(events) \in s
    BY <1>3, <1>4 DEF ConnInv
  <2> QED BY <1>1, <1>3, <2>1 DEF PastInv, OfListener
<1>6. d # C
  BY <1>2, <1>5
<1> DEFINE w == World(d)
<1>7. PICK v \in AipcStart(w) : Enter(v)
  BY <1>2
<1>8. /\ w \in Worlds /\ w.c = d /\ w.excl = excl /\ w.listener = listener
      /\ w.backlog = backlog /\ w.tasks = tasks /\ w.events = W.events
  BY <1>1, <1>3, WorldType
<1> HIDE DEF w, a
<1> DEFINE t == ToSet(w.events)
<1>9. \A e : e \in t => e \in s
  BY <1>3, <1>8
<1>10. \A e : e \in s => e \in t \/ e = Head(events)
  BY <1>3, <1>8
<1> HIDE DEF s
<1>11. PipeInv(d, conn[d], excl, s) /\ PastInv(d, conn[d], s, a)
  BY <1>4 DEF ConnInv
<1>12. excl.pipe # d /\ excl.inpipe # d /\ excl.outpipe # d
  BY <1>2, <1>11 DEF PipeInv
<1>13. \A e \in t : e.c = d => OfListener(e)
  BY <1>2, <1>9, <1>11 DEF PastInv
<1>14. Accepts(w, v, d)
  BY <1>3, <1>7, <1>8, <1>12, <1>13, AipcStartAccepts
<1> DEFINE u == ToSet(v.events)
<1>15. /\ Good(v, d) /\ v.backlog \in 0..w.backlog
       /\ MoreTasks(w.tasks, v.tasks, d) /\ v.excl = excl
       /\ v.r.aipc # "FREE" /\ v.c = d
       /\ v \in Worlds
       /\ \A e \in u : e \in t \/ e.c = d
  BY <1>8, <1>14 DEF Accepts, Apart, Good
<1>16. t \subseteq u
  BY <1>14 DEF Accepts, Apart
<1>17. conn' = [conn EXCEPT ![d] = v.r] /\ listener' = v.listener
       /\ backlog' = v.backlog /\ excl' = excl /\ events' = v.events
       /\ tasks' = v.tasks
  BY <1>7, <1>15, EnterFacts
<1>18. conn \in [Conn -> Record] /\ v.r \in Record /\ v.events \in Seq(Events)
       /\ v.listener \in Listeners /\ v.tasks \in Seq(Tasks)
       /\ excl \in Excls /\ batch \in Seq(Tasks)
  BY <1>4, <1>15 DEF TypeInv, Worlds
<1>19. conn' \in [Conn -> Record] /\ conn'[d] = v.r
       /\ \A c \in Conn \ {d} : conn'[c] = conn[c]
  BY <1>17, <1>18
<1>20. /\ bipc \in Bipcs /\ bipc.aipcs \in Seq(Conn)
       /\ bipc'.state = "ACTIVE" /\ bipc'.aipc = d
       /\ bipc'.aipcs = Append(bipc.aipcs, C)
       /\ bipc' \in Bipcs
  <2>1. bipc \in Bipcs /\ bipc.aipcs \in Seq(Conn)
    BY <1>4 DEF TypeInv, Bipcs
  <2>2. Append(bipc.aipcs, C) \in Seq(Conn)
    BY <1>3, <2>1
  <2> QED BY <1>1, <1>2, <2>1, <2>2 DEF Bipcs
<1>21. TypeInv'
  <2>1. backlog' \in 0..Cardinality(Conn)
    BY <1>8, <1>15, <1>17, SameTypes
  <2> QED BY <1>1, <1>17, <1>18, <1>19, <1>20, <2>1 DEF TypeInv
<1>22. QueueInv(events')
  BY <1>15, <1>17 DEF Good
<1>23. ASSUME NEW c \in Conn
       PROVE  ConnInv(c, conn'[c], excl', ToSet(events'), listener',
                      bipc'.aipc)
  <2>1. CASE c = d
    BY <1>15, <1>17, <1>19, <1>20, <2>1 DEF Good
  <2>2. CASE c # d
    <3> DEFINE r == conn[c]
    <3>1. NestInv(r) /\ PipeInv(c, r, excl, s) /\ PastInv(c, r, s, a)
          /\ AcceptInv(c, r, s, listener, a)
      BY <1>4 DEF ConnInv
    <3>2. c = C => r.aipc # "ACCEPTING" /\ r.usock # "BEING_ACCEPTED"
      BY <1>5
    <3> HIDE DEF r
    <3>3. \A e \in u : e.c = c => e \in s /\ ~Acceptance(e)
      BY <1>3, <1>8, <1>9, <1>15, <2>2
    <3>4. SipcBroken(c) \in s => SipcBroken(c) \in u
      <4>1. SipcBroken(c) # Head(events)
        BY <1>1 DEF SipcBroken
      <4> QED BY <1>10, <1>16, <4>1
    <3>5. \A x, type : Offered(c, u, x, type) => Offered(c, s, x, type)
      BY <3>3 DEF Offered
    <3> HIDE DEF u
    <3>6. PipeInv(c, r, excl, u)
      BY <3>1, <3>4, <3>5 DEF PipeInv
    <3>7. PastInv(c, r, u, d)
      BY <3>1, <3>3 DEF PastInv, Acceptance
    <3>8. AcceptInv(c, r, u, listener', d)
      BY <1>5, <2>2, <3>1, <3>2 DEF AcceptInv
    <3>9. ConnInv(c, r, excl, u, listener', d)
      BY <3>1, <3>6, <3>7, <3>8 DEF ConnInv
    <3> QED BY <1>17, <1>19, <1>20, <2>2, <3>9 DEF r, u
  <2> QED BY <2>1, <2>2
<1>24. BipcInv'
  <2>1. /\ Len(bipc.aipcs) \in Nat /\ DOMAIN bipc.aipcs = 1..Len(bipc.aipcs)
        /\ DOMAIN bipc'.aipcs = 1..(Len(bipc.aipcs) + 1)
        /\ \A i \in DOMAIN bipc.aipcs : bipc'.aipcs[i] = bipc.aipcs[i]
        /\ bipc'.aipcs[Len(bipc.aipcs) + 1] = C
    BY <1>3, <1>20
  <2>2. \A i \in DOMAIN bipc.aipcs :
           /\ bipc.aipcs[i] \in Conn /\ bipc.aipcs[i] # C
           /\ conn[bipc.aipcs[i]].aipc # "FREE"
    BY <1>4, <1>5, <1>20 DEF BipcInv, a
  <2>3. \A i \in DOMAIN bipc'.aipcs :
           i \in DOMAIN bipc.aipcs \/ i = Len(bipc.aipcs) + 1
    BY <2>1
  <2>4. \A i, j \in DOMAIN bipc'.aipcs :
           bipc'.aipcs[i] = bipc'.aipcs[j] => i = j
    BY <1>4, <2>1, <2>2, <2>3 DEF BipcInv
  <2>5. ASSUME NEW i \in DOMAIN bipc'.aipcs
        PROVE  bipc'.aipcs[i] # d /\ conn'[bipc'.aipcs[i]].aipc # "FREE"
    <3>1. CASE i \in DOMAIN bipc.aipcs
      <4> DEFINE b == bipc.aipcs[i]
      <4>1. bipc'.aipcs[i] = b /\ b \in Conn /\ conn[b].aipc # "FREE"
        BY <2>1, <2>2, <3>1
      <4> HIDE DEF b
      <4>2. b # d
        BY <1>2, <4>1
      <4>3. conn'[b].aipc # "FREE"
        BY <1>19, <4>1, <4>2
      <4> QED BY <4>1, <4>2, <4>3
    <3>2. CASE i = Len(bipc.aipcs) + 1
      <4>1. bipc'.aipcs[i] = C
        BY <2>1, <3>2
      <4>2. conn'[C].aipc # "FREE"
        BY <1>3, <1>5, <1>6, <1>19
      <4> QED BY <1>6, <4>1, <4>2
    <3> QED BY <2>3, <3>1, <3>2
  <2> QED BY <1>15, <1>19, <1>20, <2>4, <2>5, IpcAssumption DEF BipcInv
<1>25. TaskInv'
  <2> SUFFICES ASSUME NEW c \in Conn, conn'[c].aipc = "FREE"
               PROVE  /\ \A x \in ToSet(tasks') : x.c # c
                      /\ \A x \in ToSet(batch') : x.c # c
    BY DEF TaskInv
  <2>1. c # d /\ c # None /\ conn[c].aipc = "FREE"
    BY <1>15, <1>19, IpcAssumption
  <2> QED BY <1>1, <1>4, <1>8, <1>15, <1>17, <2>1 DEF TaskInv, MoreTasks
<1>26. IInv'
  BY <1>21, <1>22, <1>23, <1>24, <1>25 DEF IInv
<1> QED BY <1>17, <1>26 DEF Kept, ExclStep

-----------------------------------------------------------------------------
(* Loops over a list: numbers have no infinite descent.                    *)

(* Numbers have a least.                                                   *)
LEMMA LeastNumber ==
    ASSUME NEW U \in SUBSET Nat, U # {}
    PROVE  \E m \in U : \A k \in U : m <= k
<1> DEFINE R == {ss \in Nat \X Nat : ss[1] < ss[2]}
<1>1. OpToRel(<, Nat) = R
  BY DEF OpToRel
<1>2. IsWellFoundedOn(R, Nat)
  BY <1>1, NatLessThanWellFounded
<1>3. \E m \in U : \A k \in U : <<k, m>> \notin R
  <2> HIDE DEF R
  <2> QED BY <1>2, WFMin
<1>4. PICK m \in U : \A k \in U : <<k, m>> \notin R
  BY <1>3
<1>5. \A k \in U : m <= k
  <2> TAKE k \in U
  <2>1. <<k, m>> \notin R /\ k \in Nat /\ m \in Nat
    BY <1>4
  <2> QED BY <2>1
<1> QED BY <1>5

(* A set of places in a list that has the first, and the next of each, has *)
(* the last.                                                               *)
LEMMA Steps ==
    ASSUME NEW n \in Nat, NEW S \in SUBSET (0..n), 0 \in S,
           \A i \in 1..n : i - 1 \in S => i \in S
    PROVE  \A i \in 0..n : i \in S
<1> DEFINE U == (0..n) \ S
<1>1. CASE U # {}
  <2>1. U \in SUBSET Nat
    OBVIOUS
  <2>2. PICK m \in U : \A k \in U : m <= k
    <3> HIDE DEF U
    <3> QED BY <1>1, <2>1, LeastNumber
  <2>3. m \in 1..n /\ m - 1 \in 0..n /\ ~(m <= m - 1)
    BY <2>2
  <2>4. m - 1 \in S
    BY <2>2, <2>3
  <2> QED BY <2>2, <2>3, <2>4
<1> QED BY <1>1

(* The tasks that are left when those of a connection are cancelled.       *)
LEMMA OthersAre ==
    ASSUME NEW q \in Seq(Tasks), NEW c
    PROVE  /\ Others(q, c) \in Seq(Tasks)
           /\ \A t \in ToSet(Others(q, c)) : t \in ToSet(q) /\ t.c # c
           /\ \A t \in ToSet(q) : t.c # c => t \in ToSet(Others(q, c))
<1> DEFINE Grown(p, i) == IF q[i].c = c THEN p ELSE Append(p, q[i])
           Def(f, n) == f = [i \in 0..n |-> IF i = 0 THEN <<>>
                                            ELSE Grown(f[i - 1], i)]
           N == Len(q)
<1>1. N \in Nat /\ \A i \in 1..N : q[i] \in Tasks /\ q[i] \in ToSet(q)
  BY DEF ToSet
<1>2. \A n \in 0..N : \E f : Def(f, n)
  <2> DEFINE S == {n \in 0..N : \E f : Def(f, n)}
  <2>1. 0 \in S
    <3>1. Def([i \in 0..0 |-> <<>>], 0)
      OBVIOUS
    <3>2. 0 \in 0..N
      BY <1>1
    <3> HIDE DEF Def
    <3> QED BY <3>1, <3>2
  <2>2. ASSUME NEW n \in 1..N, n - 1 \in S
        PROVE  n \in S
    <3>1. PICK f : Def(f, n - 1)
      <4> HIDE DEF Def
      <4> QED BY <2>2
    <3> DEFINE g == [i \in 0..n |-> IF i = n THEN Grown(f[n - 1], n)
                                             ELSE f[i]]
    <3>2. \A i \in 0..(n - 1) : f[i] = IF i = 0 THEN <<>>
                                       ELSE Grown(f[i - 1], i)
      BY <3>1
    <3> HIDE DEF Grown
    <3>3. ASSUME NEW i \in 0..n
          PROVE  g[i] = IF i = 0 THEN <<>> ELSE Grown(g[i - 1], i)
      <4>1. CASE i = n
        BY <1>1, <4>1
      <4>2. CASE i # n
        <5>1. i \in 0..(n - 1) /\ (i # 0 => i - 1 \in 0..n /\ i - 1 # n)
          BY <1>1, <4>2
        <5> QED BY <3>2, <4>2, <5>1
      <4> QED BY <4>1, <4>2
    <3>4. Def(g, n)
      BY <3>3
    <3>5. n \in 0..N
      BY <1>1
    <3> HIDE DEF Def, g
    <3> QED BY <3>4, <3>5
  <2>3. S \in SUBSET (0..N)
    OBVIOUS
  <2> HIDE DEF S
  <2>4. \A n \in 0..N : n \in S
    BY <1>1, <2>1, <2>2, <2>3, Steps
  <2> QED BY <2>4 DEF S
<1> DEFINE g == CHOOSE f : Def(f, N)
<1>3. Def(g, N)
  <2> HIDE DEF Def
  <2>1. \E f : Def(f, N)
    BY <1>1, <1>2
  <2> QED BY <2>1
<1>4. Others(q, c) = g[N]
  BY DEF Others
<1> HIDE DEF g
<1>5. g[0] = <<>> /\ \A i \in 1..N : g[i] = Grown(g[i - 1], i)
  <2>1. \A i \in 0..N : g[i] = IF i = 0 THEN <<>> ELSE Grown(g[i - 1], i)
    BY <1>3
  <2> QED BY <1>1, <2>1
<1> DEFINE Rest(p, n) ==
               /\ p \in Seq(Tasks)
               /\ \A t \in ToSet(p) : t \in ToSet(q) /\ t.c # c
               /\ \A i \in 1..n : q[i].c # c => q[i] \in ToSet(p)
           S == {n \in 0..N : Rest(g[n], n)}
<1>6. 0 \in S
  <2>1. Rest(<<>>, 0)
    BY DEF ToSet
  <2>2. Rest(g[0], 0) /\ 0 \in 0..N
    BY <1>1, <1>5, <2>1
  <2> HIDE DEF Rest
  <2> QED BY <2>2
<1>7. ASSUME NEW n \in 1..N, n - 1 \in S
      PROVE  n \in S
  <2> DEFINE p == g[n - 1]
  <2>1. Rest(p, n - 1) /\ g[n] = Grown(p, n) /\ n \in 0..N
    <3> HIDE DEF Rest, Grown
    <3> QED BY <1>1, <1>5, <1>7
  <2>2. \A i \in 1..n : i = n \/ i \in 1..(n - 1)
    BY <1>1
  <2> HIDE DEF p
  <2>3. CASE q[n].c = c
    <3>1. Rest(g[n], n)
      BY <2>1, <2>2, <2>3
    <3> HIDE DEF Rest
    <3> QED BY <2>1, <3>1
  <2>4. CASE q[n].c # c
    <3>1. g[n] = Append(p, q[n])
      BY <2>1, <2>4
    <3>2. Append(p, q[n]) \in Seq(Tasks)
          /\ ToSet(Append(p, q[n])) = ToSet(p) \cup {q[n]}
      BY <1>1, <2>1, AppendSet
    <3>3. Rest(g[n], n)
      BY <1>1, <2>1, <2>2, <2>4, <3>1, <3>2
    <3> HIDE DEF Rest
    <3> QED BY <2>1, <3>3
  <2> QED BY <2>3, <2>4
<1>8. S \in SUBSET (0..N)
  OBVIOUS
<1> HIDE DEF S
<1>9. N \in S
  <2>1. N \in 0..N
    BY <1>1
  <2> QED BY <2>1, <1>1, <1>6, <1>7, <1>8, Steps
<1>10. Rest(g[N], N)
  <2> HIDE DEF Rest
  <2> QED BY <1>9 DEF S
<1>11. \A t \in ToSet(q) : \E i \in 1..N : t = q[i]
  BY DEF ToSet
<1> QED BY <1>4, <1>10, <1>11

(* A list without one of its members.                                      *)
LEMMA RemovedAre ==
    ASSUME NEW q \in Seq(Conn), NEW k \in DOMAIN q,
           \A i, j \in DOMAIN q : q[i] = q[j] => i = j
    PROVE  LET p == RemoveAt(q, k)
           IN  /\ p \in Seq(Conn) /\ Len(p) = Len(q) - 1
               /\ \A i, j \in DOMAIN p : p[i] = p[j] => i = j
               /\ \A i \in DOMAIN p : /\ p[i] # q[k]
                                      /\ \E j \in DOMAIN q : p[i] = q[j]
<1> DEFINE N == Len(q)
           b == SubSeq(q, 1, k - 1)
           e == SubSeq(q, k + 1, N)
           p == b \o e
<1>1. N \in Nat /\ DOMAIN q = 1..N /\ k \in 1..N
  OBVIOUS
<1>2. b \in Seq(Conn) /\ Len(b) = k - 1
      /\ \A i \in 1..(k - 1) : b[i] = q[i]
  BY <1>1
<1>3. /\ e \in Seq(Conn) /\ Len(e) = N - k
      /\ \A i \in 1..(N - k) : e[i] = q[k + i]
  <2>1. e \in Seq(Conn)
    BY <1>1
  <2>2. Len(e) = N - k
    BY <1>1
  <2>3. \A i \in 1..(N - k) : e[i] = q[k + i]
    <3> TAKE i \in 1..(N - k)
    <3>1. e[i] = q[(k + 1) + i - 1]
      BY <1>1
    <3>2. (k + 1) + i - 1 = k + i
      BY <1>1
    <3> QED BY <3>1, <3>2
  <2> QED BY <2>1, <2>2, <2>3
<1>4. RemoveAt(q, k) = p
  BY DEF RemoveAt
<1> HIDE DEF b, e
<1>5. /\ p \in Seq(Conn) /\ Len(p) = N - 1 /\ DOMAIN p = 1..(N - 1)
      /\ \A i \in 1..(N - 1) : p[i] = IF i <= k - 1 THEN b[i]
                                      ELSE e[i - (k - 1)]
  <2>1. b \in Seq(Conn) /\ e \in Seq(Conn)
    BY <1>2, <1>3
  <2>2. p \in Seq(Conn) /\ Len(p) = Len(b) + Len(e)
    BY <2>1
  <2>3. \A i \in 1..(Len(b) + Len(e)) :
           p[i] = IF i <= Len(b) THEN b[i] ELSE e[i - Len(b)]
    BY <2>1
  <2>4. Len(b) = k - 1 /\ Len(e) = N - k /\ Len(b) + Len(e) = N - 1
    BY <1>1, <1>2, <1>3
  <2>5. Len(p) = N - 1
    BY <2>2, <2>4
  <2>6. DOMAIN p = 1..(N - 1)
    <3> HIDE DEF p
    <3> QED BY <2>2, <2>5
  <2> HIDE DEF p
  <2> QED BY <2>2, <2>3, <2>4, <2>5, <2>6, Zenon
<1> HIDE DEF p
<1> DEFINE At(i) == IF i <= k - 1 THEN i ELSE i + 1
<1>6. \A i \in 1..(N - 1) : p[i] = q[At(i)] /\ At(i) \in 1..N /\ At(i) # k
  <2> TAKE i \in 1..(N - 1)
  <2>1. CASE i <= k - 1
    BY <1>1, <1>2, <1>5, <2>1
  <2>2. CASE ~(i <= k - 1)
    <3>1. i - (k - 1) \in 1..(N - k) /\ k + (i - (k - 1)) = i + 1
          /\ i + 1 \in 1..N /\ i + 1 # k
      BY <1>1, <2>2
    <3> QED BY <1>3, <1>5, <2>2, <3>1, Zenon
  <2> QED BY <2>1, <2>2
<1>7. \A i, j \in 1..(N - 1) : At(i) = At(j) => i = j
  BY <1>1
<1>8. \A i, j \in DOMAIN p : p[i] = p[j] => i = j
  <2> HIDE DEF At
  <2> TAKE i, j \in DOMAIN p
  <2> HAVE p[i] = p[j]
  <2>1. i \in 1..(N - 1) /\ j \in 1..(N - 1)
    BY <1>5
  <2>2. At(i) \in DOMAIN q /\ At(j) \in DOMAIN q /\ q[At(i)] = q[At(j)]
    BY <1>1, <1>6, <2>1
  <2>3. At(i) = At(j)
    BY <2>2
  <2> QED BY <1>7, <2>1, <2>3
<1>9. \A i \in DOMAIN p : p[i] # q[k] /\ \E j \in DOMAIN q : p[i] = q[j]
  <2> HIDE DEF At
  <2> QED BY <1>1, <1>5, <1>6
<1>10. p \in Seq(Conn) /\ Len(p) = Len(q) - 1
  BY <1>5
<1> QED BY <1>4, <1>8, <1>9, <1>10

-----------------------------------------------------------------------------
(* The memory of a connection that has ended is freed.                     *)

(* A connection nobody uses has no machine that runs.                      *)
LEMMA FreedFacts ==
    /\ Fresh \in Record /\ Fresh.aipc = "FREE" /\ Fresh.usock = "IDLE"
    /\ Fresh.pipe = "IDLE" /\ NestInv(Fresh)
<1>1. 0 \in 0..MaxUnread
  BY BoundsAssumption
<1>2. Fresh \in Record
  BY <1>1, Zenon DEF Fresh, Record
<1>3. /\ Fresh.aipc = "FREE" /\ Fresh.usock = "IDLE" /\ Fresh.pipe = "IDLE"
      /\ Fresh.sipc = "IDLE" /\ Fresh.streamhdr = "IDLE"
      /\ Fresh.timer = "IDLE"
  BY DEF Fresh
<1> QED BY <1>2, <1>3 DEF NestInv

(* It is forgotten: what the worker had of it is cancelled, and no event   *)
(* but the listener's carries its name.                                    *)
LEMMA FreeKeeps ==
    ASSUME IInv, events # <<>>, Head(events) = AipcStopped(C), CanFree(W),
           NEW v, Enter(v), v.c = C, v.r = Fresh, v.backlog = backlog,
           v.excl = excl, v.tasks = Others(tasks, C),
           v.listener \in Listeners, v.events \in Seq(Events),
           QueueInv(v.events), ToSet(W.events) \subseteq ToSet(v.events),
           \A e \in ToSet(v.events) :
              e \in ToSet(W.events) \/ (OfListener(e) /\ e.c = C),
           batch' = batch, bipc' \in Bipcs, BipcInv',
           \/ /\ bipc'.aipc = bipc.aipc /\ bipc.aipc # C
              /\ v.listener = listener
           \/ bipc'.aipc = None /\ bipc.aipc = C
    PROVE  Kept
<1> DEFINE a == bipc.aipc
           b == bipc'.aipc
           l == v.listener
           s == ToSet(events)
           t == ToSet(W.events)
           u == ToSet(v.events)
<1>1. /\ C \in Conn /\ Head(events) \in s
      /\ s = {Head(events)} \cup t
      /\ ConnInv(C, conn[C], excl, s, listener, a)
      /\ \A f \in t : Head(events) = AipcStopped(f.c) => OfListener(f)
      /\ \A d \in Conn \ {C} :
            ConnInv(d, conn[d], excl, t, listener, a)
      /\ W.c = C /\ W.r = conn[C]
  BY HandledWorld
<1>2. conn' = [conn EXCEPT ![C] = Fresh] /\ listener' = l
      /\ backlog' = backlog /\ excl' = excl /\ events' = v.events
      /\ tasks' = Others(tasks, C)
  BY EnterFacts
<1>3. conn \in [Conn -> Record] /\ tasks \in Seq(Tasks)
      /\ batch \in Seq(Tasks) /\ TypeInv /\ TaskInv
  BY DEF IInv, TypeInv
<1>4. conn' \in [Conn -> Record] /\ conn'[C] = Fresh
      /\ \A d \in Conn \ {C} : conn'[d] = conn[d]
  BY <1>1, <1>2, <1>3, FreedFacts
<1>5. Others(tasks, C) \in Seq(Tasks)
      /\ \A x \in ToSet(Others(tasks, C)) : x \in ToSet(tasks) /\ x.c # C
  BY <1>3, OthersAre
<1>6. TypeInv'
  BY <1>2, <1>3, <1>4, <1>5 DEF TypeInv
<1>7. /\ ToSet(W.events) \subseteq u
      /\ \A e \in u : e \in t \/ (OfListener(e) /\ e.c = C)
  OBVIOUS
<1>8. /\ \/ b = a /\ a # C /\ l = listener
         \/ b = None /\ a = C
      /\ C # None /\ None \notin Conn
  BY <1>1, IpcAssumption
<1>9. ASSUME NEW d \in Conn
      PROVE  ConnInv(d, conn'[d], excl', ToSet(events'), listener',
                     bipc'.aipc)
  <2>1. CASE d = C
    <3>1. PipeInv(C, conn[C], excl, s) /\ PastInv(C, conn[C], s, a)
      BY <1>1 DEF ConnInv
    <3>2. conn[C].aipc = "IDLE"
      BY <1>1, <3>1 DEF PastInv, AipcStopped
    <3>3. excl.pipe # C /\ excl.inpipe # C /\ excl.outpipe # C
      BY <3>1, <3>2 DEF PipeInv
    <3>4. \A e \in u : e.c = C => OfListener(e)
      BY <1>1, <1>7
    <3> HIDE DEF s, t, u, a, b, l
    <3>5. PipeInv(C, Fresh, excl, u)
      BY <3>3, FreedFacts DEF PipeInv
    <3>6. PastInv(C, Fresh, u, b)
      BY <3>4, FreedFacts DEF PastInv, OfListener, AipcStopped
    <3>7. AcceptInv(C, Fresh, u, l, b)
      BY <1>8, FreedFacts DEF AcceptInv
    <3>8. ConnInv(C, Fresh, excl, u, l, b)
      BY <3>5, <3>6, <3>7, FreedFacts DEF ConnInv
    <3> QED BY <1>2, <1>4, <2>1, <3>8 DEF u, l, b
  <2>2. CASE d # C
    <3> DEFINE r == conn[d]
    <3>1. NestInv(r) /\ PipeInv(d, r, excl, t) /\ PastInv(d, r, t, a)
          /\ AcceptInv(d, r, t, listener, a)
      BY <1>1, <2>2 DEF ConnInv
    <3> HIDE DEF s, t, u, a, b, l, r
    <3>2. \A e : e.c = d => (e \in u <=> e \in t)
      BY <1>7, <2>2 DEF t
    <3>3. SipcBroken(d).c = d /\ AipcStopped(d).c = d
      BY DEF SipcBroken, AipcStopped
    <3>4. \A x, type : Offered(d, u, x, type) => Offered(d, t, x, type)
      BY <3>2 DEF Offered
    <3>5. PipeInv(d, r, excl, u)
      BY <3>1, <3>2, <3>3, <3>4 DEF PipeInv
    <3>6. PastInv(d, r, u, b)
      BY <1>8, <2>2, <3>1, <3>2 DEF PastInv
    <3>7. AcceptInv(d, r, u, l, b)
      BY <1>8, <2>2, <3>1, <3>2, <3>3 DEF AcceptInv
    <3>8. ConnInv(d, r, excl, u, l, b)
      BY <3>1, <3>5, <3>6, <3>7 DEF ConnInv
    <3> QED BY <1>2, <1>4, <2>2, <3>8 DEF u, l, b, r
  <2> QED BY <2>1, <2>2
<1>10. TaskInv'
  <2> SUFFICES ASSUME NEW d \in Conn, conn'[d].aipc = "FREE"
               PROVE  /\ \A x \in ToSet(tasks') : x.c # d
                      /\ \A x \in ToSet(batch') : x.c # d
    BY DEF TaskInv
  <2>1. CASE d = C
    <3>1. \A x \in ToSet(batch) : x.c # C
      BY <1>1 DEF CanFree, ToSet
    <3> QED BY <1>2, <1>5, <2>1, <3>1
  <2>2. CASE d # C
    <3>1. conn[d].aipc = "FREE"
      BY <1>4, <2>2
    <3> QED BY <1>2, <1>3, <1>5, <3>1 DEF TaskInv
  <2> QED BY <2>1, <2>2
<1>11. QueueInv(events')
  BY <1>2
<1>12. IInv'
  BY <1>6, <1>9, <1>10, <1>11 DEF IInv
<1> QED BY <1>2, <1>12 DEF Kept, ExclStep

(* A connection in bipc's list is freed.                                   *)
LEMMA ListFreeKeeps ==
    ASSUME IInv, On("bipc", "aipc", {"STOPPED"}), CanFree(W), Enter(Free(W)),
           batch' = batch, NEW i \in Places, bipc' \in Bipcs,
           bipc'.aipc = bipc.aipc, bipc'.aipcs = RemoveAt(bipc.aipcs, i),
           bipc'.state \in {"ACTIVE", "STOPPING_AIPC"}
              <=> bipc.state \in {"ACTIVE", "STOPPING_AIPC"}
    PROVE  Kept
<1> DEFINE w == W
           v == Free(w)
           q == bipc.aipcs
           p == RemoveAt(q, i)
<1>1. /\ C \in Conn /\ Head(events) \in Events
      /\ w \in Worlds /\ w.c = C /\ w.r = conn[C]
      /\ w.excl = excl /\ w.listener = listener
      /\ w.backlog = backlog /\ w.tasks = tasks
      /\ QueueInv(w.events) /\ events # <<>>
  BY HandledWorld DEF On
<1>2. Head(events) = AipcStopped(C)
  BY <1>1 DEF On, C, AipcStopped, Events
<1>3. i \in DOMAIN q /\ q[i] = C /\ q \in Seq(Conn)
      /\ BipcInv /\ conn \in [Conn -> Record]
  BY DEF Places, IInv, TypeInv, Bipcs
<1>4. C # bipc.aipc
  BY <1>3 DEF BipcInv
<1> HIDE DEF w
<1>5. /\ v.c = C /\ v.r = Fresh /\ v.backlog = backlog /\ v.excl = excl
      /\ v.tasks = Others(tasks, C) /\ v.listener = listener
      /\ v.events = w.events
  BY <1>1 DEF Free, Worlds
<1>6. Enter(v)
  BY DEF w
<1> HIDE DEF v
<1>7. v.listener \in Listeners /\ v.events \in Seq(Events)
      /\ QueueInv(v.events)
  BY <1>1, <1>5 DEF Worlds
<1>8. /\ p \in Seq(Conn) /\ \A j, k \in DOMAIN p : p[j] = p[k] => j = k
      /\ \A j \in DOMAIN p : p[j] # C /\ \E k \in DOMAIN q : p[j] = q[k]
  BY <1>3, RemovedAre DEF BipcInv
<1>9. listener' = listener /\ conn' = [conn EXCEPT ![C] = Fresh]
  BY <1>5, <1>6, EnterFacts
<1>10. bipc'.aipcs = p
  OBVIOUS
<1> HIDE DEF p, q
<1>11. BipcInv'
  <2>1. \A d \in Conn \ {C} : conn'[d] = conn[d]
    BY <1>3, <1>9
  <2>2. bipc.aipc \in Conn \cup {None}
    BY DEF IInv, TypeInv, Bipcs
  <2>3. bipc.aipc # None => conn'[bipc.aipc].aipc # "FREE"
    BY <1>3, <1>4, <2>1, <2>2 DEF BipcInv
  <2>4. ASSUME NEW j \in DOMAIN p
        PROVE  p[j] # bipc.aipc /\ conn'[p[j]].aipc # "FREE"
    <3>1. PICK k \in DOMAIN q : p[j] = q[k]
      BY <1>8
    <3>2. p[j] \in Conn \ {C}
      BY <1>8
    <3>3. q[k] # bipc.aipc /\ conn[q[k]].aipc # "FREE"
      BY <1>3 DEF BipcInv, q
    <3> QED BY <2>1, <3>1, <3>2, <3>3
  <2> QED BY <1>3, <1>8, <1>9, <1>10, <2>3, <2>4 DEF BipcInv
<1>12. ToSet(W.events) = ToSet(v.events)
  BY <1>5 DEF w
<1>13. /\ ToSet(W.events) \subseteq ToSet(v.events)
       /\ \A e \in ToSet(v.events) :
             e \in ToSet(W.events) \/ (OfListener(e) /\ e.c = C)
  BY <1>12
<1>14. bipc'.aipc = bipc.aipc /\ bipc.aipc # C /\ v.listener = listener
  BY <1>4, <1>5
<1>15. events # <<>>
  BY <1>1
<1> QED
  BY <1>2, <1>5, <1>6, <1>7, <1>11, <1>13, <1>14, <1>15, FreeKeeps

(* bipc frees a connection that broke,                                     *)
LEMMA StoppedKeeps ==
    ASSUME IInv, BipcStopped
    PROVE  Kept
<1>1. PICK i \in Places : bipc' = [bipc EXCEPT !.aipcs = RemoveAt(@, i)]
  BY DEF BipcStopped
<1>2. On("bipc", "aipc", {"STOPPED"}) /\ CanFree(W) /\ Enter(Free(W))
      /\ batch' = batch
  BY DEF BipcStopped
<1>3. bipc \in Bipcs /\ RemoveAt(bipc.aipcs, i) \in Seq(Conn)
  BY RemovedAre DEF IInv, TypeInv, Bipcs, BipcInv, Places
<1>4. /\ bipc' \in Bipcs /\ bipc'.aipc = bipc.aipc
      /\ bipc'.aipcs = RemoveAt(bipc.aipcs, i) /\ bipc'.state = bipc.state
  BY <1>1, <1>3 DEF Bipcs
<1> QED BY <1>2, <1>4, ListFreeKeeps

(* or, in nn_shutdown, one of its list.                                    *)
LEMMA AipcsStoppedKeeps ==
    ASSUME IInv, BipcAipcsStopped
    PROVE  Kept
<1>1. PICK i \in Places :
         bipc' = [bipc EXCEPT !.aipcs = RemoveAt(@, i),
                              !.state = IF Len(bipc.aipcs) = 1 THEN "IDLE"
                                        ELSE @]
  BY DEF BipcAipcsStopped
<1>2. On("bipc", "aipc", {"STOPPED"}) /\ CanFree(W) /\ Enter(Free(W))
      /\ batch' = batch /\ bipc.state = "STOPPING_AIPCS"
  BY DEF BipcAipcsStopped
<1>3. bipc \in Bipcs /\ RemoveAt(bipc.aipcs, i) \in Seq(Conn)
  BY RemovedAre DEF IInv, TypeInv, Bipcs, BipcInv, Places
<1>4. /\ bipc' \in Bipcs /\ bipc'.aipc = bipc.aipc
      /\ bipc'.aipcs = RemoveAt(bipc.aipcs, i)
      /\ bipc'.state \in {"IDLE", "STOPPING_AIPCS"}
  BY <1>1, <1>2, <1>3 DEF Bipcs
<1> QED BY <1>2, <1>4, ListFreeKeeps

(* The connection that was accepting is freed, and the listening socket    *)
(* closed.                                                                 *)
LEMMA AipcStoppedKeeps ==
    ASSUME IInv, BipcAipcStopped
    PROVE  Kept
<1> DEFINE a == bipc.aipc
           w == World(a)
           f == Free(w)
           o == [f EXCEPT !.listener.state = "IDLE"]
           v == Raise(o, "bipc", "listener", "STOPPED")
           e == [to |-> "bipc", src |-> "listener", type |-> "STOPPED",
                 c |-> o.c]
<1>1. /\ events # <<>> /\ bipc.state = "STOPPING_AIPC" /\ Idle(w, "aipc")
      /\ CanFree(w) /\ Enter(v) /\ batch' = batch
      /\ bipc' = [bipc EXCEPT !.aipc = None, !.state = "STOPPING_USOCK"]
  BY DEF BipcAipcStopped
<1>2. bipc \in Bipcs /\ BipcInv /\ conn \in [Conn -> Record]
      /\ listener \in Listeners
  BY DEF IInv, TypeInv
<1>3. a \in Conn
  BY <1>1, <1>2 DEF BipcInv, Bipcs
<1>4. /\ w \in Worlds /\ w.c = a /\ w.r = conn[a] /\ w.excl = excl
      /\ w.listener = listener /\ w.backlog = backlog /\ w.tasks = tasks
      /\ w.events = Tail(events)
  BY <1>1, <1>3, WorldType
<1>5. C = a /\ Head(events) = AipcStopped(C)
  <2>1. conn[a].aipc = "IDLE"
    BY <1>1, <1>4 DEF Idle
  <2>2. AipcStopped(a) \in ToSet(events)
    BY <1>3, <2>1 DEF IInv, ConnInv, AcceptInv
  <2>3. AipcStopped(a) \notin ToSet(w.events)
    BY <1>1, <1>4 DEF Idle, AipcStopped, ToSet
  <2>4. events \in Seq(Events)
    BY DEF IInv, TypeInv
  <2>5. ToSet(events) = {Head(events)} \cup ToSet(w.events)
    BY <1>1, <1>4, <2>4, TailSet
  <2>6. Head(events) = AipcStopped(a)
    BY <2>2, <2>3, <2>5
  <2> QED BY <2>6 DEF C, AipcStopped
<1>6. W = w /\ QueueInv(w.events) /\ a # None
      /\ \A g \in ToSet(w.events) : Head(events) = AipcStopped(g.c)
                                       => OfListener(g)
  <2>1. W = w
    BY <1>5 DEF W
  <2> HIDE DEF w
  <2> QED BY <1>1, <1>3, <2>1, HandledWorld, IpcAssumption
<1>7. CanFree(W)
  BY <1>1, <1>6
<1> HIDE DEF w
<1>8. Fresh \in Record /\ Others(tasks, a) \in Seq(Tasks)
  <2>1. tasks \in Seq(Tasks)
    BY DEF IInv, TypeInv
  <2> QED BY <2>1, FreedFacts, OthersAre
<1>9. /\ f \in Worlds /\ f.c = a /\ f.r = Fresh /\ f.backlog = backlog
      /\ f.excl = excl /\ f.tasks = Others(tasks, a)
      /\ f.listener = listener /\ f.events = w.events
  BY <1>4, <1>8 DEF Free, Worlds
<1> HIDE DEF f
<1>10. [listener EXCEPT !.state = "IDLE"] \in Listeners
       /\ [listener EXCEPT !.state = "IDLE"].state = "IDLE"
  BY <1>2 DEF Listeners
<1>11. /\ o \in Worlds /\ o.c = a /\ o.r = Fresh /\ o.backlog = backlog
       /\ o.excl = excl /\ o.tasks = Others(tasks, a)
       /\ o.listener = [listener EXCEPT !.state = "IDLE"]
       /\ o.events = w.events
  BY <1>9, <1>10 DEF Worlds
<1> HIDE DEF o
<1>12. e \in Events /\ e.c = a /\ OfListener(e)
  BY <1>3, <1>11 DEF Events, Machines, OfListener
<1>13. /\ v = [o EXCEPT !.events = Append(@, e)]
  BY DEF Raise
<1> HIDE DEF e
<1>14. /\ Append(o.events, e) \in Seq(Events)
       /\ ToSet(Append(o.events, e)) = ToSet(o.events) \cup {e}
       /\ o.events \in Seq(Events)
  BY <1>11, <1>12, AppendSet DEF Worlds
<1>15. /\ v.c = C /\ v.r = Fresh /\ v.backlog = backlog /\ v.excl = excl
       /\ v.tasks = Others(tasks, C)
       /\ v.listener = [listener EXCEPT !.state = "IDLE"]
       /\ v.events = Append(o.events, e)
  BY <1>5, <1>11, <1>13, <1>14 DEF Worlds
<1> HIDE DEF v
<1>16. QueueInv(Append(o.events, e))
  <2>1. ~Acceptance(e)
    BY <1>12 DEF Acceptance, OfListener
  <2> QED BY <1>6, <1>11, <1>12, <1>14, <2>1, AppendQueue
<1>17. v.listener \in Listeners /\ v.events \in Seq(Events)
       /\ QueueInv(v.events) /\ v.listener.state = "IDLE"
  BY <1>10, <1>14, <1>15, <1>16
<1>18. /\ ToSet(W.events) \subseteq ToSet(v.events)
       /\ \A g \in ToSet(v.events) :
             g \in ToSet(W.events) \/ (OfListener(g) /\ g.c = C)
  BY <1>5, <1>6, <1>11, <1>12, <1>14, <1>15
<1>19. /\ bipc' \in Bipcs /\ bipc'.aipc = None
       /\ bipc'.state = "STOPPING_USOCK" /\ bipc'.aipcs = bipc.aipcs
  BY <1>1, <1>2 DEF Bipcs
<1>20. BipcInv'
  <2>1. listener' = v.listener /\ conn' = [conn EXCEPT ![C] = Fresh]
    BY <1>1, <1>15, EnterFacts
  <2>2. \A d \in Conn \ {a} : conn'[d] = conn[d]
    BY <1>2, <1>5, <2>1
  <2>3. ASSUME NEW i \in DOMAIN bipc.aipcs
        PROVE  bipc.aipcs[i] # None /\ conn'[bipc.aipcs[i]].aipc # "FREE"
    <3>1. bipc.aipcs[i] \in Conn
      BY <1>2 DEF Bipcs
    <3>2. bipc.aipcs[i] # a /\ conn[bipc.aipcs[i]].aipc # "FREE"
      BY <1>2 DEF BipcInv
    <3> QED BY <2>2, <3>1, <3>2, IpcAssumption
  <2>4. listener'.state = "IDLE"
    BY <1>17, <2>1
  <2> QED BY <1>2, <1>19, <2>3, <2>4 DEF BipcInv
<1>21. bipc'.aipc = None /\ bipc.aipc = C /\ events # <<>>
  BY <1>1, <1>5, <1>19
<1>22. Enter(v) /\ batch' = batch
  BY <1>1
<1> HIDE DEF a
<1> QED
  BY <1>5, <1>7, <1>15, <1>17, <1>18, <1>19, <1>20, <1>21, <1>22, FreeKeeps

-----------------------------------------------------------------------------
(* nn_shutdown's loop: the connections of the list are stopped.            *)

(* What is true after some of them: a has their connections and the world. *)
SomeStopped(a) ==
    /\ a.w \in Worlds /\ a.conn \in [Conn -> Record]
    /\ QueueInv(a.w.events)
    /\ \A d \in Conn :
          /\ ConnInv(d, a.conn[d], a.w.excl, ToSet(a.w.events), listener,
                     None)
          /\ a.conn[d].aipc = "FREE" <=> conn[d].aipc = "FREE"
    /\ a.w.listener = listener
    /\ \A t \in ToSet(a.w.tasks) :
          \/ t \in ToSet(tasks)
          \/ t.c = None
          \/ conn[t.c].aipc # "FREE"
    /\ \/ a.w.excl = excl
       \/ /\ a.w.excl = NoPipes
          /\ \E c \in Conn : /\ excl.pipe = c /\ conn[c].pipe = "ACTIVE"
                             /\ a.conn[c].pipe = "IDLE"

(* One more is stopped.                                                    *)
LEMMA StopNextKeeps ==
    ASSUME IInv, NEW a, SomeStopped(a), NEW c \in Conn,
           conn[c].aipc # "FREE"
    PROVE  SomeStopped(StopNext(a, c))
<1> DEFINE w == [a.w EXCEPT !.c = c, !.r = a.conn[c]]
           v == AipcStop(w)
           k == [a.conn EXCEPT ![c] = v.r]
           b == StopNext(a, c)
<1>1. a.w \in Worlds /\ a.conn \in [Conn -> Record] /\ QueueInv(a.w.events)
      /\ a.w.listener = listener /\ a.conn[c].aipc # "FREE"
      /\ ConnInv(c, a.conn[c], a.w.excl, ToSet(a.w.events), listener, None)
  BY DEF SomeStopped
<1>2. a.conn[c] \in Record
  BY <1>1
<1>3. /\ w \in Worlds /\ w.c = c /\ w.r = a.conn[c] /\ w.excl = a.w.excl
      /\ w.events = a.w.events /\ w.listener = listener
      /\ w.tasks = a.w.tasks
  BY <1>1, <1>2 DEF Worlds
<1>4. b = [w |-> v, conn |-> k]
  BY DEF StopNext
<1> HIDE DEF w
<1>5. Ends(w, v, None)
  <2>1. Good(w, None)
    BY <1>1, <1>3 DEF Good
  <2> QED BY <1>1, <1>3, <2>1, AipcStopEnds
<1> HIDE DEF v
<1>6. Good(v, None) /\ Apart(w, v, None) /\ MoreTasks(w.tasks, v.tasks, c)
      /\ PipeGone(w, v) /\ v.r.aipc # "FREE"
  BY <1>3, <1>5 DEF Ends
<1>7. v \in Worlds /\ v.c = c /\ v.listener = listener /\ v.r \in Record
      /\ QueueInv(v.events)
      /\ ConnInv(c, v.r, v.excl, ToSet(v.events), listener, None)
  BY <1>3, <1>6, IpcAssumption DEF Good, Apart, Worlds
<1>8. /\ k \in [Conn -> Record] /\ k[c] = v.r
      /\ \A d \in Conn \ {c} : k[d] = a.conn[d]
  BY <1>1, <1>7
<1> HIDE DEF k, b
<1>9. ASSUME NEW d \in Conn
      PROVE  /\ ConnInv(d, k[d], v.excl, ToSet(v.events), listener, None)
             /\ k[d].aipc = "FREE" <=> conn[d].aipc = "FREE"
  <2>1. CASE d = c
    BY <1>6, <1>7, <1>8, <2>1
  <2>2. CASE d # c
    <3>1. ConnInv(d, a.conn[d], w.excl, ToSet(w.events), w.listener, None)
          /\ (a.conn[d].aipc = "FREE" <=> conn[d].aipc = "FREE")
      BY <1>3 DEF SomeStopped
    <3>2. d \in Conn \ {w.c}
      BY <1>3, <2>2
    <3>3. ConnInv(d, a.conn[d], v.excl, ToSet(v.events), v.listener, None)
      BY <1>3, <1>6, <3>1, <3>2, ApartKeeps
    <3> QED BY <1>7, <1>8, <2>2, <3>1, <3>3
  <2> QED BY <2>1, <2>2
<1>10. ASSUME NEW t \in ToSet(v.tasks)
       PROVE  t \in ToSet(tasks) \/ t.c = None \/ conn[t.c].aipc # "FREE"
  <2>1. t \in ToSet(a.w.tasks) \/ t.c \in {c, None}
    BY <1>3, <1>6 DEF MoreTasks
  <2> QED BY <2>1 DEF SomeStopped
<1>11. \/ v.excl = excl
       \/ /\ v.excl = NoPipes
          /\ \E d \in Conn : /\ excl.pipe = d /\ conn[d].pipe = "ACTIVE"
                             /\ k[d].pipe = "IDLE"
  <2>1. v.r.pipe \in {a.conn[c].pipe, "IDLE"} \ {"ACTIVE"}
        /\ v.excl = IF a.conn[c].pipe = "ACTIVE" THEN NoPipes ELSE a.w.excl
    BY <1>3, <1>6 DEF PipeGone
  <2>2. a.conn[c].pipe = "ACTIVE" <=> a.w.excl.pipe = c
    BY <1>1 DEF ConnInv, PipeInv
  <2>3. conn[c].pipe = "ACTIVE" <=> excl.pipe = c
    BY DEF IInv, ConnInv, PipeInv
  <2>4. CASE a.w.excl = excl
    BY <1>8, <2>1, <2>2, <2>3, <2>4
  <2>5. CASE a.w.excl # excl
    <3>1. PICK d \in Conn : /\ excl.pipe = d /\ conn[d].pipe = "ACTIVE"
                            /\ a.conn[d].pipe = "IDLE"
      BY <2>5 DEF SomeStopped
    <3>2. a.w.excl = NoPipes
      BY <2>5 DEF SomeStopped
    <3>3. a.conn[c].pipe # "ACTIVE"
      BY <2>2, <3>2, IpcAssumption DEF NoPipes
    <3>4. k[d].pipe = "IDLE"
      BY <1>8, <2>1, <3>1
    <3> QED BY <2>1, <3>1, <3>2, <3>3, <3>4
  <2> QED BY <2>4, <2>5
<1>12. b.w = v /\ b.conn = k
  BY <1>4
<1>13. b.w \in Worlds /\ b.conn \in [Conn -> Record] /\ QueueInv(b.w.events)
       /\ b.w.listener = listener
  BY <1>7, <1>8, <1>12
<1>14. \A d \in Conn :
          /\ ConnInv(d, b.conn[d], b.w.excl, ToSet(b.w.events), listener,
                     None)
          /\ b.conn[d].aipc = "FREE" <=> conn[d].aipc = "FREE"
  BY <1>9, <1>12
<1>15. \A t \in ToSet(b.w.tasks) :
          \/ t \in ToSet(tasks)
          \/ t.c = None
          \/ conn[t.c].aipc # "FREE"
  BY <1>10, <1>12
<1>16. \/ b.w.excl = excl
       \/ /\ b.w.excl = NoPipes
          /\ \E d \in Conn : /\ excl.pipe = d /\ conn[d].pipe = "ACTIVE"
                             /\ b.conn[d].pipe = "IDLE"
  BY <1>11, <1>12
<1>17. SomeStopped(b)
  BY <1>13, <1>14, <1>15, <1>16 DEF SomeStopped
<1> QED BY <1>17 DEF b

(* Before the first.                                                       *)
LEMMA NoneStopped ==
    ASSUME IInv, On("bipc", "listener", {"STOPPED"}),
           bipc.state = "STOPPING_USOCK"
    PROVE  SomeStopped([w |-> W, conn |-> conn]) /\ bipc.aipc = None
<1> DEFINE w == W
<1>1. events # <<>> /\ Head(events).src = "listener"
  BY DEF On
<1>2. bipc.aipc = None
  BY DEF IInv, BipcInv
<1>3. Head(events) # AipcStopped(C) /\ Head(events) # SipcBroken(C)
  BY <1>1 DEF AipcStopped, SipcBroken
<1>4. Good(w, None)
  BY <1>1, <1>2, <1>3, HandledGood
<1>5. /\ w \in Worlds /\ w.c = C /\ w.r = conn[C] /\ C \in Conn
      /\ w.excl = excl /\ w.listener = listener /\ w.tasks = tasks
      /\ QueueInv(w.events)
      /\ \A d \in Conn \ {C} :
            ConnInv(d, conn[d], excl, ToSet(w.events), listener, None)
  BY <1>1, <1>2, HandledWorld
<1> HIDE DEF w
<1>6. ConnInv(C, conn[C], excl, ToSet(w.events), listener, None)
  BY <1>4, <1>5 DEF Good
<1>7. \A d \in Conn :
         ConnInv(d, conn[d], excl, ToSet(w.events), listener, None)
  BY <1>5, <1>6
<1>8. conn \in [Conn -> Record]
  BY DEF IInv, TypeInv
<1> DEFINE a == [w |-> w, conn |-> conn]
<1>9. a.w = w /\ a.conn = conn
  OBVIOUS
<1> HIDE DEF a
<1>10. SomeStopped(a)
  BY <1>5, <1>7, <1>8, <1>9 DEF SomeStopped
<1> QED BY <1>2, <1>10 DEF a, w

(* One by one, from the first to the last.                                 *)
LEMMA ListSteps ==
    ASSUME IInv
    PROVE  \E g : /\ ListStopped = g[Len(bipc.aipcs)]
                  /\ g[0] = [w |-> W, conn |-> conn]
                  /\ \A i \in 1..Len(bipc.aipcs) :
                        g[i] = StopNext(g[i - 1], bipc.aipcs[i])
<1> DEFINE q == bipc.aipcs
           N == Len(q)
           First == [w |-> W, conn |-> conn]
           Def(f, n) == f = [i \in 0..n |-> IF i = 0 THEN First
                                            ELSE StopNext(f[i - 1], q[i])]
<1>1. N \in Nat
  BY DEF IInv, TypeInv, Bipcs
<1> HIDE DEF First
<1>2. \A n \in 0..N : \E f : Def(f, n)
  <2> DEFINE S == {n \in 0..N : \E f : Def(f, n)}
  <2>1. 0 \in S
    <3>1. Def([i \in 0..0 |-> First], 0)
      OBVIOUS
    <3>2. 0 \in 0..N
      BY <1>1
    <3> HIDE DEF Def
    <3> QED BY <3>1, <3>2
  <2>2. ASSUME NEW n \in 1..N, n - 1 \in S
        PROVE  n \in S
    <3>1. PICK f : Def(f, n - 1)
      <4> HIDE DEF Def
      <4> QED BY <2>2
    <3> DEFINE g == [i \in 0..n |-> IF i = n THEN StopNext(f[n - 1], q[n])
                                             ELSE f[i]]
    <3>2. \A i \in 0..(n - 1) : f[i] = IF i = 0 THEN First
                                       ELSE StopNext(f[i - 1], q[i])
      BY <3>1
    <3>3. ASSUME NEW i \in 0..n
          PROVE  g[i] = IF i = 0 THEN First ELSE StopNext(g[i - 1], q[i])
      <4>1. CASE i = n
        BY <1>1, <4>1
      <4>2. CASE i # n
        <5>1. i \in 0..(n - 1) /\ (i # 0 => i - 1 \in 0..n /\ i - 1 # n)
          BY <1>1, <4>2
        <5> QED BY <3>2, <4>2, <5>1
      <4> QED BY <4>1, <4>2
    <3>4. Def(g, n)
      BY <3>3
    <3>5. n \in 0..N
      BY <1>1
    <3> HIDE DEF Def, g
    <3> QED BY <3>4, <3>5
  <2>3. S \in SUBSET (0..N)
    OBVIOUS
  <2> HIDE DEF S
  <2>4. \A n \in 0..N : n \in S
    BY <1>1, <2>1, <2>2, <2>3, Steps
  <2> QED BY <2>4 DEF S
<1> DEFINE g == CHOOSE f : Def(f, N)
<1>3. Def(g, N)
  <2> HIDE DEF Def
  <2>1. \E f : Def(f, N)
    BY <1>1, <1>2
  <2> QED BY <2>1
<1>4. ListStopped = g[N]
  BY DEF ListStopped, First
<1> HIDE DEF g
<1>5. g[0] = First /\ \A i \in 1..N : g[i] = StopNext(g[i - 1], q[i])
  <2>1. \A i \in 0..N : g[i] = IF i = 0 THEN First
                               ELSE StopNext(g[i - 1], q[i])
    BY <1>3
  <2> QED BY <1>1, <2>1
<1> HIDE DEF Def
<1> QED BY <1>4, <1>5 DEF First

(* After the last.                                                         *)
LEMMA ListStoppedIs ==
    ASSUME IInv, On("bipc", "listener", {"STOPPED"}),
           bipc.state = "STOPPING_USOCK"
    PROVE  SomeStopped(ListStopped)
<1> DEFINE q == bipc.aipcs
           N == Len(q)
<1>1. N \in Nat /\ \A i \in 1..N : q[i] \in Conn /\ conn[q[i]].aipc # "FREE"
  BY DEF IInv, TypeInv, Bipcs, BipcInv
<1>2. PICK g : /\ ListStopped = g[N]
               /\ g[0] = [w |-> W, conn |-> conn]
               /\ \A i \in 1..N : g[i] = StopNext(g[i - 1], q[i])
  BY ListSteps
<1> DEFINE S == {n \in 0..N : SomeStopped(g[n])}
<1>3. 0 \in S
  BY <1>1, <1>2, NoneStopped
<1>4. ASSUME NEW n \in 1..N, n - 1 \in S
      PROVE  n \in S
  <2>1. SomeStopped(g[n - 1]) /\ n \in 0..N /\ g[n] = StopNext(g[n - 1], q[n])
        /\ q[n] \in Conn /\ conn[q[n]].aipc # "FREE"
    BY <1>1, <1>2, <1>4
  <2>2. SomeStopped(StopNext(g[n - 1], q[n]))
    BY <2>1, StopNextKeeps
  <2> QED BY <2>1, <2>2
<1>5. S \in SUBSET (0..N)
  OBVIOUS
<1> HIDE DEF S
<1>6. N \in S
  <2>1. N \in 0..N
    BY <1>1
  <2> QED BY <2>1, <1>1, <1>3, <1>4, <1>5, Steps
<1>7. SomeStopped(g[N])
  BY <1>6 DEF S
<1> QED BY <1>2, <1>7

(* The listening socket is closed, and all of the list stopped.            *)
LEMMA ListStopKeeps ==
    ASSUME IInv, BipcUsockStopped
    PROVE  Kept
<1> DEFINE a == ListStopped
<1>1. /\ On("bipc", "listener", {"STOPPED"}) /\ bipc.state = "STOPPING_USOCK"
      /\ conn' = a.conn /\ excl' = a.w.excl /\ events' = a.w.events
      /\ tasks' = a.w.tasks /\ listener' = listener /\ backlog' = backlog
      /\ batch' = batch
      /\ bipc' = [bipc EXCEPT !.state = IF bipc.aipcs = <<>> THEN "IDLE"
                                        ELSE "STOPPING_AIPCS"]
  BY DEF BipcUsockStopped, StopList
<1>2. SomeStopped(a) /\ bipc.aipc = None
  BY <1>1, ListStoppedIs, NoneStopped
<1> HIDE DEF a
<1>3. /\ TypeInv /\ BipcInv /\ TaskInv
  BY DEF IInv
<1>4. /\ bipc' \in Bipcs /\ bipc'.aipc = None /\ bipc'.aipcs = bipc.aipcs
      /\ bipc'.state \in {"IDLE", "STOPPING_AIPCS"}
  BY <1>1, <1>2, <1>3 DEF TypeInv, Bipcs
<1>5. /\ a.conn \in [Conn -> Record] /\ a.w.excl \in Excls
      /\ a.w.events \in Seq(Events) /\ a.w.tasks \in Seq(Tasks)
      /\ QueueInv(a.w.events)
      /\ \A d \in Conn :
            /\ ConnInv(d, a.conn[d], a.w.excl, ToSet(a.w.events), listener,
                       None)
            /\ a.conn[d].aipc = "FREE" <=> conn[d].aipc = "FREE"
  BY <1>2 DEF SomeStopped, Worlds
<1>6. TypeInv'
  BY <1>1, <1>3, <1>4, <1>5 DEF TypeInv
<1>7. QueueInv(events')
      /\ \A d \in Conn : ConnInv(d, conn'[d], excl', ToSet(events'),
                                 listener', bipc'.aipc)
  BY <1>1, <1>4, <1>5
<1>8. BipcInv'
  <2>1. \A i \in DOMAIN bipc.aipcs : bipc.aipcs[i] \in Conn
    BY <1>3 DEF TypeInv, Bipcs
  <2> QED BY <1>1, <1>2, <1>3, <1>4, <1>5, <2>1, IpcAssumption DEF BipcInv
<1>9. TaskInv'
  <2> SUFFICES ASSUME NEW d \in Conn, conn'[d].aipc = "FREE"
               PROVE  /\ \A x \in ToSet(tasks') : x.c # d
                      /\ \A x \in ToSet(batch') : x.c # d
    BY DEF TaskInv
  <2>1. conn[d].aipc = "FREE" /\ d # None
    BY <1>1, <1>5, IpcAssumption
  <2>2. \A x \in ToSet(a.w.tasks) :
           x \in ToSet(tasks) \/ x.c = None \/ conn[x.c].aipc # "FREE"
    BY <1>2 DEF SomeStopped
  <2>3. /\ \A x \in ToSet(tasks) : x.c # d
        /\ \A x \in ToSet(batch) : x.c # d
    BY <1>3, <2>1 DEF TaskInv
  <2> QED BY <1>1, <2>1, <2>2, <2>3
<1>10. IInv'
  BY <1>6, <1>7, <1>8, <1>9 DEF IInv
<1>11. ExclStep
  <2>1. CASE a.w.excl = excl
    BY <1>1, <2>1 DEF ExclStep
  <2>2. CASE a.w.excl # excl
    BY <1>1, <1>2, <2>2 DEF SomeStopped, ExclStep, LosesPeer
  <2> QED BY <2>1, <2>2
<1> QED BY <1>10, <1>11 DEF Kept

-----------------------------------------------------------------------------
(* Every step, and the start.                                              *)

(* Every step keeps the invariant.                                         *)
LEMMA NextKeeps ==
    ASSUME IInv, Next
    PROVE  Kept
<1>1. CASE Process
  <2>1. CASE BipcHandler
    BY <2>1, BipcAcceptedKeeps, ErrorKeeps, StoppedKeeps, DropsKeeps,
       AipcStoppedKeeps, ListStopKeeps, AipcsStoppedKeeps DEF BipcHandler
  <2> QED
    BY <1>1, <2>1, StreamhdrHandlerKeeps, SipcHandlerKeeps,
       SockHandlerKeeps, AipcHandlerKeeps DEF Process
<1>2. CASE RunTask \/ TakeTasks \/ ListenerIn
  BY <1>2, RunTaskKeeps, TakeTasksKeeps, ListenerInKeeps
<1>3. ASSUME NEW c \in Conn, FdIn(c) \/ FdOut(c) \/ FdErr(c)
      PROVE  Kept
  BY <1>3, DescriptorKeeps
<1>4. ASSUME NEW c \in Conn, TimerExpires(c)
      PROVE  Kept
  BY <1>4, TimerExpiresKeeps
<1>5. ASSUME NEW c \in Conn, PeerSends(c) \/ PeerLeaves(c)
      PROVE  Kept
  BY <1>5, PeerKeeps
<1>6. CASE Connect \/ NnSend \/ NnRecv \/ NnShutdown
  BY <1>6, ConnectKeeps, SendKeeps, RecvKeeps, ShutdownKeeps
<1> QED BY <1>1, <1>2, <1>3, <1>4, <1>5, <1>6 DEF Next

(* So does the absence of one.                                             *)
LEMMA StutterKeeps ==
    ASSUME IInv, UNCHANGED vars
    PROVE  Kept
<1>1. IInv'
  BY DEF IInv, TypeInv, BipcInv, TaskInv, vars
<1> QED BY <1>1 DEF Kept, ExclStep, vars

(* getd has bound its socket.                                              *)
LEMMA InitKeeps ==
    ASSUME Init
    PROVE  IInv /\ excl = NoPipes
<1>1. PICK a \in Conn :
         /\ bipc = [state |-> "ACTIVE", aipc |-> a, aipcs |-> <<>>]
         /\ conn = [d \in Conn |->
                       IF d = a THEN [Fresh EXCEPT !.aipc = "ACCEPTING",
                                                   !.usock = "BEING_ACCEPTED"]
                                ELSE Fresh]
  BY DEF Init
<1>2. /\ listener = [state |-> "ACCEPTING", polled |-> FALSE,
                     errnum |-> FALSE]
      /\ backlog = 0 /\ excl = NoPipes /\ events = <<>>
      /\ tasks = <<[fsm |-> "listener", task |-> "ACCEPT", c |-> None]>>
      /\ batch = <<>>
  BY DEF Init
<1> DEFINE r == [Fresh EXCEPT !.aipc = "ACCEPTING",
                              !.usock = "BEING_ACCEPTED"]
           t == [fsm |-> "listener", task |-> "ACCEPT", c |-> None]
<1>3. /\ r \in Record /\ r.aipc = "ACCEPTING" /\ r.usock = "BEING_ACCEPTED"
      /\ r.pipe = Fresh.pipe /\ r.sipc = Fresh.sipc
      /\ r.streamhdr = Fresh.streamhdr /\ r.timer = Fresh.timer
  BY FreedFacts, ZenonT(30) DEF Record
<1>4. Fresh.sipc = "IDLE" /\ Fresh.streamhdr = "IDLE" /\ Fresh.timer = "IDLE"
  BY DEF Fresh
<1>5. NestInv(r)
  BY <1>3, <1>4 DEF NestInv
<1>6. /\ conn \in [Conn -> Record] /\ conn[a] = r
      /\ \A d \in Conn \ {a} : conn[d] = Fresh
  BY <1>1, <1>3, FreedFacts
<1> HIDE DEF r
<1>7. ToSet(events) = {} /\ ToSet(batch) = {} /\ ToSet(tasks) = {t}
  BY <1>2 DEF ToSet
<1>8. TypeInv
  <2>1. Cardinality(Conn) \in Nat
    BY FS_CardinalityType, BoundsAssumption
  <2>2. backlog \in 0..Cardinality(Conn)
    BY <1>2, <2>1
  <2>3. tasks \in Seq(Tasks)
    <3>1. t \in Tasks
      BY DEF Tasks
    <3> QED BY <1>2, <3>1
  <2>4. listener \in Listeners /\ bipc \in Bipcs
    BY <1>1, <1>2 DEF Listeners, Bipcs
  <2>5. excl \in Excls
    BY <1>2, NoPipesExcl
  <2> QED BY <1>2, <1>6, <2>2, <2>3, <2>4, <2>5 DEF TypeInv
<1>9. QueueInv(events)
  BY <1>2 DEF QueueInv, OneAcceptance, EndIsLast
<1>10. /\ excl.pipe = None /\ excl.inpipe = None /\ excl.outpipe = None
       /\ bipc.aipc = a /\ bipc.state = "ACTIVE" /\ bipc.aipcs = <<>>
       /\ listener.state = "ACCEPTING"
  BY <1>1, <1>2 DEF NoPipes
<1>11. ASSUME NEW d \in Conn
       PROVE  ConnInv(d, conn[d], excl, {}, listener, bipc.aipc)
  <2>1. NestInv(conn[d]) /\ conn[d].pipe = "IDLE"
    BY <1>3, <1>5, <1>6, FreedFacts
  <2>2. PipeInv(d, conn[d], excl, {})
    BY <1>10, <2>1, IpcAssumption DEF PipeInv
  <2>3. PastInv(d, conn[d], {}, bipc.aipc)
    BY DEF PastInv
  <2>4. AcceptInv(d, conn[d], {}, listener, bipc.aipc)
    BY <1>3, <1>6, <1>10, FreedFacts DEF AcceptInv
  <2> QED BY <2>1, <2>2, <2>3, <2>4 DEF ConnInv
<1>12. BipcInv
  BY <1>3, <1>6, <1>10, IpcAssumption DEF BipcInv
<1>13. TaskInv
  BY <1>7, IpcAssumption DEF TaskInv
<1> QED BY <1>2, <1>7, <1>8, <1>9, <1>11, <1>12, <1>13 DEF IInv

-----------------------------------------------------------------------------
(* Whatever happens, in whatever order, the machines keep the invariant.   *)
THEOREM Invariance == Spec => []IInv
<1>1. Init => IInv
  BY InitKeeps
<1>2. IInv /\ [Next]_vars => IInv'
  BY NextKeeps, StutterKeeps DEF Kept
<1> QED BY <1>1, <1>2, PTL DEF Spec

(* Every machine is in one of its states, and no connection is twice in    *)
(* bipc's list.                                                            *)
THEOREM ConnTypes == Spec => []TypeOK
<1>1. IInv => TypeOK
  <2> SUFFICES ASSUME IInv
               PROVE  TypeOK
    OBVIOUS
  <2>1. TypeInv /\ BipcInv
    BY DEF IInv
  <2>2. ToSet(bipc.aipcs) \subseteq Conn
    BY <2>1 DEF TypeInv, Bipcs, ToSet
  <2>3. IsInjective(bipc.aipcs)
    BY <2>1 DEF BipcInv, IsInjective
  <2> QED BY <2>1, <2>2, <2>3 DEF TypeOK, TypeInv, Bipcs, Listeners, Excls
<1> QED BY <1>1, Invariance, PTL

(* A connection that was freed has no event or task left that would reach  *)
(* its memory.                                                             *)
THEOREM Forgotten == Spec => []FreedIsForgotten
<1>1. IInv => FreedIsForgotten
  <2> SUFFICES ASSUME IInv, NEW c \in Conn, conn[c].aipc = "FREE"
               PROVE  /\ \A i \in DOMAIN events :
                            events[i].c = c => events[i].to = "bipc"
                      /\ \A i \in DOMAIN tasks : tasks[i].c # c
                      /\ \A i \in DOMAIN batch : batch[i].c # c
    BY DEF FreedIsForgotten
  <2>1. \A e \in ToSet(events) : e.c = c => e.to = "bipc"
    BY DEF IInv, ConnInv, PastInv, OfListener
  <2>2. /\ \A t \in ToSet(tasks) : t.c # c
        /\ \A t \in ToSet(batch) : t.c # c
    BY DEF IInv, TaskInv
  <2> QED BY <2>1, <2>2 DEF ToSet
<1> QED BY <1>1, Invariance, PTL

(* What nn_send and nn_recv are given when they find a direction ready is  *)
(* ready down to sipc.                                                     *)
THEOREM Readiness == Spec => []ReadyDirections
<1>1. IInv => ReadyDirections
  <2> SUFFICES ASSUME IInv, events = <<>>
               PROVE  ReadyDirections
    BY DEF ReadyDirections, Unlocked
  <2>1. ToSet(events) = {}
    BY DEF ToSet
  <2>2. \A c \in Conn : PipeInv(c, conn[c], excl, {})
    BY <2>1 DEF IInv, ConnInv
  <2>3. \A c \in Conn : conn[c].pipe = "ACTIVE" <=> excl.pipe = c
    BY <2>2 DEF PipeInv
  <2>4. {excl.pipe, excl.inpipe, excl.outpipe} \subseteq Conn \cup {None}
    BY DEF IInv, TypeInv, Excls
  <2>5. ASSUME excl.outpipe # None
        PROVE  /\ excl.outpipe = excl.pipe
               /\ conn[excl.pipe].sipc = "ACTIVE"
               /\ conn[excl.pipe].outstate = "IDLE"
               /\ conn[excl.pipe].pipeout = "IDLE"
    BY <2>2, <2>4, <2>5 DEF PipeInv, Offered
  <2>6. ASSUME excl.inpipe # None
        PROVE  /\ excl.inpipe = excl.pipe
               /\ conn[excl.pipe].sipc = "ACTIVE"
               /\ conn[excl.pipe].instate = "HASMSG"
               /\ conn[excl.pipe].pipein = "IDLE"
    BY <2>2, <2>4, <2>6 DEF PipeInv, Offered
  <2> QED BY <2>3, <2>5, <2>6 DEF ReadyDirections
<1> QED BY <1>1, Invariance, PTL

(* A client that is turned away does not cut off the one that is served.   *)
THEOREM OwnPipe == Spec => OnlyItsOwnPipe
<1> DEFINE Own == \A c \in Conn :
                     excl.pipe = c /\ excl'.pipe # c
                        => conn[c].pipe = "ACTIVE" /\ conn'[c].pipe = "IDLE"
<1>1. IInv /\ [Next]_vars => [Own]_vars
  <2> SUFFICES ASSUME IInv, [Next]_vars, NEW c \in Conn, excl.pipe = c,
                      excl'.pipe # c
               PROVE  conn[c].pipe = "ACTIVE" /\ conn'[c].pipe = "IDLE"
    OBVIOUS
  <2>1. ExclStep /\ excl \in Excls /\ c # None
    BY NextKeeps, StutterKeeps, IpcAssumption DEF Kept, IInv, TypeInv
  <2>2. LosesPeer
    BY <2>1 DEF ExclStep, Excls
  <2> QED BY <2>2 DEF LosesPeer
<1> QED BY <1>1, Invariance, PTL DEF Spec, OnlyItsOwnPipe

(* The machines implement the pair socket.                                 *)
THEOREM PairRefinement == Spec => ImplementsPair
<1>1. Init => Pair!PairInit
  <2> SUFFICES ASSUME Init
               PROVE  Pair!PairInit
    OBVIOUS
  <2>1. excl.pipe = None /\ excl.inpipe = None /\ excl.outpipe = None
    BY InitKeeps DEF NoPipes
  <2> QED BY <2>1 DEF Pair!PairInit, Pair!NoneReady, Pair!Dirs
<1>2. IInv /\ [Next]_vars => [Pair!PairNext]_(Pair!pair)
  <2> SUFFICES ASSUME IInv, [Next]_vars
               PROVE  Pair!PairNext \/ UNCHANGED Pair!pair
    OBVIOUS
  <2>1. ExclStep /\ excl \in Excls
    BY NextKeeps, StutterKeeps DEF Kept, IInv, TypeInv
  <2>2. CASE excl' = excl
    BY <2>2 DEF Pair!pair
  <2>3. ASSUME NEW c \in Conn, excl.pipe = None,
               excl' = [excl EXCEPT !.pipe = c]
        PROVE  Pair!PairNext
    <3>1. excl'.pipe = c /\ excl'.inpipe = excl.inpipe
          /\ excl'.outpipe = excl.outpipe
      BY <2>1, <2>3 DEF Excls
    <3>2. Pair!Add(c)
      BY <2>3, <3>1 DEF Pair!Add
    <3> QED BY <3>2 DEF Pair!PairNext
  <2>4. CASE /\ excl.outpipe = None /\ excl.pipe # None
             /\ excl' = [excl EXCEPT !.outpipe = excl.pipe]
    <3>1. excl'.pipe = excl.pipe /\ excl'.inpipe = excl.inpipe
          /\ excl'.outpipe = excl.pipe
      BY <2>1, <2>4 DEF Excls
    <3>2. Pair!Offer("out")
      BY <2>4, <3>1 DEF Pair!Offer
    <3> QED BY <3>2 DEF Pair!PairNext, Pair!Dirs
  <2>5. CASE /\ excl.inpipe = None /\ excl.pipe # None
             /\ excl' = [excl EXCEPT !.inpipe = excl.pipe]
    <3>1. excl'.pipe = excl.pipe /\ excl'.outpipe = excl.outpipe
          /\ excl'.inpipe = excl.pipe
      BY <2>1, <2>5 DEF Excls
    <3>2. Pair!Offer("in")
      BY <2>5, <3>1 DEF Pair!Offer
    <3> QED BY <3>2 DEF Pair!PairNext, Pair!Dirs
  <2>6. CASE excl.outpipe # None /\ excl' = [excl EXCEPT !.outpipe = None]
    <3>1. excl'.pipe = excl.pipe /\ excl'.inpipe = excl.inpipe
          /\ excl'.outpipe = None
      BY <2>1, <2>6 DEF Excls
    <3>2. Pair!Take("out")
      BY <2>6, <3>1 DEF Pair!Take
    <3> QED BY <3>2 DEF Pair!PairNext, Pair!Dirs
  <2>7. CASE excl.inpipe # None /\ excl' = [excl EXCEPT !.inpipe = None]
    <3>1. excl'.pipe = excl.pipe /\ excl'.outpipe = excl.outpipe
          /\ excl'.inpipe = None
      BY <2>1, <2>7 DEF Excls
    <3>2. Pair!Take("in")
      BY <2>7, <3>1 DEF Pair!Take
    <3> QED BY <3>2 DEF Pair!PairNext, Pair!Dirs
  <2>8. CASE LosesPeer
    <3>1. excl.pipe # None /\ excl' = NoPipes
      BY <2>8, IpcAssumption DEF LosesPeer
    <3>2. excl'.pipe = None /\ excl'.inpipe = None /\ excl'.outpipe = None
      BY <3>1 DEF NoPipes
    <3>3. Pair!Rm
      BY <3>1, <3>2 DEF Pair!Rm, Pair!NoneReady, Pair!Dirs
    <3> QED BY <3>3 DEF Pair!PairNext
  <2> QED
    BY <2>1, <2>2, <2>3, <2>4, <2>5, <2>6, <2>7, <2>8 DEF ExclStep
<1>3. Spec => Pair!PairSpec
  BY <1>1, <1>2, Invariance, PTL DEF Spec, Pair!PairSpec
<1> QED BY <1>3 DEF ImplementsPair
=============================================================================
