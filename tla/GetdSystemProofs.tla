-------------------------- MODULE GetdSystemProofs --------------------------
(***************************************************************************)
(* What the clients of getd get, for any number of clients, session ids,   *)
(* files and chunks, whatever clients come and leave and however often     *)
(* getd is stopped and started again.                                      *)
(***************************************************************************)
EXTENDS GetdSystem, GetdProofs

(* What is under way between getd and its clients.                         *)
Requests ==
         {Message(0, AskSession)}
    \cup {Message(3, AskFile(sid, p)) : sid \in Sids \cup {NoSid}, p \in Paths}
    \cup {Message(6, Acknowledge(sid)) : sid \in Sids \cup {NoSid}}

Mails == [path : Paths, mine : BOOLEAN, reply : Replies]

ClientRecords ==
    [at : {"away", "new", "wait1", "granted", "wait4", "ack", "wait45",
           "done", "failed"},
     path : Paths, sid : Sids \cup {NoSid}, have : Nat, good : BOOLEAN,
     inbox : Seq(Mails), foreign : BOOLEAN, stale : BOOLEAN]

NetTypeOK ==
    /\ client \in [Clients -> ClientRecords]
    /\ line \in [peer : Clients \cup {None}, up : BOOLEAN]
    /\ toServer \in Seq(Requests)
    /\ mine \in BOOLEAN
    /\ buffer.body.name # "unterminated"   \* no client sends such a name

(* The pair socket: whoever is there and has not been through a stop of    *)
(* getd is its peer, so there is no other; nothing of an earlier peer is   *)
(* left to be received.                                                    *)
Present(c) == client[c].at # "away" /\ ~client[c].stale

LineInv ==
    /\ pc # "exited"
    /\ line.up => line.peer # None /\ client[line.peer].at # "away"
    /\ line.peer = None => toServer = <<>>
    /\ \A c \in Clients : Present(c) => line = [peer |-> c, up |-> TRUE]

-----------------------------------------------------------------------------
(* The peer and getd in step.  A peer r has at most one request or answer  *)
(* under way, and before them the one reply that main may have owed to the *)
(* peer before it.                                                         *)

(* Nothing but that reply has come.                                        *)
Early(r) == r.inbox = <<>> \/ (pc = "recv" /\ Len(r.inbox) = 1)

(* m answers a type 0 message.                                             *)
Answer0(m) ==
    m.type = 2 \/ (m.type = 1 /\ m.sid = sessionId /\ lastSent = 1)

InBuffer(type) == pc = "handle" /\ buffer.type = type

InWait1(r) ==
    \/ Len(toServer) = 1 /\ Head(toServer).type = 0 /\ Early(r)
    \/ /\ toServer = <<>> /\ Len(r.inbox) <= 1
       /\ InBuffer(0) \/ (pc = "send" /\ Answer0(outMessage))
    \/ /\ toServer = <<>> /\ pc = "recv"
       /\ Len(r.inbox) \in 1..2
       /\ Answer0(r.inbox[Len(r.inbox)].reply)

(* The session r was granted is another client's: the answer to its own    *)
(* type 0 message comes next, and ends it.                                 *)
Doomed(r) ==
    \/ /\ r.inbox = <<>> /\ pc = "recv"
       /\ toServer # <<>> /\ Head(toServer).type = 0
    \/ r.inbox = <<>> /\ InBuffer(0)
    \/ r.inbox = <<>> /\ pc = "send" /\ outMessage.type \in {1, 2}
    \/ r.inbox # <<>> /\ Head(r.inbox).reply.type \in {1, 2}

Quiet(r) == toServer = <<>> /\ pc = "recv" /\ r.inbox = <<>>

(* getd's state is that of r's session, with all that r has.               *)
InStep(r) ==
    /\ sessionId = r.sid
    /\ \/ lastSent = 1 /\ r.have = 0
       \/ lastSent = 4 /\ sendFile.path = r.path /\ copied = r.have

(* m, with bytes of the file at p, answers r's type 3 or 6 message.        *)
AnswerData(r, m, p) ==
    \/ m.type = 2
    \/ /\ m.type = 4 /\ p = r.path /\ m.pos = r.have
       /\ sessionId = r.sid /\ lastSent = 4 /\ sendFile.path = r.path
       /\ copied = r.have + m.len
    \/ m.type = 5 /\ r.have = size[r.path]

(* m, a message or the buffer, is what r sent last.                        *)
Asks(r, m) ==
    \/ /\ r.at = "wait4" /\ lastSent = 1
       /\ m.type = 3 /\ m.body = AskFile(r.sid, r.path)
    \/ /\ r.at = "wait45" /\ lastSent = 4
       /\ m.type = 6 /\ m.body = Acknowledge(r.sid)

InWaitData(r) ==
    \/ /\ Len(toServer) = 1 /\ Asks(r, Head(toServer))
       /\ pc = "recv" /\ r.inbox = <<>> /\ InStep(r)
    \/ /\ toServer = <<>> /\ Asks(r, buffer) /\ pc = "handle"
       /\ buffer.lenOK
       /\ r.inbox = <<>> /\ InStep(r)
    \/ /\ toServer = <<>> /\ pc = "send" /\ r.inbox = <<>>
       /\ AnswerData(r, outMessage, sendFile.path)
    \/ /\ toServer = <<>> /\ pc = "recv" /\ Len(r.inbox) = 1
       /\ AnswerData(r, Head(r.inbox).reply, Head(r.inbox).path)

InState(r) ==
    /\ r.good
    /\ r.at \in {"new", "wait1", "granted", "wait4"} => r.have = 0
    /\ r.at = "new" => toServer = <<>> /\ Early(r)
    /\ r.at = "wait1" => InWait1(r)
    /\ r.at = "granted" => \/ (Quiet(r) /\ InStep(r) /\ lastSent = 1)
                           \/ Doomed(r)
    /\ r.at = "wait4" => Doomed(r) \/ InWaitData(r)
    /\ r.at = "ack" => Quiet(r) /\ InStep(r) /\ lastSent = 4
    /\ r.at = "wait45" => InWaitData(r)
    /\ r.at = "done" => r.have = size[r.path]

PeerInv == \A c \in Clients : Present(c) => InState(client[c])

SysInv == /\ StreamInv /\ CompleteInv
          /\ NetTypeOK /\ LineInv /\ PeerInv
          /\ \A c \in Clients : client[c].at = "away" => client[c].good

-----------------------------------------------------------------------------
(* Types, and getd's own invariants.                                       *)

(* A client that is not connected.                                         *)
LEMMA AwayType ==
    Away \in ClientRecords /\ Away.inbox = <<>> /\ Away.have = 0
<1>1. (CHOOSE p \in Paths : TRUE) \in Paths
  BY ConstantsAssumption
<1> QED
  BY <1>1 DEF Away, ClientRecords

(* Three of the kinds of bodies.                                           *)
LEMMA BodyForms ==
    /\ [name : {"good"}, sid : {NoSid}, ok6 : {TRUE}, ok3 : {FALSE}]
         \subseteq Bodies
    /\ [name : {"bad"}, sid : {NoSid}, ok6 : {FALSE},
        ok3 : {TRUE}, sid3 : Sids \cup {NoSid}, path : Paths] \subseteq Bodies
    /\ [name : {"bad"}, sid : Sids \cup {NoSid}, ok6 : BOOLEAN, ok3 : {FALSE}]
         \subseteq Bodies
BY Zenon DEF Bodies

(* What clients ask is among what can arrive at getd: whole messages with  *)
(* the right length, and no name without an end.                           *)
LEMMA RequestsArrive ==
    ASSUME NEW q \in Requests
    PROVE  /\ q \in Arrivals
           /\ q.part = "body" /\ q.lenOK = TRUE
           /\ q.body.name # "unterminated"
<1> DEFINE Is(t, b) == q = Message(t, b)
<1>1. \A t, b : Is(t, b) => /\ q.part = "body" /\ q.lenOK = TRUE
                            /\ q.type = t /\ q.body = b
  BY DEF Message
<1>2. \A t \in Types, b \in Bodies : Is(t, b) => q \in Arrivals
  <2> TAKE t \in Types, b \in Bodies
  <2> HAVE Is(t, b)
  <2>1. q \in [part : {"body"}, type : Types, lenOK : BOOLEAN, body : Bodies]
    BY SMT DEF Message
  <2> QED
    BY <2>1, Zenon DEF Arrivals
<1>3. {0, 3, 6} \subseteq Types
  BY DEF Types
<1>4. AskSession \in Bodies /\ AskSession.name # "unterminated"
  <2>1. AskSession \in [name : {"good"}, sid : {NoSid}, ok6 : {TRUE},
                        ok3 : {FALSE}]
    BY DEF AskSession
  <2> QED
    BY <2>1, BodyForms DEF AskSession
<1>5. ASSUME NEW sid \in Sids \cup {NoSid}, NEW p \in Paths
      PROVE  /\ AskFile(sid, p) \in Bodies
             /\ AskFile(sid, p).name # "unterminated"
  <2>1. AskFile(sid, p) \in [name : {"bad"}, sid : {NoSid}, ok6 : {FALSE},
                ok3 : {TRUE}, sid3 : Sids \cup {NoSid}, path : Paths]
    BY DEF AskFile
  <2> QED
    BY <2>1, BodyForms DEF AskFile
<1>6. ASSUME NEW sid \in Sids \cup {NoSid}
      PROVE  /\ Acknowledge(sid) \in Bodies
             /\ Acknowledge(sid).name # "unterminated"
  <2>1. Acknowledge(sid) \in [name : {"bad"}, sid : Sids \cup {NoSid},
                              ok6 : BOOLEAN, ok3 : {FALSE}]
    BY DEF Acknowledge
  <2> QED
    BY <2>1, BodyForms DEF Acknowledge
<1> HIDE DEF Is
<1>7. ASSUME Is(0, AskSession)
      PROVE  /\ q \in Arrivals /\ q.part = "body" /\ q.lenOK = TRUE
             /\ q.body.name # "unterminated"
  BY <1>1, <1>2, <1>3, <1>4, <1>7
<1>8. ASSUME NEW sid \in Sids \cup {NoSid}, NEW p \in Paths,
             Is(3, AskFile(sid, p))
      PROVE  /\ q \in Arrivals /\ q.part = "body" /\ q.lenOK = TRUE
             /\ q.body.name # "unterminated"
  BY <1>1, <1>2, <1>3, <1>5, <1>8
<1>9. ASSUME NEW sid \in Sids \cup {NoSid}, Is(6, Acknowledge(sid))
      PROVE  /\ q \in Arrivals /\ q.part = "body" /\ q.lenOK = TRUE
             /\ q.body.name # "unterminated"
  BY <1>1, <1>2, <1>3, <1>6, <1>9
<1>10. \/ Is(0, AskSession)
       \/ \E sid \in Sids \cup {NoSid}, p \in Paths : Is(3, AskFile(sid, p))
       \/ \E sid \in Sids \cup {NoSid} : Is(6, Acknowledge(sid))
  BY DEF Requests, Is
<1> QED
  BY <1>4, <1>7, <1>8, <1>9, <1>10

(* A reply of getd as the client sees it.                                  *)
LEMMA MailType ==
    ASSUME StreamInv, NetTypeOK
    PROVE  /\ Mail \in Mails
           /\ Mail.reply = outMessage /\ Mail.path = sendFile.path
BY DEF StreamInv, TypeOK, NetTypeOK, Files, Mail, Mails

(* What a client sends is a well-formed message.                           *)
LEMMA RequestType ==
    ASSUME NEW r \in ClientRecords, r.at \in {"new", "granted", "ack"}
    PROVE  /\ Request(r) \in Requests
           /\ r.at = "new" => Request(r).type = 0
           /\ r.at = "granted" => /\ Request(r).type = 3
                                  /\ Request(r).body = AskFile(r.sid, r.path)
           /\ r.at = "ack" => /\ Request(r).type = 6
                              /\ Request(r).body = Acknowledge(r.sid)
<1>1. r.sid \in Sids \cup {NoSid} /\ r.path \in Paths
  BY DEF ClientRecords
<1>2. /\ r.at = "new" => Request(r) = Message(0, AskSession)
      /\ r.at = "granted" => Request(r) = Message(3, AskFile(r.sid, r.path))
      /\ r.at = "ack" => Request(r) = Message(6, Acknowledge(r.sid))
  BY DEF Request
<1>3. \A t, b : Message(t, b).type = t /\ Message(t, b).body = b
  BY DEF Message
<1>4. Request(r) \in Requests
  <2>1. CASE r.at = "new"
    BY <1>2, <2>1 DEF Requests
  <2>2. CASE r.at = "granted"
    BY <1>1, <1>2, <2>2 DEF Requests
  <2>3. CASE r.at = "ack"
    BY <1>1, <1>2, <2>3 DEF Requests
  <2> QED
    BY <2>1, <2>2, <2>3
<1> QED
  BY <1>2, <1>3, <1>4

(* What a client makes of a reply is a client again.                       *)
LEMMA DigestedType ==
    ASSUME NEW r \in ClientRecords, NEW m \in Mails
    PROVE  Digested(r, m) \in ClientRecords
<1>1. /\ m.reply.type = 1 => m.reply.sid \in Sids \cup {NoSid}
      /\ m.reply.type = 4 => m.reply.len \in Nat
      /\ m.mine \in BOOLEAN /\ r.have \in Nat /\ r.stale \in BOOLEAN
  BY ConstantsAssumption DEF Mails, Replies, ClientRecords
<1>2. CASE ~Expected(r, m.reply)
  <2>1. Digested(r, m) = [Away EXCEPT !.at = "failed", !.stale = r.stale]
    BY <1>2, Zenon DEF Digested
  <2> QED
    BY <1>1, <2>1, AwayType DEF ClientRecords
<1>3. CASE Expected(r, m.reply) /\ m.reply.type = 1
  <2> DEFINE sid == m.reply.sid
             foreign == ~m.mine
  <2>1. Digested(r, m) = [r EXCEPT !.at = "granted", !.sid = sid,
                                   !.foreign = foreign]
    BY <1>3 DEF Digested
  <2>2. sid \in Sids \cup {NoSid} /\ foreign \in BOOLEAN
    BY <1>1, <1>3
  <2> HIDE DEF sid, foreign
  <2> QED
    BY <2>1, <2>2 DEF ClientRecords
<1>4. CASE Expected(r, m.reply) /\ m.reply.type = 4
  <2> DEFINE have == r.have + m.reply.len
             good == r.good /\ m.path = r.path /\ m.reply.pos = r.have
  <2>1. Digested(r, m) = [r EXCEPT !.at = "ack", !.have = have, !.good = good]
    BY <1>4 DEF Digested
  <2>2. have \in Nat /\ good \in BOOLEAN
    BY <1>1, <1>4 DEF ClientRecords
  <2> HIDE DEF have, good
  <2> QED
    BY <2>1, <2>2 DEF ClientRecords
<1>5. CASE Expected(r, m.reply) /\ m.reply.type = 5
  <2>1. Digested(r, m) = [r EXCEPT !.at = "done"]
    BY <1>5 DEF Digested
  <2> QED
    BY <2>1 DEF ClientRecords
<1> QED
  BY <1>2, <1>3, <1>4, <1>5 DEF Expected

(* A step of the system is one of getd's loop, or leaves it alone, or is   *)
(* the start of a new run.                                                 *)
LEMMA GetdStep ==
    ASSUME NetTypeOK, [SysNext]_sysvars
    PROVE  \/ [Next]_vars /\ size' = size
           \/ Begin
<1>1. CASE SysRecv
  <2>1. Head(toServer) \in Requests
    BY <1>1 DEF SysRecv, NetTypeOK
  <2> QED
    BY <1>1, <2>1, RequestsArrive DEF SysRecv, Next, Recv
<1>2. CASE SysHandle
  BY <1>2 DEF SysHandle, Next, Handle, MessageType0Handler,
              MessageType3Handler, MessageType6Handler, MessageOtherHandler
<1>3. CASE SysSend
  BY <1>3 DEF SysSend, Next, Send
<1>4. CASE Restart
  BY <1>4 DEF Restart
<1>5. CASE UNCHANGED vars
  BY <1>5 DEF vars
<1> QED
  BY <1>1, <1>2, <1>3, <1>4, <1>5
  DEF SysNext, sysvars, Arrive, ClientSends, ClientTakes, ClientLeaves,
      Attach, Detach

(* getd's own invariants hold of the getd in the system.                   *)
LEMMA GetdInvariants ==
    ASSUME ~ IOErrors, StreamInv, CompleteInv, NetTypeOK, [SysNext]_sysvars
    PROVE  StreamInv' /\ CompleteInv' /\ size' = size
<1>1. CASE [Next]_vars /\ size' = size
  BY <1>1, StreamStep, CompleteStep
<1>2. CASE Begin
  BY <1>2, BeginStream, BeginComplete DEF Begin
<1> QED
  BY <1>1, <1>2, GetdStep

(* Nothing is under way on an empty line.                                  *)
LEMMA EmptyLine ==
    /\ NoLine \in [peer : Clients \cup {None}, up : BOOLEAN]
    /\ NoLine.peer = None /\ NoLine.up = FALSE
    /\ <<>> \in Seq(Requests)
    /\ FALSE \in BOOLEAN
BY DEF NoLine

(* Every step keeps what is under way in its type.                         *)
LEMMA NetTypeStep ==
    ASSUME StreamInv, NetTypeOK, [SysNext]_sysvars
    PROVE  NetTypeOK'
<1> DEFINE NetTypes == /\ client \in [Clients -> ClientRecords]
                       /\ line \in [peer : Clients \cup {None}, up : BOOLEAN]
                       /\ toServer \in Seq(Requests)
                       /\ mine \in BOOLEAN
<1> USE DEF NetTypeOK
<1>1. ASSUME NEW c \in Clients, NEW p \in Paths, Arrive(c, p)
      PROVE  NetTypes'
  <2>1. [Away EXCEPT !.at = "new", !.path = p] \in ClientRecords
    BY AwayType DEF ClientRecords
  <2> QED
    BY <1>1, <2>1 DEF Arrive
<1>2. ASSUME NEW c \in Clients, ClientSends(c)
      PROVE  NetTypes'
  <2>1. toServer' \in Seq(Requests)
    BY <1>2, RequestType DEF ClientSends
  <2>2. Waiting(client[c]) \in {"wait1", "wait4", "wait45"}
    BY <1>2 DEF ClientSends, Waiting
  <2>3. [client[c] EXCEPT !.at = Waiting(client[c])] \in ClientRecords
    BY <2>2, ZenonT(30) DEF ClientRecords
  <2> QED
    BY <1>2, <2>1, <2>3 DEF ClientSends
<1>3. ASSUME NEW c \in Clients, ClientTakes(c)
      PROVE  NetTypes'
  <2> DEFINE r == [client[c] EXCEPT !.inbox = Tail(client[c].inbox)]
             m == Head(client[c].inbox)
  <2>1. client[c].inbox \in Seq(Mails) /\ client[c].inbox # <<>>
    BY <1>3 DEF ClientTakes, ClientRecords
  <2>2. m \in Mails /\ Tail(client[c].inbox) \in Seq(Mails)
    BY <2>1
  <2>3. r \in ClientRecords
    BY <2>2, ZenonT(30) DEF ClientRecords
  <2>4. client' = [client EXCEPT ![c] = Digested(r, m)]
    BY <1>3, Zenon DEF ClientTakes
  <2> HIDE DEF r, m
  <2> QED
    BY <1>3, <2>2, <2>3, <2>4, DigestedType DEF ClientTakes
<1>4. ASSUME NEW c \in Clients, ClientLeaves(c)
      PROVE  NetTypes'
  <2>1. line' \in [peer : Clients \cup {None}, up : BOOLEAN]
    BY <1>4 DEF ClientLeaves
  <2> QED
    BY <1>4, <2>1, AwayType DEF ClientLeaves
<1>5. ASSUME NEW c \in Clients, Attach(c)
      PROVE  NetTypes'
  BY <1>5 DEF Attach
<1>6. ASSUME Detach
      PROVE  NetTypes'
  <2>1. line' = NoLine /\ toServer' = <<>> /\ mine' = FALSE /\ client' = client
    BY <1>6 DEF Detach
  <2> QED
    BY <2>1, EmptyLine
<1>7. ASSUME SysRecv
      PROVE  NetTypes'
  BY <1>7 DEF SysRecv
<1>8. ASSUME SysHandle
      PROVE  NetTypes'
  BY <1>8 DEF SysHandle, net
<1>9. ASSUME SysSend
      PROVE  NetTypes'
  <2>1. CASE line.up /\ line.peer \in Clients
    <3> DEFINE r == client[line.peer]
               inbox == Append(r.inbox, Mail)
    <3>1. inbox \in Seq(Mails) /\ r \in ClientRecords
      BY <2>1, MailType DEF ClientRecords
    <3>2. client' = [client EXCEPT ![line.peer] = [r EXCEPT !.inbox = inbox]]
      BY <1>9, <2>1 DEF SysSend
    <3> HIDE DEF r, inbox
    <3>3. [r EXCEPT !.inbox = inbox] \in ClientRecords
      BY <3>1 DEF ClientRecords
    <3> QED
      BY <1>9, <2>1, <3>2, <3>3 DEF SysSend
  <2> QED
    BY <1>9, <2>1 DEF SysSend
<1>10. ASSUME Restart
       PROVE  NetTypes'
  <2>1. line' = NoLine /\ toServer' = <<>> /\ mine' = FALSE
    BY <1>10, Zenon DEF Restart
  <2>2. PICK n \in 0..(IF line.up THEN Len(client[line.peer].inbox) ELSE 0) :
          client' = [c \in Clients |->
                        [client[c] EXCEPT
                            !.inbox = IF line.peer = c THEN SubSeq(@, 1, n)
                                                       ELSE @,
                            !.stale = client[c].at # "away"]]
    BY <1>10, Zenon DEF Restart
  <2>3. ASSUME NEW c \in Clients
        PROVE  client'[c] \in ClientRecords
    <3> DEFINE inbox == IF line.peer = c THEN SubSeq(client[c].inbox, 1, n)
                                         ELSE client[c].inbox
               stale == client[c].at # "away"
    <3>1. client[c].inbox \in Seq(Mails)
      BY DEF ClientRecords
    <3>2. inbox \in Seq(Mails)
      BY <3>1
    <3>3. stale \in BOOLEAN
      OBVIOUS
    <3>4. client'[c] = [client[c] EXCEPT !.inbox = inbox, !.stale = stale]
      BY <2>2
    <3> HIDE DEF inbox, stale
    <3> QED
      BY <3>2, <3>3, <3>4, ZenonT(30) DEF ClientRecords
  <2>4. client' \in [Clients -> ClientRecords]
    BY <2>2, <2>3
  <2> QED
    BY <2>1, <2>4, EmptyLine
<1>11. ASSUME UNCHANGED net
       PROVE  NetTypes'
  BY <1>11 DEF net
<1> HIDE DEF NetTypes
<1>12. NetTypes'
  <2>1. CASE SysNext
    BY <1>1, <1>2, <1>3, <1>4, <1>5, <1>6, <1>7, <1>8, <1>9, <1>10, <2>1
    DEF SysNext
  <2> QED
    BY <1>11, <2>1 DEF sysvars
<1>13. ASSUME SysRecv
       PROVE  buffer'.body.name # "unterminated"
  <2>1. Head(toServer) \in Requests
    BY <1>13 DEF SysRecv
  <2>2. buffer' = Overlay(Head(toServer))
    BY <1>13 DEF SysRecv, Recv
  <2>3. buffer'.body = Head(toServer).body
    BY <2>1, <2>2, RequestsArrive DEF Overlay
  <2> QED
    BY <2>1, <2>3, RequestsArrive
<1>14. ASSUME SysHandle
       PROVE  buffer' = buffer
  BY <1>14 DEF SysHandle, Handle, MessageType0Handler, MessageType3Handler,
               MessageType6Handler, MessageOtherHandler
<1>15. ASSUME Restart
       PROVE  buffer'.body.name # "unterminated"
  BY <1>15 DEF Restart, Begin, Garbage
<1>16. ASSUME ~SysRecv, ~SysHandle, ~Restart
       PROVE  buffer' = buffer
  BY <1>16 DEF SysNext, sysvars, vars, Arrive, ClientSends, ClientTakes,
               ClientLeaves, Attach, Detach, SysSend, Send
<1> QED
  BY <1>12, <1>13, <1>14, <1>15, <1>16 DEF NetTypes

-----------------------------------------------------------------------------
(* The peer.                                                               *)

(* What a reply leaves of the client that takes it.                        *)
LEMMA DigestedIs ==
    ASSUME NEW r \in ClientRecords, NEW m \in Mails
    PROVE  LET q == Digested(r, m)
           IN  /\ q.stale = r.stale
               /\ ~Expected(r, m.reply) => q.at = "failed" /\ q.good /\ q.inbox = <<>>
               /\ Expected(r, m.reply) /\ m.reply.type = 1 =>
                     /\ q.at = "granted" /\ q.sid = m.reply.sid
                     /\ q.good = r.good /\ q.have = r.have
                     /\ q.path = r.path /\ q.inbox = r.inbox
               /\ Expected(r, m.reply) /\ m.reply.type = 4 =>
                     /\ q.at = "ack" /\ q.sid = r.sid
                     /\ r.good /\ m.path = r.path /\ m.reply.pos = r.have => q.good
                     /\ q.have = r.have + m.reply.len
                     /\ q.path = r.path /\ q.inbox = r.inbox
               /\ Expected(r, m.reply) /\ m.reply.type = 5 =>
                     /\ q.at = "done" /\ q.good = r.good /\ q.have = r.have
                     /\ q.path = r.path /\ q.inbox = r.inbox
               /\ Expected(r, m.reply) => m.reply.type \in {1, 4, 5}
<1>1. CASE ~Expected(r, m.reply)
  <2>1. Digested(r, m) = [Away EXCEPT !.at = "failed", !.stale = r.stale]
    BY <1>1, Zenon DEF Digested
  <2> QED
    BY <1>1, <2>1 DEF Away
<1>2. CASE Expected(r, m.reply) /\ m.reply.type = 1
  <2> DEFINE foreign == ~m.mine
  <2>1. Digested(r, m) = [r EXCEPT !.at = "granted", !.sid = m.reply.sid,
                                   !.foreign = foreign]
    BY <1>2 DEF Digested
  <2> HIDE DEF foreign
  <2> QED
    BY <1>2, <2>1 DEF ClientRecords
<1>3. CASE Expected(r, m.reply) /\ m.reply.type = 4
  <2> DEFINE have == r.have + m.reply.len
             good == r.good /\ m.path = r.path /\ m.reply.pos = r.have
  <2>1. Digested(r, m) = [r EXCEPT !.at = "ack", !.have = have, !.good = good]
    BY <1>3 DEF Digested
  <2>2. r.good /\ m.path = r.path /\ m.reply.pos = r.have => good = TRUE
    OBVIOUS
  <2> HIDE DEF good
  <2> QED
    BY <1>3, <2>1, <2>2 DEF ClientRecords
<1>4. CASE Expected(r, m.reply) /\ m.reply.type = 5
  <2>1. Digested(r, m) = [r EXCEPT !.at = "done"]
    BY <1>4 DEF Digested
  <2> QED
    BY <1>4, <2>1 DEF ClientRecords
<1> QED
  BY <1>1, <1>2, <1>3, <1>4 DEF Expected

(* A client that takes a reply.                                            *)
LEMMA TakesIs ==
    ASSUME NetTypeOK, NEW c \in Clients, ClientTakes(c)
    PROVE  \E r \in ClientRecords, m \in Mails :
              /\ m = Head(client[c].inbox)
              /\ r.inbox = Tail(client[c].inbox)
              /\ r.at = client[c].at /\ r.path = client[c].path
              /\ r.sid = client[c].sid /\ r.have = client[c].have
              /\ r.good = client[c].good /\ r.stale = client[c].stale
              /\ client' = [client EXCEPT ![c] = Digested(r, m)]
<1> DEFINE r == [client[c] EXCEPT !.inbox = Tail(client[c].inbox)]
           m == Head(client[c].inbox)
<1>1. client[c] \in ClientRecords
  BY DEF NetTypeOK
<1>2. client[c].inbox \in Seq(Mails) /\ client[c].inbox # <<>>
  BY <1>1 DEF ClientTakes, ClientRecords
<1>3. m \in Mails /\ Tail(client[c].inbox) \in Seq(Mails)
  BY <1>2
<1>4. r \in ClientRecords
  BY <1>1, <1>3 DEF ClientRecords
<1>5. /\ r.inbox = Tail(client[c].inbox)
      /\ r.at = client[c].at /\ r.path = client[c].path
      /\ r.sid = client[c].sid /\ r.have = client[c].have
      /\ r.good = client[c].good /\ r.stale = client[c].stale
  BY <1>1 DEF ClientRecords
<1>6. client' = [client EXCEPT ![c] = Digested(r, m)]
  BY Zenon DEF ClientTakes
<1> HIDE DEF r
<1> QED
  BY <1>3, <1>4, <1>5, <1>6

(* Arrivals, departures and stops keep the peer the only client present.   *)
LEMMA LineStep ==
    ASSUME StreamInv, NetTypeOK, LineInv, [SysNext]_sysvars
    PROVE  LineInv'
<1> USE DEF NetTypeOK, LineInv, Present
<1>0. \A c \in Clients : client[c] \in ClientRecords
  OBVIOUS
<1>1. ASSUME NEW c \in Clients, NEW p \in Paths, Arrive(c, p)
      PROVE  LineInv'
  <2>1. \A d \in Clients : ~Present(d)
    BY <1>1 DEF Arrive, NoLine
  <2>2. client'[c].at = "new" /\ \A d \in Clients \ {c} : client'[d] = client[d]
    BY <1>1 DEF Arrive, Away
  <2>3. line' = [peer |-> c, up |-> TRUE] /\ UNCHANGED <<pc, toServer>>
    BY <1>1 DEF Arrive, vars
  <2> QED
    BY <1>1, <2>1, <2>2, <2>3, SystemAssumption
<1>2. ASSUME NEW c \in Clients, ClientSends(c)
      PROVE  LineInv'
  <2>1. Waiting(client[c]) \in {"wait1", "wait4", "wait45"}
    BY <1>2 DEF ClientSends, Waiting
  <2>2. /\ \A d \in Clients : client'[d].stale = client[d].stale
        /\ \A d \in Clients :
              client'[d].at = "away" <=> client[d].at = "away"
    BY <1>0, <1>2, <2>1 DEF ClientSends, ClientRecords
  <2>3. UNCHANGED <<pc, line>> /\ line.peer \in Clients
    BY <1>2 DEF ClientSends, vars
  <2> QED
    BY <2>2, <2>3, SystemAssumption
<1>3. ASSUME NEW c \in Clients, ClientTakes(c)
      PROVE  LineInv'
  <2>1. PICK r \in ClientRecords, m \in Mails :
              /\ r.at = client[c].at /\ r.stale = client[c].stale
              /\ client' = [client EXCEPT ![c] = Digested(r, m)]
    BY <1>3, TakesIs
  <2>2. Digested(r, m).stale = r.stale /\ Digested(r, m).at # "away"
    BY DigestedIs
  <2>3. client[c].at # "away"
    BY <1>3 DEF ClientTakes
  <2>4. /\ \A d \in Clients : client'[d].stale = client[d].stale
        /\ \A d \in Clients :
              client'[d].at = "away" <=> client[d].at = "away"
    BY <2>1, <2>2, <2>3
  <2>5. UNCHANGED <<pc, line, toServer>>
    BY <1>3 DEF ClientTakes, vars
  <2> QED
    BY <2>4, <2>5
<1>4. ASSUME NEW c \in Clients, ClientLeaves(c)
      PROVE  LineInv'
  <2> DEFINE up == line.up /\ line.peer # c
  <2>1. /\ client'[c].at = "away"
        /\ \A d \in Clients \ {c} : client'[d] = client[d]
    BY <1>4 DEF ClientLeaves, Away
  <2>2. line' = [line EXCEPT !.up = up] /\ UNCHANGED <<pc, toServer>>
    BY <1>4 DEF ClientLeaves, vars
  <2>3. line'.peer = line.peer /\ (line'.up <=> line.up /\ line.peer # c)
    BY <2>2
  <2>4. line.up \in BOOLEAN /\ (line.peer # c /\ line.up => line' = line)
    BY <2>2
  <2>5. line'.up => line'.peer # None /\ client'[line'.peer].at # "away"
    BY <2>1, <2>3
  <2>6. ASSUME NEW d \in Clients, Present(d)'
        PROVE  line' = [peer |-> d, up |-> TRUE]
    <3>1. d # c /\ Present(d)
      BY <2>1, <2>6
    <3> QED
      BY <2>4, <3>1
  <2> QED
    BY <2>2, <2>3, <2>5, <2>6
<1>5. ASSUME NEW c \in Clients, Attach(c)
      PROVE  LineInv'
  <2>1. \A d \in Clients : ~Present(d)
    BY <1>5 DEF Attach, NoLine
  <2> QED
    BY <1>5, <2>1, SystemAssumption DEF Attach, vars
<1>6. CASE Detach
  <2>1. \A d \in Clients : ~Present(d)
    BY <1>6 DEF Detach
  <2>2. /\ line' = NoLine /\ toServer' = <<>>
        /\ UNCHANGED <<pc, client>>
    BY <1>6 DEF Detach, vars
  <2> QED
    BY <2>1, <2>2, EmptyLine
<1>7. CASE SysRecv
  BY <1>7 DEF SysRecv, Recv
<1>8. CASE SysHandle
  <2>1. pc' # "exited"
    BY <1>8 DEF SysHandle, Handle, MessageType0Handler,
                MessageType3Handler, MessageType6Handler, MessageOtherHandler
  <2> QED
    BY <1>8, <2>1 DEF SysHandle, net
<1>9. CASE SysSend
  <2>1. /\ \A d \in Clients : client'[d].stale = client[d].stale
        /\ \A d \in Clients : client'[d].at = client[d].at
    BY <1>0, <1>9 DEF SysSend, ClientRecords
  <2> QED
    BY <1>9, <2>1 DEF SysSend, Send
<1>10. CASE Restart
  <2>1. line' = NoLine /\ toServer' = <<>> /\ pc' = "recv"
    BY <1>10, Zenon DEF Restart, Begin
  <2>2. \A c \in Clients : ~Present(c)'
    <3> TAKE c \in Clients
    <3>0. PICK n :
            client' = [d \in Clients |->
                          [client[d] EXCEPT
                              !.inbox = IF line.peer = d THEN SubSeq(@, 1, n)
                                                         ELSE @,
                              !.stale = client[d].at # "away"]]
      BY <1>10, Zenon DEF Restart
    <3> DEFINE inbox == IF line.peer = c THEN SubSeq(client[c].inbox, 1, n)
                                         ELSE client[c].inbox
               stale == client[c].at # "away"
    <3>1. client'[c] = [client[c] EXCEPT !.inbox = inbox, !.stale = stale]
      BY <3>0
    <3> HIDE DEF inbox, stale
    <3>2. client'[c].at = client[c].at /\ client'[c].stale = stale
      BY <1>0, <3>1 DEF ClientRecords
    <3> QED
      BY <3>2 DEF stale
  <2> QED
    BY <2>1, <2>2, EmptyLine
<1>11. CASE UNCHANGED sysvars
  BY <1>11 DEF sysvars, net, vars
<1> HIDE DEF NetTypeOK, LineInv, Present
<1>12. CASE SysNext
  BY <1>1, <1>2, <1>3, <1>4, <1>5, <1>6, <1>7, <1>8, <1>9, <1>10, <1>12
  DEF SysNext
<1> QED
  BY <1>11, <1>12

-----------------------------------------------------------------------------
(* The peer and getd stay in step.                                         *)

(* A client that sends leaves nothing else under way.                      *)
LEMMA SendsInStep ==
    ASSUME NetTypeOK, NEW c \in Clients, InState(client[c]), ClientSends(c)
    PROVE  InState(client[c])'
<1> DEFINE r == client[c]
           q == Request(r)
<1>1. r \in ClientRecords /\ r.at \in {"new", "granted", "ack"}
  BY DEF NetTypeOK, ClientSends
<1>2. client'[c] = [r EXCEPT !.at = Waiting(r)]
  BY DEF ClientSends, NetTypeOK
<1>3. /\ r'.have = r.have /\ r'.good = r.good /\ r'.sid = r.sid
      /\ r'.path = r.path /\ r'.inbox = r.inbox
      /\ r.at = "new" => r'.at = "wait1"
      /\ r.at = "granted" => r'.at = "wait4"
      /\ r.at = "ack" => r'.at = "wait45"
  BY <1>1, <1>2 DEF Waiting, ClientRecords
<1>4. /\ pc' = pc /\ buffer' = buffer /\ lastSent' = lastSent
      /\ sessionId' = sessionId /\ sendFile' = sendFile
      /\ outMessage' = outMessage /\ copied' = copied /\ size' = size
  BY DEF ClientSends, vars, state, file
<1>5. toServer' = Append(toServer, q) /\ toServer \in Seq(Requests) /\ q \in Requests
  BY <1>1, RequestType DEF ClientSends, NetTypeOK
<1>6. /\ toServer = <<>> => Len(toServer') = 1 /\ Head(toServer') = q
      /\ toServer # <<>> => toServer' # <<>> /\ Head(toServer') = Head(toServer)
  BY <1>5
<1>7. q = Request(r)
  OBVIOUS
<1> HIDE DEF q
<1>8. Doomed(r) => Doomed(r)'
  <2>1. CASE r.inbox = <<>> /\ pc = "recv"
             /\ toServer # <<>> /\ Head(toServer).type = 0
    BY <1>3, <1>4, <1>6, <2>1 DEF Doomed
  <2> QED
    BY <1>3, <1>4, <2>1 DEF Doomed, InBuffer
<1>9. CASE r.at = "new"
  <2>1. toServer = <<>> /\ Early(r) /\ q.type = 0
    BY <1>1, <1>7, <1>9, RequestType DEF InState
  <2>2. Early(r)'
    BY <1>3, <1>4, <2>1 DEF Early
  <2>3. InWait1(r)'
    BY <1>6, <2>1, <2>2 DEF InWait1
  <2> QED
    BY <1>3, <1>9, <2>3 DEF InState
<1>10. CASE r.at = "granted"
  <2>1. CASE Doomed(r)
    BY <1>3, <1>8, <1>10, <2>1 DEF InState
  <2>2. CASE Quiet(r) /\ InStep(r) /\ lastSent = 1
    <3>1. q.type = 3 /\ q.body = AskFile(r.sid, r.path)
      BY <1>1, <1>7, <1>10, RequestType
    <3>2. Asks(r, Head(toServer))'
      BY <1>3, <1>4, <1>6, <1>10, <2>2, <3>1 DEF Asks, Quiet
    <3>3. InStep(r)'
      BY <1>3, <1>4, <2>2 DEF InStep
    <3>4. InWaitData(r)'
      BY <1>3, <1>4, <1>6, <2>2, <3>2, <3>3 DEF InWaitData, Quiet
    <3> QED
      BY <1>3, <1>10, <3>4 DEF InState
  <2> QED
    BY <1>10, <2>1, <2>2 DEF InState
<1>11. CASE r.at = "ack"
  <2>0. Quiet(r) /\ InStep(r) /\ lastSent = 4
    BY <1>11 DEF InState
  <2>1. q.type = 6 /\ q.body = Acknowledge(r.sid)
    BY <1>1, <1>7, <1>11, RequestType
  <2>2. Asks(r, Head(toServer))'
    BY <1>3, <1>4, <1>6, <1>11, <2>0, <2>1 DEF Asks, Quiet
  <2>3. InStep(r)'
    BY <1>3, <1>4, <2>0 DEF InStep
  <2>4. InWaitData(r)'
    BY <1>3, <1>4, <1>6, <2>0, <2>2, <2>3 DEF InWaitData, Quiet
  <2> QED
    BY <1>3, <1>11, <2>4 DEF InState
<1> QED
  BY <1>1, <1>9, <1>10, <1>11

(* Sequences of one and two elements.                                      *)
LEMMA ShortSeq ==
    ASSUME NEW S, NEW q \in Seq(S), q # <<>>
    PROVE  /\ Len(q) = 1 => Tail(q) = <<>> /\ Head(q) = q[1]
           /\ Len(q) = 2 => Tail(q) # <<>> /\ Head(Tail(q)) = q[2]
           /\ Len(q) \in Nat /\ Len(q) # 0
<1>1. Len(q) \in Nat /\ Len(q) # 0 /\ Tail(q) \in Seq(S)
  OBVIOUS
<1>2. Len(Tail(q)) = Len(q) - 1
  BY <1>1
<1>3. Len(q) = 1 => Tail(q) = <<>> /\ Head(q) = q[1]
  <2>1. Head(q) = q[1]
    BY <1>1
  <2>2. \A t \in Seq(S) : Len(t) = 0 => t = <<>>
    OBVIOUS
  <2>3. Len(q) = 1 => Len(Tail(q)) = 0
    BY <1>2
  <2> QED
    BY <1>1, <2>1, <2>2, <2>3, Zenon
<1>4. Len(q) = 2 => Tail(q) # <<>> /\ Head(Tail(q)) = q[2]
  <2> SUFFICES ASSUME Len(q) = 2 PROVE Tail(q) # <<>> /\ Head(Tail(q)) = q[2]
    OBVIOUS
  <2>1. Len(Tail(q)) = 1 /\ Tail(q)[1] = q[2]
    BY <1>1, <1>2
  <2> QED
    BY <1>1, <2>1
<1> QED
  BY <1>1, <1>3, <1>4

(* A reply leads a client on only if it is getd's answer.                  *)
LEMMA TakesInStep ==
    ASSUME NetTypeOK, NEW c \in Clients, InState(client[c]), ClientTakes(c)
    PROVE  InState(client[c])'
<1> DEFINE r == client[c]
<1>1. /\ r \in ClientRecords /\ r.at \in {"wait1", "wait4", "wait45"}
      /\ r.inbox \in Seq(Mails) /\ r.inbox # <<>> /\ r.have \in Nat
  BY DEF NetTypeOK, ClientTakes, ClientRecords
<1>2. PICK s \in ClientRecords, m \in Mails :
              /\ m = Head(r.inbox) /\ s.inbox = Tail(r.inbox)
              /\ s.at = r.at /\ s.path = r.path /\ s.sid = r.sid
              /\ s.have = r.have /\ s.good = r.good
              /\ client' = [client EXCEPT ![c] = Digested(s, m)]
  BY TakesIs
<1> DEFINE q == client'[c]
<1>3. q = Digested(s, m)
  BY <1>2 DEF NetTypeOK
<1>4. /\ pc' = pc /\ buffer' = buffer /\ lastSent' = lastSent
      /\ sessionId' = sessionId /\ sendFile' = sendFile
      /\ outMessage' = outMessage /\ copied' = copied /\ size' = size
      /\ toServer' = toServer
  BY DEF ClientTakes, vars, state, file
<1>5. /\ Len(r.inbox) = 1 => Tail(r.inbox) = <<>> /\ Head(r.inbox) = r.inbox[1]
      /\ Len(r.inbox) = 2 => /\ Tail(r.inbox) # <<>>
                             /\ Head(Tail(r.inbox)) = r.inbox[2]
      /\ Len(r.inbox) \in Nat /\ Len(r.inbox) # 0
  <2> DEFINE in == r.inbox
  <2>1. in \in Seq(Mails) /\ in # <<>>
    BY <1>1
  <2> HIDE DEF in
  <2>2. /\ Len(in) = 1 => Tail(in) = <<>> /\ Head(in) = in[1]
        /\ Len(in) = 2 => Tail(in) # <<>> /\ Head(Tail(in)) = in[2]
        /\ Len(in) \in Nat /\ Len(in) # 0
    BY <2>1, ShortSeq
  <2> QED
    BY <2>2 DEF in
<1>6. CASE ~Expected(s, m.reply)
  <2>1. q.at = "failed" /\ q.good
    BY <1>3, <1>6, DigestedIs
  <2> QED
    BY <2>1 DEF InState
<1>7. ASSUME Expected(s, m.reply), r.at = "wait1"
      PROVE  InState(client[c])'
  <2>1. m.reply.type = 1
    BY <1>2, <1>7 DEF Expected
  <2>2. /\ q.at = "granted" /\ q.sid = m.reply.sid /\ q.good = r.good
        /\ q.have = r.have /\ q.inbox = Tail(r.inbox)
    BY <1>2, <1>3, <1>7, <2>1, DigestedIs
  <2>3. r.good /\ r.have = 0 /\ InWait1(r)
    BY <1>7 DEF InState
  <2>4. CASE Len(toServer) = 1 /\ Head(toServer).type = 0 /\ Early(r)
    <3>1. pc = "recv" /\ Len(r.inbox) = 1 /\ toServer # <<>>
      BY <1>1, <2>4 DEF Early, NetTypeOK
    <3>2. Doomed(r)'
      BY <1>4, <1>5, <2>2, <2>4, <3>1 DEF Doomed
    <3> QED
      BY <2>2, <2>3, <3>2 DEF InState
  <2>5. CASE /\ toServer = <<>> /\ Len(r.inbox) <= 1
             /\ InBuffer(0) \/ (pc = "send" /\ Answer0(outMessage))
    <3>0. \A n \in Nat : n # 0 /\ n <= 1 => n = 1
      OBVIOUS
    <3>1. Len(r.inbox) = 1
      BY <1>5, <2>5, <3>0, Zenon
    <3>2. Doomed(r)'
      BY <1>4, <1>5, <2>2, <2>5, <3>1 DEF Doomed, InBuffer, Answer0
    <3> QED
      BY <2>2, <2>3, <3>2 DEF InState
  <2>6. CASE /\ toServer = <<>> /\ pc = "recv" /\ Len(r.inbox) = 1
             /\ Answer0(r.inbox[1].reply)
    <3>1. m.reply.sid = sessionId /\ lastSent = 1
      BY <1>2, <1>5, <2>1, <2>6 DEF Answer0
    <3>2. Quiet(r)' /\ InStep(r)'
      BY <1>4, <1>5, <2>2, <2>3, <2>6, <3>1 DEF Quiet, InStep
    <3> QED
      BY <1>4, <2>2, <2>3, <3>1, <3>2 DEF InState
  <2>7. CASE /\ toServer = <<>> /\ pc = "recv" /\ Len(r.inbox) = 2
             /\ Answer0(r.inbox[2].reply)
    <3>1. Doomed(r)'
      BY <1>4, <1>5, <2>2, <2>7 DEF Doomed, Answer0
    <3> QED
      BY <2>2, <2>3, <3>1 DEF InState
  <2> QED
    BY <2>3, <2>4, <2>5, <2>6, <2>7 DEF InWait1
<1>8. ASSUME Expected(s, m.reply), r.at \in {"wait4", "wait45"}
      PROVE  InState(client[c])'
  <2>1. m.reply.type \in {4, 5} /\ (r.at = "wait4" => m.reply.type = 4)
    BY <1>2, <1>8 DEF Expected
  <2>2. r.good /\ (Doomed(r) \/ InWaitData(r))
    BY <1>8 DEF InState
  <2>3. ~Doomed(r)
    BY <1>1, <1>2, <2>1 DEF Doomed
  <2>4. /\ toServer = <<>> /\ pc = "recv" /\ Len(r.inbox) = 1
        /\ AnswerData(r, m.reply, m.path)
    BY <1>1, <1>2, <2>2, <2>3 DEF InWaitData
  <2>5. CASE m.reply.type = 4
    <3>1. /\ q.at = "ack" /\ q.sid = r.sid /\ q.have = r.have + m.reply.len
          /\ r.good /\ m.path = r.path /\ m.reply.pos = r.have => q.good
          /\ q.path = r.path /\ q.inbox = Tail(r.inbox)
      BY <1>2, <1>3, <1>8, <2>5, DigestedIs
    <3>2. /\ m.path = r.path /\ m.reply.pos = r.have
          /\ sessionId = r.sid /\ lastSent = 4 /\ sendFile.path = r.path
          /\ copied = r.have + m.reply.len
      BY <2>4, <2>5 DEF AnswerData
    <3>3. Quiet(r)' /\ InStep(r)'
      BY <1>4, <1>5, <2>4, <3>1, <3>2 DEF Quiet, InStep
    <3> QED
      BY <1>4, <2>2, <3>1, <3>2, <3>3 DEF InState
  <2>6. CASE m.reply.type = 5
    <3>1. /\ q.at = "done" /\ q.good = r.good /\ q.have = r.have
          /\ q.path = r.path
      BY <1>2, <1>3, <1>8, <2>6, DigestedIs
    <3>2. r.have = size[r.path]
      BY <2>4, <2>6 DEF AnswerData
    <3> QED
      BY <1>4, <2>2, <3>1, <3>2 DEF InState
  <2> QED
    BY <2>1, <2>5, <2>6
<1> QED
  BY <1>1, <1>6, <1>7, <1>8

(* main receives the request of the peer, whose answer is then the next.   *)
LEMMA RecvInStep ==
    ASSUME NetTypeOK, NEW c \in Clients, InState(client[c]), SysRecv
    PROVE  InState(client[c])'
<1> DEFINE r == client[c]
           q == Head(toServer)
<1>1. /\ client' = client /\ lastSent' = lastSent
      /\ sessionId' = sessionId /\ sendFile' = sendFile
      /\ outMessage' = outMessage /\ copied' = copied /\ size' = size
      /\ toServer' = Tail(toServer) /\ toServer # <<>>
      /\ pc = "recv" /\ pc' = "handle" /\ buffer' = Overlay(q)
  BY DEF SysRecv, Recv, state, file
<1>2. toServer \in Seq(Requests) /\ q \in Requests
  BY <1>1 DEF NetTypeOK
<1>3. Len(toServer) = 1 => toServer' = <<>>
  BY <1>1, <1>2, ShortSeq
<1>4. /\ buffer'.type = q.type /\ buffer'.lenOK = TRUE
      /\ buffer'.body = q.body
  BY <1>1, <1>2, RequestsArrive DEF Overlay
<1>5. r \in ClientRecords /\ r' = r
  BY <1>1 DEF NetTypeOK
<1> HIDE DEF q
<1>6. Doomed(r) => Doomed(r)'
  <2> SUFFICES ASSUME Doomed(r) PROVE Doomed(r)'
    OBVIOUS
  <2>1. CASE r.inbox = <<>> /\ Head(toServer).type = 0
    <3>1. InBuffer(0)'
      BY <1>1, <1>4, <2>1 DEF InBuffer, q
    <3> QED
      BY <1>1, <2>1, <3>1 DEF Doomed
  <2>2. CASE r.inbox # <<>> /\ Head(r.inbox).reply.type \in {1, 2}
    BY <1>1, <2>2 DEF Doomed
  <2> QED
    BY <1>1, <2>1, <2>2 DEF Doomed, InBuffer
<1>7. InWait1(r) => InWait1(r)'
  <2> SUFFICES ASSUME InWait1(r) PROVE InWait1(r)'
    OBVIOUS
  <2>1. Len(toServer) = 1 /\ Head(toServer).type = 0 /\ Early(r)
    BY <1>1 DEF InWait1
  <2>2. r.inbox = <<>> \/ Len(r.inbox) = 1
    BY <2>1 DEF Early
  <2>3. Len(r.inbox) <= 1
    <3>1. Len(<<>>) <= 1 /\ \A n : n = 1 => n <= 1
      OBVIOUS
    <3> QED
      BY <2>2, <3>1, Zenon
  <2>4. InBuffer(0)' /\ toServer' = <<>>
    BY <1>1, <1>3, <1>4, <2>1 DEF InBuffer, q
  <2> QED
    BY <1>1, <2>3, <2>4 DEF InWait1
<1>8. InWaitData(r) => InWaitData(r)'
  <2> SUFFICES ASSUME InWaitData(r) PROVE InWaitData(r)'
    OBVIOUS
  <2>1. /\ Len(toServer) = 1 /\ Asks(r, q)
        /\ r.inbox = <<>> /\ InStep(r)
    BY <1>1 DEF InWaitData, q
  <2>2. Asks(r, buffer)'
    BY <1>1, <1>4, <2>1 DEF Asks
  <2>3. pc' = "handle" /\ toServer' = <<>> /\ buffer'.lenOK
    BY <1>1, <1>3, <1>4, <2>1
  <2>4. InStep(r)'
    BY <1>1, <2>1 DEF InStep
  <2> QED
    BY <1>1, <2>1, <2>2, <2>3, <2>4 DEF InWaitData
<1> QED
  BY <1>1, <1>6, <1>7, <1>8 DEF InState, Quiet

(* main's reply goes to the peer.                                          *)
LEMMA SendInStep ==
    ASSUME StreamInv, NetTypeOK, NEW c \in Clients, InState(client[c]),
           line = [peer |-> c, up |-> TRUE], SysSend
    PROVE  InState(client[c])'
<1> DEFINE r == client[c]
           in == r.inbox
           q == client'[c]
<1>1. /\ lastSent' = lastSent
      /\ sessionId' = sessionId /\ sendFile' = sendFile
      /\ outMessage' = outMessage /\ copied' = copied /\ size' = size
      /\ toServer' = toServer /\ pc = "send" /\ pc' = "recv"
  BY DEF SysSend, Send, state, file
<1>2. r \in ClientRecords /\ in \in Seq(Mails)
  BY DEF NetTypeOK, ClientRecords
<1>3. Mail \in Mails /\ Mail.reply = outMessage /\ Mail.path = sendFile.path
  BY MailType
<1>4. q = [r EXCEPT !.inbox = Append(in, Mail)]
  BY DEF SysSend, NetTypeOK
<1>5. /\ q.inbox = Append(in, Mail) /\ q.at = r.at /\ q.path = r.path
      /\ q.sid = r.sid /\ q.have = r.have /\ q.good = r.good
  BY <1>2, <1>4 DEF ClientRecords
<1> HIDE DEF q
<1>6. /\ in = <<>> => q.inbox # <<>> /\ Len(q.inbox) = 1
                      /\ Head(q.inbox) = Mail /\ q.inbox[1] = Mail
      /\ in # <<>> => q.inbox # <<>> /\ Head(q.inbox) = Head(in)
      /\ Len(in) <= 1 => /\ Len(q.inbox) \in 1..2
                         /\ q.inbox[Len(q.inbox)] = Mail
  <2> HIDE DEF in
  <2>1. q.inbox = Append(in, Mail)
    BY <1>5 DEF in
  <2> QED
    BY <1>2, <1>3, <2>1
<1>7. Doomed(r) => Doomed(r)'
  <2> SUFFICES ASSUME Doomed(r) PROVE Doomed(r)'
    OBVIOUS
  <2>1. CASE in = <<>> /\ outMessage.type \in {1, 2}
    BY <1>3, <1>6, <2>1 DEF Doomed, q
  <2>2. CASE in # <<>> /\ Head(in).reply.type \in {1, 2}
    BY <1>6, <2>2 DEF Doomed, q
  <2> QED
    BY <1>1, <2>1, <2>2 DEF Doomed, InBuffer
<1>8. InWait1(r) => InWait1(r)'
  <2> SUFFICES ASSUME InWait1(r) PROVE InWait1(r)'
    OBVIOUS
  <2>1. CASE Len(toServer) = 1 /\ Head(toServer).type = 0 /\ Early(r)
    <3>1. in = <<>>
      BY <1>1, <2>1 DEF Early
    <3>2. Early(r)'
      BY <1>1, <1>6, <3>1 DEF Early, q
    <3> QED
      BY <1>1, <2>1, <3>2 DEF InWait1
  <2>2. CASE toServer = <<>> /\ Len(in) <= 1 /\ Answer0(outMessage)
    <3>1. Answer0(r.inbox[Len(r.inbox)].reply)'
      BY <1>1, <1>3, <1>6, <2>2 DEF Answer0, q
    <3> QED
      BY <1>1, <1>6, <2>2, <3>1 DEF InWait1, q
  <2> QED
    BY <1>1, <2>1, <2>2 DEF InWait1, InBuffer
<1>9. InWaitData(r) => InWaitData(r)'
  <2> SUFFICES ASSUME InWaitData(r) PROVE InWaitData(r)'
    OBVIOUS
  <2>1. /\ toServer = <<>> /\ in = <<>>
        /\ AnswerData(r, outMessage, sendFile.path)
    BY <1>1 DEF InWaitData, InBuffer
  <2>2. AnswerData(r, Head(r.inbox).reply, Head(r.inbox).path)'
    BY <1>1, <1>3, <1>5, <1>6, <2>1 DEF AnswerData, q
  <2> QED
    BY <1>1, <1>6, <2>1, <2>2 DEF InWaitData, q
<1>10. r.at = "new" => Early(r)'
  BY <1>1, <1>6 DEF InState, Early, q
<1> QED
  BY <1>1, <1>5, <1>7, <1>8, <1>9, <1>10 DEF InState, Quiet, q

(* MessageType0Handler grants a session or refuses it.                     *)
LEMMA Type0Answers ==
    ASSUME InBuffer(0), buffer.body.name # "unterminated", Handle
    PROVE  pc' = "send" /\ Answer0(outMessage)' /\ outMessage'.type \in {1, 2}
<1>1. MessageType0Handler
  BY ConstantsAssumption
  DEF Handle, InBuffer, Handling, MessageType3Handler, MessageType6Handler,
      MessageOtherHandler
<1>2. /\ pc' = "send"
      /\ Grant \/ \E text : MessageType2Builder(text)
  BY <1>1 DEF MessageType0Handler, Abort
<1>3. CASE \E text : MessageType2Builder(text)
  BY <1>2, <1>3 DEF MessageType2Builder, Answer0
<1>4. CASE Grant
  BY <1>2, <1>4 DEF Grant, MessageType1Builder, Answer0
<1> QED
  BY <1>2, <1>3, <1>4

(* MessageType3Handler and MessageType6Handler, with the request of a      *)
(* client that is in step with getd in the buffer, answer it.              *)
LEMMA DataAnswers ==
    ASSUME ~ IOErrors, StreamInv, CompleteInv, NEW r \in ClientRecords,
           Asks(r, buffer), pc = "handle", buffer.lenOK,
           InStep(r), r.at = "wait4" => r.have = 0, Handle
    PROVE  /\ pc' = "send"
           /\ \/ outMessage'.type = 2
              \/ /\ outMessage'.type = 4 /\ outMessage'.pos = r.have
                 /\ sessionId' = r.sid /\ lastSent' = 4
                 /\ sendFile'.path = r.path
                 /\ copied' = r.have + outMessage'.len
              \/ outMessage'.type = 5 /\ r.have = size[r.path]
<1>1. r.path \in Paths /\ r.have \in Nat /\ sessionId = r.sid
  BY DEF ClientRecords, InStep
<1>2. TypeOK
  BY DEF StreamInv
<1>3. ASSUME NEW text, MessageType2Builder(text)
      PROVE  outMessage'.type = 2
  BY <1>3 DEF MessageType2Builder
<1>4. CASE /\ r.at = "wait4" /\ lastSent = 1
           /\ buffer.type = 3 /\ buffer.body = AskFile(r.sid, r.path)
  <2>1. /\ buffer.body.ok3 = TRUE
        /\ buffer.body.sid3 = r.sid /\ buffer.body.path = r.path
    BY <1>4 DEF AskFile
  <2>2. MessageType3Handler
    BY <1>4, ConstantsAssumption
    DEF Handle, Handling, MessageType0Handler, MessageType6Handler,
        MessageOtherHandler
  <2>3. Ver3
    BY <2>1 DEF Ver3
  <2>4. /\ pc' = "send" /\ sessionId' = sessionId
        /\ OpenFails(r.path) \/ OpenSucceeds(r.path)
    BY <1>1, <1>4, <2>1, <2>2, <2>3 DEF MessageType3Handler
  <2>5. CASE Kind[r.path] = "regular" /\ MessegeType4Builder(Opened(r.path), 0)
    <3>1. /\ Opened(r.path) \in Files /\ Opened(r.path).path = r.path
          /\ r.path \in Regular /\ Opened(r.path).pos = 0
      BY <1>1, <2>5 DEF Opened, Files, Regular
    <3>2. /\ lastSent' = 4 /\ sendFile'.path = r.path
          /\ outMessage'.type = 4 /\ outMessage'.pos = 0
          /\ copied' = 0 + outMessage'.len
      BY <1>2, <2>5, <3>1, Type4BuilderLemma
    <3> QED
      BY <1>1, <1>4, <2>4, <3>2
  <2>6. CASE \E text : MessageType2Builder(text)
    BY <1>3, <2>4, <2>6
  <2> QED
    BY <2>4, <2>5, <2>6 DEF OpenFails, OpenSucceeds, Abort
<1>5. CASE /\ r.at = "wait45" /\ lastSent = 4
           /\ buffer.type = 6 /\ buffer.body = Acknowledge(r.sid)
  <2>1. buffer.body.ok6 = TRUE /\ buffer.body.sid = r.sid
    BY <1>5 DEF Acknowledge
  <2>2. MessageType6Handler
    BY <1>5, ConstantsAssumption
    DEF Handle, Handling, MessageType0Handler, MessageType3Handler,
        MessageOtherHandler
  <2>3. Ver6 /\ Sid6 = sessionId
    BY <1>1, <2>1 DEF Ver6, Sid6
  <2>4. sendFile.path = r.path /\ copied = r.have
    BY <1>5 DEF InStep
  <2>5. /\ pc' = "send" /\ sessionId' = sessionId
        /\ \/ sendFile.eof /\ MessegeType5Builder
           \/ MessegeType4Builder(sendFile, copied)
    BY <1>5, <2>2, <2>3 DEF MessageType6Handler
  <2>6. CASE sendFile.eof /\ MessegeType5Builder
    <3>1. outMessage'.type = 5
      BY <2>6 DEF MessegeType5Builder
    <3>2. copied = size[sendFile.path]
      BY <1>5, <2>6 DEF CompleteInv
    <3> QED
      BY <2>4, <2>5, <3>1, <3>2
  <2>7. CASE MessegeType4Builder(sendFile, copied)
    <3>1. sendFile \in Files /\ sendFile.path \in Regular /\ copied \in Nat
      BY <1>5 DEF StreamInv, TypeOK, FileOpenWhileSending, Regular, Files
    <3>2. copied = sendFile.pos
      BY <1>5 DEF CompleteInv, SentInOrder
    <3>3. /\ lastSent' = 4 /\ sendFile'.path = sendFile.path
          /\ outMessage'.type = 4 /\ outMessage'.pos = sendFile.pos
          /\ copied' = copied + outMessage'.len
      BY <1>2, <2>7, <3>1, Type4BuilderLemma
    <3> QED
      BY <1>1, <2>4, <2>5, <3>2, <3>3
  <2> QED
    BY <2>5, <2>6, <2>7
<1> QED
  BY <1>4, <1>5 DEF Asks

(* A handler runs: its reply answers the peer, or is owed to one that has  *)
(* left.                                                                   *)
LEMMA HandleInStep ==
    ASSUME ~ IOErrors, StreamInv, CompleteInv, NetTypeOK, NEW c \in Clients,
           InState(client[c]), SysHandle
    PROVE  InState(client[c])'
<1> DEFINE r == client[c]
<1>1. /\ client' = client /\ toServer' = toServer /\ Handle /\ size' = size
      /\ pc = "handle"
  BY DEF SysHandle, net, Handle, MessageType0Handler, MessageType3Handler,
         MessageType6Handler, MessageOtherHandler, Handling
<1>2. r \in ClientRecords
  BY DEF NetTypeOK
<1>3. Doomed(r) => Doomed(r)'
  <2> SUFFICES ASSUME Doomed(r) PROVE Doomed(r)'
    OBVIOUS
  <2>1. CASE r.inbox = <<>> /\ InBuffer(0)
    <3>1. pc' = "send" /\ outMessage'.type \in {1, 2}
      BY <1>1, <2>1, Type0Answers DEF NetTypeOK
    <3> QED
      BY <1>1, <2>1, <3>1 DEF Doomed
  <2>2. CASE r.inbox # <<>> /\ Head(r.inbox).reply.type \in {1, 2}
    BY <1>1, <2>2 DEF Doomed
  <2> QED
    BY <1>1, <2>1, <2>2 DEF Doomed
<1>4. InWait1(r) => InWait1(r)'
  <2> SUFFICES ASSUME InWait1(r) PROVE InWait1(r)'
    OBVIOUS
  <2>1. CASE Len(toServer) = 1 /\ Head(toServer).type = 0 /\ Early(r)
    <3>1. Early(r)'
      BY <1>1, <2>1 DEF Early
    <3> QED
      BY <1>1, <2>1, <3>1 DEF InWait1
  <2>2. CASE toServer = <<>> /\ Len(r.inbox) <= 1 /\ InBuffer(0)
    <3>1. pc' = "send" /\ Answer0(outMessage)'
      BY <1>1, <2>2, Type0Answers DEF NetTypeOK
    <3> QED
      BY <1>1, <2>2, <3>1 DEF InWait1
  <2> QED
    BY <1>1, <2>1, <2>2 DEF InWait1
<1>5. ASSUME InWaitData(r), r.at = "wait4" => r.have = 0
      PROVE  InWaitData(r)'
  <2>1. /\ toServer = <<>> /\ r.inbox = <<>>
        /\ Asks(r, buffer)
        /\ buffer.lenOK /\ InStep(r)
    BY <1>1, <1>5 DEF InWaitData
  <2>2. /\ pc' = "send"
        /\ \/ outMessage'.type = 2
           \/ /\ outMessage'.type = 4 /\ outMessage'.pos = r.have
              /\ sessionId' = r.sid /\ lastSent' = 4
              /\ sendFile'.path = r.path
              /\ copied' = r.have + outMessage'.len
           \/ outMessage'.type = 5 /\ r.have = size[r.path]
    BY <1>1, <1>2, <1>5, <2>1, DataAnswers
  <2>3. AnswerData(r, outMessage, sendFile.path)'
    BY <1>1, <2>2 DEF AnswerData
  <2> QED
    BY <1>1, <2>1, <2>2, <2>3 DEF InWaitData
<1>6. r.at = "new" => Early(r)'
  BY <1>1 DEF InState, Early
<1> QED
  BY <1>1, <1>3, <1>4, <1>5, <1>6 DEF InState, Quiet

(* A step that is none of getd's nor of c's.                               *)
LEMMA OthersInStep ==
    ASSUME NEW c \in Clients, InState(client[c]), client'[c] = client[c],
           UNCHANGED <<vars, toServer>>
    PROVE  InState(client[c])'
BY DEF InState, InWait1, InWaitData, Doomed, Quiet, InStep, Early, Asks,
       AnswerData, Answer0, InBuffer, vars, state, file

(* Whoever is present is in step with getd after any step.                 *)
LEMMA PeerStep ==
    ASSUME ~ IOErrors, SysInv, [SysNext]_sysvars
    PROVE  PeerInv'
<1>1. /\ StreamInv /\ CompleteInv /\ NetTypeOK /\ LineInv
      /\ \A c \in Clients : client[c] \in ClientRecords
      /\ \A c \in Clients : Present(c) =>
            /\ InState(client[c]) /\ line = [peer |-> c, up |-> TRUE]
            /\ line # NoLine /\ line.up
  BY SystemAssumption DEF SysInv, PeerInv, LineInv, NetTypeOK, NoLine
<1> SUFFICES ASSUME NEW c \in Clients, Present(c)'
             PROVE  InState(client[c])'
  BY DEF PeerInv
<1>2. ASSUME NEW d \in Clients, NEW p \in Paths, Arrive(d, p)
      PROVE  InState(client[c])'
  <2>1. ~Present(c) /\ line = NoLine
    BY <1>1, <1>2 DEF Arrive
  <2>2. c = d
    BY <1>2, <2>1 DEF Arrive, Present
  <2>3. toServer' = <<>>
    BY <1>1, <1>2, <2>1, EmptyLine DEF Arrive, LineInv
  <2>4. client'[c] = [Away EXCEPT !.at = "new", !.path = p]
    BY <1>1, <1>2, <2>2 DEF Arrive, NetTypeOK
  <2>5. /\ client'[c].at = "new" /\ client'[c].good /\ client'[c].have = 0
        /\ client'[c].inbox = <<>>
    BY <2>4 DEF Away
  <2> QED
    BY <2>3, <2>5 DEF InState, Early
<1>3. ASSUME NEW d \in Clients, ClientSends(d)
      PROVE  InState(client[c])'
  <2>1. Waiting(client[d]) # "away"
    BY <1>3 DEF ClientSends, Waiting
  <2>2. Present(c)
    BY <1>1, <1>3, <2>1 DEF ClientSends, Present, NetTypeOK, ClientRecords
  <2>3. c = d
    BY <1>1, <1>3, <2>2 DEF ClientSends
  <2> QED
    BY <1>1, <1>3, <2>2, <2>3, SendsInStep
<1>4. ASSUME NEW d \in Clients, ClientTakes(d)
      PROVE  InState(client[c])'
  <2>1. CASE c = d
    <3>1. PICK r \in ClientRecords, m \in Mails :
              /\ r.at = client[d].at /\ r.stale = client[d].stale
              /\ client' = [client EXCEPT ![d] = Digested(r, m)]
      BY <1>1, <1>4, TakesIs
    <3>2. client'[c] = Digested(r, m)
      BY <1>1, <2>1, <3>1 DEF NetTypeOK
    <3>3. Present(c)
      BY <1>4, <2>1, <3>1, <3>2, DigestedIs DEF Present, ClientTakes
    <3> QED
      BY <1>1, <1>4, <2>1, <3>3, TakesInStep
  <2>2. CASE c # d
    <3>1. client'[c] = client[c] /\ UNCHANGED <<vars, toServer>>
      BY <1>1, <1>4, <2>2 DEF ClientTakes, NetTypeOK
    <3> QED
      BY <1>1, <3>1, OthersInStep DEF Present
  <2> QED
    BY <2>1, <2>2
<1>5. ASSUME NEW d \in Clients, ClientLeaves(d)
      PROVE  InState(client[c])'
  <2>1. c # d
    BY <1>1, <1>5 DEF ClientLeaves, NetTypeOK, Present, Away
  <2>2. client'[c] = client[c] /\ UNCHANGED <<vars, toServer>>
    BY <1>1, <1>5, <2>1 DEF ClientLeaves, NetTypeOK
  <2> QED
    BY <1>1, <2>2, OthersInStep DEF Present
<1>6. ASSUME NEW d \in Clients, Attach(d)
      PROVE  InState(client[c])'
  BY <1>1, <1>6 DEF Attach, Present
<1>7. CASE Detach
  BY <1>1, <1>7 DEF Detach, Present
<1>8. CASE SysRecv
  BY <1>1, <1>8, RecvInStep DEF SysRecv, Present
<1>9. CASE SysHandle
  BY <1>1, <1>9, HandleInStep DEF SysHandle, net, Present
<1>10. CASE SysSend
  <2>1. client'[c].at = client[c].at /\ client'[c].stale = client[c].stale
    BY <1>1, <1>10 DEF SysSend, ClientRecords, NetTypeOK
  <2> QED
    BY <1>1, <1>10, <2>1, SendInStep DEF Present
<1>11. CASE Restart
  <2>1. line' = NoLine
    BY <1>11, Zenon DEF Restart
  <2>2. LineInv'
    BY <1>1, LineStep
  <2> QED
    BY <2>1, <2>2, EmptyLine DEF LineInv
<1>12. CASE UNCHANGED sysvars
  BY <1>1, <1>12, OthersInStep DEF sysvars, net, Present
<1>13. CASE SysNext
  BY <1>2, <1>3, <1>4, <1>5, <1>6, <1>7, <1>8, <1>9, <1>10, <1>11, <1>13
  DEF SysNext
<1> QED
  BY <1>12, <1>13

(* Whoever comes starts with nothing received wrongly.                     *)
LEMMA AwayStep ==
    ASSUME NetTypeOK, \A c \in Clients : client[c].at = "away" => client[c].good,
           [SysNext]_sysvars
    PROVE  \A c \in Clients : client'[c].at = "away" => client'[c].good
<1>1. /\ \A c \in Clients : client[c] \in ClientRecords
      /\ client = [c \in Clients |-> client[c]]
  BY DEF NetTypeOK
<1>2. ASSUME NEW d \in Clients, NEW p \in Paths, Arrive(d, p),
             NEW c \in Clients
      PROVE  client'[c].at = "away" => client'[c].good
  <2>1. [Away EXCEPT !.at = "new", !.path = p].at # "away"
    BY DEF Away
  <2> QED
    BY <1>1, <1>2, <2>1 DEF Arrive
<1>3. ASSUME NEW d \in Clients, ClientSends(d), NEW c \in Clients
      PROVE  client'[c].at = "away" => client'[c].good
  <2>1. Waiting(client[d]) # "away"
    BY <1>3 DEF ClientSends, Waiting
  <2> QED
    BY <1>1, <1>3, <2>1 DEF ClientSends, ClientRecords
<1>4. ASSUME NEW d \in Clients, ClientTakes(d), NEW c \in Clients
      PROVE  client'[c].at = "away" => client'[c].good
  <2>1. PICK r \in ClientRecords, m \in Mails :
              client' = [client EXCEPT ![d] = Digested(r, m)]
    BY <1>4, TakesIs
  <2>2. Digested(r, m).at # "away"
    BY DigestedIs
  <2> QED
    BY <1>1, <2>1, <2>2
<1>5. ASSUME NEW d \in Clients, ClientLeaves(d), NEW c \in Clients
      PROVE  client'[c].at = "away" => client'[c].good
  BY <1>1, <1>5 DEF ClientLeaves, Away
<1>6. ASSUME SysSend, NEW c \in Clients
      PROVE  client'[c].at = "away" => client'[c].good
  <2>1. client'[c].at = client[c].at /\ client'[c].good = client[c].good
    BY <1>1, <1>6 DEF SysSend, ClientRecords
  <2> QED
    BY <2>1
<1>7. ASSUME Restart, NEW c \in Clients
      PROVE  client'[c].at = "away" => client'[c].good
  <2>0. PICK n :
          client' = [d \in Clients |->
                        [client[d] EXCEPT
                            !.inbox = IF line.peer = d THEN SubSeq(@, 1, n)
                                                       ELSE @,
                            !.stale = client[d].at # "away"]]
    BY <1>7, Zenon DEF Restart
  <2> DEFINE inbox == IF line.peer = c THEN SubSeq(client[c].inbox, 1, n)
                                       ELSE client[c].inbox
             stale == client[c].at # "away"
  <2>1. client'[c] = [client[c] EXCEPT !.inbox = inbox, !.stale = stale]
    BY <2>0
  <2> HIDE DEF inbox, stale
  <2>2. client'[c].at = client[c].at /\ client'[c].good = client[c].good
    BY <1>1, <2>1 DEF ClientRecords
  <2> QED
    BY <2>2
<1>8. CASE client' = client
  BY <1>8
<1> QED
  BY <1>2, <1>3, <1>4, <1>5, <1>6, <1>7, <1>8
  DEF SysNext, sysvars, net, Attach, Detach, SysRecv, SysHandle

-----------------------------------------------------------------------------
(* The theorems.                                                           *)

(* getd has just started, and no client is connected.                      *)
LEMMA InitSys == SysInit => SysInv
<1> SUFFICES ASSUME SysInit PROVE SysInv
  OBVIOUS
<1>1. StreamInv /\ CompleteInv
  BY InitStream, InitComplete DEF SysInit
<1>2. \A c \in Clients : client[c].at = "away" /\ client[c].good
  BY DEF SysInit, Away
<1>3. NetTypeOK
  <2>1. client \in [Clients -> ClientRecords]
    BY AwayType DEF SysInit
  <2>2. buffer.body.name # "unterminated"
    BY DEF SysInit, Init, Garbage
  <2> QED
    BY <2>1, <2>2, EmptyLine DEF SysInit, NetTypeOK
<1>4. LineInv
  <2>1. pc # "exited" /\ line = NoLine /\ toServer = <<>>
    BY DEF SysInit, Init
  <2> QED
    BY <1>2, <2>1, EmptyLine DEF LineInv, Present
<1>5. PeerInv
  BY <1>2 DEF PeerInv, Present
<1> QED
  BY <1>1, <1>2, <1>3, <1>4, <1>5 DEF SysInv

(* Every step of getd, of a client or of the line keeps SysInv.            *)
LEMMA SysStep == ~ IOErrors /\ SysInv /\ [SysNext]_sysvars => SysInv'
<1> SUFFICES ASSUME ~ IOErrors, SysInv, [SysNext]_sysvars PROVE SysInv'
  OBVIOUS
<1>1. /\ StreamInv /\ CompleteInv /\ NetTypeOK /\ LineInv
      /\ \A c \in Clients : client[c].at = "away" => client[c].good
  BY DEF SysInv
<1>2. StreamInv' /\ CompleteInv'
  BY <1>1, GetdInvariants
<1>3. NetTypeOK' /\ LineInv'
  BY <1>1, NetTypeStep, LineStep
<1>4. PeerInv'
  BY PeerStep
<1>5. \A c \in Clients : client'[c].at = "away" => client'[c].good
  BY <1>1, AwayStep
<1> QED
  BY <1>2, <1>3, <1>4, <1>5 DEF SysInv

(* A client that was there since getd started puts together the first      *)
(* bytes of the file it asked for, and all of them when it is told the end *)
(* (ClientFile): for any number of clients that come and leave at any      *)
(* moment, whichever of their replies nn_send hands to another one.        *)
THEOREM ClientsFile == ASSUME ~ IOErrors PROVE SysSpec => []ClientFile
<1>1. SysInv => ClientFile
  <2> SUFFICES ASSUME SysInv, NEW c \in Clients, ~client[c].stale
               PROVE  /\ client[c].good
                      /\ client[c].at = "done" =>
                            client[c].have = size[client[c].path]
    BY DEF ClientFile
  <2>1. CASE client[c].at = "away"
    BY <2>1 DEF SysInv
  <2>2. CASE client[c].at # "away"
    <3>1. InState(client[c])
      BY <2>2 DEF SysInv, PeerInv, Present
    <3> QED
      BY <3>1 DEF InState
  <2> QED
    BY <2>1, <2>2
<1> QED
  BY <1>1, InitSys, SysStep, PTL DEF SysSpec

(* Also while clients come and go and getd is started again, a type 5      *)
(* reply follows the whole file (MessegeType5Builder).                     *)
THEOREM SysCompleteness == ASSUME ~ IOErrors PROVE SysSpec => []CompleteCopy
<1>1. SysInv => CompleteCopy
  BY DEF SysInv, CompleteInv
<1> QED
  BY <1>1, InitSys, SysStep, PTL DEF SysSpec

(* getd with its clients implements FileTransfer; a stop gives a transfer  *)
(* up.                                                                     *)
THEOREM SysRefinement == ASSUME ~ IOErrors PROVE SysSpec => ImplementsTransfer
<1>1. SysInit => Transfer!TransferInit
  BY DEF SysInit, Init, Transfer!TransferInit, Phase, Owner, Total, Sent, Live
<1>2. SysInv /\ [SysNext]_sysvars => [Transfer!TransferNext]_(Transfer!tvars)
  <2> SUFFICES ASSUME SysInv, [SysNext]_sysvars
               PROVE  [Transfer!TransferNext]_(Transfer!tvars)
    OBVIOUS
  <2>1. StreamInv /\ CompleteInv /\ NetTypeOK
    BY DEF SysInv
  <2>2. CASE [Next]_vars /\ size' = size
    BY <2>1, <2>2, TransferStep
  <2>3. CASE Begin
    BY <2>1, <2>3, BeginTransfer
  <2> QED
    BY <2>1, <2>2, <2>3, GetdStep
<1> QED
  BY <1>1, <1>2, InitSys, SysStep, PTL
  DEF SysSpec, ImplementsTransfer, Transfer!TransferSpec

-----------------------------------------------------------------------------
(* The session of a client that left.                                      *)

(* Entries of a sequence one longer, and one shorter.                      *)
LEMMA AppendedEntries ==
    ASSUME NEW S, NEW q \in Seq(S), NEW e \in S, NEW i \in DOMAIN Append(q, e)
    PROVE  (i \in DOMAIN q /\ Append(q, e)[i] = q[i]) \/ Append(q, e)[i] = e
OBVIOUS

(* The entries a session still has to send are entries of the file.        *)
LEMMA RemainingEntries ==
    ASSUME NEW S, NEW q \in Seq(S), q # <<>>, NEW i \in DOMAIN Tail(q)
    PROVE  i + 1 \in DOMAIN q /\ Tail(q)[i] = q[i + 1]
OBVIOUS

(* The next of them.                                                       *)
LEMMA FirstEntry ==
    ASSUME NEW S, NEW q \in Seq(S), q # <<>>
    PROVE  1 \in DOMAIN q /\ Head(q) = q[1]
OBVIOUS

(* c is no client of the session, and none of its replies is one.          *)
Stranger(r) ==
    /\ r.at \in {"away", "new", "wait1", "failed", "done"}
    /\ \A i \in DOMAIN r.inbox : r.inbox[i].reply.type # 1

(* While nobody holds the session's id, whoever asks for a session is      *)
(* refused, and nobody learns the id.                                      *)
LEMMA AbandonedStep ==
    ASSUME StreamInv, NetTypeOK, Abandoned, ~Restart, [SysNext]_sysvars
    PROVE  Abandoned'
<1>1. /\ \A c \in Clients : client[c] \in ClientRecords /\ Stranger(client[c])
      /\ client = [c \in Clients |-> client[c]]
      /\ toServer \in Seq(Requests)
  BY DEF NetTypeOK, Abandoned, Stranger
<1>2. ASSUME \A c \in Clients : Stranger(client'[c]),
             UNCHANGED <<vars, toServer>>
      PROVE  Abandoned'
  BY <1>2 DEF Abandoned, Stranger, Live, vars, state
<1>3. Stranger(Away)
  BY DEF Stranger, Away
<1>4. ASSUME NEW d \in Clients, NEW p \in Paths, Arrive(d, p)
      PROVE  Abandoned'
  <2>1. Stranger([Away EXCEPT !.at = "new", !.path = p])
    BY DEF Stranger, Away
  <2>2. \A c \in Clients : Stranger(client'[c])
    BY <1>1, <1>4, <2>1 DEF Arrive
  <2> QED
    BY <1>2, <1>4, <2>2 DEF Arrive
<1>5. ASSUME NEW d \in Clients, ClientSends(d)
      PROVE  Abandoned'
  <2> DEFINE r == client[d]
             q == Request(r)
  <2>1. r.at = "new"
    BY <1>1, <1>5 DEF ClientSends, Stranger
  <2>2. q \in Requests /\ q.type = 0
    BY <1>1, <2>1, RequestType
  <2>3. client' = [client EXCEPT ![d].at = "wait1"]
    BY <1>5, <2>1 DEF ClientSends, Waiting
  <2>4. \A c \in Clients : Stranger(client'[c])
    BY <1>1, <2>3 DEF Stranger, ClientRecords
  <2>5. toServer' = Append(toServer, q) /\ UNCHANGED vars
    BY <1>5 DEF ClientSends
  <2> HIDE DEF q, r
  <2>6. ASSUME NEW i \in DOMAIN toServer'
        PROVE  toServer'[i].type = 0
    <3>1. \/ i \in DOMAIN toServer /\ toServer'[i] = toServer[i]
          \/ toServer'[i] = q
      BY <1>1, <2>2, <2>5, AppendedEntries
    <3> QED
      BY <2>2, <3>1 DEF Abandoned
  <2> QED
    BY <2>4, <2>5, <2>6 DEF Abandoned, Stranger, Live, vars, state
<1>6. ASSUME NEW d \in Clients, ClientTakes(d)
      PROVE  Abandoned'
  <2>1. PICK r \in ClientRecords, m \in Mails :
              /\ m = Head(client[d].inbox) /\ r.at = client[d].at
              /\ client' = [client EXCEPT ![d] = Digested(r, m)]
    BY <1>6, TakesIs DEF NetTypeOK
  <2>2. r.at = "wait1"
    BY <1>1, <1>6, <2>1 DEF ClientTakes, Stranger
  <2>3. m.reply.type # 1
    <3> DEFINE in == client[d].inbox
    <3>1. in \in Seq(Mails) /\ in # <<>>
      BY <1>1, <1>6 DEF ClientTakes, ClientRecords
    <3>2. \A i \in DOMAIN in : in[i].reply.type # 1
      BY <1>1 DEF Stranger
    <3> HIDE DEF in
    <3>3. Head(in).reply.type # 1
      BY <3>1, <3>2, FirstEntry
    <3> QED
      BY <2>1, <3>3 DEF in
  <2>4. Digested(r, m).at = "failed" /\ Digested(r, m).inbox = <<>>
    BY <2>2, <2>3, DigestedIs DEF Expected
  <2>5. Stranger(Digested(r, m))
    BY <2>4 DEF Stranger
  <2>6. \A c \in Clients : Stranger(client'[c])
    BY <1>1, <2>1, <2>5
  <2> QED
    BY <1>2, <1>6, <2>6 DEF ClientTakes
<1>7. ASSUME NEW d \in Clients, ClientLeaves(d)
      PROVE  Abandoned'
  <2>1. \A c \in Clients : Stranger(client'[c])
    BY <1>1, <1>3, <1>7 DEF ClientLeaves
  <2> QED
    BY <1>2, <1>7, <2>1 DEF ClientLeaves
<1>8. ASSUME NEW d \in Clients, Attach(d)
      PROVE  Abandoned'
  BY <1>1, <1>2, <1>8 DEF Attach
<1>9. CASE Detach
  <2>1. toServer' = <<>> /\ client' = client /\ UNCHANGED vars
    BY <1>9 DEF Detach
  <2> QED
    BY <2>1 DEF Abandoned, Live, vars, state
<1>10. CASE SysRecv
  <2> DEFINE q == Head(toServer)
  <2>1. /\ client' = client /\ toServer' = Tail(toServer) /\ toServer # <<>>
        /\ lastSent' = lastSent /\ pc' = "handle" /\ buffer' = Overlay(q)
    BY <1>10 DEF SysRecv, Recv, state
  <2>2. q \in Requests /\ q = toServer[1] /\ 1 \in DOMAIN toServer
    BY <1>1, <2>1, FirstEntry
  <2>3. buffer'.type = q.type
    BY <2>1, <2>2, RequestsArrive DEF Overlay
  <2>4. q.type = 0
    BY <2>2 DEF Abandoned
  <2>5. ASSUME NEW i \in DOMAIN toServer'
        PROVE  toServer'[i].type = 0
    BY <1>1, <2>1, RemainingEntries DEF Abandoned
  <2> QED
    BY <2>1, <2>3, <2>4, <2>5 DEF Abandoned, Live
<1>11. CASE SysHandle
  <2>1. InBuffer(0) /\ Busy
    BY <1>11 DEF SysHandle, Handle, MessageType0Handler, MessageType3Handler,
                 MessageType6Handler, MessageOtherHandler, Handling,
                 Abandoned, InBuffer, Busy, Live
  <2>2. MessageType0Handler
    BY <1>11, <2>1, ConstantsAssumption
    DEF SysHandle, Handle, MessageType3Handler, MessageType6Handler,
        MessageOtherHandler, Handling, InBuffer
  <2>3. pc' = "send" /\ outMessage'.type = 2 /\ lastSent' = lastSent
    BY <2>1, <2>2 DEF MessageType0Handler, MessageType2Builder, state
  <2> QED
    BY <1>11, <2>3 DEF SysHandle, net, Abandoned, Live
<1>12. CASE SysSend
  <2>1. /\ pc = "send" /\ pc' = "recv" /\ lastSent' = lastSent
        /\ toServer' = toServer
    BY <1>12 DEF SysSend, Send, state
  <2>2. Mail \in Mails /\ Mail.reply.type # 1
    BY <2>1, MailType DEF Abandoned
  <2>3. ASSUME NEW c \in Clients
        PROVE  Stranger(client'[c])
    <3>1. CASE line.up /\ line.peer = c
      <4> DEFINE in == client[c].inbox
      <4>1. client'[c] = [client[c] EXCEPT !.inbox = Append(in, Mail)]
        BY <1>1, <1>12, <3>1 DEF SysSend
      <4>2. client'[c].inbox = Append(in, Mail) /\ client'[c].at = client[c].at
        BY <1>1, <4>1 DEF ClientRecords
      <4>3. /\ in \in Seq(Mails)
            /\ \A i \in DOMAIN in : in[i].reply.type # 1
        BY <1>1 DEF ClientRecords, Stranger
      <4> HIDE DEF in
      <4>4. \A i \in DOMAIN Append(in, Mail) : Append(in, Mail)[i].reply.type # 1
        BY <2>2, <4>3, AppendedEntries
      <4> QED
        BY <1>1, <4>2, <4>4 DEF Stranger
    <3>2. CASE ~(line.up /\ line.peer = c)
      <4>1. client'[c] = client[c]
        BY <1>1, <1>12, <3>2 DEF SysSend
      <4> QED
        BY <1>1, <4>1
    <3> QED
      BY <3>1, <3>2
  <2> QED
    BY <2>1, <2>3 DEF Abandoned, Stranger, Live
<1>13. CASE UNCHANGED sysvars
  BY <1>1, <1>2, <1>13 DEF sysvars, net
<1>14. CASE SysNext
  BY <1>4, <1>5, <1>6, <1>7, <1>8, <1>9, <1>10, <1>11, <1>12, <1>14
  DEF SysNext
<1> QED
  BY <1>13, <1>14

(* Once the owner of a session has left, no client that follows the        *)
(* protocol gets a session until getd is started again (AbandonedForGood). *)
THEOREM Abandonment == SysSpec => AbandonedForGood
<1>1. SysInit => StreamInv /\ NetTypeOK
  BY InitSys DEF SysInv
<1>2. StreamInv /\ NetTypeOK /\ [SysNext]_sysvars => StreamInv' /\ NetTypeOK'
  <2> SUFFICES ASSUME StreamInv, NetTypeOK, [SysNext]_sysvars
               PROVE  StreamInv' /\ NetTypeOK'
    OBVIOUS
  <2>1. StreamInv'
    BY GetdStep, StreamStep, BeginStream
  <2> QED
    BY <2>1, NetTypeStep
<1>3. StreamInv /\ NetTypeOK /\ [SysNext]_sysvars =>
        [Abandoned /\ ~Restart => Abandoned']_sysvars
  BY AbandonedStep
<1> QED
  BY <1>1, <1>2, <1>3, PTL DEF SysSpec, AbandonedForGood
=============================================================================
