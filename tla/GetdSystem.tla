----------------------------- MODULE GetdSystem -----------------------------
(***************************************************************************)
(* getd with its clients: the server of module Getd, the pair socket that  *)
(* connects it with one client at a time, and clients that follow the      *)
(* protocol of requests.h: ask for a session (type 0), ask for a file      *)
(* (type 3), acknowledge every chunk (type 6), and give up when another    *)
(* reply comes than the one they wait for.  They come and leave at any     *)
(* moment, in the middle of a session too, and getd may be stopped and     *)
(* started again: a client that is still there is connected anew by its    *)
(* own nanomsg and goes on where it was.                                   *)
(*                                                                         *)
(* The pair socket is modelled by what IpcConn shows of it: it has one     *)
(* peer, notices some time after it left, loses then what came from it     *)
(* and was not read, and lets nn_send wait while there is no peer, so that *)
(* a reply may reach another client than the one it answers.               *)
(*                                                                         *)
(* fopen of a path in Fifos blocks until somebody opens it for writing.    *)
(***************************************************************************)
EXTENDS Getd, Sequences

CONSTANTS
    Clients,
    None,     \* no client
    Fifos,    \* the paths that are FIFOs
    Restarts  \* is getd ever stopped and started again?

ASSUME SystemAssumption ==
    /\ None \notin Clients
    /\ Fifos \subseteq {p \in Paths : Kind[p] = "other"}
    /\ Restarts \in BOOLEAN

VARIABLES
    client,    \* client[c]: what client c is doing, and what came for it
    line,      \* the pair socket's peer, and whether it is still there
    toServer,  \* what the peer sent and main has not received
    mine       \* history: does outMessage answer the present peer?

net == <<client, line, toServer, mine>>
sysvars == <<vars, net>>

-----------------------------------------------------------------------------
(* Clients.                                                                *)

Away == [at |-> "away", path |-> CHOOSE p \in Paths : TRUE, sid |-> NoSid,
         have |-> 0,          \* bytes of the file it put together
         good |-> TRUE,       \* are they the first bytes of its file?
         inbox |-> <<>>,
         foreign |-> FALSE,   \* was its session id another client's?
         stale |-> FALSE]     \* was getd stopped since it came?

NoLine == [peer |-> None, up |-> FALSE]

(* A client that wants the file at p comes and is the pair socket's peer:  *)
(* one that has to wait for that does nothing before (nn_excl_add).        *)
Arrive(c, p) ==
    /\ client[c].at = "away"
    /\ line = NoLine
    /\ line' = [peer |-> c, up |-> TRUE]
    /\ client' = [client EXCEPT ![c] = [Away EXCEPT !.at = "new",
                                                    !.path = p]]
    /\ UNCHANGED <<vars, toServer, mine>>

(* A whole message with the right length in its header.                    *)
Message(type, body) ==
    [part |-> "body", type |-> type, lenOK |-> TRUE, body |-> body]

AskSession == [name |-> "good", sid |-> NoSid, ok6 |-> TRUE, ok3 |-> FALSE]

AskFile(sid, path) == [name |-> "bad", sid |-> NoSid, ok6 |-> FALSE,
                       ok3 |-> TRUE, sid3 |-> sid, path |-> path]

Acknowledge(sid) == [name |-> "bad", sid |-> sid, ok6 |-> TRUE, ok3 |-> FALSE]

(* What it sends next, and what it does then.                              *)
Request(r) ==
    CASE r.at = "new"     -> Message(0, AskSession)
      [] r.at = "granted" -> Message(3, AskFile(r.sid, r.path))
      [] r.at = "ack"     -> Message(6, Acknowledge(r.sid))

Waiting(r) ==
    CASE r.at = "new"     -> "wait1"
      [] r.at = "granted" -> "wait4"
      [] r.at = "ack"     -> "wait45"

ClientSends(c) ==
    /\ line = [peer |-> c, up |-> TRUE]
    /\ client[c].at \in {"new", "granted", "ack"}
    /\ toServer' = Append(toServer, Request(client[c]))
    /\ client' = [client EXCEPT ![c].at = Waiting(client[c])]
    /\ UNCHANGED <<vars, line, mine>>

(* What a client makes of a reply.                                         *)
Expected(r, m) ==
    \/ r.at = "wait1" /\ m.type = 1
    \/ r.at = "wait4" /\ m.type = 4 /\ m.sid = r.sid
    \/ r.at = "wait45" /\ m.type \in {4, 5} /\ m.sid = r.sid

Digested(r, mail) ==
    LET m == mail.reply
    IN  CASE ~Expected(r, m) ->
                [Away EXCEPT !.at = "failed", !.stale = r.stale]
          [] Expected(r, m) /\ m.type = 1 ->
                [r EXCEPT !.at = "granted", !.sid = m.sid,
                          !.foreign = ~mail.mine]
          [] Expected(r, m) /\ m.type = 4 ->
                [r EXCEPT !.at = "ack",
                          !.have = @ + m.len,
                          !.good = @ /\ mail.path = r.path /\ m.pos = r.have]
          [] Expected(r, m) /\ m.type = 5 -> [r EXCEPT !.at = "done"]

ClientTakes(c) ==
    /\ client[c].at \in {"wait1", "wait4", "wait45"}
    /\ client[c].inbox # <<>>
    /\ client' = [client EXCEPT ![c] =
                     Digested([client[c] EXCEPT !.inbox = Tail(@)],
                              Head(client[c].inbox))]
    /\ UNCHANGED <<vars, line, toServer, mine>>

(* A client leaves: when it is done, has failed, or at any other moment.   *)
ClientLeaves(c) ==
    /\ client[c].at # "away"
    /\ client' = [client EXCEPT ![c] = Away]
    /\ line' = [line EXCEPT !.up = @ /\ line.peer # c]
    /\ UNCHANGED <<vars, toServer, mine>>

-----------------------------------------------------------------------------
(* The pair socket.                                                        *)

(* A client that getd's stop cut off is connected again.                   *)
Attach(c) ==
    /\ line = NoLine
    /\ client[c].at \notin {"away", "done", "failed"}
    /\ line' = [peer |-> c, up |-> TRUE]
    /\ UNCHANGED <<vars, client, toServer, mine>>

(* nn_excl_rm: the peer was seen to have left.                             *)
Detach ==
    /\ line.peer # None
    /\ ~line.up
    /\ line' = NoLine
    /\ toServer' = <<>>
    /\ mine' = FALSE
    /\ UNCHANGED <<vars, client>>

-----------------------------------------------------------------------------
(* The server.                                                             *)

SysRecv ==
    /\ toServer # <<>>
    /\ Recv(Head(toServer))
    /\ toServer' = Tail(toServer)
    /\ mine' = TRUE
    /\ UNCHANGED <<client, line>>

(* fopen waits for a writer.                                               *)
Stuck ==
    /\ Handling({3})
    /\ Ver3
    /\ buffer.body.sid3 = sessionId
    /\ lastSent = 1
    /\ buffer.body.path \in Fifos
    /\ ~CannotOpen(buffer.body.path)

SysHandle == Handle /\ UNCHANGED net

(* Only a step that needs no writer is sure to happen.                     *)
HandleAlone == ~Stuck /\ SysHandle

(* The reply with the path of the file whose bytes it carries.             *)
Mail == [path |-> sendFile.path, mine |-> mine, reply |-> outMessage]

(* nn_send: the reply is lost when the peer has left unnoticed.            *)
SysSend ==
    /\ line.peer # None
    /\ Send
    /\ client' = IF line.up
                 THEN [client EXCEPT ![line.peer].inbox = Append(@, Mail)]
                 ELSE client
    /\ UNCHANGED <<line, toServer, mine>>

(* In a run of the program, that the stack held no session id before.      *)
SysBegin == buffer \in {CHOOSE b \in Garbage : TRUE} /\ sessionId = NoSid

(* handleQuit ends getd, and it is started again.  The peer keeps what had *)
(* reached it until then.  Bound: no client of an earlier run is left.     *)
Restart ==
    /\ Restarts
    /\ \A c \in Clients : ~client[c].stale
    /\ Begin
    /\ SysBegin'
    /\ line' = NoLine
    /\ toServer' = <<>>
    /\ mine' = FALSE
    /\ \E n \in 0..(IF line.up THEN Len(client[line.peer].inbox) ELSE 0) :
          client' = [c \in Clients |->
                        [client[c] EXCEPT
                            !.inbox = IF line.peer = c THEN SubSeq(@, 1, n)
                                                       ELSE @,
                            !.stale = client[c].at # "away"]]

-----------------------------------------------------------------------------
SysInit ==
    /\ Init
    /\ SysBegin
    /\ client = [c \in Clients |-> Away]
    /\ line = NoLine
    /\ toServer = <<>>
    /\ mine = FALSE

SysNext ==
    \/ \E c \in Clients, p \in Paths : Arrive(c, p)
    \/ \E c \in Clients : \/ ClientSends(c)
                          \/ ClientTakes(c)
                          \/ ClientLeaves(c)
                          \/ Attach(c)
    \/ Detach
    \/ SysRecv
    \/ SysHandle
    \/ SysSend
    \/ Restart

SysSpec == SysInit /\ [][SysNext]_sysvars

(* getd's loop goes on, unless fopen blocks it, and so does a client that  *)
(* has not left; nobody must leave, come, or open a FIFO.                  *)
SysFairness ==
    /\ WF_sysvars(SysRecv)
    /\ WF_sysvars(HandleAlone)
    /\ WF_sysvars(SysSend)
    /\ WF_sysvars(Detach)
    /\ \A c \in Clients : /\ WF_sysvars(ClientSends(c))
                          /\ WF_sysvars(ClientTakes(c))

SysFairSpec == SysSpec /\ SysFairness

-----------------------------------------------------------------------------
(* Properties.                                                             *)

(* What a client puts together from the type 4 replies that carry its      *)
(* session id are the first bytes of the file it asked for, and all of     *)
(* them when a type 5 reply ends the transfer, whatever clients came and   *)
(* left before and whichever of their replies reached it.  A client from   *)
(* before a restart is excepted: rand is not seeded, so its id may be the  *)
(* one a later client got.                                                 *)
ClientFile ==
    \A c \in Clients : ~client[c].stale =>
        /\ client[c].good
        /\ client[c].at = "done" => client[c].have = size[client[c].path]

(* Nobody is left who has the session's id: the owner has gone, and no     *)
(* message with the id is under way.                                       *)
Abandoned ==
    /\ Live
    /\ pc = "handle" => buffer.type = 0
    /\ pc = "send" => outMessage.type # 1
    /\ \A i \in DOMAIN toServer : toServer[i].type = 0
    /\ \A c \in Clients :
          /\ client[c].at \in {"away", "new", "wait1", "failed", "done"}
          /\ \A i \in DOMAIN client[c].inbox : client[c].inbox[i].reply.type # 1

(* MessageType0Handler refuses a session while lastSent is 1 or 4, and     *)
(* nothing tells getd that a client has left: once the session's owner is  *)
(* gone, no client that follows the protocol gets a session any more until *)
(* getd is restarted.                                                      *)
AbandonedForGood ==
    [][Abandoned /\ ~Restart => Abandoned']_sysvars

(* A client that was given a session of its own and asks for a regular     *)
(* file gets all of it, unless it leaves or getd is stopped, or the files  *)
(* that getd forgot to close fill its table: neither side ever waits for   *)
(* the other, and nothing another client did makes getd refuse it.         *)
Served(c) ==
    /\ client[c].at \in {"granted", "wait4", "ack", "wait45"}
    /\ ~client[c].stale
    /\ ~client[c].foreign
    /\ Kind[client[c].path] = "regular"

GetsItsFile ==
    \A c \in Clients :
        Served(c) ~> \/ client[c].at \in {"done", "away"}
                     \/ client[c].stale
                     \/ Starved

(* While getd runs, every request of a client that stays gets an answer,   *)
(* its own or another client's, unless the file asked for is a FIFO that   *)
(* nobody writes to: then fopen blocks main, and everyone waits.           *)
AnswerComes ==
    \A c \in Clients, w \in {"wait1", "wait4", "wait45"} :
        client[c].at = w ~> client[c].at # w \/ Stuck \/ client[c].stale
=============================================================================
