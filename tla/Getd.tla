-------------------------------- MODULE Getd --------------------------------
(***************************************************************************)
(* The getd server: main's receive / handle / send loop (main.c) and the   *)
(* message handlers and reply builders it calls (requestHandlers.c).       *)
(*                                                                         *)
(* One turn of the loop is three steps: nn_recv returns (Recv), the        *)
(* handler of the message's type runs to its return (one action per        *)
(* handler), nn_send hands the reply over (Send).  A signal may end the    *)
(* process between any two of them (Quit), and it may be started again     *)
(* (Start).  What clients send is arbitrary: Recv accepts any message of   *)
(* any type, whole or cut short anywhere; what it leaves in the buffer is  *)
(* then read as the fields of the type its header names.                   *)
(*                                                                         *)
(* Abstractions.  A session id is a member of Sids.  The result of         *)
(* type0Ver, type3Ver and type6Ver depends on the header's messageLength   *)
(* (lenOK) and on the bytes after the header (name, ok3 and ok6 of the     *)
(* body); GetdVerify models those functions and shows which messages they  *)
(* accept.  File contents are byte positions.  state.userName and          *)
(* state.lastRecieved are written and never read: left out, but not what a *)
(* copy too long for userName does to the rest of main's memory (Overrun). *)
(***************************************************************************)
EXTENDS Integers

CONSTANTS
    Sids,         \* the 128-character strings rand() can produce
    NoSid,        \* any string that is not such a session id
    Paths,        \* the path names clients ask for
    Kind,         \* Kind[p]: what fopen and fstat find at p
    Sizes,        \* the sizes a file may have, in bytes
    CHUNK,        \* contentBuffer's 4096 bytes
    FOPEN_MAX,    \* how many files the process can hold open
    OtherTypes,   \* message types without a handler of their own
    IOErrors,     \* may read(2) fail on an open file?
    FilesChange   \* do other processes resize the files meanwhile?

ASSUME ConstantsAssumption ==
    /\ NoSid \notin Sids
    /\ Paths # {}
    /\ Kind \in [Paths -> {"regular", "other", "absent"}]
    /\ Sizes \subseteq Nat
    /\ CHUNK \in Nat \ {0}
    /\ FOPEN_MAX \in Nat \ {0}
    /\ OtherTypes \subseteq 0..255 \ {0, 3, 6}
    /\ OtherTypes # {}
    /\ IOErrors \in BOOLEAN
    /\ FilesChange \in BOOLEAN

VARIABLES
    pc,           \* where main is: about to receive, handle, send; or exited
    buffer,       \* main's receive buffer
    lastSent,     \* state.lastSent
    sessionId,    \* state.sessionId
    sendFile,     \* the FILE that sendFile points to
    openFiles,    \* number of files the process holds open
    outMessage,   \* the reply last built
    copied,       \* history: bytes of the file put in type 4 replies
    named,        \* history: did the request that was granted the session,
                  \* or a later message that reached its body, leave the
                  \* session's id in buffer?
    size          \* size[p]: size of the file at p, on disk

state == <<lastSent, sessionId>>
file == <<sendFile, openFiles, copied>>
vars == <<pc, buffer, named, state, file, outMessage, size>>

-----------------------------------------------------------------------------
(* Messages as they lie in the buffer.                                     *)

Types == {0, 3, 6} \cup OtherTypes

(* What follows the header, by what the handlers make of it.  They read    *)
(* the same bytes: dnLength of type 0 and sidLength of types 3 and 6 lie   *)
(* at offset 8; at offset 12 the name of type 0, the session id of type 6  *)
(* and pathLength of type 3, whose session id follows at 16.               *)
(*   name: the name and its length are right and it is terminated (good),  *)
(*         right but for the 33 characters holding no '\0' (unterminated), *)
(*         or not right (bad)                                              *)
(*   sid:  the string found where type 6 has its session id                *)
(*   ok6, ok3: the length fields are right for a message of type 6, 3      *)
(*   sid3, path: the strings where type 3 has its own, if ok3              *)
(* A pathLength of at most 4096 makes the string at offset 12 at most two  *)
(* characters long, a name with its length has at most 32, and a session   *)
(* id 128.                                                                 *)
Bodies ==
         [name : {"bad"}, sid : {NoSid}, ok6 : {FALSE},
          ok3 : {TRUE}, sid3 : Sids \cup {NoSid}, path : Paths]
    \cup [name : {"good"}, sid : {NoSid}, ok6 : {TRUE},
          ok3 : {TRUE}, sid3 : {NoSid}, path : Paths]
    \cup [name : {"good"}, sid : {NoSid}, ok6 : {TRUE}, ok3 : {FALSE}]
    \cup [name : {"unterminated"}, sid : Sids \cup {NoSid}, ok6 : {FALSE},
          ok3 : {FALSE}]
    \cup [name : {"bad"}, sid : Sids \cup {NoSid}, ok6 : BOOLEAN,
          ok3 : {FALSE}]

(* lenOK: header.messageLength is the size of the type's structure.        *)
Buffers == [type : Types, lenOK : BOOLEAN, body : Bodies]

(* What nn_recv may bring: a message that reaches its body, one that does  *)
(* not, or nothing (an empty message, or an error, whose code main         *)
(* ignores).  A message may be cut within its body or within its header,   *)
(* and the rest of it is then what the buffer held before: any reading may *)
(* come of that.                                                           *)
Arrivals == [part : {"body"}, type : Types, lenOK : BOOLEAN, body : Bodies]
       \cup [part : {"header"}, type : Types, lenOK : BOOLEAN]
       \cup [part : {"nothing"}]

(* The buffer after nn_recv copied m over it.                              *)
Overlay(m) ==
    CASE m.part = "body" ->
            [type |-> m.type, lenOK |-> m.lenOK, body |-> m.body]
      [] m.part = "header" ->
            [buffer EXCEPT !.type = m.type, !.lenOK = m.lenOK]
      [] m.part = "nothing" -> buffer

(* The bytes b carry the session id sid, for the handler of type 6 or for  *)
(* that of type 3.                                                         *)
Names(b, sid) == b.sid = sid \/ (b.ok3 /\ b.sid3 = sid)

(* type0Ver, type3Ver and type6Ver find no error.                          *)
Ver0 == buffer.lenOK /\ buffer.body.name # "bad"
Ver3 == buffer.lenOK /\ buffer.body.ok3
Ver6 == buffer.lenOK /\ buffer.body.ok6

(* Faulty variant: the session id is not compared.                         *)
Sid6Unchecked == sessionId

(* The string MessageType6Handler compares with the session's id.          *)
Sid6 == buffer.body.sid

-----------------------------------------------------------------------------
(* Files and stdio.                                                        *)

Regular == {p \in Paths : Kind[p] = "regular"}

Files == [at : {"null", "open", "closed"}, path : Paths, pos : Nat,
          eof : BOOLEAN]

Opened(p) == [at |-> "open", path |-> p, pos |-> 0, eof |-> FALSE]

(* How much of the file fread may still find.                              *)
Left(f) == IF size[f.path] > f.pos THEN size[f.path] - f.pos ELSE 0

(* fread(.., most, f) when reads succeed, and getc if the chunk is short:  *)
(* bytes copied, the position and the end-of-file flag left.               *)
Chunk(f, most) ==
    LET n == IF Left(f) < most THEN Left(f) ELSE most
    IN  [len |-> n, pos |-> f.pos + n, eof |-> n < most]

(* Faulty variant: fread asked for one byte more than contentBuffer holds. *)
ReadsOneMore(f) == {Chunk(f, CHUNK + 1)}

(* Faulty variant: getc after a full chunk instead of a short one.         *)
ReadsGetcWhenFull(f) ==
    {[Chunk(f, CHUNK) EXCEPT !.pos = IF Left(f) > CHUNK THEN @ + 1 ELSE @,
                             !.eof = Left(f) <= CHUNK]}

(* Faulty variant: a short chunk is not taken for the end of the file.     *)
ReadsNeverEnd(f) == {[Chunk(f, CHUNK) EXCEPT !.eof = FALSE]}

(* A failing read ends fread early; getc then fails too or consumes one    *)
(* more byte, which is lost.                                               *)
Reads(f) ==
    {Chunk(f, CHUNK)} \cup
    { [len |-> r[1], pos |-> f.pos + r[1] + r[2], eof |-> FALSE] :
        r \in { q \in (0..(CHUNK - 1)) \X {0, 1} :
                   IOErrors /\ q[1] + q[2] <= Left(f) } }

-----------------------------------------------------------------------------
(* Reply builders.                                                         *)

MessageType1Builder(sid) ==
    /\ outMessage' = [type |-> 1, sid |-> sid]
    /\ lastSent' = 1

MessageType2Builder(text) == outMessage' = [type |-> 2, text |-> text]

(* f is the stream sendFile points to; before, the bytes of it sent.       *)
MessegeType4Builder(f, before) ==
    /\ lastSent' = 4
    /\ \E r \in Reads(f) :
          /\ outMessage' = [type |-> 4, sid |-> sessionId,
                            pos |-> f.pos, len |-> r.len]
          /\ sendFile' = [f EXCEPT !.pos = r.pos, !.eof = r.eof]
          /\ copied' = before + r.len

(* Faulty variant: state->lastSent is not updated.                         *)
Type5KeepsLastSent ==
    /\ sendFile' = [sendFile EXCEPT !.at = "closed"]
    /\ openFiles' = openFiles - 1
    /\ outMessage' = [type |-> 5, sid |-> sessionId]
    /\ UNCHANGED <<lastSent, copied>>

MessegeType5Builder ==
    /\ sendFile' = [sendFile EXCEPT !.at = "closed"]
    /\ openFiles' = openFiles - 1
    /\ lastSent' = 5
    /\ outMessage' = [type |-> 5, sid |-> sessionId]
    /\ UNCHANGED copied

(* state->lastSent = 2; return MessageType2Builder(outMessage, text)       *)
Abort(text) == lastSent' = 2 /\ MessageType2Builder(text)

-----------------------------------------------------------------------------
(* Message handlers.                                                       *)

Handling(types) == pc = "handle" /\ buffer.type \in types

(* The first test of MessageType0Handler: another session is under way.    *)
NeverBusy == FALSE   \* faulty variant: no such test
Busy == lastSent \notin {5, 2}

Grant ==
    \E sid \in Sids \ {sessionId} :
        sessionId' = sid /\ MessageType1Builder(sid)

(* strcpy of a name that has no '\0' within its 33 characters goes on to   *)
(* the next '\0' and runs over what lies behind state.userName: lastSent   *)
(* and lastRecieved, and then main's other variables, buffer among them,   *)
(* or the end of the stack.  If the process survives that it goes on to    *)
(* grant the session, which sets lastSent.                                 *)
Overrun ==
    \/ /\ pc' = "exited"
       /\ UNCHANGED <<buffer, named, state, outMessage>>
    \/ /\ Grant
       /\ buffer' \in Buffers
       /\ named' = Names(buffer'.body, sessionId')
       /\ pc' = "send"

MessageType0Handler ==
    /\ Handling({0})
    /\ \/ /\ Busy
          /\ MessageType2Builder("OneSessionBusy")
          /\ pc' = "send"
          /\ UNCHANGED <<buffer, named, state>>
       \/ /\ ~ Busy /\ ~ Ver0
          /\ Abort("CorruptType0Message")
          /\ pc' = "send"
          /\ UNCHANGED <<buffer, named, sessionId>>
       \/ /\ ~ Busy /\ Ver0 /\ buffer.body.name = "good"
          /\ Grant
          /\ named' = FALSE
          /\ pc' = "send"
          /\ UNCHANGED buffer
       \/ /\ ~ Busy /\ Ver0 /\ buffer.body.name = "unterminated"
          /\ Overrun
    /\ UNCHANGED <<file, size>>

(* The part of MessageType3Handler after its checks: fopen, fstat and the  *)
(* reply.  A file found not to be regular stays open.                      *)
CannotOpen(p) == Kind[p] = "absent" \/ openFiles = FOPEN_MAX

(* Faulty variant: closes the stream that sendFile pointed to before.      *)
OpenFailsAndCloses(p) ==
    /\ CannotOpen(p)
    /\ Abort("ErrorOpeningFile")
    /\ sendFile' = [sendFile EXCEPT !.at = "null"]
    /\ openFiles' = IF sendFile.at = "open" THEN openFiles - 1 ELSE openFiles
    /\ UNCHANGED copied

OpenFails(p) ==
    /\ CannotOpen(p)
    /\ Abort("ErrorOpeningFile")
    /\ sendFile' = [sendFile EXCEPT !.at = "null"]
    /\ UNCHANGED <<openFiles, copied>>

OpenSucceeds(p) ==
    /\ ~ CannotOpen(p)
    /\ openFiles' = openFiles + 1
    /\ \/ /\ Kind[p] = "other"
          /\ Abort("InvalidFileType")
          /\ sendFile' = Opened(p)
          /\ UNCHANGED copied
       \/ /\ Kind[p] = "regular"
          /\ MessegeType4Builder(Opened(p), 0)

MessageType3Handler ==
    /\ Handling({3})
    /\ \/ ~ Ver3 /\ Abort("CorruptType3Message") /\ UNCHANGED file
       \/ /\ Ver3
          /\ \/ /\ buffer.body.sid3 # sessionId
                /\ Abort("OneSessionAtATime")
                /\ UNCHANGED file
             \/ /\ buffer.body.sid3 = sessionId /\ lastSent # 1
                /\ Abort("InvalidState")
                /\ UNCHANGED file
             \/ /\ buffer.body.sid3 = sessionId /\ lastSent = 1
                /\ OpenFails(buffer.body.path) \/ OpenSucceeds(buffer.body.path)
    /\ pc' = "send"
    /\ UNCHANGED <<buffer, named, sessionId, size>>

(* Faulty variant: the end of a transfer is not told.                      *)
Type6EndsSilently ==
    /\ Handling({6})
    /\ Sid6 = sessionId /\ Ver6 /\ lastSent = 4
    /\ \/ /\ sendFile.eof
          /\ lastSent' = 5
          /\ pc' = "recv"
          /\ UNCHANGED <<file, outMessage>>
       \/ /\ ~ sendFile.eof
          /\ MessegeType4Builder(sendFile, copied)
          /\ pc' = "send"
          /\ UNCHANGED openFiles
    /\ UNCHANGED <<buffer, named, sessionId, size>>

MessageType6Handler ==
    /\ Handling({6})
    /\ \/ /\ Sid6 # sessionId
          /\ MessageType2Builder("OneSessionAtATime")
          /\ pc' = "send"
          /\ UNCHANGED <<lastSent, file>>
       \/ /\ Sid6 = sessionId
          /\ \/ ~ Ver6 /\ Abort("CorruptType6Messege") /\ UNCHANGED file
             \/ Ver6 /\ lastSent = 4 /\ sendFile.eof /\ MessegeType5Builder
             \/ /\ Ver6 /\ lastSent = 4 /\ ~ sendFile.eof
                /\ MessegeType4Builder(sendFile, copied)
                /\ UNCHANGED openFiles
             \/ /\ Ver6 /\ lastSent \notin {4, 5}
                /\ Abort("InvalidState")
                /\ UNCHANGED file
          /\ pc' = "send"
       \/ /\ Sid6 = sessionId /\ Ver6 /\ lastSent = 5   \* no reply
          /\ pc' = "recv"
          /\ UNCHANGED <<lastSent, file, outMessage>>
    /\ UNCHANGED <<buffer, named, sessionId, size>>

(* Faulty variant: an unknown type ends the session.                       *)
OtherAborts ==
    /\ Handling(OtherTypes)
    /\ Abort("InvalidMessageType")
    /\ pc' = "send"
    /\ UNCHANGED <<buffer, named, sessionId, file, size>>

MessageOtherHandler ==
    /\ Handling(OtherTypes)
    /\ MessageType2Builder("InvalidMessageType")
    /\ pc' = "send"
    /\ UNCHANGED <<buffer, named, state, file, size>>

-----------------------------------------------------------------------------
(* The process.                                                            *)

(* The receive buffer, state.sessionId and outMessage are not initialised: *)
(* any garbage but one that happens to be a good message.                  *)
Garbage == [type : Types, lenOK : BOOLEAN,
            body : [name : {"bad"}, sid : {NoSid}, ok6 : {FALSE},
                    ok3 : {FALSE}]]

NoFile == [Opened(CHOOSE p \in Paths : TRUE) EXCEPT !.at = "null"]

(* main up to its loop.                                                    *)
Init ==
    /\ pc = "recv"
    /\ buffer \in Garbage
    /\ named = FALSE
    /\ lastSent = 5
    /\ sessionId \in Sids \cup {NoSid}
    /\ sendFile = NoFile
    /\ openFiles = 0
    /\ outMessage = [type |-> 0]
    /\ copied = 0
    /\ size \in [Regular -> Sizes]

Recv(m) ==
    /\ pc = "recv"
    /\ buffer' = Overlay(m)
    /\ named' = (named \/ (m.part = "body" /\ Names(m.body, sessionId)))
    /\ pc' = "handle"
    /\ UNCHANGED <<state, file, outMessage, size>>

(* nn_send blocks until a peer takes the reply; its result is ignored.     *)
Send ==
    /\ pc = "send"
    /\ pc' = "recv"
    /\ UNCHANGED <<buffer, named, state, file, outMessage, size>>

(* handleQuit ends the process on SIGINT, SIGQUIT or SIGTERM.              *)
Quit ==
    /\ pc # "exited"
    /\ pc' = "exited"
    /\ UNCHANGED <<buffer, named, state, file, outMessage, size>>

(* getd is run anew: nothing but the files is left of the last run.        *)
Begin ==
    /\ pc' = "recv"
    /\ buffer' \in Garbage
    /\ named' = FALSE
    /\ lastSent' = 5
    /\ sessionId' \in Sids \cup {NoSid}
    /\ sendFile' = NoFile
    /\ openFiles' = 0
    /\ outMessage' = [type |-> 0]
    /\ copied' = 0
    /\ UNCHANGED size

Start == pc = "exited" /\ Begin

(* Another process appends to a file or truncates it.                      *)
Resize(p, n) ==
    /\ FilesChange
    /\ n # size[p]
    /\ size' = [size EXCEPT ![p] = n]
    /\ UNCHANGED <<pc, buffer, named, state, file, outMessage>>

Handle == \/ MessageType0Handler
          \/ MessageType3Handler
          \/ MessageType6Handler
          \/ MessageOtherHandler

Next == \/ \E m \in Arrivals : Recv(m)
        \/ Handle
        \/ Send
        \/ Quit
        \/ Start
        \/ \E p \in Regular, n \in Sizes : Resize(p, n)

Spec == Init /\ [][Next]_vars

-----------------------------------------------------------------------------
(* Properties.                                                             *)

Texts == {"OneSessionBusy", "CorruptType0Message",
          "CorruptType3Message", "OneSessionAtATime", "InvalidState",
          "ErrorOpeningFile", "InvalidFileType", "CorruptType6Messege",
          "InvalidMessageType"}

Replies == [type : {0}]
      \cup [type : {1, 5}, sid : Sids \cup {NoSid}]
      \cup [type : {2}, text : Texts]
      \cup [type : {4}, sid : Sids \cup {NoSid}, pos : Nat, len : 0..CHUNK]

(* Every variable of main, the handlers and the builders has its type.     *)
TypeOK ==
    /\ pc \in {"recv", "handle", "send", "exited"}
    /\ buffer \in Buffers
    /\ lastSent \in {1, 2, 4, 5}
    /\ sessionId \in Sids \cup {NoSid}
    /\ sendFile \in Files
    /\ openFiles \in 0..FOPEN_MAX
    /\ outMessage \in Replies
    /\ copied \in Nat
    /\ named \in BOOLEAN
    /\ size \in [Regular -> Sizes]

Live == lastSent \in {1, 4}   \* a session is under way

(* MessageType6Handler calls feof, fread, getc and fclose on sendFile      *)
(* after looking at lastSent only: whatever messages came before, lastSent *)
(* 4 means that sendFile is an open stream of a regular file.              *)
FileOpenWhileSending ==
    lastSent = 4 => /\ sendFile.at = "open"
                    /\ Kind[sendFile.path] = "regular"
                    /\ openFiles > 0

(* The type 4 replies of a session carry the file's bytes from the first   *)
(* on, none left out and none sent twice, also when other processes resize *)
(* the file between two of them (MessegeType4Builder).                     *)
SentInOrder ==
    /\ lastSent = 4 => copied = sendFile.pos
    /\ outMessage.type = 4 => copied = outMessage.pos + outMessage.len

(* When getd says with a type 5 message that the transfer is over          *)
(* (MessegeType5Builder), the type 4 messages before it carried the whole  *)
(* file, whatever its size: a multiple of the chunk, less, or nothing.     *)
CompleteCopy == outMessage.type = 5 => copied = size[sendFile.path]

(* The bytes a message does not reach are those of the messages before it, *)
(* and the handlers read them as if they had come with it.  For all that,  *)
(* file data and the end of a transfer (type 4 and 5 replies) are sent     *)
(* only when the buffer holds the session's id, and it came there after    *)
(* the session was granted, in a message that reached its body.  That need *)
(* not be the last message, for a header alone or an empty message of      *)
(* anybody is answered from what is left of the owner's.  The reply is for *)
(* that session, and a type 3 message brings the first chunk.              *)
AnswersItsSession ==
    pc = "send" /\ outMessage.type \in {4, 5} =>
        /\ Names(buffer.body, sessionId) /\ named
        /\ outMessage.sid = sessionId
        /\ buffer.type = 3 => outMessage.type = 4 /\ outMessage.pos = 0

(* A session under way ends only by a type 3 message, by a type 6 message  *)
(* that finds the session's id in the buffer where one that came since the *)
(* session was granted has left it, or with the process, which no message  *)
(* ends meanwhile (Busy is tested before a name is copied): requests of    *)
(* other clients (type 0), type 6 messages that find another id and        *)
(* unknown types leave the session and its id alone.                       *)
EndedByOwnerOrType3 ==
    [][Live /\ pc # "exited" =>
          /\ sessionId' = sessionId
          /\ \/ Live'
             \/ buffer.type = 3
             \/ buffer.type = 6 /\ Sid6 = sessionId /\ named]_vars

(* Files that MessageType3Handler opens and abandons are never closed:     *)
(* once they fill the process's table and no transfer is left to end, no   *)
(* message makes getd send a file again until it is restarted.             *)
Starved == openFiles = FOPEN_MAX /\ lastSent # 4
StarvedForGood == [][Starved /\ pc # "exited" => Starved']_vars

-----------------------------------------------------------------------------
(* What the replies promise, as an abstract specification.                 *)

Phase == CASE lastSent = 1 -> "granted"
           [] lastSent = 4 -> "sending"
           [] lastSent \in {2, 5} /\ outMessage.type = 5 -> "ended"
           [] OTHER -> "idle"
Owner == IF Live THEN sessionId ELSE NoSid
Total == IF lastSent = 4 THEN size[sendFile.path] ELSE 0
Sent  == IF lastSent = 4 THEN copied ELSE 0

Transfer == INSTANCE FileTransfer WITH
    NoSession <- NoSid, Lengths <- Sizes,
    phase <- Phase, owner <- Owner, length <- Total, sent <- Sent

(* getd implements FileTransfer as long as reads do not fail and no other  *)
(* process resizes the file: a type 1 reply grants, type 4 replies begin   *)
(* and continue, a type 5 reply finishes, and whatever else ends a session *)
(* gives it up.                                                            *)
ImplementsTransfer == Transfer!TransferSpec
=============================================================================
