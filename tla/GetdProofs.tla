----------------------------- MODULE GetdProofs -----------------------------
(* What holds of Getd for every value of its constants.                    *)
EXTENDS Getd, TLAPS

(* fread and getc: the bytes copied fit a chunk; when reads do not fail    *)
(* they are the next ones of the file, the stream never passes its end,    *)
(* and a chunk that is not full leaves the stream at the end.              *)
LEMMA ReadsLemma ==
    ASSUME NEW f \in Files, f.path \in Regular, size \in [Regular -> Sizes],
           NEW r \in Reads(f)
    PROVE  /\ r.len \in 0..CHUNK
           /\ r.pos \in Nat
           /\ r.eof \in BOOLEAN
           /\ ~ IOErrors =>
                /\ r.pos = f.pos + r.len
                /\ f.pos <= size[f.path] =>
                      /\ r.pos <= size[f.path]
                      /\ r.eof => r.pos = size[f.path]
                      /\ r.len = CHUNK \/ r.pos = size[f.path]
<1>1. size[f.path] \in Nat /\ f.pos \in Nat /\ CHUNK \in Nat \ {0}
  BY ConstantsAssumption, ZenonT(30) DEF Files
<1> DEFINE n == IF Left(f) < CHUNK THEN Left(f) ELSE CHUNK
<1>2. Left(f) \in Nat /\ n \in 0..CHUNK
  BY <1>1 DEF Left
<1>3. CASE r = [len |-> n, pos |-> f.pos + n, eof |-> n < CHUNK]
  <2>1. r.len = n /\ r.pos = f.pos + n
    BY <1>3
  <2>2. f.pos <= size[f.path] => Left(f) = size[f.path] - f.pos
    BY <1>1 DEF Left
  <2>3. n <= Left(f) /\ (n = CHUNK \/ (n = Left(f) /\ n < CHUNK))
    BY <1>1, <1>2
  <2> HIDE DEF n
  <2>4. r.eof \in BOOLEAN /\ (r.eof => r.len < CHUNK)
    <3> DEFINE short == n < CHUNK
    <3>1. r.eof = short
      BY <1>3, Zenon
    <3>2. short \in BOOLEAN /\ (short => r.len < CHUNK)
      BY <2>1
    <3> HIDE DEF short
    <3> QED
      BY <3>1, <3>2
  <2> QED
    BY <1>1, <1>2, <2>1, <2>2, <2>3, <2>4
<1>4. CASE \E q \in (0..(CHUNK - 1)) \X {0, 1} :
             /\ IOErrors /\ q[1] + q[2] <= Left(f)
             /\ r = [len |-> q[1], pos |-> f.pos + q[1] + q[2], eof |-> FALSE]
  BY <1>1, <1>2, <1>4
<1> QED
  BY <1>3, <1>4 DEF Reads, Chunk

(* A message copied over the receive buffer leaves a buffer.               *)
LEMMA OverlayType ==
    ASSUME buffer \in Buffers, NEW m \in Arrivals
    PROVE  Overlay(m) \in Buffers
<1>1. CASE m \in [part : {"body"}, type : Types, lenOK : BOOLEAN, body : Bodies]
  BY <1>1 DEF Overlay, Buffers
<1>2. CASE m \in [part : {"header"}, type : Types, lenOK : BOOLEAN]
  BY <1>2 DEF Overlay, Buffers
<1>3. CASE m \in [part : {"nothing"}]
  BY <1>3 DEF Overlay
<1> QED
  BY <1>1, <1>2, <1>3 DEF Arrivals

(* The readings of a body exclude one another: what can be read as a type  *)
(* 3 message names a path, and carries no session id where type 6 has its  *)
(* own; a good name leaves no room for an id at either place.              *)
LEMMA BodyReadings ==
    ASSUME NEW b \in Bodies
    PROVE  /\ b.sid \in Sids \cup {NoSid}
           /\ b.name = "good" => b.sid = NoSid
           /\ b.ok3 => /\ b.path \in Paths
                       /\ b.sid3 \in Sids \cup {NoSid}
                       /\ b.name = "good" => b.sid3 = NoSid
<1>1. CASE b \in [name : {"bad"}, sid : {NoSid}, ok6 : {FALSE},
                  ok3 : {TRUE}, sid3 : Sids \cup {NoSid}, path : Paths]
  BY <1>1
<1>2. CASE b \in [name : {"good"}, sid : {NoSid}, ok6 : {TRUE},
                  ok3 : {TRUE}, sid3 : {NoSid}, path : Paths]
  BY <1>2
<1>3. CASE \/ b \in [name : {"good"}, sid : {NoSid}, ok6 : {TRUE},
                     ok3 : {FALSE}]
           \/ b \in [name : {"unterminated"}, sid : Sids \cup {NoSid},
                     ok6 : {FALSE}, ok3 : {FALSE}]
           \/ b \in [name : {"bad"}, sid : Sids \cup {NoSid}, ok6 : BOOLEAN,
                     ok3 : {FALSE}]
  <2>1. /\ b.sid \in Sids \cup {NoSid}
        /\ b.name = "good" => b.sid = NoSid
    BY <1>3
  <2>2. b.ok3 = FALSE
    BY <1>3, Zenon
  <2> QED
    BY <2>1, <2>2, Zenon
<1> QED
  BY <1>1, <1>2, <1>3, Zenon DEF Bodies

(* A well-formed type 3 message names a path.                              *)
LEMMA Type3Body ==
    ASSUME buffer \in Buffers, Ver3
    PROVE  buffer.body.path \in Paths
<1>1. buffer.body \in Bodies
  BY DEF Buffers
<1>2. buffer.body.ok3
  BY DEF Ver3
<1> QED
  BY <1>1, <1>2, BodyReadings, Zenon

-----------------------------------------------------------------------------
(* The stream is open while getd sends: the inductive core of the safety   *)
(* of stdio calls.                                                         *)

StreamInv == TypeOK /\ FileOpenWhileSending

(* Whatever main's uninitialised buffer holds, it is read as a buffer      *)
(* (main.c).                                                               *)
LEMMA GarbageType == Garbage \subseteq Buffers
<1>1. [name : {"bad"}, sid : {NoSid}, ok6 : {FALSE}, ok3 : {FALSE}]
        \subseteq Bodies
  <2> DEFINE All == [name : {"bad"}, sid : Sids \cup {NoSid}, ok6 : BOOLEAN,
                     ok3 : {FALSE}]
  <2>1. [name : {"bad"}, sid : {NoSid}, ok6 : {FALSE}, ok3 : {FALSE}]
          \subseteq All
    <3>1. {NoSid} \subseteq Sids \cup {NoSid} /\ {FALSE} \subseteq BOOLEAN
      OBVIOUS
    <3> QED
      BY <3>1, Zenon
  <2>2. All \subseteq Bodies
    BY Zenon DEF Bodies
  <2> QED
    BY <2>1, <2>2, Zenon
<1> QED
  BY <1>1 DEF Garbage, Buffers

(* The static sendFile, a null pointer, before the first fopen.            *)
LEMMA NoFileType == NoFile \in Files
BY ConstantsAssumption, ZenonT(30) DEF NoFile, Opened, Files

(* main sets up a state in which no stream is open and none is needed.     *)
LEMMA InitStream == Init => StreamInv
<1> SUFFICES ASSUME Init PROVE StreamInv
  OBVIOUS
<1>1. outMessage \in Replies
  BY DEF Init, Replies
<1>2. named \in BOOLEAN
  BY Zenon DEF Init
<1> QED
  BY <1>1, <1>2, GarbageType, NoFileType, ConstantsAssumption
  DEF Init, StreamInv, TypeOK, FileOpenWhileSending

(* A type 4 reply moves the stream and leaves it open on the same file.    *)
LEMMA Type4BuilderLemma ==
    ASSUME TypeOK, NEW f \in Files, f.path \in Regular, NEW before \in Nat,
           MessegeType4Builder(f, before)
    PROVE  /\ lastSent' = 4
           /\ sendFile' \in Files
           /\ sendFile'.at = f.at /\ sendFile'.path = f.path
           /\ outMessage' \in Replies /\ outMessage'.type = 4
           /\ outMessage'.sid = sessionId /\ outMessage'.pos = f.pos
           /\ outMessage'.len \in 0..CHUNK
           /\ copied' \in Nat
           /\ copied' = before + outMessage'.len
           /\ ~ IOErrors =>
                /\ sendFile'.pos = f.pos + outMessage'.len
                /\ f.pos <= size[f.path] =>
                      /\ sendFile'.pos <= size[f.path]
                      /\ sendFile'.eof => sendFile'.pos = size[f.path]
                      /\ \/ outMessage'.len = CHUNK
                         \/ sendFile'.pos = size[f.path]
<1>1. PICK r \in Reads(f) :
         /\ outMessage' = [type |-> 4, sid |-> sessionId,
                           pos |-> f.pos, len |-> r.len]
         /\ sendFile' = [f EXCEPT !.pos = r.pos, !.eof = r.eof]
         /\ copied' = before + r.len
  BY DEF MessegeType4Builder
<1>2. /\ r.len \in 0..CHUNK
      /\ r.pos \in Nat
      /\ r.eof \in BOOLEAN
      /\ ~ IOErrors =>
           /\ r.pos = f.pos + r.len
           /\ f.pos <= size[f.path] =>
                 /\ r.pos <= size[f.path]
                 /\ r.eof => r.pos = size[f.path]
                 /\ r.len = CHUNK \/ r.pos = size[f.path]
  BY ReadsLemma DEF TypeOK
<1>3. /\ sendFile' \in Files
      /\ sendFile'.at = f.at /\ sendFile'.path = f.path
      /\ sendFile'.pos = r.pos /\ sendFile'.eof = r.eof
  BY <1>1, <1>2 DEF Files
<1>4. /\ outMessage' \in [type : {4}, sid : Sids \cup {NoSid}, pos : Nat,
                          len : 0..CHUNK]
      /\ outMessage'.len = r.len
  BY <1>1, <1>2 DEF TypeOK, Files
<1>5. outMessage' \in Replies
  BY <1>4 DEF Replies
<1>6. copied' \in Nat
  BY <1>1, <1>2, ConstantsAssumption
<1> QED
  BY <1>1, <1>2, <1>3, <1>4, <1>5, <1>6 DEF MessegeType4Builder

(* A refusal is a reply.                                                   *)
LEMMA Type2BuilderLemma ==
    ASSUME NEW text \in Texts, MessageType2Builder(text)
    PROVE  outMessage' \in Replies /\ outMessage'.type = 2
<1>1. outMessage' \in [type : {2}, text : Texts]
  BY DEF MessageType2Builder
<1> QED
  BY <1>1 DEF Replies

(* Refusals that end the session: lastSent becomes 2 (requestHandlers.c).  *)
LEMMA AbortLemma ==
    ASSUME NEW text \in Texts, Abort(text)
    PROVE  outMessage' \in Replies /\ outMessage'.type = 2 /\ lastSent' = 2
BY Type2BuilderLemma DEF Abort

(* What MessageType0Handler does, a copy beyond userName included.         *)
LEMMA Type0Step ==
    ASSUME StreamInv, MessageType0Handler
    PROVE  StreamInv'
<1>1. UNCHANGED <<file, size>>
  BY DEF MessageType0Handler
<1>2. /\ pc' \in {"send", "exited"}
      /\ buffer' \in Buffers
      /\ named' \in BOOLEAN
      /\ outMessage' \in Replies
      /\ lastSent' \in {lastSent, 2, 1}
      /\ sessionId' \in Sids \cup {NoSid}
  <2>0. /\ buffer \in Buffers /\ named \in BOOLEAN
        /\ sessionId \in Sids \cup {NoSid} /\ outMessage \in Replies
    BY DEF StreamInv, TypeOK
  <2>1. CASE /\ MessageType2Builder("OneSessionBusy") /\ pc' = "send"
             /\ UNCHANGED <<buffer, named, state>>
    BY <2>0, <2>1, Type2BuilderLemma DEF Texts, state
  <2>2. CASE /\ Abort("CorruptType0Message") /\ pc' = "send"
             /\ UNCHANGED <<buffer, named, sessionId>>
    BY <2>0, <2>2, AbortLemma DEF Texts
  <2>3. CASE Grant /\ named' = FALSE /\ pc' = "send" /\ UNCHANGED buffer
    <3>1. /\ outMessage' \in Replies /\ lastSent' = 1
          /\ sessionId' \in Sids \cup {NoSid}
      BY <2>3 DEF Grant, MessageType1Builder, Replies
    <3>2. named' \in BOOLEAN
      BY <2>3, Zenon
    <3> QED
      BY <2>0, <2>3, <3>1, <3>2
  <2>4. CASE Overrun
    <3>1. CASE /\ pc' = "exited"
               /\ UNCHANGED <<buffer, named, state, outMessage>>
      BY <2>0, <3>1 DEF state
    <3>2. CASE /\ Grant
               /\ buffer' \in Buffers
               /\ named' = Names(buffer'.body, sessionId')
               /\ pc' = "send"
      <4>1. /\ outMessage' \in Replies /\ lastSent' = 1
            /\ sessionId' \in Sids \cup {NoSid}
        BY <3>2 DEF Grant, MessageType1Builder, Replies
      <4>2. Names(buffer'.body, sessionId') \in BOOLEAN
        BY Zenon DEF Names
      <4> QED
        BY <3>2, <4>1, <4>2
    <3> QED
      BY <2>4, <3>1, <3>2 DEF Overrun
  <2> QED
    BY <2>1, <2>2, <2>3, <2>4 DEF MessageType0Handler
<1> QED
  BY <1>1, <1>2 DEF StreamInv, TypeOK, FileOpenWhileSending, file

(* What MessageType3Handler does.                                          *)
LEMMA Type3Step ==
    ASSUME StreamInv, MessageType3Handler
    PROVE  StreamInv'
<1>1. /\ pc' = "send"
      /\ UNCHANGED <<buffer, named, sessionId, size>>
  BY DEF MessageType3Handler
<1>2. CASE UNCHANGED file /\ \E text \in Texts : Abort(text)
  BY <1>1, <1>2, AbortLemma DEF StreamInv, TypeOK, FileOpenWhileSending, file
<1>3. CASE /\ Ver3
           /\ OpenFails(buffer.body.path) \/ OpenSucceeds(buffer.body.path)
  <2> DEFINE p == buffer.body.path
  <2>1. p \in Paths
    BY <1>3, Type3Body DEF StreamInv, TypeOK
  <2>2. Opened(p) \in Files
    BY <2>1 DEF Opened, Files
  <2> HIDE DEF p
  <2>3. CASE OpenFails(p)
    <3>1. sendFile' \in Files
      BY <2>3 DEF OpenFails, StreamInv, TypeOK, Files
    <3>2. outMessage' \in Replies /\ lastSent' = 2
      BY <2>3, AbortLemma DEF OpenFails, Texts
    <3> QED
      BY <1>1, <2>3, <3>1, <3>2
      DEF OpenFails, StreamInv, TypeOK, FileOpenWhileSending
  <2>4. CASE OpenSucceeds(p)
    <3>1. openFiles' = openFiles + 1 /\ openFiles # FOPEN_MAX
      BY <2>4 DEF OpenSucceeds, CannotOpen
    <3>2. CASE Abort("InvalidFileType") /\ sendFile' = Opened(p) /\ UNCHANGED copied
      <4>1. outMessage' \in Replies /\ lastSent' = 2
        BY <3>2, AbortLemma DEF Texts
      <4> QED
        BY <1>1, <2>2, <3>1, <3>2, <4>1, ConstantsAssumption
        DEF StreamInv, TypeOK, FileOpenWhileSending
    <3>3. CASE Kind[p] = "regular" /\ MessegeType4Builder(Opened(p), 0)
      <4>1. Opened(p).path = p /\ Opened(p).at = "open" /\ p \in Regular
        BY <2>1, <3>3 DEF Opened, Regular
      <4>2. /\ lastSent' = 4
            /\ sendFile' \in Files
            /\ sendFile'.at = "open" /\ sendFile'.path = p
            /\ outMessage' \in Replies
            /\ copied' \in Nat
        BY <2>2, <3>3, <4>1, Type4BuilderLemma DEF StreamInv
      <4> QED
        BY <1>1, <3>1, <3>3, <4>2, ConstantsAssumption
        DEF StreamInv, TypeOK, FileOpenWhileSending
    <3> QED
      BY <2>4, <3>2, <3>3 DEF OpenSucceeds
  <2> QED
    BY <1>3, <2>3, <2>4 DEF p
<1> QED
  BY <1>2, <1>3 DEF MessageType3Handler, Handling, Texts

(* What MessageType6Handler does.                                          *)
LEMMA Type6Step ==
    ASSUME StreamInv, MessageType6Handler
    PROVE  StreamInv'
<1>1. UNCHANGED <<buffer, named, sessionId, size>>
  BY DEF MessageType6Handler
<1>2. pc' \in {"recv", "send"}
  BY DEF MessageType6Handler
<1>3. CASE /\ UNCHANGED <<lastSent, file>>
           /\ \/ MessageType2Builder("OneSessionAtATime")
              \/ UNCHANGED outMessage
  <2>1. outMessage' \in Replies
    BY <1>3, Type2BuilderLemma DEF StreamInv, TypeOK, Texts
  <2> QED
    BY <1>1, <1>2, <1>3, <2>1
    DEF StreamInv, TypeOK, FileOpenWhileSending, file
<1>4. CASE UNCHANGED file /\ \E text \in Texts : Abort(text)
  BY <1>1, <1>2, <1>4, AbortLemma
  DEF StreamInv, TypeOK, FileOpenWhileSending, file
<1>5. CASE lastSent = 4 /\ MessegeType5Builder
  <2>1. outMessage' \in Replies
    BY <1>5 DEF MessegeType5Builder, Replies, StreamInv, TypeOK
  <2>2. sendFile' \in Files
    BY <1>5 DEF MessegeType5Builder, Files, StreamInv, TypeOK
  <2> QED
    BY <1>1, <1>2, <1>5, <2>1, <2>2, ConstantsAssumption
    DEF MessegeType5Builder, StreamInv, TypeOK, FileOpenWhileSending
<1>6. CASE /\ lastSent = 4
           /\ MessegeType4Builder(sendFile, copied)
           /\ UNCHANGED openFiles
  <2>1. sendFile \in Files /\ sendFile.path \in Regular /\ copied \in Nat
    BY <1>6 DEF StreamInv, TypeOK, FileOpenWhileSending, Regular, Files
  <2>2. /\ lastSent' = 4
        /\ sendFile' \in Files
        /\ sendFile'.at = sendFile.at /\ sendFile'.path = sendFile.path
        /\ outMessage' \in Replies
        /\ copied' \in Nat
    BY <1>6, <2>1, Type4BuilderLemma DEF StreamInv
  <2> QED
    BY <1>1, <1>2, <1>6, <2>2 DEF StreamInv, TypeOK, FileOpenWhileSending
<1> QED
  BY <1>3, <1>4, <1>5, <1>6 DEF MessageType6Handler, Texts

(* A new run of main starts as the first one did.                          *)
LEMMA BeginStream == StreamInv /\ Begin => StreamInv'
<1> SUFFICES ASSUME StreamInv, Begin PROVE StreamInv'
  OBVIOUS
<1>1. buffer' \in Buffers
  BY GarbageType DEF Begin
<1>2. sendFile' \in Files
  BY NoFileType DEF Begin
<1>3. outMessage' \in Replies
  BY DEF Begin, Replies
<1>4. named' \in BOOLEAN
  BY Zenon DEF Begin
<1> QED
  BY <1>1, <1>2, <1>3, <1>4, ConstantsAssumption
  DEF Begin, StreamInv, TypeOK, FileOpenWhileSending

(* No step of main, of a handler or of the world around it leaves lastSent *)
(* at 4 without an open stream of a regular file.                          *)
LEMMA StreamStep == StreamInv /\ [Next]_vars => StreamInv'
<1> SUFFICES ASSUME StreamInv, [Next]_vars PROVE StreamInv'
  OBVIOUS
<1> USE DEF StreamInv, FileOpenWhileSending
<1>1. ASSUME NEW m \in Arrivals, Recv(m) PROVE StreamInv'
  <2>1. named' \in BOOLEAN
    BY <1>1, Zenon DEF Recv
  <2> QED
    BY <1>1, <2>1, OverlayType DEF Recv, TypeOK, state, file
<1>2. CASE MessageOtherHandler
  <2>1. MessageType2Builder("InvalidMessageType") /\ pc' = "send"
    BY <1>2 DEF MessageOtherHandler
  <2>2. outMessage' \in Replies
    BY <2>1, Type2BuilderLemma DEF Texts
  <2> QED
    BY <1>2, <2>1, <2>2 DEF MessageOtherHandler, TypeOK, state, file
<1>3. CASE Send
  BY <1>3 DEF Send, TypeOK, state, file
<1>4. CASE Quit
  BY <1>4 DEF Quit, TypeOK, state, file
<1>5. CASE Start
  BY <1>5, BeginStream DEF Start
<1>6. ASSUME NEW p \in Regular, NEW n \in Sizes, Resize(p, n)
      PROVE  StreamInv'
  BY <1>6 DEF Resize, TypeOK, state, file
<1>7. CASE UNCHANGED vars
  BY <1>7 DEF vars, TypeOK, state, file
<1> QED
  BY <1>1, <1>2, <1>3, <1>4, <1>5, <1>6, <1>7, Type0Step, Type3Step, Type6Step
  DEF Next, Handle

(* main, the handlers and the builders keep every variable that a handler  *)
(* reads in its type.                                                      *)
THEOREM GetdTypeCorrect == Spec => []TypeOK
<1>1. Init => StreamInv
  BY InitStream
<1>2. StreamInv /\ [Next]_vars => StreamInv'
  BY StreamStep
<1>3. StreamInv => TypeOK
  BY DEF StreamInv
<1> QED
  BY <1>1, <1>2, <1>3, PTL DEF Spec

(* Whatever messages come before, in whichever state they find lastSent    *)
(* and the stream, and however far a name runs over them, the feof, fread, *)
(* getc and fclose of MessageType6Handler are called on an open stream of  *)
(* a regular file (FileOpenWhileSending).                                  *)
THEOREM StreamSafety == Spec => []FileOpenWhileSending
<1>1. Init => StreamInv
  BY InitStream
<1>2. StreamInv /\ [Next]_vars => StreamInv'
  BY StreamStep
<1>3. StreamInv => FileOpenWhileSending
  BY DEF StreamInv
<1> QED
  BY <1>1, <1>2, <1>3, PTL DEF Spec

-----------------------------------------------------------------------------
(* What messages can do to a session.                                      *)

(* What the buffer says of the session is not older than the session: a    *)
(* grant finds or leaves no bytes that name it without named telling so,   *)
(* and from then on Recv tells of the message that brings them.            *)
NamedInv ==
    Live => /\ sessionId \in Sids
            /\ Names(buffer.body, sessionId) => named

(* A request with a terminated name brings no session id along.            *)
LEMMA GoodNamesNone ==
    ASSUME buffer \in Buffers, buffer.body.name = "good", NEW sid \in Sids
    PROVE  ~ Names(buffer.body, sid)
<1>1. buffer.body \in Bodies /\ sid # NoSid
  BY ConstantsAssumption DEF Buffers
<1>2. buffer.body.sid = NoSid
  BY <1>1, BodyReadings, Zenon
<1>3. buffer.body.ok3 => buffer.body.sid3 = NoSid
  BY <1>1, BodyReadings, Zenon
<1> QED
  BY <1>1, <1>2, <1>3, Zenon DEF Names

(* main starts without a session.                                          *)
LEMMA InitNamed == Init => NamedInv
BY DEF Init, NamedInv, Live

(* Grants, messages and everything else keep named true to the buffer.     *)
LEMMA NamedStep == StreamInv /\ NamedInv /\ [Next]_vars => NamedInv'
<1> SUFFICES ASSUME StreamInv, NamedInv, [Next]_vars PROVE NamedInv'
  OBVIOUS
<1>0. buffer \in Buffers /\ named \in BOOLEAN
  BY DEF StreamInv, TypeOK
<1>1. CASE UNCHANGED <<buffer, named, sessionId>> /\ (Live' => Live)
  BY <1>1 DEF NamedInv
<1>2. CASE ~ Live'
  BY <1>2 DEF NamedInv
<1>3. ASSUME NEW m \in Arrivals, Recv(m) PROVE NamedInv'
  <2>1. /\ buffer' = Overlay(m)
        /\ named' = (named \/ (m.part = "body" /\ Names(m.body, sessionId)))
        /\ sessionId' = sessionId /\ lastSent' = lastSent
    BY <1>3 DEF Recv, state
  <2>2. Live' /\ Names(buffer'.body, sessionId') => named'
    <3>1. CASE m.part = "body"
      <4>1. buffer'.body = m.body
        BY <2>1, <3>1 DEF Overlay
      <4> QED
        BY <2>1, <3>1, <4>1, Zenon
    <3>2. CASE m.part # "body"
      <4>1. buffer'.body = buffer.body /\ named' = named
        <5>1. m.part \in {"header", "nothing"}
          BY <3>2 DEF Arrivals
        <5>2. buffer'.body = buffer.body
          BY <1>0, <2>1, <5>1 DEF Overlay, Buffers
        <5>3. named' = named
          BY <1>0, <2>1, <3>2, Zenon
        <5> QED
          BY <5>2, <5>3
      <4> QED
        BY <2>1, <4>1, Zenon DEF NamedInv, Live
    <3> QED
      BY <3>1, <3>2
  <2>3. Live' => Live /\ sessionId' \in Sids
    BY <2>1 DEF Live, NamedInv
  <2> QED
    BY <2>2, <2>3, Zenon DEF NamedInv
<1>4. CASE MessageType0Handler
  <2>1. CASE UNCHANGED <<buffer, named, state>>
    BY <1>1, <2>1 DEF state, Live
  <2>2. CASE Abort("CorruptType0Message")
    BY <1>2, <2>2 DEF Abort, Live
  <2>3. CASE buffer.body.name = "good" /\ Grant /\ UNCHANGED buffer
    <3>1. sessionId' \in Sids
      BY <2>3 DEF Grant
    <3>2. ~ Names(buffer.body, sessionId')
      BY <1>0, <2>3, <3>1, GoodNamesNone
    <3> QED
      BY <2>3, <3>1, <3>2 DEF NamedInv
  <2>4. CASE Grant /\ named' = Names(buffer'.body, sessionId')
    <3>1. sessionId' \in Sids
      BY <2>4 DEF Grant
    <3> QED
      BY <2>4, <3>1, Zenon DEF NamedInv
  <2> QED
    BY <1>4, <2>1, <2>2, <2>3, <2>4 DEF MessageType0Handler, Overrun
<1>5. CASE MessageType3Handler
  <2>1. UNCHANGED <<buffer, named, sessionId>>
    BY <1>5 DEF MessageType3Handler
  <2>2. lastSent = 1 \/ lastSent' = 2
    BY <1>5 DEF MessageType3Handler, Abort
  <2> QED
    BY <1>1, <1>2, <2>1, <2>2 DEF Live
<1>6. CASE MessageType6Handler
  <2>1. UNCHANGED <<buffer, named, sessionId>>
    BY <1>6 DEF MessageType6Handler
  <2>2. lastSent' \in {lastSent, 2, 5} \/ lastSent = 4
    BY <1>6 DEF MessageType6Handler, Abort, MessegeType5Builder
  <2> QED
    BY <1>1, <1>2, <2>1, <2>2 DEF Live
<1>7. CASE MessageOtherHandler
  BY <1>1, <1>7 DEF MessageOtherHandler, state, Live
<1>8. CASE Start
  BY <1>2, <1>8 DEF Start, Begin, Live
<1>9. CASE \/ Send \/ Quit
           \/ \E p \in Regular, n \in Sizes : Resize(p, n)
           \/ UNCHANGED vars
  BY <1>1, <1>9 DEF Send, Quit, Resize, vars, state, Live
<1> QED
  BY <1>3, <1>4, <1>5, <1>6, <1>7, <1>8, <1>9 DEF Next, Handle

(* One step of the loop: a live session keeps its id, and goes on unless   *)
(* the message is of type 3, or of type 6 and finds the id in the buffer   *)
(* (the handlers' early returns).                                          *)
LEMMA SessionStep ==
    ASSUME StreamInv, NamedInv, Next, Live, pc # "exited"
    PROVE  /\ sessionId' = sessionId
           /\ \/ Live'
              \/ buffer.type = 3
              \/ buffer.type = 6 /\ Sid6 = sessionId /\ named
<1>1. CASE MessageType0Handler
  <2>1. UNCHANGED <<lastSent, sessionId>>
    BY <1>1 DEF MessageType0Handler, Busy, Live, state
  <2> QED
    BY <2>1 DEF Live
<1>2. CASE MessageType3Handler
  BY <1>2 DEF MessageType3Handler, Handling
<1>3. CASE MessageType6Handler
  <2>1. /\ buffer.type = 6
        /\ UNCHANGED sessionId /\ (Sid6 # sessionId => UNCHANGED lastSent)
    BY <1>3 DEF MessageType6Handler, Handling
  <2>2. Sid6 = sessionId => named
    BY Zenon DEF NamedInv, Names, Sid6
  <2> QED
    BY <2>1, <2>2 DEF Live
<1>4. CASE MessageOtherHandler
  BY <1>4 DEF MessageOtherHandler, state, Live
<1>5. CASE \/ \E m \in Arrivals : Recv(m)
           \/ Send \/ Quit
           \/ \E p \in Regular, n \in Sizes : Resize(p, n)
  BY <1>5 DEF Recv, Send, Quit, Resize, state, Live
<1>6. CASE Start
  BY <1>6 DEF Start, Begin
<1> QED
  BY <1>1, <1>2, <1>3, <1>4, <1>5, <1>6 DEF Next, Handle

(* Only type 3 messages and type 6 messages that find the id in the        *)
(* buffer, where one sent since the grant left it, end a session, and none *)
(* replaces its id.                                                        *)
THEOREM SessionSafety == Spec => EndedByOwnerOrType3
<1>1. StreamInv /\ NamedInv /\ [Next]_vars =>
        [Live /\ pc # "exited" =>
            /\ sessionId' = sessionId
            /\ \/ Live'
               \/ buffer.type = 3
               \/ buffer.type = 6 /\ Sid6 = sessionId /\ named]_vars
  BY SessionStep DEF vars
<1> QED
  BY <1>1, InitStream, StreamStep, InitNamed, NamedStep, PTL
  DEF Spec, EndedByOwnerOrType3

(* With the table full, MessageType3Handler's fopen fails and no other     *)
(* handler opens or, lastSent not being 4, closes a stream.                *)
LEMMA StarvedStep ==
    ASSUME StreamInv, Next, Starved, pc # "exited"
    PROVE  Starved'
<1>1. openFiles = FOPEN_MAX /\ lastSent # 4
  BY DEF Starved
<1>2. CASE MessageType0Handler
  BY <1>1, <1>2
  DEF MessageType0Handler, Overrun, Grant, Abort, MessageType1Builder, file,
      state, Starved
<1>3. CASE MessageType3Handler
  <2>1. openFiles' = openFiles /\ lastSent' = 2
    BY <1>1, <1>3
    DEF MessageType3Handler, OpenFails, OpenSucceeds, CannotOpen, Abort, file
  <2> QED
    BY <1>1, <2>1 DEF Starved
<1>4. CASE MessageType6Handler
  <2>1. openFiles' = openFiles /\ lastSent' \in {lastSent, 2}
    BY <1>1, <1>4 DEF MessageType6Handler, Abort, file
  <2> QED
    BY <1>1, <2>1 DEF Starved
<1>5. CASE MessageOtherHandler
  BY <1>1, <1>5 DEF MessageOtherHandler, state, file, Starved
<1>6. CASE \/ \E m \in Arrivals : Recv(m)
           \/ Send \/ Quit
           \/ \E p \in Regular, n \in Sizes : Resize(p, n)
  BY <1>1, <1>6 DEF Recv, Send, Quit, Resize, state, file, Starved
<1>7. CASE Start
  BY <1>7 DEF Start, Begin
<1> QED
  BY <1>2, <1>3, <1>4, <1>5, <1>6, <1>7 DEF Next, Handle

(* Once abandoned streams fill the process's table, getd sends no file     *)
(* until it is restarted.                                                  *)
THEOREM Starvation == Spec => StarvedForGood
<1>1. StreamInv /\ [Next]_vars => [Starved /\ pc # "exited" => Starved']_vars
  BY StarvedStep DEF vars
<1> QED
  BY <1>1, InitStream, StreamStep, PTL DEF Spec, StarvedForGood

-----------------------------------------------------------------------------
(* What getd's replies say to its clients is true: data comes in order and *)
(* goes to the session's owner, the end of a transfer is the end of the    *)
(* file, and Getd implements FileTransfer.                                 *)

(* The builders of the replies, by the type of the reply they leave.       *)
LEMMA StepReply ==
    ASSUME StreamInv, Next
    PROVE  \/ UNCHANGED <<lastSent, sessionId, outMessage, sendFile, copied>>
           \/ /\ pc' # "exited" /\ Start
           \/ \E text \in Texts :
                 /\ MessageType2Builder(text)
                 /\ UNCHANGED <<lastSent, sessionId, copied, sendFile>>
           \/ /\ \E text \in Texts : Abort(text)
              /\ UNCHANGED <<sessionId, copied>>
           \/ /\ pc = "handle" /\ buffer.type = 0 /\ ~ Busy
              /\ \E sid \in Sids : sessionId' = sid /\ MessageType1Builder(sid)
              /\ UNCHANGED <<copied, sendFile>>
           \/ /\ pc = "handle" /\ buffer.type = 3 /\ Ver3
              /\ lastSent = 1 /\ buffer.body.sid3 = sessionId
              /\ UNCHANGED sessionId
              /\ \E p \in Regular : MessegeType4Builder(Opened(p), 0)
           \/ /\ pc = "handle" /\ buffer.type = 6 /\ Ver6
              /\ lastSent = 4 /\ Sid6 = sessionId
              /\ UNCHANGED sessionId
              /\ \/ sendFile.eof /\ MessegeType5Builder
                 \/ MessegeType4Builder(sendFile, copied)
<1>1. CASE MessageType0Handler
  BY <1>1 DEF MessageType0Handler, Overrun, Grant, Handling, Texts, file, state
<1>2. CASE MessageType3Handler
  <2>1. CASE \E text \in Texts : Abort(text) /\ UNCHANGED <<sessionId, copied>>
    BY <2>1
  <2>2. CASE /\ Ver3 /\ lastSent = 1 /\ buffer.body.sid3 = sessionId
             /\ Kind[buffer.body.path] = "regular"
             /\ MessegeType4Builder(Opened(buffer.body.path), 0)
    <3>1. buffer.body.path \in Regular
      BY <1>2, <2>2, Type3Body
      DEF MessageType3Handler, Handling, StreamInv, TypeOK, Regular
    <3> QED
      BY <1>2, <2>2, <3>1 DEF MessageType3Handler, Handling
  <2> QED
    BY <1>2, <2>1, <2>2
    DEF MessageType3Handler, OpenFails, OpenSucceeds, Texts, file
<1>3. CASE MessageType6Handler
  BY <1>3 DEF MessageType6Handler, Handling, Texts, file
<1>4. CASE MessageOtherHandler
  BY <1>4 DEF MessageOtherHandler, state, file, Texts
<1>5. CASE \/ \E m \in Arrivals : Recv(m)
           \/ Send \/ Quit
           \/ \E p \in Regular, n \in Sizes : Resize(p, n)
  BY <1>5 DEF Recv, Send, Quit, Resize, state, file
<1>6. CASE Start
  BY <1>6 DEF Start, Begin
<1> QED
  BY <1>1, <1>2, <1>3, <1>4, <1>5, <1>6 DEF Next, Handle

(* The size fstat and fread find of a regular file.                        *)
LEMMA SizeType ==
    ASSUME StreamInv, NEW p \in Regular
    PROVE  size[p] \in Sizes /\ size[p] \in Nat
<1>1. size \in [Regular -> Sizes]
  BY Zenon DEF StreamInv, TypeOK
<1> QED
  BY <1>1, ConstantsAssumption

(* The files keep their sizes when no other process changes them.          *)
LEMMA SizeStep == ~ FilesChange /\ [Next]_vars => size' = size
BY DEF vars, Next, Handle, MessageType0Handler, MessageType3Handler,
       MessageType6Handler, MessageOtherHandler, Recv, Send, Quit, Start, Begin, Resize

-----------------------------------------------------------------------------
(* Data comes in order.                                                    *)

(* One step of the loop: a type 4 reply starts where the one before it     *)
(* ended, for nothing but MessegeType4Builder moves the stream.            *)
LEMMA OrderStep ==
    ASSUME ~ IOErrors, StreamInv, SentInOrder, [Next]_vars
    PROVE  SentInOrder'
<1> USE DEF SentInOrder
<1>1. CASE UNCHANGED <<lastSent, sessionId, outMessage, sendFile, copied>>
  BY <1>1
<1>2. CASE Start
  BY <1>2 DEF Start, Begin
<1>3. CASE \E text \in Texts :
              /\ MessageType2Builder(text)
              /\ UNCHANGED <<lastSent, sessionId, copied, sendFile>>
  BY <1>3, Type2BuilderLemma
<1>4. CASE \E text \in Texts : Abort(text)
  BY <1>4, AbortLemma
<1>5. CASE \E sid \in Sids : MessageType1Builder(sid)
  BY <1>5 DEF MessageType1Builder
<1>6. ASSUME NEW p \in Regular, MessegeType4Builder(Opened(p), 0)
      PROVE  SentInOrder'
  <2>1. Opened(p) \in Files /\ Opened(p).path = p /\ Opened(p).pos = 0
    BY DEF Opened, Files, Regular
  <2> QED
    BY <1>6, <2>1, Type4BuilderLemma DEF StreamInv
<1>7. CASE lastSent = 4 /\ MessegeType5Builder
  BY <1>7 DEF MessegeType5Builder
<1>8. CASE lastSent = 4 /\ MessegeType4Builder(sendFile, copied)
  <2>1. sendFile \in Files /\ sendFile.path \in Regular /\ copied \in Nat
    BY <1>8 DEF StreamInv, TypeOK, FileOpenWhileSending, Regular, Files
  <2> QED
    BY <1>8, <2>1, Type4BuilderLemma DEF StreamInv
<1>9. CASE UNCHANGED vars
  BY <1>9, <1>1 DEF vars, state, file
<1> QED
  BY <1>1, <1>2, <1>3, <1>4, <1>5, <1>6, <1>7, <1>8, <1>9, StepReply

(* As long as reads do not fail, type 4 replies carry the file in order,   *)
(* even while other processes resize it.                                   *)
THEOREM Order == ASSUME ~ IOErrors PROVE Spec => []SentInOrder
<1>1. Init => SentInOrder
  BY DEF Init, SentInOrder
<1>2. StreamInv /\ SentInOrder /\ [Next]_vars => SentInOrder'
  BY OrderStep
<1> QED
  BY <1>1, <1>2, InitStream, StreamStep, PTL DEF Spec

-----------------------------------------------------------------------------
(* The end of a transfer is the end of the file.                           *)

(* What is sent never passes the end of the file, the end-of-file flag     *)
(* means that it was reached, and it was when a type 5 reply was built.    *)
CompleteInv ==
    /\ SentInOrder
    /\ lastSent = 4 => /\ copied <= size[sendFile.path]
                       /\ sendFile.eof => copied = size[sendFile.path]
    /\ CompleteCopy

(* One step of the loop keeps the count of bytes sent equal to the         *)
(* stream's position, and feof true only at the end of the file.           *)
LEMMA CompleteStep ==
    ASSUME ~ IOErrors, size' = size, StreamInv, CompleteInv, [Next]_vars
    PROVE  CompleteInv'
<1>0. SentInOrder' /\ size' = size
  BY OrderStep DEF CompleteInv
<1> USE <1>0 DEF CompleteInv, CompleteCopy
<1>1. CASE UNCHANGED <<lastSent, sessionId, outMessage, sendFile, copied>>
  BY <1>1
<1>2. CASE Start
  BY <1>2 DEF Start, Begin
<1>3. CASE \E text \in Texts :
              /\ MessageType2Builder(text)
              /\ UNCHANGED <<lastSent, sessionId, copied, sendFile>>
  BY <1>3, Type2BuilderLemma
<1>4. CASE \E text \in Texts : Abort(text)
  BY <1>4, AbortLemma
<1>5. CASE \E sid \in Sids : MessageType1Builder(sid)
  BY <1>5 DEF MessageType1Builder
<1>6. ASSUME NEW p \in Regular, MessegeType4Builder(Opened(p), 0)
      PROVE  CompleteInv'
  <2>1. Opened(p) \in Files /\ Opened(p).path = p /\ Opened(p).pos = 0
    BY DEF Opened, Files, Regular
  <2>2. 0 <= size[p]
    BY SizeType
  <2> QED
    BY <1>6, <2>1, <2>2, Type4BuilderLemma DEF StreamInv, SentInOrder
<1>7. CASE lastSent = 4 /\ sendFile.eof /\ MessegeType5Builder
  <2>1. sendFile'.path = sendFile.path
    BY <1>7 DEF MessegeType5Builder, StreamInv, TypeOK, Files
  <2> QED
    BY <1>7, <2>1 DEF MessegeType5Builder
<1>8. CASE lastSent = 4 /\ MessegeType4Builder(sendFile, copied)
  <2>1. sendFile \in Files /\ sendFile.path \in Regular /\ copied \in Nat
    BY <1>8 DEF StreamInv, TypeOK, FileOpenWhileSending, Regular, Files
  <2> QED
    BY <1>8, <2>1, Type4BuilderLemma DEF StreamInv, SentInOrder
<1>9. CASE UNCHANGED vars
  BY <1>9, <1>1 DEF vars, state, file
<1> QED
  BY <1>1, <1>2, <1>3, <1>4, <1>5, <1>6, <1>7, <1>8, <1>9, StepReply

(* A new run has sent nothing.                                             *)
LEMMA BeginComplete == Begin => CompleteInv'
BY DEF Begin, CompleteInv, CompleteCopy, SentInOrder

(* Before the first reply nothing was sent.                                *)
LEMMA InitComplete == Init => CompleteInv
BY DEF Init, CompleteInv, CompleteCopy, SentInOrder

(* A type 5 reply says the truth: every byte of the file was sent.         *)
THEOREM Completeness ==
    ASSUME ~ IOErrors, ~ FilesChange PROVE Spec => []CompleteCopy
<1>1. StreamInv /\ CompleteInv /\ [Next]_vars => CompleteInv'
  BY CompleteStep, SizeStep
<1>2. CompleteInv => CompleteCopy
  BY DEF CompleteInv
<1> QED
  BY <1>1, <1>2, InitComplete, InitStream, StreamStep, PTL DEF Spec

-----------------------------------------------------------------------------
(* Getd implements FileTransfer.                                           *)

(* Whatever ends a session without a type 5 reply gives the transfer up.   *)
LEMMA GivesUp ==
    ASSUME StreamInv, Phase' = "idle", Owner' = NoSid, Total' = 0, Sent' = 0
    PROVE  Transfer!GiveUp \/ UNCHANGED Transfer!tvars
<1>1. CASE Phase = "idle"
  <2>1. Owner = NoSid /\ Total = 0 /\ Sent = 0
    BY <1>1 DEF Phase, Owner, Total, Sent, Live
  <2> QED
    BY <1>1, <2>1 DEF Transfer!tvars
<1>2. CASE Phase # "idle"
  BY <1>2 DEF Transfer!GiveUp, Transfer!Leave
<1> QED
  BY <1>1, <1>2

(* A new run of main gives up what the last one was sending.               *)
LEMMA BeginTransfer ==
    ASSUME StreamInv, Begin
    PROVE  [Transfer!TransferNext]_(Transfer!tvars)
<1>1. Phase' = "idle" /\ Owner' = NoSid /\ Total' = 0 /\ Sent' = 0
  BY DEF Begin, Phase, Owner, Total, Sent, Live
<1> QED
  BY <1>1, GivesUp DEF Transfer!TransferNext

(* Every step of getd is a step of FileTransfer or leaves its state alone: *)
(* the handlers case by case, and Quit, Start and Recv.                    *)
LEMMA TransferStep ==
    ASSUME ~ IOErrors, size' = size, StreamInv, CompleteInv, [Next]_vars
    PROVE  [Transfer!TransferNext]_(Transfer!tvars)
<1>0. size' = size /\ SentInOrder
  BY DEF CompleteInv
<1> DEFINE Goal == [Transfer!TransferNext]_(Transfer!tvars)
<1>1. CASE UNCHANGED <<lastSent, sessionId, outMessage, sendFile, copied>>
  BY <1>0, <1>1 DEF Transfer!tvars, Phase, Owner, Total, Sent, Live
<1>2. CASE Start
  BY <1>2, BeginTransfer DEF Start
<1>3. CASE \E text \in Texts :
              /\ MessageType2Builder(text)
              /\ UNCHANGED <<lastSent, sessionId, copied, sendFile>>
  <2>1. outMessage'.type = 2
    BY <1>3, Type2BuilderLemma
  <2>2. CASE lastSent \in {1, 4}
    BY <1>0, <1>3, <2>1, <2>2 DEF Transfer!tvars, Phase, Owner, Total, Sent, Live
  <2>3. CASE lastSent \notin {1, 4}
    <3>1. Phase' = "idle" /\ Owner' = NoSid /\ Total' = 0 /\ Sent' = 0
      BY <1>3, <2>1, <2>3 DEF Phase, Owner, Total, Sent, Live
    <3> QED
      BY <3>1, GivesUp DEF Transfer!TransferNext
  <2> QED
    BY <2>2, <2>3
<1>4. CASE \E text \in Texts : Abort(text)
  <2>1. Phase' = "idle" /\ Owner' = NoSid /\ Total' = 0 /\ Sent' = 0
    BY <1>4, AbortLemma DEF Phase, Owner, Total, Sent, Live
  <2> QED
    BY <2>1, GivesUp DEF Transfer!TransferNext
<1>5. ASSUME ~ Busy, NEW sid \in Sids, sessionId' = sid, MessageType1Builder(sid)
      PROVE  Goal
  <2>1. lastSent \in {2, 5} /\ lastSent' = 1
    BY <1>5 DEF Busy, MessageType1Builder
  <2>2. Phase \in {"idle", "ended"} /\ Total = 0 /\ Sent = 0
    BY <2>1 DEF Phase, Total, Sent
  <2>3. Phase' = "granted" /\ Owner' = sid /\ Total' = 0 /\ Sent' = 0
    BY <1>5, <2>1 DEF Phase, Owner, Total, Sent, Live
  <2> QED
    BY <2>2, <2>3 DEF Transfer!TransferNext, Transfer!Grant
<1>6. ASSUME lastSent = 1, UNCHANGED sessionId,
             NEW p \in Regular, MessegeType4Builder(Opened(p), 0)
      PROVE  Goal
  <2>1. /\ Opened(p) \in Files /\ Opened(p).path = p /\ Opened(p).pos = 0
    BY DEF Opened, Files, Regular
  <2>2. size[p] \in Sizes /\ size[p] \in Nat
    BY SizeType
  <2> DEFINE n == outMessage'.len
  <2>3. /\ n \in 0..CHUNK
        /\ lastSent' = 4 /\ sendFile'.path = p /\ copied' = 0 + n
        /\ 0 + n <= size[p]
        /\ n = CHUNK \/ 0 + n = size[p]
    BY <1>6, <2>1, <2>2, Type4BuilderLemma DEF StreamInv
  <2>4. Phase = "granted" /\ Phase' = "sending" /\ UNCHANGED Owner
    BY <1>6, <2>3 DEF Phase, Owner, Live
  <2>5. Total' = size[p] /\ Sent' = 0 + n
    BY <1>0, <2>3 DEF Total, Sent
  <2>6. Transfer!Chunk(n, 0, size[p])
    BY <2>3, <2>5 DEF Transfer!Chunk
  <2> QED
    BY <2>2, <2>3, <2>4, <2>5, <2>6 DEF Transfer!TransferNext, Transfer!Begin
<1>7. CASE lastSent = 4 /\ sendFile.eof /\ MessegeType5Builder
  <2>1. lastSent' = 5 /\ outMessage'.type = 5
    BY <1>7 DEF MessegeType5Builder
  <2>2. Phase = "sending" /\ Sent = Total
    BY <1>7 DEF Phase, Sent, Total, CompleteInv
  <2>3. Phase' = "ended" /\ Owner' = NoSid /\ Total' = 0 /\ Sent' = 0
    BY <2>1 DEF Phase, Owner, Total, Sent, Live
  <2> QED
    BY <2>2, <2>3 DEF Transfer!TransferNext, Transfer!Finish, Transfer!Leave
<1>8. CASE lastSent = 4 /\ UNCHANGED sessionId /\ MessegeType4Builder(sendFile, copied)
  <2>1. /\ sendFile \in Files /\ sendFile.path \in Regular
        /\ copied \in Nat /\ sendFile.pos = copied
        /\ copied <= size[sendFile.path]
    BY <1>8 DEF StreamInv, TypeOK, FileOpenWhileSending, Regular, Files,
                CompleteInv, SentInOrder
  <2> DEFINE n == outMessage'.len
  <2>2. /\ n \in 0..CHUNK
        /\ lastSent' = 4 /\ sendFile'.path = sendFile.path
        /\ copied' = copied + n
        /\ copied + n <= size[sendFile.path]
        /\ n = CHUNK \/ copied + n = size[sendFile.path]
    BY <1>8, <2>1, Type4BuilderLemma DEF StreamInv
  <2>3. Phase = "sending" /\ UNCHANGED <<Phase, Owner>>
    BY <1>8, <2>2 DEF Phase, Owner, Live
  <2>4. Total = size[sendFile.path] /\ UNCHANGED Total
    BY <1>0, <1>8, <2>2 DEF Total
  <2>5. Sent = copied /\ Sent' = copied + n
    BY <1>8, <2>2 DEF Sent
  <2>6. Transfer!Chunk(n, Sent, Total)
    BY <2>2, <2>4, <2>5 DEF Transfer!Chunk
  <2> QED
    BY <2>2, <2>3, <2>4, <2>6 DEF Transfer!TransferNext, Transfer!Continue
<1>9. CASE UNCHANGED vars
  BY <1>9, <1>1 DEF vars, state, file
<1> QED
  BY <1>1, <1>2, <1>3, <1>4, <1>5, <1>6, <1>7, <1>8, <1>9, StepReply

(* getd's handlers implement the abstract specification FileTransfer.      *)
THEOREM Refinement ==
    ASSUME ~ IOErrors, ~ FilesChange PROVE Spec => ImplementsTransfer
<1>1. Init => Transfer!TransferInit
  BY DEF Init, Transfer!TransferInit, Phase, Owner, Total, Sent, Live
<1>2. StreamInv /\ CompleteInv /\ [Next]_vars =>
        [Transfer!TransferNext]_(Transfer!tvars)
  BY TransferStep, SizeStep
<1>3. StreamInv /\ CompleteInv /\ [Next]_vars => CompleteInv'
  BY CompleteStep, SizeStep
<1> QED
  BY <1>1, <1>2, <1>3, InitComplete, InitStream, StreamStep, PTL
  DEF Spec, ImplementsTransfer, Transfer!TransferSpec

-----------------------------------------------------------------------------
(* Replies are of the session and answer nothing older than it.            *)

(* One step of the loop: the handlers build type 4 and 5 replies only      *)
(* behind the tests of the message and of the session's id.                *)
LEMMA AnswerStep ==
    ASSUME StreamInv, NamedInv, AnswersItsSession, [Next]_vars
    PROVE  AnswersItsSession'
<1> SUFFICES ASSUME pc' = "send", outMessage'.type \in {4, 5}
             PROVE  /\ Names(buffer.body, sessionId)' /\ named'
                    /\ outMessage'.sid = sessionId'
                    /\ buffer'.type = 3 =>
                          outMessage'.type = 4 /\ outMessage'.pos = 0
  BY DEF AnswersItsSession
<1>1. CASE MessageType3Handler
  <2>1. UNCHANGED <<buffer, named, sessionId>> /\ buffer.type = 3
    BY <1>1 DEF MessageType3Handler, Handling
  <2>2. ~ \E text \in Texts : Abort(text)
    BY AbortLemma
  <2>3. /\ Ver3 /\ buffer.body.sid3 = sessionId /\ lastSent = 1
        /\ Kind[buffer.body.path] = "regular"
        /\ MessegeType4Builder(Opened(buffer.body.path), 0)
    BY <1>1, <2>2 DEF MessageType3Handler, OpenFails, OpenSucceeds, Texts
  <2>4. Names(buffer.body, sessionId) /\ named
    BY <2>3, Zenon DEF NamedInv, Names, Ver3, Live
  <2> DEFINE f == Opened(buffer.body.path)
  <2>5. f \in Files /\ f.path \in Regular /\ f.pos = 0
    BY <2>1, <2>3, Type3Body
    DEF StreamInv, TypeOK, Opened, Files, Regular
  <2> HIDE DEF f
  <2>6. /\ outMessage'.type = 4 /\ outMessage'.sid = sessionId
        /\ outMessage'.pos = 0
    BY <2>3, <2>5, Type4BuilderLemma DEF StreamInv, f
  <2> QED
    BY <2>1, <2>4, <2>6
<1>2. CASE MessageType6Handler
  <2>1. UNCHANGED <<buffer, named, sessionId>> /\ buffer.type = 6
    BY <1>2 DEF MessageType6Handler, Handling
  <2>2. ~ (\E text \in Texts : MessageType2Builder(text) \/ Abort(text))
    BY AbortLemma, Type2BuilderLemma
  <2>3. \/ Sid6 = sessionId /\ lastSent = 4
        \/ pc' = "recv"
    BY <1>2, <2>2 DEF MessageType6Handler, Texts
  <2>4. \/ lastSent = 4 /\ MessegeType5Builder
        \/ lastSent = 4 /\ MessegeType4Builder(sendFile, copied)
    BY <1>2, <2>2 DEF MessageType6Handler, Texts
  <2>5. Names(buffer.body, sessionId) /\ named
    BY <2>3, Zenon DEF NamedInv, Names, Sid6, Live
  <2>6. CASE MessegeType5Builder
    BY <2>1, <2>5, <2>6 DEF MessegeType5Builder
  <2>7. CASE lastSent = 4 /\ MessegeType4Builder(sendFile, copied)
    <3>1. /\ sendFile \in Files /\ sendFile.path \in Regular
          /\ copied \in Nat
      BY <2>7 DEF StreamInv, TypeOK, FileOpenWhileSending, Regular, Files
    <3>2. outMessage'.sid = sessionId
      BY <2>7, <3>1, Type4BuilderLemma DEF StreamInv
    <3> QED
      BY <2>1, <2>5, <3>2
  <2> QED
    BY <2>4, <2>6, <2>7
<1>3. CASE MessageType0Handler
  <2>1. ~ (\E text \in Texts : MessageType2Builder(text) \/ Abort(text))
    BY AbortLemma, Type2BuilderLemma
  <2> QED
    BY <1>3, <2>1
    DEF MessageType0Handler, Overrun, Grant, MessageType1Builder, Texts
<1>4. CASE MessageOtherHandler
  <2>1. ~ (\E text \in Texts : MessageType2Builder(text))
    BY Type2BuilderLemma
  <2> QED
    BY <1>4, <2>1 DEF MessageOtherHandler, Texts
<1>5. CASE \/ \E m \in Arrivals : Recv(m)
           \/ Send \/ Quit \/ Start
  BY <1>5 DEF Recv, Send, Quit, Start, Begin
<1>6. CASE \/ \E p \in Regular, n \in Sizes : Resize(p, n)
           \/ UNCHANGED vars
  <2>1. UNCHANGED <<pc, buffer, named, sessionId, outMessage>>
    BY <1>6 DEF Resize, vars, state, file
  <2> QED
    BY <2>1 DEF AnswersItsSession
<1> QED
  BY <1>1, <1>2, <1>3, <1>4, <1>5, <1>6 DEF Next, Handle

(* Chunks of a file and the end of its transfer are of the session and     *)
(* answer nothing that lay in the buffer before it was granted.            *)
THEOREM Ownership == Spec => []AnswersItsSession
<1>1. Init => AnswersItsSession
  BY DEF Init, AnswersItsSession
<1>2. StreamInv /\ NamedInv /\ AnswersItsSession /\ [Next]_vars
        => AnswersItsSession'
  BY AnswerStep
<1> QED
  BY <1>1, <1>2, InitStream, StreamStep, InitNamed, NamedStep, PTL DEF Spec
=============================================================================
