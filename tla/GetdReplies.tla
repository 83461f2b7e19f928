---------------------------- MODULE GetdReplies -----------------------------
(***************************************************************************)
(* The error text a client finds in a type 2 reply.  outMessage is one     *)
(* block of memory in which every builder writes over what the builder     *)
(* before it left; this module adds to Getd where in the block's           *)
(* errorMessage field a '\0' lies.                                         *)
(***************************************************************************)
EXTENDS Getd

CONSTANT Zeroed \* does malloc return zeroed memory for outMessage?

VARIABLE nuls   \* the indices of errorMessage that hold '\0', up to LAST

LAST == 28      \* the longest text has 27 characters
Indices == 0..LAST

Digits(n) == IF n < 10 THEN 1 ELSE IF n < 100 THEN 2 ELSE 3

(* strlen of the texts the handlers pass to MessageType2Builder.           *)
TextLength(text) ==
    CASE text = "InvalidState"        -> 13
      [] text = "InvalidFileType"     -> 17
      [] text = "ErrorOpeningFile"    -> 18
      [] text = "OneSessionBusy"      -> 19
      [] text = "OneSessionAtATime"   -> 21
      [] text = "CorruptType0Message" -> 22
      [] text = "CorruptType3Message" -> 22
      [] text = "CorruptType6Messege" -> 22
      [] text = "InvalidMessageType"  -> 24 + Digits(buffer.type)

(* strncpy of the text without its '\0', then a '\0' one character later.  *)
WriteText(n) == nuls' = (nuls \ 0..(n - 1)) \cup {n + 1}

(* The session id in a reply of another type covers the indices up to LAST *)
(* (the first four hold contentLength in a type 4 reply).                  *)
WriteSessionId == nuls' = {}

(* What a handler's builder does to the field.                             *)
Written ==
    IF outMessage'.type = 2
    THEN WriteText(TextLength(outMessage'.text))
    ELSE WriteSessionId

(* malloc's block is a fresh page or holds other data.                     *)
Allocated == IF Zeroed THEN {Indices} ELSE {{}, Indices}

RInit == Init /\ nuls \in Allocated

RNext ==
    \/ Handle /\ IF pc' = "send" THEN Written ELSE UNCHANGED nuls
    \/ Start /\ nuls' \in Allocated
    \/ (Send \/ Quit \/ \E m \in Arrivals : Recv(m)) /\ UNCHANGED nuls

RSpec == RInit /\ [][RNext]_<<vars, nuls>>

(* "builds a type 2 error message given a string containing the error      *)
(* message" (requestHandlers.c): what a client reads in a type 2 reply as a *)
(* C string is that string and ends with it.                               *)
ErrorTextEnds ==
    pc = "send" /\ outMessage.type = 2 =>
        TextLength(outMessage.text) \in nuls
=============================================================================
