----------------------------- MODULE GetdVerify -----------------------------
(***************************************************************************)
(* The verification functions of requestVerify.c, on character arrays, and *)
(* the string comparisons the handlers combine them with.  Each behaviour  *)
(* is one call: a message and the session's id lie in memory, the function *)
(* of the message's type returns its code.                                 *)
(*                                                                         *)
(* An array of n + 1 characters is a function on 0..n; the constants scale *)
(* its size down (32, 128 and 4096 in the code).  A comparison never reads *)
(* past the arrays here: two equal strings end within them.                *)
(***************************************************************************)
EXTENDS Integers

CONSTANTS DN,       \* length of the longest user name, 32
          SID,      \* length of a session id, 128
          PATH,     \* length of the longest path name, 4096
          KNOWN,    \* characters of it main's buffer has room for, 3855:
                    \* memory behind the buffer stands for the others
          Letters,  \* characters other than '\0'
          NUL,      \* '\0'
          EXCESS    \* length fields go up to the longest string plus EXCESS

ASSUME VerifyAssumption ==
    /\ {DN, SID, PATH, EXCESS} \subseteq Nat \ {0}
    /\ KNOWN \in 1..PATH
    /\ NUL \notin Letters

Array(n)  == [0..n -> Letters \cup {NUL}]
Length(n) == 0..(n + EXCESS)

Messages ==
         [type : {0}, lenOK : BOOLEAN, dnLength : Length(DN), dn : Array(DN)]
    \cup [type : {3}, lenOK : BOOLEAN, sidLength : Length(SID),
          sid : Array(SID), pathLength : Length(PATH), path : Array(PATH)]
    \cup [type : {6}, lenOK : BOOLEAN, sidLength : Length(SID),
          sid : Array(SID)]

VARIABLES message,   \* the message received, of type 0, 3 or 6
          sessionId, \* state->sessionId
          code       \* what the verification function returned, or -1

vvars == <<message, sessionId, code>>

-----------------------------------------------------------------------------
(* string.h                                                                *)

(* strnlen(s, n)                                                           *)
StrNLen(s, n) ==
    IF \E i \in 0..(n - 1) : s[i] = NUL
    THEN CHOOSE i \in 0..(n - 1) : s[i] = NUL /\ \A j \in 0..(i - 1) : s[j] # NUL
    ELSE n

(* strncmp(s, t, n) = 0, for two arrays with the indices 0..last.          *)
StrNEqual(s, t, n, last) ==
    \A i \in 0..last :
        i < n /\ (\A j \in 0..(i - 1) : s[j] # NUL) => s[i] = t[i]

(* strcmp(s, t) = 0                                                        *)
StrEqual(s, t, last) == StrNEqual(s, t, last + 1, last)

-----------------------------------------------------------------------------
(* requestVerify.c and the constants of requestVerify.h                    *)

LENMATCH     == 1
DNLEN33P     == 2
NONULL       == 4
MESSLEN      == 8
SID_MISMATCH == 16

(* if (error) retval += value                                              *)
Add(error, value) == IF error THEN value ELSE 0

(* Faulty variant: all DN + 1 characters are searched for the '\0'.        *)
Type0VerWholeArray(m) ==
      Add(StrNLen(m.dn, DN + 1) # m.dnLength, LENMATCH)
    + Add(m.dnLength > DN, DNLEN33P)
    + Add(~ m.lenOK, MESSLEN)

Type0Ver(m) ==
      Add(StrNLen(m.dn, DN) # m.dnLength, LENMATCH)
    + Add(m.dnLength > DN, DNLEN33P)
    + Add(~ m.lenOK, MESSLEN)

(* Faulty variant: sidLength is not tested.                                *)
Type3VerNoSidLength(m) ==
    IF ~ m.lenOK \/ StrNLen(m.path, PATH) # m.pathLength THEN 1 ELSE 0

(* Faulty variant: the whole array has to be terminated.                   *)
Type3VerTerminated(m) ==
    IF \/ ~ m.lenOK
       \/ StrNLen(m.sid, SID) # m.sidLength
       \/ StrNLen(m.path, PATH) # m.pathLength
       \/ m.path[PATH] # NUL
    THEN 1
    ELSE 0

Type3Ver(m) ==
    IF \/ ~ m.lenOK
       \/ StrNLen(m.sid, SID) # m.sidLength
       \/ StrNLen(m.path, PATH) # m.pathLength
    THEN 1
    ELSE 0

(* Faulty variant: lengths that differ from endIndex only are let through. *)
Type6VerShorter(m, sid) ==
    LET endIndex == StrNLen(m.sid, SID + 1)
    IN    Add(~ StrNEqual(sid, m.sid, m.sidLength, SID), SID_MISMATCH)
        + Add(m.sidLength > SID, DNLEN33P)
        + Add(endIndex = SID + 1, NONULL)
        + Add(~ m.lenOK, MESSLEN)

(* endIndex is the length of the string, SID + 1 if the array holds no     *)
(* '\0'.                                                                   *)
Type6Ver(m, sid) ==
    LET endIndex == StrNLen(m.sid, SID + 1)
    IN    Add(StrNLen(m.sid, SID) # m.sidLength, DNLEN33P)
        + Add(~ StrNEqual(sid, m.sid, m.sidLength, SID), SID_MISMATCH)
        + Add(m.sidLength # endIndex, LENMATCH)
        + Add(m.sidLength > SID, DNLEN33P)
        + Add(endIndex = SID + 1, NONULL)
        + Add(~ m.lenOK, MESSLEN)

(* The id generated for a session: no '\0' before the last element.        *)
Established(sid) == \A i \in 0..SID : (sid[i] = NUL) <=> (i = SID)

(* Type 3 messages that pass the first two tests of MessageType3Handler,   *)
(* type 6 messages that pass those of MessageType6Handler.                 *)
Accepted3 == code = 0 /\ StrNEqual(message.sid, sessionId, SID, SID)
Accepted6 == StrEqual(message.sid, sessionId, SID) /\ code = 0

-----------------------------------------------------------------------------
Init ==
    /\ message \in Messages
    /\ sessionId \in Array(SID)
    /\ code = -1

Verify0 ==
    /\ code = -1 /\ message.type = 0
    /\ code' = Type0Ver(message)
    /\ UNCHANGED <<message, sessionId>>

Verify3 ==
    /\ code = -1 /\ message.type = 3
    /\ code' = Type3Ver(message)
    /\ UNCHANGED <<message, sessionId>>

Verify6 ==
    /\ code = -1 /\ message.type = 6
    /\ code' = Type6Ver(message, sessionId)
    /\ UNCHANGED <<message, sessionId>>

Next == Verify0 \/ Verify3 \/ Verify6

Spec == Init /\ [][Next]_vvars

-----------------------------------------------------------------------------
(* Properties.                                                             *)

(* Reference definition of a right length field for the string s of at     *)
(* most n characters.                                                      *)
HasLength(s, length, n) ==
    /\ length <= n
    /\ \A i \in 0..(length - 1) : s[i] # NUL
    /\ length = n \/ s[length] = NUL

(* What the code calls verified for a type 0 message, character by         *)
(* character: the length field is the name's, at most DN, and the name     *)
(* ends there or fills the first DN of its DN + 1 characters.  In the      *)
(* second case nothing is said of the last one: a name without '\0' is     *)
(* accepted too, which strcpy then copies beyond userName                  *)
(* (requestHandlers.c:46).                                                 *)
Accepted0Exactly ==
    message.type = 0 /\ code # -1 =>
        (code = 0 <=>
            /\ message.lenOK
            /\ HasLength(message.dn, message.dnLength, DN))

(* A type 3 message is accepted for a session exactly when its header is   *)
(* right, its first SID characters are the session's id (the one after     *)
(* them is not looked at) and both length fields are right, where a path   *)
(* of PATH characters need not be terminated either.                       *)
Accepted3Exactly ==
    message.type = 3 /\ code # -1 /\ Established(sessionId) =>
        (Accepted3 <=>
            /\ message.lenOK
            /\ \A i \in 0..(SID - 1) : message.sid[i] = sessionId[i]
            /\ message.sidLength = SID
            /\ HasLength(message.path, message.pathLength, PATH))

(* A type 3 message is longer than main's buffer (main.c:43): nn_recv drops *)
(* the end of the path, and type3Ver finds there what lies behind the      *)
(* buffer.  That makes no difference for a path that ends in the buffer.   *)
Behind(m, rest) ==
    [m EXCEPT !.path = [i \in 0..PATH |-> IF i < KNOWN THEN m.path[i]
                                                       ELSE rest[i]]]

EndsInBuffer(m) == \E i \in 0..(KNOWN - 1) : m.path[i] = NUL

TruncationUnseen ==
    message.type = 3 /\ code # -1 /\ EndsInBuffer(message) =>
        \A rest \in [KNOWN..PATH -> Letters \cup {NUL}] :
            Type3Ver(Behind(message, rest)) = code

(* Of the messages that carry the session's id, a type 6 message is        *)
(* accepted exactly when its two length fields are right, and none that    *)
(* carries another id is: what module Getd takes for granted.              *)
Accepted6Exactly ==
    message.type = 6 /\ code # -1 /\ Established(sessionId) =>
        (Accepted6 <=> /\ message.sid = sessionId
                       /\ message.sidLength = SID
                       /\ message.lenOK)
=============================================================================
