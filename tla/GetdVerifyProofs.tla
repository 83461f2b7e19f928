-------------------------- MODULE GetdVerifyProofs --------------------------
(***************************************************************************)
(* What the verification functions decide, for arrays of every size and    *)
(* every alphabet.                                                         *)
(***************************************************************************)
EXTENDS GetdVerify, WellFoundedInduction, TLAPS

(* Numbers have no infinite descent: what takes the place of an induction  *)
(* over the characters of an array.                                        *)
LEMMA LeastNatural ==
    ASSUME NEW T \in SUBSET Nat, T # {}
    PROVE  \E m \in T : \A k \in T : m <= k
<1> DEFINE R == {ss \in Nat \X Nat : ss[1] < ss[2]}
<1>1. OpToRel(<, Nat) = R
  BY DEF OpToRel
<1>2. IsWellFoundedOn(R, Nat)
  BY <1>1, NatLessThanWellFounded
<1>3. \E m \in T : \A k \in T : <<k, m>> \notin R
  <2> HIDE DEF R
  <2> QED
    BY <1>2, WFMin
<1>4. PICK m \in T : \A k \in T : <<k, m>> \notin R
  BY <1>3
<1>5. \A k \in T : m <= k
  <2> TAKE k \in T
  <2>1. <<k, m>> \notin R
    BY <1>4
  <2>2. k \in Nat /\ m \in Nat
    OBVIOUS
  <2> QED
    BY <2>1, <2>2
<1> QED
  BY <1>5

(* strnlen: the index of the first '\0', or n if there is none before it.  *)
LEMMA StrNLenIs ==
    ASSUME NEW s, NEW n \in Nat
    PROVE  /\ StrNLen(s, n) \in 0..n
           /\ StrNLen(s, n) < n => s[StrNLen(s, n)] = NUL
           /\ \A j \in 0..(StrNLen(s, n) - 1) : s[j] # NUL
<1> DEFINE T == {i \in 0..(n - 1) : s[i] = NUL}
<1>1. CASE T = {}
  <2>1. ~ \E i \in 0..(n - 1) : s[i] = NUL
    BY <1>1
  <2>2. StrNLen(s, n) = n
    BY <2>1 DEF StrNLen
  <2> QED
    BY <2>1, <2>2
<1>2. CASE T # {}
  <2>1. PICK m \in T : \A k \in T : m <= k
    <3>1. T \in SUBSET Nat
      OBVIOUS
    <3> HIDE DEF T
    <3> QED
      BY <1>2, <3>1, LeastNatural
  <2> DEFINE First(i) == s[i] = NUL /\ \A j \in 0..(i - 1) : s[j] # NUL
  <2>2. \E i \in 0..(n - 1) : s[i] = NUL
    BY <1>2
  <2>3. m \in 0..(n - 1) /\ First(m)
    BY <2>1
  <2>4. StrNLen(s, n) = CHOOSE i \in 0..(n - 1) : First(i)
    BY <2>2, Zenon DEF StrNLen
  <2> HIDE DEF First
  <2>5. StrNLen(s, n) \in 0..(n - 1) /\ First(StrNLen(s, n))
    BY <2>3, <2>4, Zenon
  <2> QED
    BY <2>5 DEF First
<1> QED
  BY <1>1, <1>2

(* Where the first '\0' is decides strnlen.                                *)
LEMMA FirstNul ==
    ASSUME NEW s, NEW n \in Nat, NEW k \in 0..n,
           k < n => s[k] = NUL, \A j \in 0..(k - 1) : s[j] # NUL
    PROVE  StrNLen(s, n) = k
<1> DEFINE l == StrNLen(s, n)
<1>1. /\ l \in 0..n
      /\ l < n => s[l] = NUL
      /\ \A j \in 0..(l - 1) : s[j] # NUL
  BY StrNLenIs
<1> HIDE DEF l
<1>2. ~ l < k /\ ~ k < l
  BY <1>1
<1>3. l = k
  BY <1>1, <1>2
<1> QED
  BY <1>3 DEF l

(* strnlen gives exactly the right length field.                           *)
LEMMA LengthIs ==
    ASSUME NEW s, NEW n \in Nat, NEW length \in Nat
    PROVE  StrNLen(s, n) = length <=> HasLength(s, length, n)
<1>1. StrNLen(s, n) = length => HasLength(s, length, n)
  BY StrNLenIs DEF HasLength
<1>2. HasLength(s, length, n) => StrNLen(s, n) = length
  <2> SUFFICES ASSUME HasLength(s, length, n) PROVE StrNLen(s, n) = length
    OBVIOUS
  <2>1. /\ length \in 0..n
        /\ length < n => s[length] = NUL
        /\ \A j \in 0..(length - 1) : s[j] # NUL
    BY DEF HasLength
  <2> QED
    BY <2>1, FirstNul
<1> QED
  BY <1>1, <1>2

-----------------------------------------------------------------------------
(* type0Ver.                                                               *)

(* A sum of type0Ver's errors is zero when there is none.                  *)
LEMMA Sum0IsZero ==
    ASSUME NEW A \in BOOLEAN, NEW B \in BOOLEAN, NEW D \in BOOLEAN
    PROVE  Add(A, LENMATCH) + Add(B, DNLEN33P) + Add(D, MESSLEN) = 0
           <=> ~ A /\ ~ B /\ ~ D
BY DEF Add, LENMATCH, DNLEN33P, MESSLEN

(* Nothing changes a message or the session's id, and the function of the  *)
(* message's type gives the code.                                          *)
VerifyInv ==
    /\ message \in Messages
    /\ sessionId \in Array(SID)
    /\ code # -1 => /\ message.type = 0 => code = Type0Ver(message)
                    /\ message.type = 3 => code = Type3Ver(message)
                    /\ message.type = 6 => code = Type6Ver(message, sessionId)

(* No message was verified yet.                                            *)
LEMMA InitVerify == Init => VerifyInv
BY DEF Init, VerifyInv

(* Verifying one keeps what is known of the buffer.                        *)
LEMMA VerifyStep == VerifyInv /\ [Next]_vvars => VerifyInv'
<1> SUFFICES ASSUME VerifyInv, [Next]_vvars PROVE VerifyInv'
  OBVIOUS
<1>1. UNCHANGED <<message, sessionId>>
  BY DEF Next, Verify0, Verify3, Verify6, vvars
<1>2. CASE Verify0
  BY <1>1, <1>2 DEF Verify0, VerifyInv
<1>3. CASE Verify3
  BY <1>1, <1>3 DEF Verify3, VerifyInv
<1>4. CASE Verify6
  BY <1>1, <1>4 DEF Verify6, VerifyInv
<1>5. CASE UNCHANGED vvars
  BY <1>5 DEF vvars, VerifyInv
<1> QED
  BY <1>2, <1>3, <1>4, <1>5 DEF Next

(* The kinds of messages.                                                  *)
LEMMA MessageTypes ==
    ASSUME message \in Messages
    PROVE  /\ message.type = 0 =>
                 message \in [type : {0}, lenOK : BOOLEAN,
                              dnLength : Length(DN), dn : Array(DN)]
           /\ message.type = 3 =>
                 message \in [type : {3}, lenOK : BOOLEAN,
                              sidLength : Length(SID), sid : Array(SID),
                              pathLength : Length(PATH), path : Array(PATH)]
           /\ message.type = 6 =>
                 message \in [type : {6}, lenOK : BOOLEAN,
                              sidLength : Length(SID), sid : Array(SID)]
BY DEF Messages

(* type0Ver accepts exactly the names with their length, and those that    *)
(* fill all but the last character whatever that one is, '\0' or not.      *)
THEOREM Accepts0 == Spec => []Accepted0Exactly
<1>1. VerifyInv => Accepted0Exactly
  <2> SUFFICES ASSUME VerifyInv, message.type = 0, code # -1
               PROVE  code = 0 <=>
                        /\ message.lenOK
                        /\ HasLength(message.dn, message.dnLength, DN)
    BY DEF Accepted0Exactly
  <2>1. /\ DN \in Nat
        /\ message.dnLength \in Nat
        /\ message.lenOK \in BOOLEAN
    BY VerifyAssumption, MessageTypes DEF VerifyInv, Length
  <2> DEFINE A == StrNLen(message.dn, DN) # message.dnLength
             B == message.dnLength > DN
             D == ~ message.lenOK
  <2>2. code = Add(A, LENMATCH) + Add(B, DNLEN33P) + Add(D, MESSLEN)
    BY DEF VerifyInv, Type0Ver
  <2>3. A \in BOOLEAN /\ B \in BOOLEAN /\ D \in BOOLEAN
    OBVIOUS
  <2>4. A <=> ~ HasLength(message.dn, message.dnLength, DN)
    BY <2>1, LengthIs
  <2>5. B => ~ HasLength(message.dn, message.dnLength, DN)
    BY <2>1 DEF HasLength
  <2>6. D <=> ~ message.lenOK
    OBVIOUS
  <2> HIDE DEF A, B, D
  <2>7. code = 0 <=> ~ A /\ ~ B /\ ~ D
    BY <2>2, <2>3, Sum0IsZero
  <2> QED
    BY <2>1, <2>4, <2>5, <2>6, <2>7
<1> QED
  BY <1>1, InitVerify, VerifyStep, PTL DEF Spec

-----------------------------------------------------------------------------
(* The session's id.                                                       *)

(* strncmp with an established session's id finds no difference only if    *)
(* all the characters it may look at are equal.                            *)
LEMMA EqualThroughout ==
    ASSUME NEW s, NEW n \in {SID, SID + 1}, Established(sessionId),
           StrNEqual(s, sessionId, n, SID)
    PROVE  \A i \in 0..(n - 1) : s[i] = sessionId[i]
<1> DEFINE T == {i \in 0..(n - 1) : s[i] # sessionId[i]}
<1>0. SID \in Nat
  BY VerifyAssumption
<1>1. T \in SUBSET Nat
  BY <1>0
<1>2. CASE T # {}
  <2>1. PICK m \in T : \A k \in T : m <= k
    <3> HIDE DEF T
    <3> QED
      BY <1>1, <1>2, LeastNatural
  <2>2. m \in 0..SID /\ m < n
    BY <1>0
  <2>3. \A j \in 0..(m - 1) : s[j] = sessionId[j]
    BY <1>0, <2>1, <2>2
  <2>4. \A j \in 0..(m - 1) : sessionId[j] # NUL
    BY <1>0, <2>2 DEF Established
  <2>5. s[m] = sessionId[m]
    BY <2>2, <2>3, <2>4 DEF StrNEqual
  <2> QED
    BY <2>5
<1> QED
  BY <1>2

(* MessageType3Handler accepts a message exactly when it names the session *)
(* in full, its header is right and its length fields are those of its     *)
(* strings.                                                                *)
THEOREM Accepts3 == Spec => []Accepted3Exactly
<1>1. VerifyInv => Accepted3Exactly
  <2> SUFFICES ASSUME VerifyInv, message.type = 3, code # -1,
                      Established(sessionId)
               PROVE  Accepted3 <=>
                        /\ message.lenOK
                        /\ \A i \in 0..(SID - 1) : message.sid[i] = sessionId[i]
                        /\ message.sidLength = SID
                        /\ HasLength(message.path, message.pathLength, PATH)
    BY DEF Accepted3Exactly
  <2> DEFINE Same == \A i \in 0..(SID - 1) : message.sid[i] = sessionId[i]
  <2>1. /\ SID \in Nat /\ PATH \in Nat
        /\ message.pathLength \in Nat /\ message.sidLength \in Nat
    BY VerifyAssumption, MessageTypes DEF VerifyInv, Length
  <2>2. StrNEqual(message.sid, sessionId, SID, SID) <=> Same
    <3>1. StrNEqual(message.sid, sessionId, SID, SID) => Same
      BY EqualThroughout
    <3>2. Same => StrNEqual(message.sid, sessionId, SID, SID)
      BY <2>1 DEF StrNEqual
    <3> QED
      BY <3>1, <3>2
  <2>3. code = 0 <=>
          /\ message.lenOK
          /\ StrNLen(message.sid, SID) = message.sidLength
          /\ StrNLen(message.path, PATH) = message.pathLength
    BY DEF VerifyInv, Type3Ver
  <2>4. Same => StrNLen(message.sid, SID) = SID
    <3> SUFFICES ASSUME Same PROVE StrNLen(message.sid, SID) = SID
      OBVIOUS
    <3>1. \A i \in 0..(SID - 1) : message.sid[i] # NUL
      BY <2>1 DEF Established
    <3> QED
      BY <2>1, <3>1, FirstNul
  <2>5. StrNLen(message.path, PATH) = message.pathLength
          <=> HasLength(message.path, message.pathLength, PATH)
    BY <2>1, LengthIs
  <2> HIDE DEF Same
  <2>6. Accepted3 <=>
          /\ message.lenOK
          /\ Same
          /\ message.sidLength = SID
          /\ HasLength(message.path, message.pathLength, PATH)
    BY <2>2, <2>3, <2>4, <2>5 DEF Accepted3
  <2> QED
    BY <2>6 DEF Same
<1> QED
  BY <1>1, InitVerify, VerifyStep, PTL DEF Spec

(* main's buffer is too small for a type 3 message: type3Ver's verdict     *)
(* does not depend on what lies behind it, for a path that ends within.    *)
THEOREM Truncation == Spec => []TruncationUnseen
<1>1. VerifyInv => TruncationUnseen
  <2> SUFFICES ASSUME VerifyInv, message.type = 3, code # -1,
                      EndsInBuffer(message),
                      NEW rest \in [KNOWN..PATH -> Letters \cup {NUL}]
               PROVE  Type3Ver(Behind(message, rest)) = code
    BY DEF TruncationUnseen
  <2>1. PATH \in Nat /\ KNOWN \in 1..PATH
    BY VerifyAssumption
  <2>2. message \in [type : {3}, lenOK : BOOLEAN,
                     sidLength : Length(SID), sid : Array(SID),
                     pathLength : Length(PATH), path : Array(PATH)]
    BY MessageTypes DEF VerifyInv
  <2> DEFINE b == Behind(message, rest)
             k == StrNLen(message.path, PATH)
  <2>3. /\ b.lenOK = message.lenOK
        /\ b.sid = message.sid /\ b.sidLength = message.sidLength
        /\ b.pathLength = message.pathLength
        /\ \A i \in 0..(KNOWN - 1) : b.path[i] = message.path[i]
    BY <2>1, <2>2 DEF Behind
  <2>4. /\ k \in 0..PATH
        /\ k < PATH => message.path[k] = NUL
        /\ \A j \in 0..(k - 1) : message.path[j] # NUL
    BY <2>1, StrNLenIs
  <2> HIDE DEF b, k
  <2>5. k < KNOWN
    BY <2>1, <2>4 DEF EndsInBuffer
  <2>6. StrNLen(b.path, PATH) = k
    BY <2>1, <2>3, <2>4, <2>5, FirstNul
  <2>7. Type3Ver(b) = Type3Ver(message)
    BY <2>3, <2>6 DEF Type3Ver, k
  <2> QED
    BY <2>7 DEF b, VerifyInv
<1> QED
  BY <1>1, InitVerify, VerifyStep, PTL DEF Spec

(* A sum of errors is zero when there is none.                             *)
LEMMA SumIsZero ==
    ASSUME NEW A \in BOOLEAN, NEW B \in BOOLEAN, NEW D \in BOOLEAN,
           NEW E \in BOOLEAN, NEW F \in BOOLEAN, NEW G \in BOOLEAN
    PROVE    Add(A, DNLEN33P) + Add(B, SID_MISMATCH) + Add(D, LENMATCH)
           + Add(E, DNLEN33P) + Add(F, NONULL) + Add(G, MESSLEN) = 0
           <=> ~ A /\ ~ B /\ ~ D /\ ~ E /\ ~ F /\ ~ G
BY DEF Add, LENMATCH, DNLEN33P, NONULL, MESSLEN, SID_MISMATCH

(* Arrays with the same characters are the same.                           *)
LEMMA SameArray ==
    ASSUME NEW s \in Array(SID), NEW t \in Array(SID),
           \A i \in 0..SID : s[i] = t[i]
    PROVE  s = t
<1>1. /\ s = [i \in 0..SID |-> s[i]]
      /\ t = [i \in 0..SID |-> t[i]]
  BY Zenon DEF Array
<1> QED
  BY <1>1, Zenon

(* MessageType6Handler: of the messages with the session's id it accepts   *)
(* those whose length fields are right, and no message with another id.    *)
THEOREM Accepts6 == Spec => []Accepted6Exactly
<1>1. VerifyInv => Accepted6Exactly
  <2> SUFFICES ASSUME VerifyInv, message.type = 6, code # -1,
                      Established(sessionId)
               PROVE  Accepted6 <=> /\ message.sid = sessionId
                                    /\ message.sidLength = SID
                                    /\ message.lenOK
    BY DEF Accepted6Exactly
  <2>1. SID \in Nat
    BY VerifyAssumption
  <2>2. /\ message.lenOK \in BOOLEAN
        /\ message.sid \in Array(SID) /\ sessionId \in Array(SID)
        /\ message.sidLength \in Nat
    BY <2>1, MessageTypes, VerifyAssumption DEF VerifyInv, Length
  <2>3. StrEqual(message.sid, sessionId, SID) <=> message.sid = sessionId
    <3>1. ASSUME StrEqual(message.sid, sessionId, SID)
          PROVE  message.sid = sessionId
      <4>1. \A i \in 0..SID : message.sid[i] = sessionId[i]
        BY <2>1, <3>1, EqualThroughout DEF StrEqual
      <4> QED
        BY <2>2, <4>1, SameArray
    <3>2. message.sid = sessionId => StrEqual(message.sid, sessionId, SID)
      BY DEF StrEqual, StrNEqual
    <3> QED
      BY <3>1, <3>2
  <2>4. ASSUME message.sid = sessionId
        PROVE  code = 0 <=> message.sidLength = SID /\ message.lenOK
    <3>1. /\ StrNLen(message.sid, SID) = SID
          /\ StrNLen(message.sid, SID + 1) = SID
      BY <2>1, <2>4, FirstNul DEF Established
    <3> DEFINE A == StrNLen(message.sid, SID) # message.sidLength
               B == ~ StrNEqual(sessionId, message.sid, message.sidLength, SID)
               D == message.sidLength # StrNLen(message.sid, SID + 1)
               E == message.sidLength > SID
               F == StrNLen(message.sid, SID + 1) = SID + 1
               G == ~ message.lenOK
    <3>2. code =   Add(A, DNLEN33P) + Add(B, SID_MISMATCH) + Add(D, LENMATCH)
                 + Add(E, DNLEN33P) + Add(F, NONULL) + Add(G, MESSLEN)
      BY DEF VerifyInv, Type6Ver
    <3>3. ~ B
      BY <2>4 DEF StrNEqual
    <3>4. /\ A <=> message.sidLength # SID
          /\ D <=> message.sidLength # SID
          /\ E => message.sidLength # SID
          /\ ~ F
          /\ G <=> ~ message.lenOK
      BY <2>1, <2>2, <3>1
    <3>5. /\ A \in BOOLEAN /\ B \in BOOLEAN /\ D \in BOOLEAN
          /\ E \in BOOLEAN /\ F \in BOOLEAN /\ G \in BOOLEAN
      OBVIOUS
    <3> HIDE DEF A, B, D, E, F, G
    <3>6. code = 0 <=> ~ A /\ ~ B /\ ~ D /\ ~ E /\ ~ F /\ ~ G
      BY <3>2, <3>5, SumIsZero
    <3> QED
      BY <2>2, <3>3, <3>4, <3>6
  <2> QED
    BY <2>3, <2>4 DEF Accepted6
<1> QED
  BY <1>1, InitVerify, VerifyStep, PTL DEF Spec
=============================================================================
