----------------------------- MODULE UsersProofs -----------------------------
(***************************************************************************)
(* Proofs about Users for every alphabet, every bound on the length of a  *)
(* name and every database size: the state keeps its type, and            *)
(* validateUserName accepts every name the data model calls a Nickname,   *)
(* of any length, not only the names of up to two characters TLC tries.   *)
(***************************************************************************)
EXTENDS Users, TLAPS

USE UsersAssumption

\* validateUserName's checks are each implied by Nickname: the name is not
\* empty, does not start with '#' or '!', and TrimSpace leaves it as it is;
\* so the CASE falls through to "ok".  Printability is not needed.
LEMMA ValidateAcceptsNickname ==
    ASSUME NEW s, Nickname(s)
    PROVE  ValidateUserName(s) = "ok"
BY DEF Nickname, ValidateUserName

\* Every answer of validateUserName is one of its five outcomes.
LEMMA ValidateAnswers ==
    ASSUME NEW s
    PROVE  ValidateUserName(s) \in Answers
BY DEF ValidateUserName, Answers

\* The empty name, the one the hub starts from, is a name a client can send.
LEMMA EmptyString == <<>> \in Strings
<1>1. <<>> \in [1..0 -> Chars]
    OBVIOUS
<1>2. 0 \in 0..MaxLen
    OBVIOUS
<1>3. QED
    BY <1>1, <1>2 DEF Strings

\* Validating a name and registering one keep the state well typed.
LEMMA UsersTypeStep == TypeOK /\ [Next]_vars => TypeOK'
<1> SUFFICES ASSUME TypeOK, [Next]_vars PROVE TypeOK'
    OBVIOUS
<1>1. ASSUME NEW s \in Strings, Validate(s) PROVE TypeOK'
    BY <1>1, ValidateAnswers DEF Validate, TypeOK
<1>2. ASSUME NEW s \in Strings, NEW p \in Passwords, RegisterUser(s, p)
      PROVE TypeOK'
    <2>1. DOMAIN users' = DOMAIN users \cup {s}
        BY <1>2 DEF RegisterUser, DBRegisterUser
    <2>2. \A n \in DOMAIN users' : users'[n] \in Passwords
        BY <1>2, <2>1 DEF RegisterUser, DBRegisterUser, TypeOK
    <2>3. QED
        BY <1>2, <2>1, <2>2 DEF RegisterUser, TypeOK
<1>3. CASE UNCHANGED vars
    BY <1>3 DEF vars, TypeOK
<1>4. QED
    BY <1>1, <1>2, <1>3 DEF Next

\* The user state keeps its type: the database maps names a client can
\* send to passwords, and the last name validated and its answer are a
\* name and one of validateUserName's outcomes.
THEOREM UsersTypeCorrect == Spec => []TypeOK
<1>1. Init => TypeOK
    BY EmptyString DEF Init, TypeOK, Answers
<1>2. QED
    BY <1>1, UsersTypeStep, PTL DEF Spec

\* validateUserName, which gates every NICK the IRC handshake reads, turns
\* away no name the data model calls a Nickname, however long the name and
\* whatever the alphabet; RegisterUser never touches the verdict.
THEOREM NicknamesAccepted == Spec => []NicknameAccepted
<1>1. Init => NicknameAccepted
    BY DEF Init, NicknameAccepted, Nickname
<1>2. NicknameAccepted /\ [Next]_vars => NicknameAccepted'
    <2> SUFFICES ASSUME NicknameAccepted, [Next]_vars
                 PROVE  NicknameAccepted'
        OBVIOUS
    <2>1. ASSUME NEW s \in Strings, Validate(s) PROVE NicknameAccepted'
        BY <2>1, ValidateAcceptsNickname DEF Validate, NicknameAccepted
    <2>2. ASSUME NEW s \in Strings, NEW p \in Passwords, RegisterUser(s, p)
          PROVE NicknameAccepted'
        BY <2>2 DEF RegisterUser, NicknameAccepted
    <2>3. CASE UNCHANGED vars
        BY <2>3 DEF vars, NicknameAccepted
    <2>4. QED
        BY <2>1, <2>2, <2>3 DEF Next
<1>3. QED
    BY <1>1, <1>2, PTL DEF Spec

=============================================================================
