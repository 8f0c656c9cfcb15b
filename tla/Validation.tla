----------------------------- MODULE Validation -----------------------------
(***************************************************************************)
(* The value objects Username, Email and Phone, the password policy and    *)
(* the validators of sign-up and sign-in: what a client may type, and what *)
(* the service keeps of it.                                                *)
(*                                                                         *)
(* Text is a sequence of characters of a small alphabet that has a member  *)
(* of every class the code tells apart.  The lengths are constants.        *)
(***************************************************************************)
EXTENDS Naturals, Sequences, FiniteSets

CONSTANTS
  UsernameLength,  \* the lengths a username may have, 3..32 in the code
  EmailMaxLength,  \* Email::kMaxLength
  PhoneDigits,     \* the digits a phone number may have, 8..15 in the code
  MinPasswordLength, MaxPasswordLength,        \* PasswordPolicy
  RequireEmail, RequirePhone, RequireContact,  \* SignUpPolicy
  CharIsSigned,    \* whether the platform's char is signed
  None             \* an absent optional

\* The result of a constructor that threw std::invalid_argument.
Invalid == <<"invalid">>

LowerOf == [A |-> "a", B |-> "b", C |-> "c"]
Upper == DOMAIN LowerOf
Lower == {LowerOf[c] : c \in Upper}
Digits == {"0", "1", "2"}
Control == {"\t", "\n", "DEL"}
HighByte == {"0xC3"}  \* bytes 0x80..0xFF
-----------------------------------------------------------------------------
(* common/strings                                                          *)

IsAsciiSpace(c) == c \in {" ", "\t", "\n"}

TrimView(s) ==
  LET kept == {i \in DOMAIN s : ~IsAsciiSpace(s[i])}
  IN  IF kept = {}
        THEN <<>>
        ELSE SubSeq(s, CHOOSE i \in kept : \A j \in kept : i <= j,
                       CHOOSE i \in kept : \A j \in kept : j <= i)

ToLowerAscii(c) == IF c \in Upper THEN LowerOf[c] ELSE c

ToLowerAsciiInPlace(s) == [i \in DOMAIN s |-> ToLowerAscii(s[i])]
-----------------------------------------------------------------------------
(* The value objects: the normal form of what was typed, or Invalid.       *)

NormalizeUsername(raw) == ToLowerAsciiInPlace(TrimView(raw))

Username(raw) ==
  LET value == NormalizeUsername(raw)
  IN  IF /\ Len(value) \in UsernameLength
         /\ \A i \in DOMAIN value : value[i] \in Lower \cup Digits \cup {"_"}
         /\ value[1] # "_" /\ value[Len(value)] # "_"
        THEN value ELSE Invalid

NormalizeEmail(raw) == ToLowerAsciiInPlace(TrimView(raw))

\* c <= ' ' on a char: bytes from 0x80 are negative where char is signed.
IsAsciiControlOrSpace(c) ==
  \/ IsAsciiSpace(c) \/ c \in Control
  \/ CharIsSigned /\ c \in HighByte

\* One '@' with something before it, and after it a domain that has a '.'
\* and neither starts nor ends with one.
Email(raw) ==
  LET value == NormalizeEmail(raw)
      n     == Len(value)
      ats   == {i \in 1..n : value[i] = "@"}
  IN  IF /\ n \in 1..EmailMaxLength
         /\ \E at \in 2..(n - 1) :
              /\ ats = {at}
              /\ \E i \in (at + 1)..n : value[i] = "."
              /\ value[at + 1] # "." /\ value[n] # "."
         /\ \A i \in 1..n : ~IsAsciiControlOrSpace(value[i])
        THEN value ELSE Invalid

IsFormattingChar(c) == c \in {" ", "-", "(", ")", "\t"}

NormalizePhone(raw) ==
  LET Kept(c) == ~IsFormattingChar(c) IN SelectSeq(TrimView(raw), Kept)

Phone(raw) ==
  LET value == NormalizePhone(raw)
  IN  IF /\ value # <<>> /\ value[1] = "+"
         /\ Len(value) - 1 \in PhoneDigits
         /\ \A i \in 2..Len(value) : value[i] \in Digits
        THEN value ELSE Invalid
-----------------------------------------------------------------------------
(* The validators: the normalised input, or None when they throw.          *)

\* At least three of: lower case, upper case, digit, anything else.
ValidPassword(password) ==
  LET has   == {password[i] : i \in DOMAIN password}
      other == has \ (Lower \cup Upper \cup Digits)
  IN  /\ Len(password) \in MinPasswordLength..MaxPasswordLength
      /\ has \cap Control = {}
      /\ Cardinality({class \in {1, 2, 3, 4} :
           <<has \cap Lower, has \cap Upper, has \cap Digits, other>>[class]
             # {}}) >= 3

\* SignUpValidator::ValidateAndNormalize; a field that was not sent stays
\* absent.
ValidateSignUp(cmd) ==
  LET input == [username |-> Username(cmd.username),
                email |-> IF cmd.email = None THEN None ELSE Email(cmd.email),
                phone |-> IF cmd.phone = None THEN None ELSE Phone(cmd.phone)]
  IN  IF \/ RequireEmail /\ cmd.email = None
         \/ RequirePhone /\ cmd.phone = None
         \/ RequireContact /\ cmd.email = None /\ cmd.phone = None
         \/ ~ValidPassword(cmd.password)
         \/ Invalid \in {input.username, input.email, input.phone}
        THEN None ELSE input

\* Mutant: the longest password sign-up accepts is too long to sign in.
ValidateSignInBelowMax(cmd) ==
  LET By(field, value) ==
        IF value = Invalid THEN None ELSE [by |-> field, value |-> value]
  IN  IF Len(cmd.password) \notin 1..(MaxPasswordLength - 1) THEN None
      ELSE IF cmd.username # None THEN By("username", Username(cmd.username))
      ELSE IF cmd.email # None THEN By("email", Email(cmd.email))
      ELSE IF cmd.phone # None THEN By("phone", Phone(cmd.phone))
      ELSE None

\* SignInValidator::ValidateAndNormalize: the first field sent is the one
\* looked up, and names the rate limiter's scope.
ValidateSignIn(cmd) ==
  LET By(field, value) ==
        IF value = Invalid THEN None ELSE [by |-> field, value |-> value]
  IN  IF Len(cmd.password) \notin 1..MaxPasswordLength THEN None
      ELSE IF cmd.username # None THEN By("username", Username(cmd.username))
      ELSE IF cmd.email # None THEN By("email", Email(cmd.email))
      ELSE IF cmd.phone # None THEN By("phone", Phone(cmd.phone))
      ELSE None

\* The sign-in of a client that sends one field of cmd with its password.
Alone(cmd, field) ==
  [username |-> IF field = "username" THEN cmd.username ELSE None,
   email |-> IF field = "email" THEN cmd.email ELSE None,
   phone |-> IF field = "phone" THEN cmd.phone ELSE None,
   password |-> cmd.password]
=============================================================================
