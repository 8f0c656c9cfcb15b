----------------------------- MODULE HttpErrors -----------------------------
(***************************************************************************)
(* The exceptions of the services, the calls that throw them, and the HTTP *)
(* answers they become.                                                    *)
(***************************************************************************)
EXTENDS Naturals, Sequences

(* The exceptions, by the header that declares them.                       *)

SignUpErrors ==
  {"SignUpValidation", "TooManySignUpAttempts", "UsernameTaken", "EmailTaken",
   "PhoneTaken"}

SignInErrors ==
  {"SignInValidation", "TooManySignInAttempts", "InvalidCredentials",
   "EmailNotVerified"}

VerifyEmailErrors ==
  {"UserNotFound", "InvalidCode", "CodeExpired", "AlreadyVerified",
   "TooManyVerificationAttempts"}

PasswordResetErrors ==
  {"PasswordResetValidation", "TooManyPasswordResetAttempts",
   "InvalidPasswordResetToken", "PasswordResetExpired"}

ChangePasswordErrors == {"ChangePasswordValidation", "InvalidCurrentPassword"}

AccessTokenErrors ==
  {"MissingAccessToken", "InvalidAccessToken", "AuthSessionNotFound",
   "AuthSessionRevoked", "AuthSessionExpired", "AuthUserNotFound"}

RefreshErrors ==
  {"InvalidRefreshToken", "RefreshSessionNotFound", "RefreshSessionRevoked",
   "RefreshTokenReuseDetected", "RefreshSessionExpired"}

\* Mutant: the exceptions do not derive from the classes the mapper names.
BasesFlat(error) == {error}

\* The classes an exception is an instance of, of those the mapper names.
Bases(error) ==
  {error} \cup
  (CASE error \in VerifyEmailErrors -> {"VerifyEmailError"}
     [] error \in AccessTokenErrors -> {"AccessTokenError"}
     [] error \in RefreshErrors     -> {"RefreshError"}
     [] OTHER -> {})

\* TryMapAuthError: the dynamic_casts in the order they are tried.
AuthErrorTable ==
  <<<<"SignUpValidation", 400>>, <<"TooManySignUpAttempts", 429>>,
    <<"UsernameTaken", 409>>, <<"EmailTaken", 409>>, <<"PhoneTaken", 409>>,
    <<"SignInValidation", 400>>, <<"InvalidCredentials", 401>>,
    <<"EmailNotVerified", 403>>, <<"TooManySignInAttempts", 429>>,
    <<"UserNotFound", 404>>, <<"InvalidCode", 400>>,
    <<"TooManyVerificationAttempts", 429>>, <<"CodeExpired", 410>>,
    <<"VerifyEmailError", 400>>,
    <<"PasswordResetValidation", 400>>, <<"TooManyPasswordResetAttempts", 429>>,
    <<"PasswordResetExpired", 410>>, <<"InvalidPasswordResetToken", 400>>,
    <<"MissingAccessToken", 401>>, <<"InvalidCurrentPassword", 401>>,
    <<"ChangePasswordValidation", 400>>, <<"AccessTokenError", 401>>,
    <<"SessionForbidden", 403>>, <<"SessionNotFound", 404>>,
    <<"RefreshError", 401>>>>

\* The first class the exception is an instance of; 500 if there is none: the
\* handler rethrows and the server answers.
AuthErrorResponse(error) ==
  LET hits == {i \in DOMAIN AuthErrorTable : AuthErrorTable[i][1] \in Bases(error)}
  IN  IF hits = {} THEN 500
      ELSE AuthErrorTable[CHOOSE i \in hits : \A j \in hits : i <= j][2]
-----------------------------------------------------------------------------
\* What the service call of an endpoint without a token throws.
Throws ==
  [sign_up       |-> SignUpErrors,
   sign_in       |-> SignInErrors,
   verify_email  |-> VerifyEmailErrors,
   resend        |-> {"TooManyVerificationAttempts"},
   reset_request |-> {"TooManyPasswordResetAttempts"},
   reset_confirm |-> PasswordResetErrors]
=============================================================================
