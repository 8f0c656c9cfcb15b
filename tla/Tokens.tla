------------------------------- MODULE Tokens -------------------------------
(***************************************************************************)
(* JwtCppTokenProvider: the access and refresh tokens.  A token is the     *)
(* record of its claims and of the key that signed it; key stands for the  *)
(* key pair together with its id, and issuer and audience are the same in  *)
(* every deployment.                                                       *)
(***************************************************************************)
EXTENDS Naturals

CONSTANTS
  AccessTtl, RefreshTtl,  \* JwtConfig::access_ttl, refresh_ttl
  NoClaim                 \* a claim the token does not have

GenerateToken(key, user, sid, fam, type, ttl, at) ==
  [key |-> key, sub |-> user, sid |-> sid, fam |-> fam, type |-> type,
   exp |-> at + ttl]

GenerateAccessToken(key, user, sid, at) ==
  GenerateToken(key, user, sid, NoClaim, "access", AccessTtl, at)

GenerateRefreshToken(key, user, sid, fam, at) ==
  GenerateToken(key, user, sid, fam, "refresh", RefreshTtl, at)

GenerateTokens(key, user, sid, fam, at) ==
  [access |-> GenerateAccessToken(key, user, sid, at),
   refresh |-> GenerateRefreshToken(key, user, sid, fam, at)]

\* jwt::decode with verification: the signature, the issuer, the audience and
\* the expiry, which is the last moment the token is good.
Decodes(token, key, at) == token.key = key /\ at <= token.exp

\* After decoding, the key id, issuer and audience once more, and the type.
ParseRefreshToken(token, key, at) == Decodes(token, key, at) /\ token.type = "refresh"

\* Mutant: the type claim is not looked at.
ParseAccessTokenOfAnyType(token, key, at) == Decodes(token, key, at)

ParseAccessToken(token, key, at) == Decodes(token, key, at) /\ token.type = "access"
=============================================================================
