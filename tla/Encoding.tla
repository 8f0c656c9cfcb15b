------------------------------ MODULE Encoding ------------------------------
(***************************************************************************)
(* The encodings of infra/security: base64url, written twice in the code   *)
(* (random_token_generator.cpp for reset tokens, jwt_cpp_token_provider.cpp*)
(* for the published key), the digits of a verification code, and the text *)
(* its HMAC is taken over.                                                 *)
(*                                                                         *)
(* A character of base64 is its index: 0..61 the letters and digits, 62    *)
(* and 63 the url alphabet's - and _, 64 and 65 the standard alphabet's +  *)
(* and /, 66 the padding.                                                  *)
(***************************************************************************)
EXTENDS Integers, Sequences, FiniteSets

Bytes == 0..255

\* A byte past the end of the input counts as 0.
ByteAt(bytes, i) == IF i \in DOMAIN bytes THEN bytes[i] ELSE 0

\* The 24 bits from byte i on, and the groups of six of them: >> 18, 12, 6, 0.
Value(bytes, i) ==
    ByteAt(bytes, i) * 65536 + ByteAt(bytes, i + 1) * 256 + ByteAt(bytes, i + 2)

Shift == <<262144, 4096, 64, 1>>

Sextet(value, k) == (value \div Shift[k]) % 64

\* The character at place j of the groups of four.
CharAt(bytes, j) ==
    Sextet(Value(bytes, 3 * ((j - 1) \div 4) + 1), ((j - 1) % 4) + 1)

-----------------------------------------------------------------------------
(***************************************************************************)
(* RandomTokenGenerator.                                                   *)
(***************************************************************************)
\* Four characters for three bytes; two for a last one, three for a last two.
EncodedLength(n) == 4 * (n \div 3) + (IF n % 3 = 0 THEN 0 ELSE (n % 3) + 1)

\* Mutant: a last group of one byte is written as if it had two.
Base64UrlNoPaddingLonger(bytes) ==
    [j \in 1..(4 * (Len(bytes) \div 3) + (IF Len(bytes) % 3 = 0 THEN 0 ELSE 3)) |->
        CharAt(bytes, j)]

Base64UrlNoPadding(bytes) ==
    [j \in 1..EncodedLength(Len(bytes)) |-> CharAt(bytes, j)]

-----------------------------------------------------------------------------
(***************************************************************************)
(* JwtCppTokenProvider: n and e of the published key.                      *)
(***************************************************************************)
\* OpenSSL's encoder: groups of four, padded, in the standard alphabet.
EVP_EncodeBlock(bytes) ==
    LET Standard(c) == IF c = 62 THEN 64 ELSE IF c = 63 THEN 65 ELSE c
    IN  [j \in 1..(4 * ((Len(bytes) + 2) \div 3)) |->
            IF j > EncodedLength(Len(bytes)) THEN 66
            ELSE Standard(CharAt(bytes, j))]

\* The text without the padding at its end.
WithoutPadding(text) ==
    LET kept == {i \in DOMAIN text : text[i] # 66}
    IN  SubSeq(text, 1, CHOOSE n \in 0..Len(text) :
                            n \in kept \cup {0} /\ \A i \in kept : i <= n)

Base64UrlEncode(bytes) ==
    LET Url(c) == IF c = 64 THEN 62 ELSE IF c = 65 THEN 63 ELSE c
        encoded == EVP_EncodeBlock(bytes)
    IN  WithoutPadding([i \in DOMAIN encoded |-> Url(encoded[i])])

-----------------------------------------------------------------------------
(***************************************************************************)
(* RandomVerificationCodeGenerator: the bytes above the largest multiple   *)
(* of ten are skipped, and buffers are drawn until the code is long enough.*)
(***************************************************************************)
kMaxUniformDigitByte == 249

\* The loop over one buffer: after[i] is the code after its first i bytes.
Fill(length, code, buffer) ==
    LET after[i \in 0..Len(buffer)] ==
            IF i = 0 THEN code
            ELSE LET c == after[i - 1]
                 IN  IF buffer[i] > kMaxUniformDigitByte \/ Len(c) >= length THEN c
                     ELSE Append(c, buffer[i] % 10)
    IN  after[Len(buffer)]

\* The loop over the buffers; one drawn after the code is full changes nothing.
Generate(length, buffers) ==
    LET code[b \in 0..Len(buffers)] ==
            IF b = 0 THEN <<>> ELSE Fill(length, code[b - 1], buffers[b])
    IN  code[Len(buffers)]

-----------------------------------------------------------------------------
(***************************************************************************)
(* HmacSha256VerificationCodeHasher: the text that is hashed.              *)
(***************************************************************************)
Nul == 0
kDomain == <<1>>

BuildScopedValue(user_id, code) ==
    kDomain \o <<Nul>> \o user_id \o <<Nul>> \o code

-----------------------------------------------------------------------------
(***************************************************************************)
(* What the encodings must be.                                             *)
(***************************************************************************)
\* The bytes a base64url text stands for.
Decode(chars) ==
    LET Char(i) == IF i \in DOMAIN chars THEN chars[i] ELSE 0
        Group(i) == LET g == 4 * ((i - 1) \div 3)
                    IN  Char(g + 1) * 262144 + Char(g + 2) * 4096
                          + Char(g + 3) * 64 + Char(g + 4)
    IN  [i \in 1..((Len(chars) * 3) \div 4) |->
            (Group(i) \div <<65536, 256, 1>>[((i - 1) % 3) + 1]) % 256]

Lossless(bytes) ==
    /\ Decode(Base64UrlNoPadding(bytes)) = bytes
    /\ Base64UrlEncode(bytes) = Base64UrlNoPadding(bytes)

\* Each digit comes from equally many values of a random byte.
Uniform ==
    \A d \in 0..9 :
        Cardinality({b \in Bytes : Generate(1, << <<b>> >>) = <<d>>}) = 25

\* The bytes that become digits, up to byte i of buffer b, as places.
UsableUpTo(buffers, b, i) ==
    {p \in UNION {{c} \X DOMAIN buffers[c] : c \in DOMAIN buffers} :
        /\ buffers[p[1]][p[2]] <= kMaxUniformDigitByte
        /\ p[1] < b \/ (p[1] = b /\ p[2] <= i)}

\* The k-th digit is the k-th byte that is no higher than the limit, in the
\* order they are drawn, and the code ends at its length.
Exact(length, buffers) ==
    LET code == Generate(length, buffers)
        usable == UsableUpTo(buffers, Len(buffers) + 1, 0)
        Rank(p) == Cardinality(UsableUpTo(buffers, p[1], p[2]))
    IN  /\ Len(code) = IF Cardinality(usable) < length THEN Cardinality(usable)
                       ELSE length
        /\ \A p \in usable :
              Rank(p) <= length => code[Rank(p)] = buffers[p[1]][p[2]] % 10

\* Two users never hash the same text, whatever codes they enter.
Scoped(user_id, code, other_id, other) ==
    BuildScopedValue(user_id, code) = BuildScopedValue(other_id, other)
    => user_id = other_id /\ code = other
=============================================================================
