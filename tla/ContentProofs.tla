--------------------------- MODULE ContentProofs ----------------------------
(***************************************************************************)
(* What is proved of Encoding and Mail, for texts and byte strings of any  *)
(* length: base64url loses nothing and both of its encoders agree, a code  *)
(* is made of the first bytes that may become digits, codes of two users   *)
(* hash different texts, and an accepted mail is well formed.              *)
(*                                                                         *)
(* The loops of the code are recursive functions.  A loop has the values   *)
(* its equation says because some function satisfies the equation (Loops); *)
(* what it computes follows by induction over a set of numbers.            *)
(***************************************************************************)
EXTENDS ServiceContent, SequenceTheorems, FiniteSetTheorems,
        WellFoundedInduction, TLAPS

-----------------------------------------------------------------------------
\* What is where in a concatenation.
LEMMA Concatenated ==
  ASSUME NEW S, NEW s \in Seq(S), NEW t \in Seq(S)
  PROVE  /\ s \o t \in Seq(S)
         /\ Len(s \o t) = Len(s) + Len(t)
         /\ \A i \in 1..Len(s) : (s \o t)[i] = s[i]
         /\ \A i \in 1..Len(t) : (s \o t)[Len(s) + i] = t[i]
<1>1. Len(s) \in Nat /\ Len(t) \in Nat
  BY LenProperties
<1> QED
  BY <1>1, ConcatProperties

-----------------------------------------------------------------------------
(***************************************************************************)
(* base64url.                                                              *)
(***************************************************************************)
IsByte(x) == x \in Nat /\ x < 256

\* A group of 24 bits, and how one is packed from bytes and from groups of six.
IsGroup(v) == v \in Nat /\ v < 16777216

Packed(a, b, c) == a * 65536 + b * 256 + c

Joined(v, w, x, y) == v * 262144 + w * 4096 + x * 64 + y

\* The groups of six, and the three bytes, of a group.
LEMMA Sextets ==
  ASSUME NEW v
  PROVE  /\ Sextet(v, 1) = (v \div 262144) % 64 /\ Sextet(v, 2) = (v \div 4096) % 64
         /\ Sextet(v, 3) = (v \div 64) % 64 /\ Sextet(v, 4) = (v \div 1) % 64
BY SMT DEF Sextet, Shift

\* A group of 24 bits is its four groups of six, and these are characters.
LEMMA FourSextets ==
  ASSUME NEW v, IsGroup(v)
  PROVE  /\ v = Joined(Sextet(v, 1), Sextet(v, 2), Sextet(v, 3), Sextet(v, 4))
         /\ \A k \in 1..4 : Sextet(v, k) \in Nat /\ Sextet(v, k) < 64
<1>1. v = ((v \div 262144) % 64) * 262144 + ((v \div 4096) % 64) * 4096
            + ((v \div 64) % 64) * 64 + ((v \div 1) % 64)
  BY SMT DEF IsGroup
<1>2. v = Joined(Sextet(v, 1), Sextet(v, 2), Sextet(v, 3), Sextet(v, 4))
  BY <1>1, Sextets, SMT DEF Joined
<1>3. /\ Sextet(v, 1) \in Nat /\ Sextet(v, 1) < 64
      /\ Sextet(v, 2) \in Nat /\ Sextet(v, 2) < 64
      /\ Sextet(v, 3) \in Nat /\ Sextet(v, 3) < 64
      /\ Sextet(v, 4) \in Nat /\ Sextet(v, 4) < 64
  BY Sextets, SMT DEF IsGroup
<1> QED
  BY <1>2, <1>3, SMT

\* Three bytes are found again in their 24 bits.
LEMMA ThreeBytes ==
  ASSUME NEW a, IsByte(a), NEW b, IsByte(b), NEW c, IsByte(c)
  PROVE  LET v == Packed(a, b, c)
         IN  /\ IsGroup(v)
             /\ (v \div 65536) % 256 = a /\ (v \div 256) % 256 = b /\ (v \div 1) % 256 = c
<1> DEFINE v == Packed(a, b, c)
<1>1. IsGroup(v)
  BY SMT DEF IsByte, IsGroup, Packed
<1>2. (v \div 65536) % 256 = a /\ (v \div 256) % 256 = b /\ (v \div 1) % 256 = c
  BY SMT DEF IsByte, Packed
<1> QED
  BY <1>1, <1>2, SMT

\* Missing bytes leave no bits in the groups of six that are not written.
LEMMA MissingBytes ==
  ASSUME NEW a, IsByte(a), NEW b, IsByte(b)
  PROVE  Sextet(Packed(a, b, 0), 4) = 0 /\ Sextet(Packed(a, 0, 0), 3) = 0
<1>1. ((a * 65536 + b * 256 + 0) \div 1) % 64 = 0
  BY SMT DEF IsByte
<1>2. ((a * 65536 + 0 * 256 + 0) \div 64) % 64 = 0
  BY SMT DEF IsByte
<1> QED
  BY <1>1, <1>2, Sextets, SMT DEF Packed

\* A byte is below 256.
LEMMA ByteBound ==
  ASSUME NEW x \in Bytes
  PROVE  IsByte(x)
<1>1. PICK m \in Nat : m = 255
  BY SMT
<1>2. x \in 0..m
  BY <1>1, Zenon DEF Bytes
<1> QED
  BY <1>1, <1>2, SMT DEF IsByte

\* So is the 0 past the end.
LEMMA ByteOf ==
  ASSUME NEW bytes \in Seq(Bytes), NEW i
  PROVE  IsByte(ByteAt(bytes, i))
<1>1. CASE i \in DOMAIN bytes
  <2>1. bytes[i] \in Bytes
    BY <1>1, ElementOfSeq, LenProperties, Zenon
  <2> QED
    BY <1>1, <2>1, ByteBound, Zenon DEF ByteAt
<1>2. CASE i \notin DOMAIN bytes
  BY <1>2, SMT DEF ByteAt, IsByte
<1> QED
  BY <1>1, <1>2, Zenon

\* Places, by group of three bytes or four characters.
LEMMA Places ==
  ASSUME NEW g \in Nat, NEW k \in 1..4
  PROVE  ((4 * g + k) - 1) \div 4 = g /\ (((4 * g + k) - 1) % 4) + 1 = k
BY SMT

\* The group of three that byte i is in, and its place there.
LEMMA BytePlaces ==
  ASSUME NEW i \in Nat, i >= 1
  PROVE  /\ (i - 1) \div 3 \in Nat
         /\ (i - 1) % 3 \in 0..2
         /\ i = 3 * ((i - 1) \div 3) + ((i - 1) % 3) + 1
BY SMT

\* How long the text of n bytes is, by what n leaves when divided by three.
LEMMA Lengths ==
  ASSUME NEW n \in Nat
  PROVE  /\ EncodedLength(n) \in Nat
         /\ (EncodedLength(n) * 3) \div 4 = n
         /\ EncodedLength(n) <= 4 * ((n + 2) \div 3)
         /\ (n + 2) \div 3 \in Nat
         /\ \A g \in Nat : 3 * g < n =>
              \/ 4 * g + 4 <= EncodedLength(n)
              \/ n = 3 * g + 1 /\ EncodedLength(n) = 4 * g + 2
              \/ n = 3 * g + 2 /\ EncodedLength(n) = 4 * g + 3
<1> DEFINE q == n \div 3
           r == n % 3
<1>1. q \in Nat /\ r \in 0..2 /\ n = 3 * q + r
  BY SMT
<1>2. EncodedLength(n) = 4 * q + (IF r = 0 THEN 0 ELSE r + 1)
  BY Zenon DEF EncodedLength
<1>3. (n + 2) \div 3 = q + (IF r = 0 THEN 0 ELSE 1)
  BY SMT
<1> HIDE DEF q, r
<1>4. EncodedLength(n) \in Nat /\ (EncodedLength(n) * 3) \div 4 = n
  BY <1>1, <1>2, SMT
<1>5. EncodedLength(n) <= 4 * ((n + 2) \div 3) /\ (n + 2) \div 3 \in Nat
  BY <1>1, <1>2, <1>3, SMT
<1>6. ASSUME NEW g \in Nat, 3 * g < n
      PROVE  \/ 4 * g + 4 <= EncodedLength(n)
             \/ n = 3 * g + 1 /\ EncodedLength(n) = 4 * g + 2
             \/ n = 3 * g + 2 /\ EncodedLength(n) = 4 * g + 3
  BY <1>1, <1>2, <1>6, SMT
<1> QED
  BY <1>4, <1>5, <1>6

\* The bits of group g.
LEMMA ValueIsPacked ==
  ASSUME NEW bytes, NEW g \in Nat
  PROVE  Value(bytes, 3 * g + 1)
           = Packed(ByteAt(bytes, 3 * g + 1), ByteAt(bytes, 3 * g + 2),
                    ByteAt(bytes, 3 * g + 3))
<1>1. (3 * g + 1) + 1 = 3 * g + 2 /\ (3 * g + 1) + 2 = 3 * g + 3
  BY SMT
<1> QED
  BY <1>1, SMT DEF Value, Packed

\* The characters of group g, those that are not written taken as 0, are the
\* groups of six of its bytes.
LEMMA GroupChars ==
  ASSUME NEW bytes \in Seq(Bytes), NEW g \in Nat, 3 * g < Len(bytes), NEW k \in 1..4
  PROVE  LET enc == Base64UrlNoPadding(bytes)
         IN  (IF 4 * g + k \in DOMAIN enc THEN enc[4 * g + k] ELSE 0)
               = Sextet(Value(bytes, 3 * g + 1), k)
<1> DEFINE enc == Base64UrlNoPadding(bytes)
           n == Len(bytes)
           v == Value(bytes, 3 * g + 1)
<1>1. n \in Nat /\ DOMAIN bytes = 1..n
  BY LenProperties
<1>2. DOMAIN enc = 1..EncodedLength(n) /\ \A j \in DOMAIN enc : enc[j] = CharAt(bytes, j)
  BY Zenon DEF Base64UrlNoPadding
<1> HIDE DEF enc, n
<1>3. /\ 4 * g + k \in Nat /\ 4 * g + k >= 1
      /\ EncodedLength(n) \in Nat
      /\ \/ 4 * g + 4 <= EncodedLength(n)
         \/ n = 3 * g + 1 /\ EncodedLength(n) = 4 * g + 2
         \/ n = 3 * g + 2 /\ EncodedLength(n) = 4 * g + 3
  <2>1. EncodedLength(n) \in Nat
    BY <1>1, Lengths, Zenon
  <2>2. \/ 4 * g + 4 <= EncodedLength(n)
        \/ n = 3 * g + 1 /\ EncodedLength(n) = 4 * g + 2
        \/ n = 3 * g + 2 /\ EncodedLength(n) = 4 * g + 3
    BY <1>1, Lengths, Zenon DEF n
  <2> QED
    BY <2>1, <2>2, SMT
<1>4. CASE 4 * g + k <= EncodedLength(n)
  <2>1. 4 * g + k \in DOMAIN enc
    BY <1>2, <1>3, <1>4
  <2>2. CharAt(bytes, 4 * g + k) = Sextet(v, k)
    BY Places, Zenon DEF CharAt
  <2> QED
    BY <1>2, <2>1, <2>2, Zenon DEF enc
<1>5. CASE ~(4 * g + k <= EncodedLength(n))
  <2>1. 4 * g + k \notin DOMAIN enc
    BY <1>2, <1>3, <1>5
  <2>2. \/ n = 3 * g + 1 /\ k \in {3, 4}
        \/ n = 3 * g + 2 /\ k = 4
    BY <1>3, <1>5
  <2> DEFINE a == ByteAt(bytes, 3 * g + 1)
             b == ByteAt(bytes, 3 * g + 2)
             c == ByteAt(bytes, 3 * g + 3)
  <2>3. v = Packed(a, b, c)
    BY ValueIsPacked, Zenon
  <2>4. IsByte(a) /\ IsByte(b)
    BY ByteOf, Zenon
  <2>5. c = 0 /\ (n = 3 * g + 1 => b = 0)
    <3>1. 3 * g + 3 \notin DOMAIN bytes /\ (n = 3 * g + 1 => 3 * g + 2 \notin DOMAIN bytes)
      BY <1>1, <2>2
    <3> QED
      BY <3>1, Zenon DEF ByteAt
  <2> HIDE DEF a, b, c, v
  <2>6. Sextet(v, 4) = 0 /\ (b = 0 => Sextet(v, 3) = 0)
    BY <2>3, <2>4, <2>5, MissingBytes, Zenon
  <2>7. Sextet(v, k) = 0
    BY <2>2, <2>5, <2>6
  <2> QED
    BY <2>1, <2>7, Zenon DEF v, enc
<1> QED
  BY <1>1, <1>3, <1>4, <1>5, Zenon

\* What Decode finds at byte i of a text.
DecodedGroup(chars, g) ==
  Joined(IF 4 * g + 1 \in DOMAIN chars THEN chars[4 * g + 1] ELSE 0,
         IF 4 * g + 2 \in DOMAIN chars THEN chars[4 * g + 2] ELSE 0,
         IF 4 * g + 3 \in DOMAIN chars THEN chars[4 * g + 3] ELSE 0,
         IF 4 * g + 4 \in DOMAIN chars THEN chars[4 * g + 4] ELSE 0)

DecodedByte(v, r) == (v \div <<65536, 256, 1>>[r + 1]) % 256

\* Decode, in terms of the groups it reads.
LEMMA DecodeIs ==
  ASSUME NEW chars
  PROVE  Decode(chars) = [i \in 1..((Len(chars) * 3) \div 4) |->
           DecodedByte(DecodedGroup(chars, (i - 1) \div 3), (i - 1) % 3)]
BY SMT DEF Decode, DecodedByte, DecodedGroup, Joined

\* Byte r of a packed group.
LEMMA DecodedPacked ==
  ASSUME NEW a, IsByte(a), NEW b, IsByte(b), NEW c, IsByte(c)
  PROVE  /\ DecodedByte(Packed(a, b, c), 0) = a
         /\ DecodedByte(Packed(a, b, c), 1) = b
         /\ DecodedByte(Packed(a, b, c), 2) = c
BY ThreeBytes, SMT DEF DecodedByte

\* Every group of a text decodes to the bytes it was made from.
LEMMA GroupDecodes ==
  ASSUME NEW bytes \in Seq(Bytes), NEW g \in Nat, 3 * g < Len(bytes)
  PROVE  DecodedGroup(Base64UrlNoPadding(bytes), g)
           = Packed(ByteAt(bytes, 3 * g + 1), ByteAt(bytes, 3 * g + 2),
                    ByteAt(bytes, 3 * g + 3))
<1> DEFINE enc == Base64UrlNoPadding(bytes)
           v == Value(bytes, 3 * g + 1)
<1>1. \A k \in 1..4 : (IF 4 * g + k \in DOMAIN enc THEN enc[4 * g + k] ELSE 0) = Sextet(v, k)
  BY GroupChars, Zenon
<1>2. v = Packed(ByteAt(bytes, 3 * g + 1), ByteAt(bytes, 3 * g + 2), ByteAt(bytes, 3 * g + 3))
  BY ValueIsPacked, Zenon
<1>3. IsGroup(v)
  <2>1. IsByte(ByteAt(bytes, 3 * g + 1)) /\ IsByte(ByteAt(bytes, 3 * g + 2))
          /\ IsByte(ByteAt(bytes, 3 * g + 3))
    BY ByteOf, Zenon
  <2> QED
    BY <1>2, <2>1, ThreeBytes, SMT
<1> HIDE DEF enc, v
<1>4. v = Joined(Sextet(v, 1), Sextet(v, 2), Sextet(v, 3), Sextet(v, 4))
  BY <1>3, FourSextets, Zenon
<1>5. DecodedGroup(enc, g) = v
  <2>1. 1 \in 1..4 /\ 2 \in 1..4 /\ 3 \in 1..4 /\ 4 \in 1..4
    BY SMT
  <2> QED
    BY <1>1, <1>4, <2>1, Zenon DEF DecodedGroup
<1> QED
  BY <1>2, <1>5, Zenon DEF enc

\* Random bytes are found again in their token: no two share one.
LEMMA DecodesBack ==
  ASSUME NEW bytes \in Seq(Bytes)
  PROVE  Decode(Base64UrlNoPadding(bytes)) = bytes
<1> DEFINE enc == Base64UrlNoPadding(bytes)
           n == Len(bytes)
<1>1. n \in Nat /\ DOMAIN bytes = 1..n /\ bytes = [i \in 1..n |-> bytes[i]]
  BY LenProperties
<1>2. Len(enc) = EncodedLength(n)
  BY <1>1, Lengths DEF Base64UrlNoPadding
<1>3. Decode(enc) = [i \in 1..n |-> DecodedByte(DecodedGroup(enc, (i - 1) \div 3), (i - 1) % 3)]
  BY <1>1, <1>2, Lengths, DecodeIs, Zenon
<1>4. ASSUME NEW i \in 1..n
      PROVE  DecodedByte(DecodedGroup(enc, (i - 1) \div 3), (i - 1) % 3) = bytes[i]
  <2> DEFINE g == (i - 1) \div 3
             r == (i - 1) % 3
             a == ByteAt(bytes, 3 * g + 1)
             b == ByteAt(bytes, 3 * g + 2)
             c == ByteAt(bytes, 3 * g + 3)
  <2>1. i \in Nat /\ i >= 1 /\ i <= n
    BY <1>1
  <2>2. g \in Nat /\ r \in 0..2 /\ i = 3 * g + r + 1
    BY <2>1, BytePlaces, Zenon
  <2> HIDE DEF g, r, n, enc
  <2>3. 3 * g < n
    BY <1>1, <2>1, <2>2, SMT
  <2>4. IsByte(a) /\ IsByte(b) /\ IsByte(c)
    BY ByteOf, Zenon
  <2>5. DecodedGroup(enc, g) = Packed(a, b, c)
    BY <2>2, <2>3, GroupDecodes, Zenon DEF enc, n
  <2>6. ByteAt(bytes, i) = bytes[i]
    BY <1>1, Zenon DEF ByteAt
  <2>7. \/ r = 0 /\ i = 3 * g + 1
        \/ r = 1 /\ i = 3 * g + 2
        \/ r = 2 /\ i = 3 * g + 3
    BY <2>2, SMT
  <2>8. DecodedByte(Packed(a, b, c), r) = ByteAt(bytes, i)
    <3> HIDE DEF a, b, c
    <3>1. CASE r = 0 /\ i = 3 * g + 1
      <4>1. ByteAt(bytes, i) = a
        BY <3>1, Zenon DEF a
      <4> QED
        BY <2>4, <3>1, <4>1, DecodedPacked, SMT
    <3>2. CASE r = 1 /\ i = 3 * g + 2
      <4>1. ByteAt(bytes, i) = b
        BY <3>2, Zenon DEF b
      <4> QED
        BY <2>4, <3>2, <4>1, DecodedPacked, SMT
    <3>3. CASE r = 2 /\ i = 3 * g + 3
      <4>1. ByteAt(bytes, i) = c
        BY <3>3, Zenon DEF c
      <4> QED
        BY <2>4, <3>3, <4>1, DecodedPacked, SMT
    <3> QED
      BY <2>7, <3>1, <3>2, <3>3, Zenon
  <2> QED
    BY <2>5, <2>6, <2>8, Zenon DEF g, r
<1> HIDE DEF enc, n
<1>5. Decode(enc) = [i \in 1..n |-> bytes[i]]
  BY <1>3, <1>4, Zenon
<1> QED
  BY <1>1, <1>5, Zenon DEF enc

\* A text that ends in padding, and has none before it, is cut there.
LEMMA PaddingIsCut ==
  ASSUME NEW S, NEW text \in Seq(S), NEW m \in Nat, m <= Len(text),
         \A i \in 1..Len(text) : text[i] # 66 <=> i <= m
  PROVE  WithoutPadding(text) = [i \in 1..m |-> text[i]]
<1> DEFINE kept == {i \in DOMAIN text : text[i] # 66}
           LastKept(n) == n \in kept \cup {0} /\ \A i \in kept : i <= n
<1>1. Len(text) \in Nat /\ DOMAIN text = 1..Len(text)
  BY LenProperties
<1>2. kept = 1..m
  BY <1>1
<1>3. m \in 0..Len(text) /\ LastKept(m)
  BY <1>1, <1>2
<1>4. ASSUME NEW n \in 0..Len(text), LastKept(n)
      PROVE  n = m
  BY <1>1, <1>2, <1>4
<1>5. (CHOOSE n \in 0..Len(text) : LastKept(n)) = m
  <2> HIDE DEF LastKept
  <2> QED
    BY <1>3, <1>4, Zenon
<1>6. WithoutPadding(text) = SubSeq(text, 1, m)
  BY <1>5, Zenon DEF WithoutPadding
<1>7. SubSeq(text, 1, m) = [i \in 1..m |-> text[i]]
  <2>1. /\ SubSeq(text, 1, m) \in Seq(S)
        /\ Len(SubSeq(text, 1, m)) = m
        /\ \A i \in 1..m : SubSeq(text, 1, m)[i] = text[i]
    BY <1>1
  <2> QED
    BY <2>1, LenProperties
<1> QED
  BY <1>6, <1>7

\* Every character is one of the 64.
LEMMA CharBound ==
  ASSUME NEW bytes \in Seq(Bytes), NEW j \in Nat, j >= 1
  PROVE  CharAt(bytes, j) \in Nat /\ CharAt(bytes, j) < 64
<1> DEFINE g == (j - 1) \div 4
           k == ((j - 1) % 4) + 1
           v == Value(bytes, 3 * g + 1)
<1>1. g \in Nat /\ k \in 1..4
  BY SMT
<1>2. IsGroup(v)
  <2>1. v = Packed(ByteAt(bytes, 3 * g + 1), ByteAt(bytes, 3 * g + 2), ByteAt(bytes, 3 * g + 3))
    <3> HIDE DEF g
    <3> QED
      BY <1>1, ValueIsPacked, Zenon
  <2>2. IsByte(ByteAt(bytes, 3 * g + 1)) /\ IsByte(ByteAt(bytes, 3 * g + 2))
          /\ IsByte(ByteAt(bytes, 3 * g + 3))
    BY ByteOf, Zenon
  <2> HIDE DEF v, g
  <2> QED
    BY <2>1, <2>2, ThreeBytes, SMT
<1>3. CharAt(bytes, j) = Sextet(v, k)
  BY Zenon DEF CharAt
<1> HIDE DEF v, k, g
<1>4. Sextet(v, k) \in Nat /\ Sextet(v, k) < 64
  BY <1>1, <1>2, FourSextets
<1> QED
  BY <1>3, <1>4

\* Both encoders write the same text.
LEMMA EncodersAgree ==
  ASSUME NEW bytes \in Seq(Bytes)
  PROVE  Base64UrlEncode(bytes) = Base64UrlNoPadding(bytes)
<1> DEFINE Standard(c) == IF c = 62 THEN 64 ELSE IF c = 63 THEN 65 ELSE c
           Url(c) == IF c = 64 THEN 62 ELSE IF c = 65 THEN 63 ELSE c
           m == EncodedLength(Len(bytes))
           N == 4 * ((Len(bytes) + 2) \div 3)
           encoded == EVP_EncodeBlock(bytes)
           text == [i \in DOMAIN encoded |-> Url(encoded[i])]
<1>1. Len(bytes) \in Nat
  BY LenProperties
<1>2. m \in Nat /\ N \in Nat /\ m <= N
  <2>1. m \in Nat /\ m <= N /\ (Len(bytes) + 2) \div 3 \in Nat
    BY <1>1, Lengths, Zenon
  <2> QED
    BY <2>1, SMT
<1>3. encoded = [j \in 1..N |-> IF j > m THEN 66 ELSE Standard(CharAt(bytes, j))]
  BY Zenon DEF EVP_EncodeBlock
<1>4. Base64UrlEncode(bytes) = WithoutPadding(text)
  BY Zenon DEF Base64UrlEncode
<1> HIDE DEF m, N, encoded
<1>5. DOMAIN encoded = 1..N
        /\ \A j \in 1..N : encoded[j] = IF j > m THEN 66 ELSE Standard(CharAt(bytes, j))
  BY <1>3
<1>6. ASSUME NEW j \in 1..N
      PROVE  text[j] = IF j > m THEN 66 ELSE CharAt(bytes, j)
  <2>1. text[j] = Url(encoded[j])
    BY <1>5
  <2>2. CASE j > m
    BY <1>5, <2>1, <2>2
  <2>3. CASE ~(j > m)
    <3>1. CharAt(bytes, j) \in Nat /\ CharAt(bytes, j) < 64
      BY <1>2, CharBound
    <3> QED
      BY <1>5, <2>1, <2>3, <3>1
  <2> QED
    BY <2>2, <2>3
<1>7. DOMAIN text = 1..N /\ text = [j \in 1..N |-> IF j > m THEN 66 ELSE CharAt(bytes, j)]
  BY <1>5, <1>6
<1> HIDE DEF text
<1>8. text \in Seq(Nat) /\ Len(text) = N
  <2>1. \A j \in 1..N : (IF j > m THEN 66 ELSE CharAt(bytes, j)) \in Nat
    BY <1>2, CharBound
  <2> QED
    BY <1>2, <1>7, <2>1
<1>9. \A j \in 1..N : text[j] # 66 <=> j <= m
  <2>1. \A j \in 1..N : j <= m => CharAt(bytes, j) < 64 /\ CharAt(bytes, j) \in Nat
    BY <1>2, CharBound
  <2> QED
    BY <1>2, <1>7, <2>1
<1>10. WithoutPadding(text) = [j \in 1..m |-> text[j]]
  BY <1>2, <1>8, <1>9, PaddingIsCut, Zenon
<1>11. [j \in 1..m |-> text[j]] = [j \in 1..m |-> CharAt(bytes, j)]
  BY <1>2, <1>7
<1> QED
  BY <1>4, <1>10, <1>11 DEF Base64UrlNoPadding, m

\* Distinct random bytes are distinct tokens, in both encoders.
THEOREM EncodingIsLossless ==
  ASSUME NEW bytes \in Seq(Bytes)
  PROVE  Lossless(bytes)
BY DecodesBack, EncodersAgree, Zenon DEF Lossless

-----------------------------------------------------------------------------
(***************************************************************************)
(* The text a verification code is hashed with.                            *)
(***************************************************************************)
\* Where the id, the byte that ends it and the code are in a text.
IsScopedText(text, id, code) ==
  /\ Len(text) = Len(id) + Len(code) + 3
  /\ \A i \in 1..Len(id) : text[2 + i] = id[i]
  /\ text[Len(id) + 3] = Nul
  /\ \A i \in 1..Len(code) : text[Len(id) + 3 + i] = code[i]

\* BuildScopedValue puts them there.
LEMMA ScopedPlaces ==
  ASSUME NEW S, 0 \in S, 1 \in S, NEW id \in Seq(S), NEW code \in Seq(S)
  PROVE  IsScopedText(BuildScopedValue(id, code), id, code)
<1> DEFINE one == kDomain \o <<Nul>>
           two == one \o id
           three == two \o <<Nul>>
<1>1. Len(id) \in Nat /\ Len(code) \in Nat
  BY LenProperties
<1>3. one \in Seq(S) /\ Len(one) = 2
  <2>1. kDomain \in Seq(S) /\ <<Nul>> \in Seq(S) /\ Len(kDomain) = 1 /\ Len(<<Nul>>) = 1
    BY DEF kDomain, Nul
  <2> QED
    BY <2>1, Concatenated, SMT
<1> HIDE DEF one
<1>4. /\ two \in Seq(S) /\ Len(two) = Len(id) + 2
      /\ \A i \in 1..Len(id) : two[2 + i] = id[i]
  <2>1. /\ two \in Seq(S) /\ Len(two) = Len(one) + Len(id)
        /\ \A i \in 1..Len(id) : two[Len(one) + i] = id[i]
    <3>1. one \in Seq(S)
      BY <1>3
    <3> QED
      BY <3>1, Concatenated, SMT
  <2>2. 2 + Len(id) = Len(id) + 2
    BY <1>1
  <2> HIDE DEF two
  <2> QED
    BY <1>3, <2>1, <2>2, Zenon
<1> HIDE DEF two
<1>5. /\ three \in Seq(S) /\ Len(three) = Len(id) + 3
      /\ \A i \in 1..(Len(id) + 2) : three[i] = two[i]
      /\ three[Len(id) + 3] = Nul
  BY <1>1, <1>4 DEF Nul
<1> HIDE DEF three
<1>6. BuildScopedValue(id, code) = three \o code
  BY Zenon DEF BuildScopedValue, three, two, one
<1>7. /\ Len(three \o code) = Len(id) + Len(code) + 3
      /\ \A i \in 1..(Len(id) + 3) : (three \o code)[i] = three[i]
      /\ \A i \in 1..Len(code) : (three \o code)[Len(id) + 3 + i] = code[i]
  <2>1. /\ Len(three \o code) = Len(three) + Len(code)
        /\ \A i \in 1..Len(three) : (three \o code)[i] = three[i]
        /\ \A i \in 1..Len(code) : (three \o code)[Len(three) + i] = code[i]
    <3>1. three \in Seq(S)
      BY <1>5
    <3> QED
      BY <3>1, Concatenated, SMT
  <2>2. (Len(id) + 3) + Len(code) = Len(id) + Len(code) + 3
    BY <1>1
  <2> QED
    BY <1>5, <2>1, <2>2, Zenon
<1>8. \A i \in 1..Len(id) : three[2 + i] = id[i]
  BY <1>1, <1>4, <1>5
<1>9. \A i \in 1..Len(id) : (three \o code)[2 + i] = id[i]
  BY <1>1, <1>7, <1>8
<1>10. (three \o code)[Len(id) + 3] = Nul
  BY <1>1, <1>5, <1>7
<1> QED
  BY <1>6, <1>7, <1>9, <1>10, Zenon DEF IsScopedText

\* An id is not longer than one it shares the text with: the byte that ends it
\* is in no id.
LEMMA IdsEndTogether ==
  ASSUME NEW id \in Seq(Bytes), NEW code, NEW other_id \in Seq(Bytes), NEW other,
         NEW text, IsScopedText(text, id, code), IsScopedText(text, other_id, other),
         \A i \in DOMAIN id : id[i] # Nul
  PROVE  Len(id) <= Len(other_id)
<1> DEFINE n == Len(other_id)
<1>1. n \in Nat /\ Len(id) \in Nat /\ DOMAIN id = 1..Len(id)
  BY LenProperties, Zenon
<1>2. text[n + 3] = Nul
  BY Zenon DEF IsScopedText
<1>3. \A i \in 1..Len(id) : text[2 + i] = id[i]
  BY Zenon DEF IsScopedText
<1> HIDE DEF n
<1>4. SUFFICES ASSUME ~(Len(id) <= n) PROVE FALSE
  BY DEF n
<1>5. n + 1 \in 1..Len(id) /\ 2 + (n + 1) = n + 3
  BY <1>1, <1>4
<1>6. text[n + 3] = id[n + 1]
  BY <1>3, <1>5, Zenon
<1> QED
  BY <1>1, <1>2, <1>5, <1>6, Zenon

\* A text has one id and one code.
LEMMA TextIsScoped ==
  ASSUME NEW id \in Seq(Bytes), NEW code \in Seq(Bytes),
         NEW other_id \in Seq(Bytes), NEW other \in Seq(Bytes),
         NEW text, IsScopedText(text, id, code), IsScopedText(text, other_id, other),
         \A i \in DOMAIN id : id[i] # Nul,
         \A i \in DOMAIN other_id : other_id[i] # Nul
  PROVE  id = other_id /\ code = other
<1> DEFINE m == Len(id)
           n == Len(other_id)
           k == Len(code)
           l == Len(other)
<1>1. m \in Nat /\ n \in Nat /\ k \in Nat /\ l \in Nat
  BY LenProperties, Zenon
<1>2. m <= n /\ n <= m
  BY IdsEndTogether, Zenon
<1>3. Len(text) = m + k + 3 /\ Len(text) = n + l + 3
  BY Zenon DEF IsScopedText
<1>4. /\ \A i \in 1..m : text[2 + i] = id[i]
      /\ \A i \in 1..k : text[m + 3 + i] = code[i]
      /\ \A i \in 1..n : text[2 + i] = other_id[i]
      /\ \A i \in 1..l : text[n + 3 + i] = other[i]
  BY Zenon DEF IsScopedText
<1> HIDE DEF m, n, k, l
<1>5. m = n /\ k = l
  BY <1>1, <1>2, <1>3
<1>6. id = other_id
  <2>1. \A i \in 1..m : id[i] = other_id[i]
    BY <1>4, <1>5, Zenon
  <2> QED
    BY <1>5, <2>1, SeqEqual, Zenon DEF m, n
<1>7. code = other
  <2>1. \A i \in 1..k : code[i] = other[i]
    BY <1>4, <1>5, Zenon
  <2> QED
    BY <1>5, <2>1, SeqEqual, Zenon DEF k, l
<1> QED
  BY <1>6, <1>7, Zenon

\* The two bytes the code itself writes.
LEMMA SmallBytes == 0 \in Bytes /\ 1 \in Bytes
<1>1. PICK m \in Nat : m = 255
  BY SMT
<1>2. 0 \in 0..m /\ 1 \in 0..m
  BY <1>1, SMT
<1> QED
  BY <1>1, <1>2, Zenon DEF Bytes

\* Whatever two users enter, what is hashed for them differs, and so it does
\* for two codes of one user: no part of an id can pass for one of a code.
THEOREM HashedTextIsScoped ==
  ASSUME NEW id \in Seq(Bytes), NEW code \in Seq(Bytes),
         NEW other_id \in Seq(Bytes), NEW other \in Seq(Bytes),
         \A i \in DOMAIN id : id[i] # Nul,
         \A i \in DOMAIN other_id : other_id[i] # Nul
  PROVE  Scoped(id, code, other_id, other)
<1> USE SmallBytes
<1>1. IsScopedText(BuildScopedValue(id, code), id, code)
  BY ScopedPlaces, Zenon
<1>2. IsScopedText(BuildScopedValue(other_id, other), other_id, other)
  BY ScopedPlaces, Zenon
<1>3. ASSUME BuildScopedValue(id, code) = BuildScopedValue(other_id, other)
      PROVE  id = other_id /\ code = other
  BY <1>1, <1>2, <1>3, TextIsScoped, Zenon
<1> QED
  BY <1>3, Zenon DEF Scoped

-----------------------------------------------------------------------------
(***************************************************************************)
(* Loops.  A loop of n steps over values in S has a table of its values.   *)
(***************************************************************************)
\* A nonempty set of natural numbers has a least one.
LEMMA LeastExists ==
  ASSUME NEW T \in SUBSET Nat, T # {}
  PROVE  \E x \in T : \A y \in T : x <= y
<1>1. \E x \in T : \A y \in T : ~(<<y, x>> \in OpToRel(<, Nat))
  BY NatLessThanWellFounded, WFMin, Zenon
<1>2. ASSUME NEW x \in T, NEW y \in T, ~(<<y, x>> \in OpToRel(<, Nat)) PROVE x <= y
  BY <1>2 DEF OpToRel
<1> QED
  BY <1>1, <1>2, Zenon

\* Induction over the natural numbers, for a set.
LEMMA NatSetInduction ==
  ASSUME NEW S, 0 \in S, \A n \in Nat : n \in S => n + 1 \in S
  PROVE  Nat \subseteq S
<1> SUFFICES ASSUME Nat \ S # {} PROVE FALSE
  OBVIOUS
<1>1. PICK x \in Nat \ S : \A y \in Nat \ S : x <= y
  BY LeastExists, Zenon
<1>2. x # 0 /\ x - 1 \in Nat /\ x - 1 \in S
  BY <1>1
<1> QED
  BY <1>1, <1>2

\* Induction over the steps of a loop.
LEMMA InductionUpTo ==
  ASSUME NEW n \in Nat, NEW T, 0 \in T, \A k \in 1..n : k - 1 \in T => k \in T
  PROVE  0..n \subseteq T
<1> DEFINE R == {k \in Nat : k <= n => k \in T}
<1>1. 0 \in R
  OBVIOUS
<1>2. ASSUME NEW k \in Nat, k \in R PROVE k + 1 \in R
  <2> SUFFICES ASSUME k + 1 <= n PROVE k + 1 \in T
    OBVIOUS
  <2>1. k \in T /\ k + 1 \in 1..n /\ (k + 1) - 1 = k
    BY <1>2
  <2> QED
    BY <2>1
<1> HIDE DEF R
<1>3. Nat \subseteq R
  BY <1>1, <1>2, NatSetInduction, Zenon
<1> QED
  BY <1>3 DEF R

\* The table of a loop: its start, and its value after each step.
IsLoop(f, n, S, x0, step) ==
  /\ f \in [0..n -> S]
  /\ f[0] = x0
  /\ \A i \in 1..n : f[i] = step[i][f[i - 1]]

\* There is such a table, whatever the steps do.
LEMMA LoopExists ==
  ASSUME NEW S, NEW x0 \in S, NEW n \in Nat, NEW step \in [1..n -> [S -> S]]
  PROVE  \E f : IsLoop(f, n, S, x0, step)
<1> DEFINE UpTo(f, k) == /\ f \in [0..n -> S]
                         /\ f[0] = x0
                         /\ \A i \in 1..n : i <= k => f[i] = step[i][f[i - 1]]
           T == {k \in Nat : \E f : UpTo(f, k)}
<1>1. 0 \in T
  <2>1. UpTo([i \in 0..n |-> x0], 0)
    OBVIOUS
  <2> QED
    BY <2>1
<1>2. ASSUME NEW k \in Nat, k \in T PROVE k + 1 \in T
  <2>1. PICK f : UpTo(f, k)
    BY <1>2
  <2>2. CASE k + 1 > n
    <3>1. UpTo(f, k + 1)
      BY <2>1, <2>2
    <3> QED
      BY <3>1
  <2>3. CASE ~(k + 1 > n)
    <3> DEFINE y == step[k + 1][f[k]]
               g == [f EXCEPT ![k + 1] = y]
    <3>1. k + 1 \in 1..n /\ k \in 0..n
      BY <2>3
    <3>2. y \in S
      BY <2>1, <3>1
    <3> HIDE DEF y
    <3>3. g \in [0..n -> S] /\ g[0] = x0 /\ g[k + 1] = y
            /\ \A i \in 0..n : i <= k => g[i] = f[i]
      BY <2>1, <3>1, <3>2
    <3> HIDE DEF g
    <3>4. ASSUME NEW i \in 1..n, i <= k + 1 PROVE g[i] = step[i][g[i - 1]]
      <4>1. i - 1 \in 0..n /\ i - 1 <= k /\ g[i - 1] = f[i - 1]
        BY <3>3, <3>4
      <4>2. CASE i <= k
        BY <2>1, <3>3, <4>1, <4>2
      <4>3. CASE i = k + 1
        <5>1. i - 1 = k
          BY <4>3
        <5> QED
          BY <3>3, <4>1, <4>3, <5>1, Zenon DEF y
      <4> QED
        BY <3>4, <4>2, <4>3
    <3>5. UpTo(g, k + 1)
      BY <3>3, <3>4
    <3> QED
      BY <3>5
  <2> QED
    BY <2>2, <2>3
<1> HIDE DEF T
<1>3. n \in T
  BY <1>1, <1>2, NatSetInduction
<1>4. PICK f : UpTo(f, n)
  BY <1>3 DEF T
<1>5. IsLoop(f, n, S, x0, step)
  BY <1>4 DEF IsLoop
<1> QED
  BY <1>5

\* One byte of a buffer.
FillStep(length, c, byte) ==
  IF byte > kMaxUniformDigitByte \/ Len(c) >= length THEN c ELSE Append(c, byte % 10)

\* A byte leaves a sequence of numbers.
LEMMA FillStepType ==
  ASSUME NEW length, NEW c \in Seq(Nat), NEW byte, IsByte(byte)
  PROVE  FillStep(length, c, byte) \in Seq(Nat)
<1>1. byte % 10 \in Nat
  BY SMT DEF IsByte
<1> HIDE DEF IsByte
<1> QED
  BY <1>1 DEF FillStep

\* The table of Fill.
LEMMA FillLoop ==
  ASSUME NEW length, NEW code \in Seq(Nat), NEW buffer \in Seq(Bytes)
  PROVE  \E after \in [0..Len(buffer) -> Seq(Nat)] :
           /\ after[0] = code
           /\ \A i \in 1..Len(buffer) : after[i] = FillStep(length, after[i - 1], buffer[i])
           /\ Fill(length, code, buffer) = after[Len(buffer)]
<1> DEFINE n == Len(buffer)
           S == Seq(Nat)
           step == [i \in 1..n |-> [c \in S |-> FillStep(length, c, buffer[i])]]
           Table(f) == [i \in 0..n |-> IF i = 0 THEN code
                                       ELSE FillStep(length, f[i - 1], buffer[i])]
           F == CHOOSE f : f = Table(f)
<1>1. n \in Nat /\ \A i \in 1..n : IsByte(buffer[i])
  BY LenProperties, ElementOfSeq, ByteBound, Zenon
<1>2. Fill(length, code, buffer) = F[n]
  BY Zenon DEF Fill, FillStep
<1>3. step \in [1..n -> [S -> S]]
  BY <1>1, FillStepType, Zenon
<1>4. \A i \in 1..n : \A c \in S : step[i][c] = FillStep(length, c, buffer[i])
  BY Zenon
<1> HIDE DEF n, step, S
<1>5. code \in S
  BY DEF S
<1>6. PICK g : IsLoop(g, n, S, code, step)
  BY <1>1, <1>3, <1>5, LoopExists, Zenon
<1>7. g = Table(g)
  <2>1. g \in [0..n -> S] /\ g[0] = code /\ \A i \in 1..n : g[i] = step[i][g[i - 1]]
    BY <1>6, Zenon DEF IsLoop
  <2>2. \A i \in 1..n : g[i - 1] \in S
    BY <1>1, <2>1
  <2>3. \A i \in 1..n : g[i] = FillStep(length, g[i - 1], buffer[i])
    BY <1>4, <2>1, <2>2, Zenon
  <2> QED
    BY <1>1, <2>1, <2>3
<1>8. F = Table(F)
  BY <1>7, Zenon
<1> HIDE DEF F
<1>9. F[0] = code /\ \A i \in 1..n : F[i] = FillStep(length, F[i - 1], buffer[i])
  BY <1>1, <1>8
<1>10. F \in [0..n -> S]
  <2> DEFINE T == {k \in Nat : F[k] \in S}
  <2>1. 0 \in T
    BY <1>5, <1>9
  <2>2. ASSUME NEW k \in 1..n, k - 1 \in T PROVE k \in T
    <3>1. F[k - 1] \in S /\ k \in Nat
      BY <2>2
    <3>2. FillStep(length, F[k - 1], buffer[k]) \in S
      BY <1>1, <3>1, FillStepType, Zenon DEF S
    <3> QED
      BY <1>9, <3>1, <3>2, Zenon
  <2> HIDE DEF T
  <2>3. 0..n \subseteq T
    BY <1>1, <2>1, <2>2, InductionUpTo, Zenon
  <2>4. \A k \in 0..n : F[k] \in S
    BY <2>3, Zenon DEF T
  <2> QED
    BY <1>8, <2>4, Zenon
<1> QED
  BY <1>2, <1>9, <1>10, Zenon DEF n, S

\* A buffer leaves a sequence of numbers.
LEMMA FillType ==
  ASSUME NEW length, NEW code \in Seq(Nat), NEW buffer \in Seq(Bytes)
  PROVE  Fill(length, code, buffer) \in Seq(Nat)
<1>1. PICK after \in [0..Len(buffer) -> Seq(Nat)] : Fill(length, code, buffer) = after[Len(buffer)]
  BY FillLoop, ZenonT(60)
<1>2. Len(buffer) \in 0..Len(buffer)
  BY LenProperties
<1> QED
  BY <1>1, <1>2, Zenon

\* The table of Generate.
LEMMA GenerateLoop ==
  ASSUME NEW length, NEW buffers \in Seq(Seq(Bytes))
  PROVE  \E code \in [0..Len(buffers) -> Seq(Nat)] :
           /\ code[0] = <<>>
           /\ \A b \in 1..Len(buffers) : code[b] = Fill(length, code[b - 1], buffers[b])
           /\ Generate(length, buffers) = code[Len(buffers)]
<1> DEFINE n == Len(buffers)
           S == Seq(Nat)
           B == Seq(Bytes)
           step == [b \in 1..n |-> [c \in S |-> Fill(length, c, buffers[b])]]
           Table(f) == [b \in 0..n |-> IF b = 0 THEN <<>>
                                       ELSE Fill(length, f[b - 1], buffers[b])]
           F == CHOOSE f : f = Table(f)
<1>1. n \in Nat /\ \A b \in 1..n : buffers[b] \in B
  BY LenProperties, ElementOfSeq, Zenon
<1>2. Generate(length, buffers) = F[n]
  BY Zenon DEF Generate
<1>3. \A b \in 1..n, c \in S : Fill(length, c, buffers[b]) \in S
  BY <1>1, FillType, Zenon
<1>4. step \in [1..n -> [S -> S]]
  BY <1>3, Zenon
<1>5. \A b \in 1..n : \A c \in S : step[b][c] = Fill(length, c, buffers[b])
  BY Zenon
<1> HIDE DEF n, step, S, B
<1>6. <<>> \in S
  BY DEF S
<1>7. PICK g : IsLoop(g, n, S, <<>>, step)
  BY <1>1, <1>4, <1>6, LoopExists, Zenon
<1>8. g = Table(g)
  <2>1. g \in [0..n -> S] /\ g[0] = <<>> /\ \A b \in 1..n : g[b] = step[b][g[b - 1]]
    BY <1>7, Zenon DEF IsLoop
  <2>2. \A b \in 1..n : g[b - 1] \in S
    BY <1>1, <2>1
  <2>3. \A b \in 1..n : g[b] = Fill(length, g[b - 1], buffers[b])
    BY <1>5, <2>1, <2>2, Zenon
  <2> QED
    BY <1>1, <2>1, <2>3
<1>9. F = Table(F)
  BY <1>8, Zenon
<1> HIDE DEF F
<1>10. F[0] = <<>> /\ \A b \in 1..n : F[b] = Fill(length, F[b - 1], buffers[b])
  BY <1>1, <1>9
<1>11. F \in [0..n -> S]
  <2> DEFINE T == {k \in Nat : F[k] \in S}
  <2>1. 0 \in T
    BY <1>6, <1>10
  <2>2. ASSUME NEW k \in 1..n, k - 1 \in T PROVE k \in T
    <3>1. F[k - 1] \in S /\ k \in Nat
      BY <2>2
    <3> QED
      BY <1>3, <1>10, <3>1, Zenon
  <2> HIDE DEF T
  <2>3. 0..n \subseteq T
    BY <1>1, <2>1, <2>2, InductionUpTo, Zenon
  <2>4. \A k \in 0..n : F[k] \in S
    BY <2>3, Zenon DEF T
  <2> QED
    BY <1>9, <2>4, Zenon
<1> QED
  BY <1>2, <1>10, <1>11, Zenon DEF n, S

-----------------------------------------------------------------------------
(***************************************************************************)
(* Verification codes.                                                     *)
(***************************************************************************)
\* The places of a sequence of buffers.
IsPlace(buffers, c, j) == c \in DOMAIN buffers /\ j \in DOMAIN buffers[c]

\* Whether place (c, j) comes no later than (b, i).
NoLater(c, j, b, i) == c < b \/ (c = b /\ j <= i)

\* The members of UsableUpTo.
LEMMA UsableMembers ==
  ASSUME NEW buffers, NEW b, NEW i, NEW c, NEW j
  PROVE  <<c, j>> \in UsableUpTo(buffers, b, i) <=>
           /\ IsPlace(buffers, c, j)
           /\ buffers[c][j] <= kMaxUniformDigitByte
           /\ NoLater(c, j, b, i)
<1> DEFINE all == UNION {{d} \X DOMAIN buffers[d] : d \in DOMAIN buffers}
<1>1. <<c, j>> \in all <=> IsPlace(buffers, c, j)
  BY SMT DEF IsPlace
<1>2. <<c, j>>[1] = c /\ <<c, j>>[2] = j
  OBVIOUS
<1> HIDE DEF all
<1>3. UsableUpTo(buffers, b, i) =
        {p \in all : /\ buffers[p[1]][p[2]] <= kMaxUniformDigitByte
                     /\ p[1] < b \/ (p[1] = b /\ p[2] <= i)}
  BY Zenon DEF UsableUpTo, all
<1>4. <<c, j>> \in UsableUpTo(buffers, b, i) <=>
        /\ <<c, j>> \in all
        /\ buffers[<<c, j>>[1]][<<c, j>>[2]] <= kMaxUniformDigitByte
        /\ <<c, j>>[1] < b \/ (<<c, j>>[1] = b /\ <<c, j>>[2] <= i)
  BY <1>3, Zenon
<1> QED
  BY <1>1, <1>2, <1>4, Zenon DEF NoLater

\* The place of a usable byte is a buffer and an index.
LEMMA UsablePairs ==
  ASSUME NEW buffers, NEW b, NEW i, NEW p \in UsableUpTo(buffers, b, i)
  PROVE  p = <<p[1], p[2]>>
BY SMT DEF UsableUpTo

\* Places are pairs of natural numbers.
LEMMA PlaceNumbers ==
  ASSUME NEW buffers \in Seq(Seq(Bytes)), NEW c, NEW j, IsPlace(buffers, c, j)
  PROVE  /\ c \in Nat /\ c >= 1 /\ c <= Len(buffers) /\ Len(buffers) \in Nat
         /\ buffers[c] \in Seq(Bytes) /\ Len(buffers[c]) \in Nat
         /\ j \in Nat /\ j >= 1 /\ j <= Len(buffers[c])
         /\ IsByte(buffers[c][j])
<1>1. Len(buffers) \in Nat /\ c \in 1..Len(buffers) /\ j \in DOMAIN buffers[c]
  BY LenProperties, Zenon DEF IsPlace
<1>2. buffers[c] \in Seq(Bytes)
  BY <1>1, ElementOfSeq, Zenon
<1>3. Len(buffers[c]) \in Nat /\ j \in 1..Len(buffers[c])
  BY <1>1, <1>2, LenProperties, Zenon
<1>4. IsByte(buffers[c][j])
  BY <1>2, <1>3, ElementOfSeq, ByteBound, Zenon
<1> QED
  BY <1>1, <1>2, <1>3, <1>4

\* No byte is usable before the first one.
LEMMA NoneBefore ==
  ASSUME NEW buffers \in Seq(Seq(Bytes))
  PROVE  UsableUpTo(buffers, 1, 0) = {}
<1> SUFFICES ASSUME NEW p \in UsableUpTo(buffers, 1, 0) PROVE FALSE
  OBVIOUS
<1>1. p = <<p[1], p[2]>>
  BY UsablePairs, Zenon
<1>2. IsPlace(buffers, p[1], p[2]) /\ NoLater(p[1], p[2], 1, 0)
  BY <1>1, UsableMembers, Zenon
<1> QED
  BY <1>2, PlaceNumbers DEF NoLater

\* A buffer ends where the next begins.
LEMMA BufferEnds ==
  ASSUME NEW buffers \in Seq(Seq(Bytes)), NEW b \in 1..Len(buffers)
  PROVE  UsableUpTo(buffers, b, Len(buffers[b])) = UsableUpTo(buffers, b + 1, 0)
<1> DEFINE U == UsableUpTo(buffers, b, Len(buffers[b]))
           V == UsableUpTo(buffers, b + 1, 0)
<1>1. ASSUME NEW c, NEW j, IsPlace(buffers, c, j)
      PROVE  NoLater(c, j, b, Len(buffers[b])) <=> NoLater(c, j, b + 1, 0)
  <2>1. /\ c \in Nat /\ Len(buffers) \in Nat /\ Len(buffers[c]) \in Nat
        /\ j \in Nat /\ j >= 1 /\ j <= Len(buffers[c])
    BY <1>1, PlaceNumbers, Zenon
  <2>2. b \in Nat
    BY <2>1
  <2>3. CASE c = b
    BY <2>1, <2>2, <2>3 DEF NoLater
  <2>4. CASE c # b
    BY <2>1, <2>2, <2>4 DEF NoLater
  <2> QED
    BY <2>3, <2>4
<1>2. ASSUME NEW p \in U PROVE p \in V
  <2>1. p = <<p[1], p[2]>>
    BY UsablePairs, Zenon
  <2> QED
    BY <1>1, <2>1, UsableMembers, Zenon
<1>3. ASSUME NEW p \in V PROVE p \in U
  <2>1. p = <<p[1], p[2]>>
    BY UsablePairs, Zenon
  <2> QED
    BY <1>1, <2>1, UsableMembers, Zenon
<1> QED
  BY <1>2, <1>3, Zenon

\* A byte above the limit adds nothing to what is usable, another one itself.
LEMMA ByteAdds ==
  ASSUME NEW buffers \in Seq(Seq(Bytes)), NEW b, NEW i, IsPlace(buffers, b, i)
  PROVE  LET U == UsableUpTo(buffers, b, i - 1)
             V == UsableUpTo(buffers, b, i)
         IN  /\ <<b, i>> \notin U
             /\ buffers[b][i] > kMaxUniformDigitByte => V = U
             /\ ~(buffers[b][i] > kMaxUniformDigitByte) => V = U \cup {<<b, i>>}
<1> DEFINE U == UsableUpTo(buffers, b, i - 1)
           V == UsableUpTo(buffers, b, i)
           high == buffers[b][i] > kMaxUniformDigitByte
<1>1. b \in Nat /\ i \in Nat /\ buffers[b][i] \in Nat
  BY PlaceNumbers, Zenon DEF IsByte
<1>2. high <=> ~(buffers[b][i] <= kMaxUniformDigitByte)
  BY <1>1 DEF kMaxUniformDigitByte
<1>3. <<b, i>> \notin U
  <2>1. ~NoLater(b, i, b, i - 1)
    BY <1>1 DEF NoLater
  <2> QED
    BY <2>1, UsableMembers, Zenon
<1>4. <<b, i>> \in V <=> ~high
  <2>1. NoLater(b, i, b, i)
    BY <1>1 DEF NoLater
  <2> QED
    BY <1>2, <2>1, UsableMembers, Zenon
<1>5. ASSUME NEW c, NEW j, IsPlace(buffers, c, j), ~(c = b /\ j = i)
      PROVE  NoLater(c, j, b, i - 1) <=> NoLater(c, j, b, i)
  <2>1. c \in Nat /\ j \in Nat
    BY <1>5, PlaceNumbers, Zenon
  <2> QED
    BY <1>1, <1>5, <2>1 DEF NoLater
<1> HIDE DEF high
<1>6. ASSUME NEW p, p # <<b, i>> PROVE p \in U <=> p \in V
  <2>1. p \in U \/ p \in V => p = <<p[1], p[2]>>
    BY UsablePairs, Zenon
  <2>2. CASE p = <<p[1], p[2]>>
    <3>1. ~(p[1] = b /\ p[2] = i)
      BY <1>6, <2>2, Zenon
    <3>2. IsPlace(buffers, p[1], p[2]) =>
            (NoLater(p[1], p[2], b, i - 1) <=> NoLater(p[1], p[2], b, i))
      BY <1>5, <3>1, Zenon
    <3> QED
      BY <2>2, <3>2, UsableMembers, Zenon
  <2> QED
    BY <2>1, <2>2, Zenon
<1> HIDE DEF U, V
<1>7. high => V = U
  <2> SUFFICES ASSUME high PROVE \A p : p \in V <=> p \in U
    BY Zenon
  <2> QED
    BY <1>3, <1>4, <1>6, Zenon
<1>8. ~high => V = U \cup {<<b, i>>}
  BY <1>3, <1>4, <1>6, Zenon
<1> QED
  BY <1>3, <1>7, <1>8, Zenon DEF U, V, high

Smaller(m, n) == IF m < n THEN m ELSE n

\* What a code is, once place (b, i) is read.
IsExactUpTo(length, buffers, b, i, code) ==
  LET U == UsableUpTo(buffers, b, i)
      Rank(p) == Cardinality(UsableUpTo(buffers, p[1], p[2]))
  IN  /\ IsFiniteSet(U)
      /\ Len(code) = Smaller(Cardinality(U), length)
      /\ \A p \in U :
            /\ Rank(p) \in Nat /\ Rank(p) >= 1 /\ Rank(p) <= Cardinality(U)
            /\ Rank(p) <= length => code[Rank(p)] = buffers[p[1]][p[2]] % 10

\* Reading one more byte keeps it so.
LEMMA ByteKeepsExact ==
  ASSUME NEW length \in Nat, NEW buffers \in Seq(Seq(Bytes)), NEW b, NEW i,
         IsPlace(buffers, b, i), NEW code \in Seq(Nat),
         IsExactUpTo(length, buffers, b, i - 1, code)
  PROVE  IsExactUpTo(length, buffers, b, i, FillStep(length, code, buffers[b][i]))
<1> DEFINE U == UsableUpTo(buffers, b, i - 1)
           V == UsableUpTo(buffers, b, i)
           Rank(p) == Cardinality(UsableUpTo(buffers, p[1], p[2]))
           Digit(p) == buffers[p[1]][p[2]] % 10
           new == FillStep(length, code, buffers[b][i])
           high == buffers[b][i] > kMaxUniformDigitByte
           r == Cardinality(U)
           q == <<b, i>>
<1>1. IsFiniteSet(U) /\ r \in Nat /\ Len(code) = Smaller(r, length)
  BY FS_CardinalityType, Zenon DEF IsExactUpTo
<1>2. \A p \in U : /\ Rank(p) \in Nat /\ Rank(p) >= 1 /\ Rank(p) <= r
                   /\ Rank(p) <= length => code[Rank(p)] = Digit(p)
  BY Zenon DEF IsExactUpTo
<1>3. q \notin U /\ (high => V = U) /\ (~high => V = U \cup {q})
  BY ByteAdds, Zenon
<1>4. /\ (high => new = code)
      /\ (~high => new = IF Len(code) >= length THEN code
                         ELSE Append(code, buffers[b][i] % 10))
  BY Zenon DEF FillStep
<1>5. Rank(q) = Cardinality(V) /\ Digit(q) = buffers[b][i] % 10
  <2>1. q[1] = b /\ q[2] = i
    OBVIOUS
  <2> QED
    BY <2>1, Zenon
<1>6. buffers[b][i] % 10 \in Nat
  <2>1. IsByte(buffers[b][i])
    BY PlaceNumbers, Zenon
  <2> QED
    BY <2>1, SMT DEF IsByte
<1>7. SUFFICES /\ IsFiniteSet(V)
               /\ Len(new) = Smaller(Cardinality(V), length)
               /\ \A p \in V :
                     /\ Rank(p) \in Nat /\ Rank(p) >= 1 /\ Rank(p) <= Cardinality(V)
                     /\ Rank(p) <= length => new[Rank(p)] = Digit(p)
  BY Zenon DEF IsExactUpTo
<1> DEFINE d == buffers[b][i] % 10
<1> HIDE DEF U, V, Rank, Digit, new, high, r, q, d
<1>8. CASE high
  BY <1>1, <1>2, <1>3, <1>4, <1>8, Zenon DEF r
<1>9. CASE ~high
  <2>1. IsFiniteSet(V) /\ Cardinality(V) = r + 1
    <3>1. V = U \cup {q} /\ q \notin U
      BY <1>3, <1>9, Zenon
    <3>2. /\ IsFiniteSet(U \cup {q})
          /\ Cardinality(U \cup {q}) = IF q \in U THEN Cardinality(U) ELSE Cardinality(U) + 1
      BY <1>1, FS_AddElement, Zenon
    <3> QED
      BY <3>1, <3>2, Zenon DEF r
  <2>2. CASE Len(code) >= length
    <3>1. new = code /\ length <= r /\ Len(code) = length
      BY <1>1, <1>4, <1>9, <2>2, SMT DEF Smaller, d
    <3>2. Len(new) = Smaller(Cardinality(V), length)
      BY <1>1, <2>1, <3>1, SMT DEF Smaller
    <3>3. ASSUME NEW p \in V
          PROVE  /\ Rank(p) \in Nat /\ Rank(p) >= 1 /\ Rank(p) <= Cardinality(V)
                 /\ Rank(p) <= length => new[Rank(p)] = Digit(p)
      <4>1. CASE p \in U
        <5>1. Rank(p) \in Nat /\ Rank(p) >= 1 /\ Rank(p) <= r
          BY <1>2, <4>1, Zenon
        <5>2. Rank(p) <= Cardinality(V)
          BY <1>1, <2>1, <5>1, SMT
        <5> QED
          BY <1>2, <3>1, <4>1, <5>1, <5>2, Zenon
      <4>2. CASE p = q
        <5>1. Rank(p) = r + 1
          BY <1>5, <2>1, <4>2, Zenon
        <5> QED
          BY <1>1, <2>1, <3>1, <5>1, SMT
      <4> QED
        BY <1>3, <1>9, <4>1, <4>2, Zenon
    <3> QED
      BY <2>1, <3>2, <3>3, Zenon
  <2>3. CASE ~(Len(code) >= length)
    <3>1. new = Append(code, d) /\ Len(code) = r /\ r < length
      <4>1. Len(code) = r /\ r < length
        BY <1>1, <2>3, SMT DEF Smaller
      <4> QED
        BY <1>4, <1>9, <2>3, <4>1, Zenon DEF d
    <3>2. /\ Len(new) = r + 1 /\ new[r + 1] = d
          /\ \A k \in 1..r : new[k] = code[k]
      <4>1. d \in Nat
        BY <1>6 DEF d
      <4>2. /\ Len(Append(code, d)) = Len(code) + 1
            /\ Append(code, d)[Len(code) + 1] = d
            /\ \A k \in 1..Len(code) : Append(code, d)[k] = code[k]
        BY <4>1, SMT
      <4> QED
        BY <3>1, <4>2, Zenon
    <3>3. Len(new) = Smaller(Cardinality(V), length)
      BY <1>1, <2>1, <3>1, <3>2, SMT DEF Smaller
    <3>4. ASSUME NEW p \in V
          PROVE  /\ Rank(p) \in Nat /\ Rank(p) >= 1 /\ Rank(p) <= Cardinality(V)
                 /\ Rank(p) <= length => new[Rank(p)] = Digit(p)
      <4>1. CASE p \in U
        <5>1. /\ Rank(p) \in Nat /\ Rank(p) >= 1 /\ Rank(p) <= r
              /\ Rank(p) <= length => code[Rank(p)] = Digit(p)
          BY <1>2, <4>1, Zenon
        <5>2. Rank(p) <= Cardinality(V) /\ Rank(p) \in 1..r
          BY <1>1, <2>1, <5>1, SMT
        <5> QED
          BY <3>2, <5>1, <5>2, Zenon
      <4>2. CASE p = q
        <5>1. Rank(p) = r + 1 /\ Digit(p) = d
          BY <1>5, <2>1, <4>2, Zenon DEF d
        <5>2. r + 1 \in Nat /\ r + 1 >= 1 /\ r + 1 <= r + 1
          BY <1>1, SMT
        <5> QED
          BY <2>1, <3>2, <5>1, <5>2, Zenon
      <4> QED
        BY <1>3, <1>9, <4>1, <4>2, Zenon
    <3> QED
      BY <2>1, <3>3, <3>4, Zenon
  <2> QED
    BY <2>2, <2>3, Zenon
<1> QED
  BY <1>8, <1>9, Zenon

\* So does reading one more buffer.
LEMMA BufferKeepsExact ==
  ASSUME NEW length \in Nat, NEW buffers \in Seq(Seq(Bytes)), NEW b \in 1..Len(buffers),
         NEW code \in Seq(Nat), IsExactUpTo(length, buffers, b, 0, code)
  PROVE  IsExactUpTo(length, buffers, b + 1, 0, Fill(length, code, buffers[b]))
<1> DEFINE buffer == buffers[b]
           n == Len(buffer)
<1>1. buffer \in Seq(Bytes)
  BY ElementOfSeq, Zenon
<1>2. n \in Nat /\ DOMAIN buffer = 1..n /\ DOMAIN buffers = 1..Len(buffers)
  BY <1>1, LenProperties, Zenon
<1>3. PICK after \in [0..n -> Seq(Nat)] :
           /\ after[0] = code
           /\ \A i \in 1..n : after[i] = FillStep(length, after[i - 1], buffer[i])
           /\ Fill(length, code, buffer) = after[n]
  BY <1>1, FillLoop, ZenonT(60)
<1>4. \A i \in 1..n : IsPlace(buffers, b, i)
  BY <1>2, Zenon DEF IsPlace
<1> HIDE DEF n
<1> DEFINE T == {i \in Nat : IsExactUpTo(length, buffers, b, i, after[i])}
<1>5. 0 \in T
  BY <1>3, Zenon
<1>6. ASSUME NEW i \in 1..n, i - 1 \in T PROVE i \in T
  <2>1. i \in Nat /\ i - 1 \in 0..n
    BY <1>2
  <2>2. after[i - 1] \in Seq(Nat)
    BY <1>3, <2>1, Zenon
  <2>3. IsExactUpTo(length, buffers, b, i - 1, after[i - 1])
    BY <1>6, Zenon
  <2>4. IsExactUpTo(length, buffers, b, i, FillStep(length, after[i - 1], buffer[i]))
    BY <1>4, <2>2, <2>3, ByteKeepsExact, Zenon
  <2> QED
    BY <1>3, <2>1, <2>4, Zenon
<1> HIDE DEF T
<1>7. 0..n \subseteq T
  BY <1>2, <1>5, <1>6, InductionUpTo, Zenon
<1>8. n \in 0..n
  BY <1>2
<1>9. IsExactUpTo(length, buffers, b, n, Fill(length, code, buffer))
  BY <1>3, <1>7, <1>8, Zenon DEF T
<1>10. UsableUpTo(buffers, b, n) = UsableUpTo(buffers, b + 1, 0)
  BY BufferEnds, Zenon DEF n
<1> QED
  BY <1>9, <1>10, Zenon DEF IsExactUpTo

\* A code of any length is made of the first bytes no higher than the limit,
\* in the order they are drawn, however they fall into buffers.
THEOREM CodeIsExact ==
  ASSUME NEW length \in Nat, NEW buffers \in Seq(Seq(Bytes))
  PROVE  Exact(length, buffers)
<1> DEFINE n == Len(buffers)
<1>1. n \in Nat
  BY LenProperties, Zenon
<1>2. PICK code \in [0..n -> Seq(Nat)] :
           /\ code[0] = <<>>
           /\ \A b \in 1..n : code[b] = Fill(length, code[b - 1], buffers[b])
           /\ Generate(length, buffers) = code[n]
  BY GenerateLoop, Zenon
<1> DEFINE T == {b \in Nat : IsExactUpTo(length, buffers, b + 1, 0, code[b])}
<1>3. 0 \in T
  <2>1. UsableUpTo(buffers, 0 + 1, 0) = {}
    <3>1. 0 + 1 = 1
      OBVIOUS
    <3> QED
      BY <3>1, NoneBefore, Zenon
  <2>2. IsFiniteSet({}) /\ Cardinality({}) = 0
    BY FS_EmptySet, Zenon
  <2>3. Len(code[0]) = Smaller(0, length)
    BY <1>2 DEF Smaller
  <2> QED
    BY <2>1, <2>2, <2>3, Zenon DEF IsExactUpTo
<1>4. ASSUME NEW b \in 1..n, b - 1 \in T PROVE b \in T
  <2>1. b \in Nat /\ b - 1 \in 0..n /\ (b - 1) + 1 = b
    BY <1>1
  <2>2. IsExactUpTo(length, buffers, b, 0, code[b - 1]) /\ code[b - 1] \in Seq(Nat)
    BY <1>2, <1>4, <2>1, Zenon
  <2>3. IsExactUpTo(length, buffers, b + 1, 0, Fill(length, code[b - 1], buffers[b]))
    BY <2>2, BufferKeepsExact, Zenon
  <2> QED
    BY <1>2, <2>1, <2>3, Zenon
<1> HIDE DEF T
<1>5. 0..n \subseteq T
  BY <1>1, <1>3, <1>4, InductionUpTo, Zenon
<1>6. n \in 0..n
  BY <1>1
<1>7. IsExactUpTo(length, buffers, n + 1, 0, Generate(length, buffers))
  BY <1>2, <1>5, <1>6, Zenon DEF T
<1> QED
  BY <1>7, Zenon DEF IsExactUpTo, Exact, Smaller

\* The code drawn from one byte.
LEMMA OneDigit ==
  ASSUME NEW x \in Bytes
  PROVE  Generate(1, << <<x>> >>) = IF x > kMaxUniformDigitByte THEN <<>> ELSE <<x % 10>>
<1> DEFINE buffer == <<x>>
           buffers == <<buffer>>
           B == Seq(Bytes)
<1>1. buffer \in B /\ Len(buffer) = 1 /\ buffer[1] = x
  OBVIOUS
<1> HIDE DEF buffer, B
<1>2. buffers \in Seq(B) /\ Len(buffers) = 1 /\ buffers[1] = buffer
  BY <1>1
<1> HIDE DEF buffers
<1>3. PICK code \in [0..1 -> Seq(Nat)] :
           /\ code[0] = <<>>
           /\ \A b \in 1..1 : code[b] = Fill(1, code[b - 1], buffers[b])
           /\ Generate(1, buffers) = code[1]
  <2>1. \E code \in [0..Len(buffers) -> Seq(Nat)] :
           /\ code[0] = <<>>
           /\ \A b \in 1..Len(buffers) : code[b] = Fill(1, code[b - 1], buffers[b])
           /\ Generate(1, buffers) = code[Len(buffers)]
    BY <1>2, GenerateLoop, Zenon DEF B
  <2> QED
    BY <1>2, <2>1, Zenon
<1>4. 1 \in 1..1 /\ 1 - 1 = 0
  OBVIOUS
<1>5. Generate(1, buffers) = Fill(1, <<>>, buffer)
  BY <1>2, <1>3, <1>4, Zenon
<1>6. <<>> \in Seq(Nat)
  OBVIOUS
<1>7. PICK after \in [0..1 -> Seq(Nat)] :
           /\ after[0] = <<>>
           /\ \A i \in 1..1 : after[i] = FillStep(1, after[i - 1], buffer[i])
           /\ Fill(1, <<>>, buffer) = after[1]
  <2>1. \E after \in [0..Len(buffer) -> Seq(Nat)] :
           /\ after[0] = <<>>
           /\ \A i \in 1..Len(buffer) : after[i] = FillStep(1, after[i - 1], buffer[i])
           /\ Fill(1, <<>>, buffer) = after[Len(buffer)]
    BY <1>1, <1>6, FillLoop, Zenon DEF B
  <2> QED
    BY <1>1, <2>1, Zenon
<1>8. Fill(1, <<>>, buffer) = FillStep(1, <<>>, x)
  BY <1>1, <1>4, <1>7, Zenon
<1>9. ~(Len(<<>>) >= 1) /\ Append(<<>>, x % 10) = <<x % 10>>
  OBVIOUS
<1>10. FillStep(1, <<>>, x) = IF x > kMaxUniformDigitByte THEN <<>> ELSE <<x % 10>>
  BY <1>9, Zenon DEF FillStep
<1> QED
  BY <1>5, <1>8, <1>10, Zenon DEF buffers, buffer

\* Ten digits share the bytes up to the limit evenly.
THEOREM CodeIsUniform == Uniform
<1> SUFFICES ASSUME NEW d \in 0..9
             PROVE  Cardinality({x \in Bytes : Generate(1, << <<x>> >>) = <<d>>}) = 25
  BY Zenon DEF Uniform
<1> DEFINE G == {x \in Bytes : Generate(1, << <<x>> >>) = <<d>>}
           R(x) == IsByte(x) /\ x < 250 /\ x % 10 = d
           Nth(k) == 10 * (k - 1) + d
<1>1. ASSUME NEW x \in Bytes PROVE Generate(1, << <<x>> >>) = <<d>> <=> R(x)
  <2>1. IsByte(x)
    BY ByteBound, Zenon
  <2>2. x > kMaxUniformDigitByte <=> ~(x < 250)
    BY <2>1, SMT DEF IsByte, kMaxUniformDigitByte
  <2>3. <<>> # <<d>> /\ (<<x % 10>> = <<d>> <=> x % 10 = d)
    BY SMT
  <2> QED
    BY <2>1, <2>2, <2>3, OneDigit, Zenon
<1>2. ASSUME NEW x, R(x) PROVE x \in Bytes
  <2>1. PICK m \in Nat : m = 255
    BY SMT
  <2>2. x \in 0..m
    BY <1>2, <2>1, SMT DEF IsByte
  <2> QED
    BY <2>1, <2>2, Zenon DEF Bytes
<1>3. \A x : x \in G <=> R(x)
  <2>1. \A x : R(x) => x \in Bytes
    BY <1>2, Zenon
  <2> HIDE DEF R
  <2> QED
    BY <1>1, <2>1, Zenon
<1>4. ASSUME NEW k \in 1..25 PROVE R(Nth(k))
  BY SMT DEF IsByte
<1>5. ASSUME NEW x, R(x) PROVE (x \div 10) + 1 \in 1..25 /\ x = Nth((x \div 10) + 1)
  BY <1>5, SMT DEF IsByte
<1>6. ASSUME NEW k \in 1..25, NEW l \in 1..25, Nth(k) = Nth(l) PROVE k = l
  BY <1>6, SMT
<1> HIDE DEF R, Nth, G
<1> DEFINE f == [k \in 1..25 |-> Nth(k)]
<1>7. f \in [1..25 -> G]
  BY <1>3, <1>4, Zenon
<1>8. \A k, l \in 1..25 : f[k] = f[l] => k = l
  BY <1>6, Zenon
<1>9. \A x \in G : \E k \in 1..25 : f[k] = x
  BY <1>3, <1>5, Zenon
<1>10. ExistsBijection(1..25, G)
  <2> HIDE DEF f
  <2>1. f \in Bijection(1..25, G)
    BY <1>7, <1>8, <1>9, Zenon DEF Bijection, Injection, Surjection, IsInjective
  <2> QED
    BY <2>1, Zenon DEF ExistsBijection
<1>11. Cardinality(G) = 25
  <2>1. PICK n \in Nat : n = 25
    BY SMT
  <2> QED
    BY <1>10, <2>1, FS_CountingElements, Zenon
<1> QED
  BY <1>11 DEF G

\* In every state of an instance: tokens lose none of their random bytes, codes
\* are exact and evenly drawn, and what is hashed for two users differs.
THEOREM SecretsStayFaithful == Spec => []SecretsAreFaithful
<1>1. AllLossless
  BY ContentAssumption, EncodingIsLossless, Zenon DEF AllLossless
<1>2. AllExact
  <2>1. \A n \in 1..3 : n \in Nat
    OBVIOUS
  <2> QED
    BY <2>1, ContentAssumption, CodeIsExact, CodeIsUniform, Zenon DEF AllExact
<1>3. AllScoped
  BY ContentAssumption, HashedTextIsScoped, Zenon DEF AllScoped
<1>4. SecretsAreFaithful
  BY <1>1, <1>2, <1>3, Zenon DEF SecretsAreFaithful
<1> QED
  BY <1>4, PTL

-----------------------------------------------------------------------------
(***************************************************************************)
(* The upload of a mail.                                                   *)
(***************************************************************************)
\* The last n characters of a text.
Last(text, n) == SubSeq(text, Len(text) - n + 1, Len(text))

\* What the last n characters are.
LEMMA LastPlaces ==
  ASSUME NEW S, NEW text \in Seq(S), NEW n \in 0..Len(text)
  PROVE  /\ Last(text, n) \in Seq(S)
         /\ Len(Last(text, n)) = n
         /\ \A i \in 1..n : Last(text, n)[i] = text[Len(text) - n + i]
<1> DEFINE l == Len(text)
           m == l - n + 1
<1>1. l \in Nat /\ n \in Nat /\ n <= l /\ \A i \in 1..l : text[i] \in S
  BY LenProperties, ElementOfSeq
<1> HIDE DEF l
<1>2. m \in Int /\ l \in Int /\ m >= 1
  BY <1>1
<1>3. \A i \in m..l : text[i] \in S
  BY <1>1
<1>4. /\ SubSeq(text, m, l) \in Seq(S)
      /\ Len(SubSeq(text, m, l)) = IF m <= l THEN l - m + 1 ELSE 0
      /\ \A i \in 1..(l - m + 1) : SubSeq(text, m, l)[i] = text[m + i - 1]
  BY <1>2, <1>3, SubSeqProperties, SMT
<1>5. l - m + 1 = n /\ (n = 0 <=> ~(m <= l)) /\ \A i \in 1..n : m + i - 1 = l - n + i
  BY <1>1
<1> HIDE DEF m
<1>6. Len(SubSeq(text, m, l)) = n /\ \A i \in 1..n : SubSeq(text, m, l)[i] = text[l - n + i]
  BY <1>4, <1>5, Zenon
<1> QED
  BY <1>4, <1>6, Zenon DEF Last, m, l

\* A read takes something while there is something, from the front.
IsRead(left, read) ==
  /\ left = <<>> => read.chunk = <<>>
  /\ left # <<>> => read.chunk # <<>>
  /\ Len(read.left) \in 0..Len(left)
  /\ left # <<>> => Len(read.left) < Len(left)
  /\ read.chunk \o Last(left, Len(read.left)) = left

\* One call of the read callback.
LEMMA OneRead ==
  ASSUME NEW S, NEW left \in Seq(S), NEW cap \in Nat, cap > 0
  PROVE  IsRead(left, ReadCallback(left, cap))
<1> DEFINE l == Len(left)
           m == IF l < cap THEN l ELSE cap
           chunk == SubSeq(left, 1, m)
           rest == SubSeq(left, m + 1, l)
<1>1. l \in Nat /\ \A i \in 1..l : left[i] \in S
  BY LenProperties, ElementOfSeq
<1>2. ReadCallback(left, cap).chunk = chunk /\ ReadCallback(left, cap).left = rest
  BY Zenon DEF ReadCallback
<1>3. left = <<>> <=> l = 0
  BY EmptySeq
<1> HIDE DEF l
<1>4. m \in 0..l /\ (l # 0 => m # 0)
  BY <1>1
<1> HIDE DEF m
<1>5. /\ chunk \in Seq(S) /\ Len(chunk) = m
      /\ \A i \in 1..m : chunk[i] = left[i]
  <2>1. 1 \in Int /\ m \in Int /\ \A i \in 1..m : left[i] \in S
    BY <1>1, <1>4
  <2>2. /\ chunk \in Seq(S)
        /\ Len(chunk) = IF 1 <= m THEN m - 1 + 1 ELSE 0
        /\ \A i \in 1..(m - 1 + 1) : chunk[i] = left[1 + i - 1]
    BY <2>1, SubSeqProperties, SMT
  <2>3. m - 1 + 1 = m /\ (IF 1 <= m THEN m - 1 + 1 ELSE 0) = m /\ \A i \in 1..m : 1 + i - 1 = i
    BY <1>4, <1>1
  <2> HIDE DEF chunk
  <2> QED
    BY <2>2, <2>3, Zenon
<1>6. rest = Last(left, l - m) /\ l - m \in 0..l
  <2>1. l - (l - m) + 1 = m + 1 /\ l - m \in 0..l
    BY <1>1, <1>4
  <2> QED
    BY <2>1, Zenon DEF Last, l
<1>7. Last(left, l - m) \in Seq(S) /\ Len(Last(left, l - m)) = l - m
        /\ \A i \in 1..(l - m) : Last(left, l - m)[i] = left[m + i]
  <2>1. /\ Last(left, l - m) \in Seq(S) /\ Len(Last(left, l - m)) = l - m
        /\ \A i \in 1..(l - m) : Last(left, l - m)[i] = left[l - (l - m) + i]
    BY <1>6, LastPlaces, Zenon DEF l
  <2>2. l - (l - m) = m
    BY <1>1, <1>4
  <2> QED
    BY <2>1, <2>2, Zenon
<1> DEFINE tail == Last(left, l - m)
<1> HIDE DEF chunk, rest, tail
<1>8. chunk \o tail = left
  <2>1. chunk \in Seq(S) /\ tail \in Seq(S)
    BY <1>5, <1>7, Zenon DEF tail
  <2>2. /\ chunk \o tail \in Seq(S) /\ Len(chunk \o tail) = Len(chunk) + Len(tail)
        /\ \A i \in 1..Len(chunk) : (chunk \o tail)[i] = chunk[i]
        /\ \A i \in 1..Len(tail) : (chunk \o tail)[Len(chunk) + i] = tail[i]
    BY <2>1, Concatenated, SMT
  <2>3. Len(chunk \o tail) = l
    <3>1. Len(chunk) = m /\ Len(tail) = l - m /\ m + (l - m) = l
      BY <1>1, <1>4, <1>5, <1>7 DEF tail
    <3> QED
      BY <2>2, <3>1, Zenon
  <2>4. ASSUME NEW i \in 1..l PROVE (chunk \o tail)[i] = left[i]
    <3>1. CASE i \in 1..m
      BY <1>5, <2>2, <3>1, Zenon
    <3>2. CASE i \notin 1..m
      <4>1. i - m \in 1..(l - m) /\ m + (i - m) = i
        BY <1>1, <1>4, <3>2
      <4>2. (chunk \o tail)[m + (i - m)] = tail[i - m]
        BY <1>5, <1>7, <2>2, <4>1, Zenon DEF tail
      <4>3. tail[i - m] = left[m + (i - m)]
        BY <1>7, <4>1, Zenon DEF tail
      <4> QED
        BY <4>1, <4>2, <4>3, Zenon
    <3> QED
      BY <3>1, <3>2, Zenon
  <2> QED
    BY <2>2, <2>3, <2>4, SeqEqual, Zenon DEF l
<1>9. (l = 0 => chunk = <<>>) /\ (l # 0 => chunk # <<>>)
  <2>1. chunk = <<>> <=> Len(chunk) = 0
    BY <1>5, EmptySeq
  <2> QED
    BY <1>4, <1>5, <2>1
<1>10. Len(rest) = l - m /\ (l # 0 => l - m < l)
  <2>1. l # 0 => l - m < l
    BY <1>1, <1>4
  <2> QED
    BY <1>6, <1>7, <2>1, Zenon
<1> QED
  BY <1>2, <1>3, <1>6, <1>8, <1>9, <1>10, Zenon DEF l, tail, IsRead

\* The last characters of the last characters.
LEMMA LastOfLast ==
  ASSUME NEW S, NEW text \in Seq(S), NEW n \in 0..Len(text), NEW k \in 0..n
  PROVE  Last(Last(text, n), k) = Last(text, k)
<1> DEFINE u == Last(text, n)
           v == Last(u, k)
           w == Last(text, k)
           l == Len(text)
<1>1. l \in Nat /\ k \in 0..l
  BY LenProperties
<1>2. u \in Seq(S) /\ Len(u) = n /\ \A i \in 1..n : u[i] = text[l - n + i]
  BY LastPlaces, Zenon
<1>3. w \in Seq(S) /\ Len(w) = k /\ \A i \in 1..k : w[i] = text[l - k + i]
  BY <1>1, LastPlaces, Zenon
<1> HIDE DEF u, w
<1>4. v \in Seq(S) /\ Len(v) = k /\ \A i \in 1..k : v[i] = u[n - k + i]
  BY <1>2, LastPlaces, ZenonT(60)
<1> HIDE DEF v, l
<1>5. ASSUME NEW i \in 1..k PROVE v[i] = w[i]
  <2>1. n - k + i \in 1..n /\ l - n + (n - k + i) = l - k + i
    BY <1>1
  <2> QED
    BY <1>2, <1>3, <1>4, <2>1, Zenon
<1> QED
  BY <1>3, <1>4, <1>5, SeqEqual, Zenon DEF u, v, w

\* The last characters, all of them, and none of them.
LEMMA LastEnds ==
  ASSUME NEW S, NEW text \in Seq(S)
  PROVE  Last(text, Len(text)) = text /\ \A n \in 0..Len(text) : Last(text, n) = <<>> <=> n = 0
<1> DEFINE l == Len(text)
<1>1. l \in Nat /\ l \in 0..l /\ \A i \in 1..l : l - l + i = i
  BY LenProperties
<1>2. /\ Last(text, l) \in Seq(S) /\ Len(Last(text, l)) = l
      /\ \A i \in 1..l : Last(text, l)[i] = text[l - l + i]
  BY <1>1, LastPlaces, Zenon
<1>3. \A i \in 1..l : Last(text, l)[i] = text[i]
  BY <1>1, <1>2, Zenon
<1>4. Last(text, l) = text
  BY <1>2, <1>3, SeqEqual, Zenon
<1>5. ASSUME NEW n \in 0..l PROVE Last(text, n) = <<>> <=> n = 0
  <2> DEFINE u == Last(text, n)
  <2>1. u \in Seq(S) /\ Len(u) = n
    BY LastPlaces, Zenon
  <2> HIDE DEF u, l
  <2>2. u = <<>> <=> n = 0
    BY <2>1, EmptySeq
  <2> QED
    BY <2>2 DEF u
<1> QED
  BY <1>4, <1>5, Zenon

\* However libcurl cuts its reads, the text arrives as it was built.
THEOREM UploadIsWhole ==
  ASSUME NEW S, NEW payload \in Seq(S), NEW cap \in Nat, cap > 0
  PROVE  Upload(payload, cap) = payload
<1> DEFINE l == Len(payload)
           Read(n) == ReadCallback(Last(payload, n), cap)
           Table(f) == [n \in 0..l |-> IF Read(n).chunk = <<>> THEN <<>>
                                       ELSE Read(n).chunk \o f[Len(Read(n).left)]]
           F == CHOOSE f : f = Table(f)
           g == [n \in 0..l |-> Last(payload, n)]
<1>1. l \in Nat
  BY LenProperties
<1>2. Upload(payload, cap) = F[l]
  BY Zenon DEF Upload, Last
<1>3. ASSUME NEW n \in 0..l
      PROVE  /\ Len(Read(n).left) \in 0..n
             /\ n = 0 => Read(n).chunk = <<>>
             /\ n # 0 => Read(n).chunk # <<>> /\ Len(Read(n).left) < n
             /\ Read(n).chunk \o Last(payload, Len(Read(n).left)) = Last(payload, n)
  <2> DEFINE u == Last(payload, n)
             k == Len(Read(n).left)
  <2>1. u \in Seq(S) /\ Len(u) = n
    BY LastPlaces, Zenon
  <2>2. u = <<>> <=> n = 0
    BY LastEnds, Zenon
  <2>3. /\ u = <<>> => Read(n).chunk = <<>>
        /\ u # <<>> => Read(n).chunk # <<>>
        /\ k \in 0..Len(u)
        /\ u # <<>> => k < Len(u)
        /\ Read(n).chunk \o Last(u, k) = u
    <3>1. IsRead(u, Read(n))
      BY <2>1, OneRead, Zenon
    <3> HIDE DEF u, Read
    <3> QED
      BY <3>1, Zenon DEF IsRead
  <2>4. k \in 0..n
    BY <2>1, <2>3, Zenon
  <2>5. Last(u, k) = Last(payload, k)
    BY <2>4, LastOfLast, Zenon
  <2> QED
    BY <2>1, <2>2, <2>3, <2>4, <2>5, Zenon
<1> HIDE DEF l, Read
<1>4. \A n \in 0..l : \A k \in 0..n : k \in 0..l
  BY <1>1
<1>5. g = Table(g)
  <2>1. ASSUME NEW n \in 0..l PROVE g[n] = Table(g)[n]
    <3>1. CASE n = 0
      <4>1. Last(payload, n) = <<>>
        BY <3>1, LastEnds, Zenon DEF l
      <4> QED
        BY <1>3, <3>1, <4>1, Zenon
    <3>2. CASE n # 0
      <4>1. Len(Read(n).left) \in 0..l
        BY <1>3, <1>4, Zenon
      <4> QED
        BY <1>3, <3>2, <4>1, Zenon
    <3> QED
      BY <3>1, <3>2, Zenon
  <2> QED
    BY <2>1, Zenon
<1>6. F = Table(F)
  BY <1>5, Zenon
<1> HIDE DEF F
<1>7. \A n \in 0..l : F[n] = IF Read(n).chunk = <<>> THEN <<>>
                             ELSE Read(n).chunk \o F[Len(Read(n).left)]
  BY <1>6, Zenon
<1> DEFINE T == {k \in Nat : \A n \in 0..l : n <= k => F[n] = Last(payload, n)}
<1>8. ASSUME NEW n \in 0..l, \A k \in 0..l : k < n => F[k] = Last(payload, k)
      PROVE  F[n] = Last(payload, n)
  <2>1. CASE n = 0
    <3>1. Last(payload, n) = <<>>
      BY <2>1, LastEnds, Zenon DEF l
    <3> QED
      BY <1>3, <1>7, <2>1, <3>1, Zenon
  <2>2. CASE n # 0
    <3>1. Len(Read(n).left) \in 0..l
      BY <1>3, <1>4, Zenon
    <3> QED
      BY <1>3, <1>7, <1>8, <2>2, <3>1, Zenon
  <2> QED
    BY <2>1, <2>2, Zenon
<1>9. 0 \in T
  <2>1. \A n \in 0..l : n <= 0 => \A k \in 0..l : ~(k < n)
    BY <1>1
  <2> QED
    BY <1>8, <2>1
<1>10. ASSUME NEW k \in 1..l, k - 1 \in T PROVE k \in T
  <2>1. \A n \in 0..l : n <= k - 1 => F[n] = Last(payload, n)
    BY <1>10, Zenon
  <2>2. k \in Nat /\ \A n \in 0..l : n <= k => \A j \in 0..l : j < n => j <= k - 1
    BY <1>1
  <2>3. ASSUME NEW n \in 0..l, n <= k PROVE F[n] = Last(payload, n)
    BY <1>8, <2>1, <2>2, <2>3, Zenon
  <2> QED
    BY <2>2, <2>3, Zenon
<1> HIDE DEF T
<1>11. 0..l \subseteq T
  BY <1>1, <1>9, <1>10, InductionUpTo, Zenon
<1>12. l \in 0..l /\ l <= l
  BY <1>1
<1>13. F[l] = Last(payload, l)
  BY <1>11, <1>12, Zenon DEF T
<1> QED
  BY <1>2, <1>13, LastEnds, Zenon DEF l

-----------------------------------------------------------------------------
(***************************************************************************)
(* The body of a mail.                                                     *)
(***************************************************************************)
\* What is written for a character is a text that ends in it.
LEMMA BodyCharType ==
  ASSUME NEW body \in Seq(Characters), NEW i \in 1..Len(body)
  PROVE  BodyChar(body, i) \in Seq(Characters)
<1>1. body[i] \in Characters /\ "cr" \in Characters /\ "lf" \in Characters
  BY ElementOfSeq, Zenon DEF Characters
<1>2. <<body[i]>> \in Seq(Characters) /\ CrLf \in Seq(Characters)
  BY <1>1, SMT DEF CrLf
<1> QED
  BY <1>2, Zenon DEF BodyChar

\* The table of BodyLines.
IsBodyTable(out, body) ==
  /\ out \in [0..Len(body) -> Seq(Characters)]
  /\ out[0] = <<>>
  /\ \A i \in 1..Len(body) : out[i] = out[i - 1] \o BodyChar(body, i)
  /\ BodyLines(body) = out[Len(body)]

\* The loop over the body has a table of what it has written.
LEMMA BodyLoop ==
  ASSUME NEW body \in Seq(Characters)
  PROVE  \E out : IsBodyTable(out, body)
<1> DEFINE n == Len(body)
           S == Seq(Characters)
           step == [i \in 1..n |-> [c \in S |-> c \o BodyChar(body, i)]]
           Table(f) == [i \in 0..n |-> IF i = 0 THEN <<>> ELSE f[i - 1] \o BodyChar(body, i)]
           F == CHOOSE f : f = Table(f)
<1>1. n \in Nat
  BY LenProperties, Zenon
<1>2. BodyLines(body) = F[n]
  BY Zenon DEF BodyLines
<1>3. \A i \in 1..n, c \in S : c \o BodyChar(body, i) \in S
  BY BodyCharType, ConcatProperties, Zenon
<1>4. step \in [1..n -> [S -> S]]
  BY <1>3, Zenon
<1>5. \A i \in 1..n : \A c \in S : step[i][c] = c \o BodyChar(body, i)
  BY Zenon
<1> HIDE DEF n, step, S
<1>6. <<>> \in S
  BY DEF S
<1>7. PICK g : IsLoop(g, n, S, <<>>, step)
  BY <1>1, <1>4, <1>6, LoopExists, Zenon
<1>8. g = Table(g)
  <2>1. g \in [0..n -> S] /\ g[0] = <<>> /\ \A i \in 1..n : g[i] = step[i][g[i - 1]]
    BY <1>7, Zenon DEF IsLoop
  <2>2. \A i \in 1..n : g[i - 1] \in S
    BY <1>1, <2>1
  <2>3. \A i \in 1..n : g[i] = g[i - 1] \o BodyChar(body, i)
    BY <1>5, <2>1, <2>2, Zenon
  <2>4. \A i \in 0..n : i # 0 => i \in 1..n
    BY <1>1
  <2>5. \A i \in 0..n : g[i] = IF i = 0 THEN <<>> ELSE g[i - 1] \o BodyChar(body, i)
    BY <2>1, <2>3, <2>4, Zenon
  <2> QED
    BY <2>1, <2>5, Zenon
<1>9. F = Table(F)
  BY <1>8, Zenon
<1> HIDE DEF F
<1>10. F[0] = <<>> /\ \A i \in 1..n : F[i] = F[i - 1] \o BodyChar(body, i)
  <2>1. 0 \in 0..n /\ \A i \in 1..n : i \in 0..n /\ i # 0
    BY <1>1
  <2> QED
    BY <1>9, <2>1, Zenon
<1>11. F \in [0..n -> S]
  <2> DEFINE T == {k \in Nat : F[k] \in S}
  <2>1. 0 \in T
    BY <1>6, <1>10
  <2>2. ASSUME NEW k \in 1..n, k - 1 \in T PROVE k \in T
    <3>1. F[k - 1] \in S /\ k \in Nat
      BY <2>2
    <3> QED
      BY <1>3, <1>10, <3>1, Zenon
  <2> HIDE DEF T
  <2>3. 0..n \subseteq T
    BY <1>1, <2>1, <2>2, InductionUpTo, Zenon
  <2>4. \A k \in 0..n : F[k] \in S
    BY <2>3, Zenon DEF T
  <2> QED
    BY <1>9, <2>4, Zenon
<1>12. IsBodyTable(F, body)
  BY <1>2, <1>10, <1>11, Zenon DEF n, S, IsBodyTable
<1> QED
  BY <1>12, Zenon

\* Line ends of two texts in CRLF lines meet properly.
LEMMA CrLfConcatenated ==
  ASSUME NEW S, NEW s \in Seq(S), NEW t \in Seq(S),
         LooksLikeCrLfText(s), LooksLikeCrLfText(t)
  PROVE  LooksLikeCrLfText(s \o t)
<1> DEFINE u == s \o t
           m == Len(s)
           n == Len(t)
<1>1. m \in Nat /\ n \in Nat /\ DOMAIN s = 1..m /\ DOMAIN t = 1..n
  BY LenProperties, Zenon
<1>2. /\ u \in Seq(S) /\ Len(u) = m + n
      /\ \A i \in 1..m : u[i] = s[i]
      /\ \A i \in 1..n : u[m + i] = t[i]
  BY Concatenated, SMT
<1>3. DOMAIN u = 1..(m + n)
  BY <1>2, LenProperties, Zenon
<1> HIDE DEF u, m, n
<1>4. ASSUME NEW i \in 1..(m + n), u[i] = "lf" PROVE i # 1 /\ u[i - 1] = "cr"
  <2>1. CASE i \in 1..m
    <3>1. i # 1 /\ s[i - 1] = "cr"
      BY <1>1, <1>2, <1>4, <2>1, Zenon DEF LooksLikeCrLfText
    <3>2. i - 1 \in 1..m
      BY <1>1, <2>1, <3>1
    <3> QED
      BY <1>2, <3>1, <3>2, Zenon
  <2>2. CASE i \notin 1..m
    <3> DEFINE j == i - m
    <3>1. j \in 1..n /\ m + j = i
      BY <1>1, <2>2
    <3>2. t[j] = "lf"
      BY <1>2, <1>4, <3>1, Zenon
    <3>3. j # 1 /\ t[j - 1] = "cr"
      BY <1>1, <3>1, <3>2, Zenon DEF LooksLikeCrLfText
    <3>4. j - 1 \in 1..n /\ m + (j - 1) = i - 1 /\ i # 1
      BY <1>1, <3>1, <3>3
    <3> QED
      BY <1>2, <3>3, <3>4, Zenon
  <2> QED
    BY <2>1, <2>2, Zenon
<1> QED
  BY <1>3, <1>4, Zenon DEF LooksLikeCrLfText, u

\* A concatenation ends as its second part does.
LEMMA LastOfConcatenated ==
  ASSUME NEW S, NEW s \in Seq(S), NEW t \in Seq(S), Len(t) >= 1
  PROVE  LET u == s \o t IN Len(u) >= 1 /\ u[Len(u)] = t[Len(t)]
<1> DEFINE u == s \o t
<1>1. /\ u \in Seq(S) /\ Len(u) = Len(s) + Len(t)
      /\ \A i \in 1..Len(t) : u[Len(s) + i] = t[i]
  BY Concatenated, SMT
<1>2. Len(s) \in Nat /\ Len(t) \in Nat
  BY LenProperties, Zenon
<1> HIDE DEF u
<1>3. Len(t) \in 1..Len(t) /\ Len(s) + Len(t) >= 1
  BY <1>2
<1> QED
  BY <1>1, <1>3, Zenon DEF u

\* A line feed may follow a carriage return.
LEMMA LineFeedAdded ==
  ASSUME NEW S, "lf" \in S, NEW s \in Seq(S), LooksLikeCrLfText(s),
         Len(s) >= 1, s[Len(s)] = "cr"
  PROVE  LooksLikeCrLfText(s \o <<"lf">>)
<1> DEFINE t == <<"lf">>
           u == s \o t
           m == Len(s)
<1>1. m \in Nat /\ DOMAIN s = 1..m
  BY LenProperties, Zenon
<1>2. t \in Seq(S) /\ Len(t) = 1
  BY SMT
<1> HIDE DEF t
<1>3. /\ u \in Seq(S) /\ Len(u) = m + Len(t)
      /\ \A i \in 1..m : u[i] = s[i]
  <2>1. t \in Seq(S)
    BY <1>2
  <2> QED
    BY <2>1, Concatenated, SMT
<1>4. DOMAIN u = 1..(m + 1)
  BY <1>2, <1>3, LenProperties, Zenon
<1> HIDE DEF u, m
<1>5. ASSUME NEW i \in 1..(m + 1), u[i] = "lf" PROVE i # 1 /\ u[i - 1] = "cr"
  <2>1. CASE i \in 1..m
    <3>1. i # 1 /\ s[i - 1] = "cr"
      BY <1>1, <1>3, <1>5, <2>1, Zenon DEF LooksLikeCrLfText
    <3>2. i - 1 \in 1..m
      BY <1>1, <2>1, <3>1
    <3> QED
      BY <1>3, <3>1, <3>2, Zenon
  <2>2. CASE i \notin 1..m
    <3>1. m >= 1
      BY DEF m
    <3>2. i - 1 = m /\ m \in 1..m /\ i # 1
      BY <1>1, <2>2, <3>1
    <3> QED
      BY <1>3, <3>2, Zenon DEF m
  <2> QED
    BY <2>1, <2>2, Zenon
<1> QED
  BY <1>4, <1>5, Zenon DEF LooksLikeCrLfText, u, t

\* A carriage return and line feed, and a character that is no line feed.
LEMMA SmallTexts ==
  /\ CrLf \in Seq(Characters) /\ Len(CrLf) = 2 /\ CrLf[1] = "cr" /\ CrLf[2] = "lf"
  /\ LooksLikeCrLfText(CrLf)
  /\ \A c \in Characters : /\ <<c>> \in Seq(Characters) /\ Len(<<c>>) = 1 /\ <<c>>[1] = c
                           /\ c # "lf" => LooksLikeCrLfText(<<c>>)
<1>1. CrLf \in Seq(Characters)
  <2>1. "cr" \in Characters /\ "lf" \in Characters
    BY Zenon DEF Characters
  <2> QED
    BY <2>1, SMT DEF CrLf
<1>2. Len(CrLf) = 2 /\ DOMAIN CrLf = 1..2 /\ CrLf[1] = "cr" /\ CrLf[2] = "lf"
  BY SMT DEF CrLf
<1>3. LooksLikeCrLfText(CrLf)
  <2>1. \A i \in 1..2 : i = 1 \/ (i = 2 /\ i - 1 = 1)
    OBVIOUS
  <2>2. "cr" # "lf" /\ 2 # 1
    OBVIOUS
  <2> QED
    BY <1>2, <2>1, <2>2, Zenon DEF LooksLikeCrLfText
<1>4. ASSUME NEW c \in Characters
      PROVE  /\ <<c>> \in Seq(Characters) /\ Len(<<c>>) = 1 /\ <<c>>[1] = c
             /\ c # "lf" => LooksLikeCrLfText(<<c>>)
  <2>1. <<c>> \in Seq(Characters) /\ Len(<<c>>) = 1 /\ <<c>>[1] = c /\ DOMAIN <<c>> = 1..1
    BY SMT
  <2>2. \A i \in 1..1 : i = 1
    OBVIOUS
  <2> QED
    BY <2>1, <2>2, Zenon DEF LooksLikeCrLfText
<1> QED
  BY <1>1, <1>2, <1>3, <1>4, Zenon

\* What is written up to a character is in CRLF lines and ends in it.
BodyIsFine(out, body, i) ==
  /\ LooksLikeCrLfText(out)
  /\ i >= 1 => Len(out) >= 1 /\ out[Len(out)] = body[i]

\* One more character keeps it so.
LEMMA CharKeepsFine ==
  ASSUME NEW body \in Seq(Characters), NEW i \in 1..Len(body),
         NEW out \in Seq(Characters), BodyIsFine(out, body, i - 1)
  PROVE  BodyIsFine(out \o BodyChar(body, i), body, i)
<1> DEFINE c == body[i]
           new == BodyChar(body, i)
           bare == c = "lf" /\ (IF i = 1 THEN TRUE ELSE body[i - 1] # "cr")
<1>1. c \in Characters /\ new \in Seq(Characters)
  BY BodyCharType, ElementOfSeq, Zenon
<1>2. new = IF bare THEN CrLf ELSE <<c>>
  BY Zenon DEF BodyChar
<1>3. Len(new) >= 1 /\ new[Len(new)] = c
  <2>1. 1 >= 1 /\ 2 >= 1
    OBVIOUS
  <2> QED
    BY <1>1, <1>2, <2>1, SmallTexts, Zenon
<1>4. LooksLikeCrLfText(out)
  BY Zenon DEF BodyIsFine
<1>5. LET u == out \o new IN Len(u) >= 1 /\ u[Len(u)] = c
  BY <1>1, <1>3, LastOfConcatenated, Zenon
<1>6. LooksLikeCrLfText(out \o new)
  <2>1. CASE bare
    BY <1>2, <1>4, <2>1, SmallTexts, CrLfConcatenated, Zenon
  <2>2. CASE c # "lf"
    BY <1>1, <1>2, <1>4, <2>2, SmallTexts, CrLfConcatenated, Zenon
  <2>3. CASE ~bare /\ c = "lf"
    <3>1. i # 1 /\ body[i - 1] = "cr"
      BY <2>3, Zenon
    <3>2. i - 1 >= 1
      <4>1. Len(body) \in Nat
        BY LenProperties, Zenon
      <4> QED
        BY <3>1, <4>1
    <3>3. Len(out) >= 1 /\ out[Len(out)] = "cr"
      BY <3>1, <3>2, Zenon DEF BodyIsFine
    <3>4. new = <<"lf">> /\ "lf" \in Characters
      BY <1>2, <2>3, Zenon DEF Characters
    <3> QED
      BY <1>4, <3>3, <3>4, LineFeedAdded, Zenon
  <2> QED
    BY <2>1, <2>2, <2>3, Zenon
<1> QED
  BY <1>5, <1>6, Zenon DEF BodyIsFine

\* A body is written in CRLF lines, whatever line ends it has.
THEOREM BodyIsCrLfText ==
  ASSUME NEW body \in Seq(Characters)
  PROVE  BodyLines(body) \in Seq(Characters) /\ LooksLikeCrLfText(BodyLines(body))
<1> DEFINE n == Len(body)
<1>1. PICK out : IsBodyTable(out, body)
  BY BodyLoop, Zenon
<1>2. /\ out \in [0..n -> Seq(Characters)] /\ out[0] = <<>>
      /\ \A i \in 1..n : out[i] = out[i - 1] \o BodyChar(body, i)
      /\ BodyLines(body) = out[n]
  BY <1>1, Zenon DEF IsBodyTable
<1>3. n \in Nat
  BY LenProperties, Zenon
<1> DEFINE T == {i \in Nat : BodyIsFine(out[i], body, i)}
<1>4. 0 \in T
  <2>1. DOMAIN <<>> = {} /\ ~(0 >= 1)
    OBVIOUS
  <2> QED
    BY <1>2, <2>1, Zenon DEF BodyIsFine, LooksLikeCrLfText
<1>5. ASSUME NEW i \in 1..n, i - 1 \in T PROVE i \in T
  <2>1. i \in Nat /\ i - 1 \in 0..n
    BY <1>3
  <2>2. out[i - 1] \in Seq(Characters) /\ BodyIsFine(out[i - 1], body, i - 1)
    BY <1>2, <1>5, <2>1, Zenon
  <2> QED
    BY <1>2, <2>1, <2>2, CharKeepsFine, Zenon
<1> HIDE DEF T, n
<1>6. 0..n \subseteq T
  BY <1>3, <1>4, <1>5, InductionUpTo, Zenon
<1>7. n \in 0..n
  BY <1>3
<1> QED
  BY <1>2, <1>6, <1>7, Zenon DEF T, BodyIsFine

StartsWith(text, s) == Len(s) <= Len(text) /\ \A i \in 1..Len(s) : text[i] = s[i]

\* A text that goes on starts as it did.
LEMMA StartsConcatenated ==
  ASSUME NEW S, NEW s \in Seq(S), NEW t \in Seq(S), NEW u, NEW k \in Nat,
         k = Len(u), StartsWith(s, u)
  PROVE  StartsWith(s \o t, u)
<1> DEFINE v == s \o t
<1>1. /\ Len(v) = Len(s) + Len(t)
      /\ \A i \in 1..Len(s) : v[i] = s[i]
  BY Concatenated, SMT
<1>2. Len(s) \in Nat /\ Len(t) \in Nat
  BY LenProperties, Zenon
<1>3. Len(u) <= Len(s) /\ \A i \in 1..Len(u) : s[i] = u[i]
  BY Zenon DEF StartsWith
<1> HIDE DEF v
<1>4. Len(u) <= Len(v)
  BY <1>1, <1>2, <1>3
<1>5. \A i \in 1..Len(u) : i \in 1..Len(s)
  BY <1>2, <1>3
<1>6. \A i \in 1..Len(u) : v[i] = u[i]
  BY <1>1, <1>3, <1>5, Zenon
<1> QED
  BY <1>4, <1>6, Zenon DEF StartsWith, v

\* A text starts with itself.
LEMMA StartsWithItself ==
  ASSUME NEW S, NEW s \in Seq(S)
  PROVE  StartsWith(s, s)
<1>1. Len(s) <= Len(s)
  BY LenProperties
<1> QED
  BY <1>1, Zenon DEF StartsWith

\* What is written stays written.
LEMMA BodyStarts ==
  ASSUME NEW body \in Seq(Characters), NEW out, IsBodyTable(out, body),
         NEW j \in 0..Len(body)
  PROVE  StartsWith(BodyLines(body), out[j])
<1> DEFINE n == Len(body)
           T == {i \in Nat : j <= i => StartsWith(out[i], out[j])}
<1>1. /\ out \in [0..n -> Seq(Characters)]
      /\ \A i \in 1..n : out[i] = out[i - 1] \o BodyChar(body, i)
      /\ BodyLines(body) = out[n]
  BY Zenon DEF IsBodyTable
<1>2. n \in Nat
  BY LenProperties, Zenon
<1>3. Len(out[j]) \in Nat /\ StartsWith(out[j], out[j])
  BY <1>1, LenProperties, StartsWithItself, Zenon
<1>4. 0 \in T
  <2>1. j <= 0 => j = 0
    BY <1>2
  <2> QED
    BY <1>3, <2>1, Zenon
<1>5. ASSUME NEW i \in 1..n, i - 1 \in T PROVE i \in T
  <2> SUFFICES ASSUME j <= i PROVE i \in Nat /\ StartsWith(out[i], out[j])
    BY <1>2
  <2>1. i \in Nat /\ i - 1 \in 0..n /\ (j = i \/ j <= i - 1)
    BY <1>2
  <2>2. CASE j = i
    BY <1>3, <2>1, <2>2, Zenon
  <2>3. CASE j <= i - 1
    <3>1. StartsWith(out[i - 1], out[j])
      BY <1>5, <2>3, Zenon
    <3>2. out[i - 1] \in Seq(Characters) /\ BodyChar(body, i) \in Seq(Characters)
      BY <1>1, <2>1, BodyCharType, Zenon
    <3>3. StartsWith(out[i - 1] \o BodyChar(body, i), out[j])
      BY <1>3, <3>1, <3>2, StartsConcatenated, Zenon
    <3> QED
      BY <1>1, <2>1, <3>3, Zenon
  <2> QED
    BY <2>1, <2>2, <2>3, Zenon
<1> HIDE DEF T
<1>6. 0..n \subseteq T
  BY <1>2, <1>4, <1>5, InductionUpTo, Zenon
<1>7. n \in 0..n /\ j <= n
  BY <1>2
<1> QED
  BY <1>1, <1>6, <1>7, Zenon DEF T

\* A letter before a secret changes nothing in how it is written.
LEMMA SecretChars ==
  ASSUME NEW secret \in Seq(Characters), NEW body, NEW i \in 1..Len(secret),
         body[1] = "a", \A k \in 1..Len(secret) : body[1 + k] = secret[k]
  PROVE  BodyChar(body, 1 + i) = BodyChar(secret, i)
<1>1. Len(secret) \in Nat
  BY LenProperties, Zenon
<1>2. 1 + i # 1 /\ (1 + i) - 1 = i /\ "a" # "cr"
  BY <1>1
<1>3. CASE i = 1
  BY <1>2, <1>3, Zenon DEF BodyChar
<1>4. CASE i # 1
  <2>1. i - 1 \in 1..Len(secret) /\ 1 + (i - 1) = i
    BY <1>1, <1>4
  <2>2. body[i] = secret[i - 1]
    BY <2>1, Zenon
  <2> QED
    BY <1>2, <1>4, <2>2, Zenon DEF BodyChar
<1> QED
  BY <1>3, <1>4, Zenon

\* Texts may be put together in any grouping.
LEMMA Regrouped ==
  \A x, y, z \in Seq(Characters) : (x \o y) \o z = x \o (y \o z)
BY ConcatAssociative, SMT

\* The lines of a secret stand in the body as they would alone.
LEMMA BodyHoldsSecret ==
  ASSUME NEW secret \in Seq(Characters), NEW body \in Seq(Characters),
         StartsWith(body, <<"a">> \o secret)
  PROVE  StartsWith(BodyLines(body), <<"a">> \o BodyLines(secret))
<1> DEFINE n == Len(secret)
           A == <<"a">>
           S == Characters
<1>1. n \in Nat /\ Len(body) \in Nat
  BY LenProperties, Zenon
<1>2. A \in Seq(S) /\ Len(A) = 1 /\ A[1] = "a"
  <2>1. "a" \in S
    BY Zenon DEF Characters
  <2> QED
    BY <2>1, SMT
<1>3. 1 + n <= Len(body) /\ body[1] = "a" /\ \A k \in 1..n : body[1 + k] = secret[k]
  <2> DEFINE t == A \o secret
  <2> HIDE DEF A, S
  <2>1. A \in Seq(S) /\ secret \in Seq(S)
    BY <1>2 DEF S
  <2>2. /\ Len(t) = Len(A) + Len(secret)
        /\ \A k \in 1..Len(A) : t[k] = A[k]
        /\ \A k \in 1..Len(secret) : t[Len(A) + k] = secret[k]
    BY <2>1, Concatenated, SMT
  <2>3. Len(t) <= Len(body) /\ \A k \in 1..Len(t) : body[k] = t[k]
    BY Zenon DEF StartsWith, A
  <2> HIDE DEF t, n
  <2>4. Len(t) = 1 + n /\ t[1] = "a" /\ \A k \in 1..n : t[1 + k] = secret[k]
    <3>1. 1 \in 1..1
      OBVIOUS
    <3> QED
      BY <1>2, <2>2, <3>1, Zenon DEF n
  <2>5. 1 \in 1..(1 + n) /\ \A k \in 1..n : 1 + k \in 1..(1 + n)
    BY <1>1
  <2> QED
    BY <2>3, <2>4, <2>5, Zenon
<1>4. PICK out : IsBodyTable(out, body)
  BY BodyLoop, Zenon
<1>5. PICK own : IsBodyTable(own, secret)
  BY BodyLoop, Zenon
<1>6. /\ out[0] = <<>> /\ \A i \in 1..Len(body) : out[i] = out[i - 1] \o BodyChar(body, i)
  BY <1>4, Zenon DEF IsBodyTable
<1>7. /\ own \in [0..n -> Seq(S)]
      /\ own[0] = <<>> /\ \A i \in 1..n : own[i] = own[i - 1] \o BodyChar(secret, i)
      /\ BodyLines(secret) = own[n]
  BY <1>5, Zenon DEF IsBodyTable
<1>8. \A i \in 0..n : 1 + i \in 1..Len(body) /\ (1 + i) - 1 = i
  BY <1>1, <1>3
<1> DEFINE T == {i \in Nat : out[1 + i] = A \o own[i]}
<1>9. 0 \in T
  <2>1. BodyChar(body, 1) = A
    <3>1. "a" # "lf"
      OBVIOUS
    <3> QED
      BY <1>3, <3>1, Zenon DEF BodyChar
  <2>2. out[1] = <<>> \o A
    <3>1. 1 \in 1..Len(body) /\ 1 - 1 = 0
      BY <1>1, <1>3
    <3> QED
      BY <1>6, <2>1, <3>1, Zenon
  <2>3. <<>> \o A = A \o <<>>
    BY <1>2, ConcatEmptySeq, Zenon
  <2>4. 1 + 0 = 1
    OBVIOUS
  <2> QED
    BY <1>7, <2>2, <2>3, <2>4, Zenon
<1>10. ASSUME NEW i \in 1..n, i - 1 \in T PROVE i \in T
  <2>1. i \in Nat /\ i - 1 \in 0..n /\ 1 + (i - 1) = i /\ i \in 0..n
    BY <1>1
  <2>2. out[i] = A \o own[i - 1]
    BY <1>10, <2>1, Zenon
  <2>3. out[1 + i] = out[i] \o BodyChar(body, 1 + i)
    BY <1>6, <1>8, <2>1, Zenon
  <2>4. BodyChar(body, 1 + i) = BodyChar(secret, i)
    BY <1>3, SecretChars, Zenon
  <2>5. own[i - 1] \in Seq(S) /\ BodyChar(secret, i) \in Seq(S)
    BY <1>7, <2>1, BodyCharType, Zenon
  <2>6. (A \o own[i - 1]) \o BodyChar(secret, i) = A \o (own[i - 1] \o BodyChar(secret, i))
    BY <1>2, <2>5, Regrouped, Zenon
  <2> QED
    BY <1>7, <2>1, <2>2, <2>3, <2>4, <2>6, Zenon
<1> HIDE DEF T, n, A, S
<1>11. 0..n \subseteq T
  BY <1>1, <1>9, <1>10, InductionUpTo, Zenon
<1>12. n \in 0..n /\ 1 + n \in 0..Len(body)
  BY <1>1, <1>3
<1>13. out[1 + n] = A \o BodyLines(secret)
  BY <1>7, <1>11, <1>12, Zenon DEF T
<1>14. StartsWith(BodyLines(body), out[1 + n])
  BY <1>4, <1>12, BodyStarts, Zenon
<1> QED
  BY <1>13, <1>14, Zenon DEF A

-----------------------------------------------------------------------------
(***************************************************************************)
(* The headers of a mail.                                                  *)
(***************************************************************************)
LineFeeds(text) == {i \in 1..Len(text) : text[i] = "lf"}

\* A header: a name, and no line end but its own.
IsLine(t) ==
  /\ t \in Seq(Characters) /\ Len(t) >= 3
  /\ t[1] = "q" /\ t[Len(t) - 1] = "cr" /\ t[Len(t)] = "lf"
  /\ \A i \in 1..Len(t) : t[i] = "lf" => i = Len(t)

\* A text of k headers: every line end but the last is before a name.
IsBlock(s, k) ==
  /\ s \in Seq(Characters) /\ Len(s) >= 3
  /\ s[Len(s) - 1] = "cr" /\ s[Len(s)] = "lf"
  /\ IsFiniteSet(LineFeeds(s)) /\ Cardinality(LineFeeds(s)) = k
  /\ \A i \in 1..Len(s) : s[i] = "lf" =>
        i >= 2 /\ s[i - 1] = "cr" /\ (i < Len(s) => s[i + 1] = "q")

\* A value without line ends gives one line.
LEMMA HeaderIsLine ==
  ASSUME NEW value \in Seq(Characters), ~ContainsCrlf(value)
  PROVE  IsLine(Header(value))
<1> DEFINE q == <<"q">>
           s == q \o value
           t == s \o CrLf
           n == Len(value)
           S == Characters
<1>1. n \in Nat /\ DOMAIN value = 1..n
  BY LenProperties, Zenon
<1>2. \A i \in 1..n : value[i] # "lf"
  BY <1>1, Zenon DEF ContainsCrlf
<1>3. q \in Seq(S) /\ Len(q) = 1 /\ q[1] = "q"
  BY SmallTexts, Zenon DEF Characters
<1>4. CrLf \in Seq(S) /\ Len(CrLf) = 2 /\ CrLf[1] = "cr" /\ CrLf[2] = "lf"
  BY SmallTexts, Zenon
<1> HIDE DEF q, S
<1>5. /\ s \in Seq(S) /\ Len(s) = 1 + n
      /\ s[1] = "q" /\ \A i \in 1..n : s[1 + i] = value[i]
  <2>1. q \in Seq(S) /\ value \in Seq(S)
    BY <1>3 DEF S
  <2>2. /\ s \in Seq(S) /\ Len(s) = Len(q) + Len(value)
        /\ \A i \in 1..Len(q) : s[i] = q[i]
        /\ \A i \in 1..Len(value) : s[Len(q) + i] = value[i]
    BY <2>1, Concatenated, SMT
  <2>3. 1 \in 1..1
    OBVIOUS
  <2> HIDE DEF s
  <2> QED
    BY <1>3, <2>2, <2>3, Zenon
<1> HIDE DEF s
<1>6. /\ t \in Seq(S) /\ Len(t) = (1 + n) + 2
      /\ \A i \in 1..(1 + n) : t[i] = s[i]
      /\ \A i \in 1..2 : t[(1 + n) + i] = CrLf[i]
  <2>1. s \in Seq(S) /\ CrLf \in Seq(S)
    BY <1>4, <1>5
  <2>2. /\ t \in Seq(S) /\ Len(t) = Len(s) + Len(CrLf)
        /\ \A i \in 1..Len(s) : t[i] = s[i]
        /\ \A i \in 1..Len(CrLf) : t[Len(s) + i] = CrLf[i]
    BY <2>1, Concatenated, SMT
  <2> HIDE DEF t
  <2> QED
    BY <1>4, <1>5, <2>2, Zenon
<1> HIDE DEF t, n
<1>7. t[1] = "q"
  <2>1. 1 \in 1..(1 + n)
    BY <1>1
  <2> QED
    BY <1>5, <1>6, <2>1, Zenon
<1>8. t[n + 2] = "cr" /\ t[n + 3] = "lf"
  <2>1. 1 \in 1..2 /\ 2 \in 1..2 /\ (1 + n) + 1 = n + 2 /\ (1 + n) + 2 = n + 3
    BY <1>1
  <2> QED
    BY <1>4, <1>6, <2>1, Zenon
<1>9. Len(t) = n + 3 /\ Len(t) - 1 = n + 2 /\ Len(t) >= 3
  BY <1>1, <1>6
<1>10. ASSUME NEW i \in 1..(n + 3), t[i] = "lf" PROVE i = n + 3
  <2>1. "q" # "lf" /\ "cr" # "lf"
    OBVIOUS
  <2>2. i # 1 /\ i # n + 2
    BY <1>7, <1>8, <1>10, <2>1, Zenon
  <2>3. ~(i - 1 \in 1..n)
    <3> SUFFICES ASSUME i - 1 \in 1..n PROVE FALSE
      OBVIOUS
    <3>1. i \in 1..(1 + n) /\ 1 + (i - 1) = i
      BY <1>1
    <3> QED
      <4>1. t[i] = s[i]
        BY <1>6, <3>1, Zenon
      <4>2. s[1 + (i - 1)] = value[i - 1] /\ value[i - 1] # "lf"
        BY <1>2, <1>5, Zenon
      <4>3. s[i] # "lf"
        BY <3>1, <4>2, Zenon
      <4> QED
        BY <1>10, <4>1, <4>3, Zenon
  <2> QED
    BY <1>1, <2>2, <2>3
<1>11. Header(value) = t
  BY Zenon DEF Header, t, s, q
<1> QED
  BY <1>6, <1>7, <1>8, <1>9, <1>10, <1>11, Zenon DEF IsLine, S

\* A line is a block of one.
LEMMA LineIsBlock ==
  ASSUME NEW t, IsLine(t)
  PROVE  IsBlock(t, 1)
<1> DEFINE n == Len(t)
<1>1. t \in Seq(Characters) /\ n >= 3 /\ n \in Nat
  BY LenProperties, Zenon DEF IsLine
<1>2. /\ t[n - 1] = "cr" /\ t[n] = "lf"
      /\ \A i \in 1..n : t[i] = "lf" => i = n
  BY Zenon DEF IsLine
<1> HIDE DEF n
<1>3. n \in 1..n /\ n >= 2 /\ ~(n < n)
  BY <1>1
<1>4. LineFeeds(t) = {n}
  BY <1>2, <1>3, Zenon DEF LineFeeds, n
<1>5. IsFiniteSet({n}) /\ Cardinality({n}) = 1
  BY FS_Singleton, Zenon
<1>6. \A i \in 1..n : t[i] = "lf" =>
        i >= 2 /\ t[i - 1] = "cr" /\ (i < n => t[i + 1] = "q")
  BY <1>2, <1>3, Zenon
<1> QED
  BY <1>1, <1>2, <1>4, <1>5, <1>6, Zenon DEF IsBlock, n

\* One more line makes a block of one more.
LEMMA BlockGrows ==
  ASSUME NEW s, NEW k \in Nat, IsBlock(s, k), NEW t, IsLine(t)
  PROVE  IsBlock(s \o t, k + 1)
<1> DEFINE u == s \o t
           m == Len(s)
           n == Len(t)
           l == m + n
<1>1. s \in Seq(Characters) /\ m \in Nat /\ m >= 3 /\ t \in Seq(Characters) /\ n \in Nat /\ n >= 3
  BY LenProperties, Zenon DEF IsBlock, IsLine
<1>2. /\ u \in Seq(Characters) /\ Len(u) = l
      /\ \A i \in 1..m : u[i] = s[i]
      /\ \A i \in 1..n : u[m + i] = t[i]
  <2>1. s \in Seq(Characters) /\ t \in Seq(Characters)
    BY <1>1
  <2> QED
    BY <2>1, Concatenated, SMT
<1>3. \A i \in 1..m : s[i] = "lf" =>
        i >= 2 /\ s[i - 1] = "cr" /\ (i < m => s[i + 1] = "q")
  BY Zenon DEF IsBlock
<1>4. /\ t[1] = "q" /\ t[n - 1] = "cr" /\ t[n] = "lf"
      /\ \A i \in 1..n : t[i] = "lf" => i = n
  BY Zenon DEF IsLine
<1>5. IsFiniteSet(LineFeeds(s)) /\ Cardinality(LineFeeds(s)) = k
  BY Zenon DEF IsBlock
<1> HIDE DEF u, m, n
<1>6. u[l - 1] = "cr" /\ u[l] = "lf" /\ u[m + 1] = "q"
  <2>1. n - 1 \in 1..n /\ n \in 1..n /\ 1 \in 1..n /\ m + (n - 1) = l - 1
    BY <1>1
  <2> QED
    BY <1>2, <1>4, <2>1, Zenon
<1>7. ASSUME NEW i \in 1..l, u[i] = "lf", i # l PROVE i \in 1..m /\ s[i] = "lf"
  <2>1. CASE i \in 1..m
    BY <1>2, <1>7, <2>1, Zenon
  <2>2. CASE i \notin 1..m
    <3>1. i - m \in 1..n /\ m + (i - m) = i /\ i - m # n
      BY <1>1, <1>7, <2>2
    <3> QED
      BY <1>2, <1>4, <1>7, <3>1, Zenon
  <2> QED
    BY <2>1, <2>2, Zenon
<1>8. l \in 1..l /\ l >= 3 /\ l \notin 1..m /\ ~(l < l) /\ (1..m) \subseteq 1..l /\ l >= 2
  BY <1>1
<1>9. LineFeeds(u) = LineFeeds(s) \cup {l} /\ l \notin LineFeeds(s)
  <2>1. ASSUME NEW i \in LineFeeds(u) PROVE i \in LineFeeds(s) \cup {l}
    BY <1>2, <1>7, <2>1, Zenon DEF LineFeeds, m
  <2>2. ASSUME NEW i \in LineFeeds(s) PROVE i \in LineFeeds(u)
    BY <1>2, <1>8, <2>2, Zenon DEF LineFeeds, m
  <2>3. l \in LineFeeds(u)
    BY <1>2, <1>6, <1>8, Zenon DEF LineFeeds
  <2>4. l \notin LineFeeds(s)
    BY <1>8, Zenon DEF LineFeeds, m
  <2> QED
    BY <2>1, <2>2, <2>3, <2>4, Zenon
<1>10. IsFiniteSet(LineFeeds(u)) /\ Cardinality(LineFeeds(u)) = k + 1
  <2>1. /\ IsFiniteSet(LineFeeds(s) \cup {l})
        /\ Cardinality(LineFeeds(s) \cup {l}) =
             IF l \in LineFeeds(s) THEN Cardinality(LineFeeds(s)) ELSE Cardinality(LineFeeds(s)) + 1
    BY <1>5, FS_AddElement, Zenon
  <2> QED
    BY <1>5, <1>9, <2>1, Zenon
<1>11. ASSUME NEW i \in 1..l, u[i] = "lf"
       PROVE  i >= 2 /\ u[i - 1] = "cr" /\ (i < l => u[i + 1] = "q")
  <2>1. CASE i = l
    BY <1>6, <1>8, <2>1, Zenon
  <2>2. CASE i # l
    <3>1. i \in 1..m /\ s[i] = "lf"
      BY <1>7, <1>11, <2>2, Zenon
    <3>2. i >= 2 /\ s[i - 1] = "cr" /\ (i < m => s[i + 1] = "q")
      BY <1>3, <3>1, Zenon
    <3>3. i - 1 \in 1..m /\ (i = m \/ (i < m /\ i + 1 \in 1..m))
      BY <1>1, <3>1, <3>2
    <3> QED
      BY <1>2, <1>6, <3>2, <3>3, Zenon
  <2> QED
    BY <2>1, <2>2, Zenon
<1> HIDE DEF l
<1> QED
  BY <1>2, <1>6, <1>8, <1>10, <1>11, Zenon DEF IsBlock, u

\* A part of a text.
LEMMA PartOfText ==
  ASSUME NEW text \in Seq(Characters), NEW j \in Nat, j >= 1, NEW k \in Nat,
         (j - 1) + k <= Len(text)
  PROVE  LET part == SubSeq(text, j, (j - 1) + k)
         IN  part \in Seq(Characters) /\ Len(part) = k /\ \A i \in 1..k : part[i] = text[(j - 1) + i]
<1> DEFINE e == (j - 1) + k
           part == SubSeq(text, j, e)
<1>1. Len(text) \in Nat /\ \A i \in 1..Len(text) : text[i] \in Characters
  BY LenProperties, ElementOfSeq
<1>2. e \in Int /\ j \in Int /\ e - j + 1 = k /\ (IF j <= e THEN e - j + 1 ELSE 0) = k
        /\ \A i \in 1..k : j + i - 1 = (j - 1) + i
  OBVIOUS
<1>3. \A i \in j..e : text[i] \in Characters
  BY <1>1
<1> HIDE DEF e
<1>4. /\ part \in Seq(Characters) /\ Len(part) = IF j <= e THEN e - j + 1 ELSE 0
      /\ \A i \in 1..(e - j + 1) : part[i] = text[j + i - 1]
  <2>1. e \in Int /\ j \in Int
    BY <1>2
  <2> QED
    BY <1>3, <2>1, SubSeqProperties, SMT
<1> HIDE DEF part
<1> QED
  BY <1>2, <1>4, Zenon DEF part, e

\* An empty line, with the end of the line before it.
LEMMA EmptyLine ==
  LET line == CrLf \o CrLf
  IN  /\ line \in Seq(Characters) /\ Len(line) = 4
      /\ line[1] = "cr" /\ line[2] = "lf" /\ line[3] = "cr" /\ line[4] = "lf"
<1> DEFINE line == CrLf \o CrLf
<1>1. CrLf \in Seq(Characters)
  BY SmallTexts, Zenon
<1>2. /\ line \in Seq(Characters) /\ Len(line) = Len(CrLf) + Len(CrLf)
      /\ \A i \in 1..Len(CrLf) : line[i] = CrLf[i]
      /\ \A i \in 1..Len(CrLf) : line[Len(CrLf) + i] = CrLf[i]
  BY <1>1, Concatenated, SMT
<1>3. Len(CrLf) = 2 /\ CrLf[1] = "cr" /\ CrLf[2] = "lf"
  BY SmallTexts, Zenon
<1>4. 1 \in 1..2 /\ 2 \in 1..2 /\ 2 + 1 = 3 /\ 2 + 2 = 4
  OBVIOUS
<1> HIDE DEF line
<1> QED
  BY <1>2, <1>3, <1>4, Zenon DEF line

\* A message: a block of headers, an empty line, a body.
Message(H, B) == H \o CrLf \o B \o CrLf

\* What is where in it.
LEMMA MessagePlaces ==
  ASSUME NEW H \in Seq(Characters), NEW B \in Seq(Characters)
  PROVE  LET text == Message(H, B)
             h == Len(H)
             b == Len(B)
         IN  /\ text \in Seq(Characters) /\ Len(text) = h + b + 4
             /\ \A i \in 1..h : text[i] = H[i]
             /\ text[h + 1] = "cr" /\ text[h + 2] = "lf"
             /\ \A i \in 1..b : text[h + 2 + i] = B[i]
<1> DEFINE S == Characters
           h == Len(H)
           b == Len(B)
           u == H \o CrLf
           v == u \o B
           text == v \o CrLf
<1>1. h \in Nat /\ b \in Nat
  BY LenProperties, Zenon
<1>2. CrLf \in Seq(S) /\ Len(CrLf) = 2 /\ CrLf[1] = "cr" /\ CrLf[2] = "lf"
  BY SmallTexts, Zenon
<1>3. CrLf \in Seq(S) /\ H \in Seq(S) /\ B \in Seq(S)
  BY <1>2
<1> HIDE DEF S
<1>4. /\ u \in Seq(S) /\ Len(u) = Len(H) + Len(CrLf)
      /\ \A i \in 1..Len(H) : u[i] = H[i]
      /\ \A i \in 1..Len(CrLf) : u[Len(H) + i] = CrLf[i]
  BY <1>3, Concatenated, SMT
<1> HIDE DEF u
<1>5. u \in Seq(S)
  BY <1>4
<1>6. /\ v \in Seq(S) /\ Len(v) = Len(u) + Len(B)
      /\ \A i \in 1..Len(u) : v[i] = u[i]
      /\ \A i \in 1..Len(B) : v[Len(u) + i] = B[i]
  BY <1>3, <1>5, Concatenated, SMT
<1> HIDE DEF v
<1>7. v \in Seq(S)
  BY <1>6
<1>8. /\ text \in Seq(S) /\ Len(text) = Len(v) + Len(CrLf)
      /\ \A i \in 1..Len(v) : text[i] = v[i]
  BY <1>3, <1>7, Concatenated, SMT
<1> HIDE DEF text, h, b
<1>9. Len(u) = h + 2 /\ Len(v) = h + 2 + b /\ Len(text) = h + 2 + b + 2
  BY <1>2, <1>4, <1>6, <1>8, Zenon DEF h, b
<1>10. h + 2 + b + 2 = h + b + 4
  BY <1>1
<1>11. ASSUME NEW i \in 1..(h + 2) PROVE text[i] = u[i]
  <2>1. i \in 1..(h + 2 + b)
    BY <1>1
  <2> QED
    BY <1>6, <1>8, <1>9, <2>1, Zenon
<1>12. \A i \in 1..h : text[i] = H[i]
  <2>1. \A i \in 1..h : i \in 1..(h + 2)
    BY <1>1
  <2> QED
    BY <1>4, <1>11, <2>1, Zenon DEF h
<1>13. text[h + 1] = "cr" /\ text[h + 2] = "lf"
  <2>1. 1 \in 1..2 /\ 2 \in 1..2 /\ h + 1 \in 1..(h + 2) /\ h + 2 \in 1..(h + 2)
    BY <1>1
  <2> QED
    BY <1>2, <1>4, <1>11, <2>1, Zenon DEF h
<1>14. \A i \in 1..b : text[h + 2 + i] = B[i]
  <2>1. \A i \in 1..b : h + 2 + i \in 1..(h + 2 + b)
    BY <1>1
  <2> QED
    BY <1>6, <1>8, <1>9, <2>1, Zenon DEF b
<1>15. text = Message(H, B)
  BY Zenon DEF text, v, u, Message
<1> QED
  BY <1>8, <1>9, <1>10, <1>12, <1>13, <1>14, <1>15, Zenon DEF h, b, S

\* The first empty line of a message is the one after its headers.
LEMMA BlankLineIs ==
  ASSUME NEW H, NEW k, IsBlock(H, k), NEW B \in Seq(Characters)
  PROVE  BlankLine(Message(H, B)) = Len(H) - 1
<1> DEFINE text == Message(H, B)
           h == Len(H)
           b == Len(B)
           line == CrLf \o CrLf
           At(i) == SubSeq(text, i, i + 3)
           First(i) == At(i) = line /\ \A j \in 1..(i - 1) : At(j) # line
<1>1. H \in Seq(Characters) /\ h >= 3 /\ H[h - 1] = "cr" /\ H[h] = "lf"
        /\ \A i \in 1..h : H[i] = "lf" /\ i < h => H[i + 1] = "q"
  BY Zenon DEF IsBlock
<1>2. h \in Nat /\ b \in Nat
  BY <1>1, LenProperties, Zenon
<1>3. /\ text \in Seq(Characters) /\ Len(text) = h + b + 4
      /\ \A i \in 1..h : text[i] = H[i]
      /\ text[h + 1] = "cr" /\ text[h + 2] = "lf"
  BY <1>1, MessagePlaces, Zenon
<1>4. DOMAIN text = 1..(h + b + 4)
  BY <1>3, LenProperties, Zenon
<1> HIDE DEF text, h, b
<1>5. /\ line \in Seq(Characters) /\ Len(line) = 4
      /\ line[1] = "cr" /\ line[2] = "lf" /\ line[3] = "cr" /\ line[4] = "lf"
  BY EmptyLine, Zenon
<1> HIDE DEF line
<1>6. ASSUME NEW i \in 1..(h - 1)
      PROVE  At(i) \in Seq(Characters) /\ Len(At(i)) = 4 /\ \A n \in 1..4 : At(i)[n] = text[(i - 1) + n]
  <2>1. i \in Nat /\ i >= 1 /\ 4 \in Nat /\ (i - 1) + 4 <= h + b + 4 /\ (i - 1) + 4 = i + 3
    BY <1>2
  <2>2. (i - 1) + 4 <= Len(text)
    BY <1>3, <2>1, Zenon
  <2>3. LET part == SubSeq(text, i, (i - 1) + 4)
        IN  part \in Seq(Characters) /\ Len(part) = 4 /\ \A n \in 1..4 : part[n] = text[(i - 1) + n]
    BY <1>3, <2>1, <2>2, PartOfText, Zenon
  <2> QED
    BY <2>1, <2>3, Zenon
<1>7. h - 1 \in 1..(h - 1) /\ h - 1 \in 1..(h + b + 4)
  BY <1>1, <1>2
<1>8. At(h - 1) = line
  <2> DEFINE part == At(h - 1)
  <2>1. part \in Seq(Characters) /\ Len(part) = 4
          /\ \A n \in 1..4 : part[n] = text[((h - 1) - 1) + n]
    BY <1>6, <1>7, Zenon
  <2> HIDE DEF part
  <2>2. /\ ((h - 1) - 1) + 1 = h - 1 /\ ((h - 1) - 1) + 2 = h
        /\ ((h - 1) - 1) + 3 = h + 1 /\ ((h - 1) - 1) + 4 = h + 2
        /\ h - 1 \in 1..h /\ h \in 1..h
        /\ 1 \in 1..4 /\ 2 \in 1..4 /\ 3 \in 1..4 /\ 4 \in 1..4
    BY <1>1, <1>2
  <2>3. part[1] = "cr" /\ part[2] = "lf" /\ part[3] = "cr" /\ part[4] = "lf"
    <3>1. part[1] = text[h - 1] /\ part[2] = text[h] /\ part[3] = text[h + 1] /\ part[4] = text[h + 2]
      BY <2>1, <2>2, Zenon
    <3> QED
      BY <1>1, <1>3, <2>2, <3>1, Zenon
  <2>4. \A n \in 1..4 : n = 1 \/ n = 2 \/ n = 3 \/ n = 4
    OBVIOUS
  <2>5. \A n \in 1..4 : part[n] = line[n]
    BY <1>5, <2>3, <2>4, Zenon
  <2>6. part = line
    BY <1>5, <2>1, <2>5, SeqEqual, Zenon
  <2> QED
    BY <2>6, Zenon DEF part
<1>9. ASSUME NEW i \in 1..(h - 2) PROVE At(i) # line
  <2> SUFFICES ASSUME At(i) = line PROVE FALSE
    OBVIOUS
  <2>1. /\ i \in 1..(h - 1) /\ 2 \in 1..4 /\ 3 \in 1..4
        /\ (i - 1) + 2 = i + 1 /\ (i - 1) + 3 = (i + 1) + 1
        /\ i + 1 \in 1..h /\ i + 1 < h /\ (i + 1) + 1 \in 1..h
    BY <1>2
  <2>2. text[i + 1] = "lf" /\ text[(i + 1) + 1] = "cr"
    BY <1>5, <1>6, <2>1, Zenon
  <2>3. text[(i + 1) + 1] = "q"
    BY <1>1, <1>3, <2>1, <2>2, Zenon
  <2>4. "q" # "cr"
    OBVIOUS
  <2> QED
    BY <2>2, <2>3, <2>4, Zenon
<1> HIDE DEF At
<1>10. First(h - 1)
  <2>1. (h - 1) - 1 = h - 2
    BY <1>2
  <2> QED
    BY <1>8, <1>9, <2>1, Zenon
<1>11. ASSUME NEW i \in 1..(h + b + 4), First(i) PROVE i = h - 1
  <2>1. i \in 1..(h - 2) \/ i = h - 1 \/ h - 1 \in 1..(i - 1)
    BY <1>1, <1>2
  <2> QED
    BY <1>8, <1>9, <1>11, <2>1, Zenon
<1> HIDE DEF First
<1>12. (CHOOSE i \in DOMAIN text : First(i)) = h - 1
  BY <1>4, <1>7, <1>10, <1>11, Zenon
<1>13. BlankLine(text) = CHOOSE i \in DOMAIN text : First(i)
  BY Zenon DEF BlankLine, First, At, line
<1> QED
  BY <1>12, <1>13, Zenon DEF text, h

\* A message is well formed when its headers are eight lines, its body is in
\* CRLF lines and starts with a letter and the secret.
LEMMA MessageIsWellFormed ==
  ASSUME NEW H, IsBlock(H, HeaderCount), NEW B \in Seq(Characters), LooksLikeCrLfText(B),
         NEW secret \in Seq(Characters), StartsWith(B, <<"a">> \o secret)
  PROVE  WellFormed(Message(H, B), secret)
<1> DEFINE text == Message(H, B)
           h == Len(H)
           b == Len(B)
           n == Len(secret)
<1>1. /\ H \in Seq(Characters) /\ h >= 3
      /\ \A i \in 1..h : H[i] = "lf" => i >= 2 /\ H[i - 1] = "cr"
      /\ Cardinality(LineFeeds(H)) = HeaderCount
  BY Zenon DEF IsBlock
<1>2. h \in Nat /\ b \in Nat /\ n \in Nat /\ DOMAIN H = 1..h
  BY <1>1, LenProperties, Zenon
<1>3. /\ text \in Seq(Characters) /\ Len(text) = h + b + 4
      /\ \A i \in 1..h : text[i] = H[i]
      /\ \A i \in 1..b : text[h + 2 + i] = B[i]
  BY <1>1, MessagePlaces, Zenon
<1>4. BlankLine(text) = h - 1
  BY BlankLineIs, Zenon
<1>5. LooksLikeCrLfText(text)
  <2>1. LooksLikeCrLfText(H)
    <3>1. \A i \in 1..h : i >= 2 => i # 1
      BY <1>2
    <3> QED
      BY <1>1, <1>2, <3>1, Zenon DEF LooksLikeCrLfText
  <2>2. CrLf \in Seq(Characters) /\ LooksLikeCrLfText(CrLf)
    BY SmallTexts, Zenon
  <2>3. H \o CrLf \in Seq(Characters) /\ LooksLikeCrLfText(H \o CrLf)
    BY <1>1, <2>1, <2>2, CrLfConcatenated, ConcatProperties, Zenon
  <2>4. H \o CrLf \o B \in Seq(Characters) /\ LooksLikeCrLfText(H \o CrLf \o B)
    BY <2>3, CrLfConcatenated, ConcatProperties, Zenon
  <2> QED
    BY <2>2, <2>4, CrLfConcatenated, Zenon DEF Message
<1>6. Headers(text) = HeaderCount
  <2>1. (h - 1) + 1 = h
    BY <1>2
  <2> DEFINE lfs == {i \in 1..h : text[i] = "lf"}
  <2>2. lfs = LineFeeds(H)
    BY <1>3, Zenon DEF LineFeeds
  <2>3. BlankLine(text) + 1 = h
    BY <1>4, <2>1, Zenon
  <2> HIDE DEF text, h
  <2>4. Headers(text) = Cardinality(lfs)
    BY <2>3, Zenon DEF Headers
  <2> HIDE DEF lfs
  <2> QED
    BY <1>1, <2>2, <2>4, Zenon
<1>7. n + 1 <= b /\ \A i \in 1..n : B[1 + i] = secret[i]
  <2> DEFINE A == <<"a">>
             t == A \o secret
             S == Characters
  <2>1. A \in Seq(S) /\ Len(A) = 1
    BY SmallTexts, Zenon DEF Characters
  <2>2. Len(t) <= b /\ \A i \in 1..Len(t) : B[i] = t[i]
    BY Zenon DEF StartsWith
  <2> HIDE DEF A
  <2>3. /\ Len(t) = Len(A) + Len(secret)
        /\ \A i \in 1..Len(secret) : t[Len(A) + i] = secret[i]
    <3>1. A \in Seq(S) /\ secret \in Seq(S)
      BY <2>1
    <3> HIDE DEF S
    <3> QED
      BY <3>1, Concatenated, SMT
  <2> HIDE DEF t, n, b
  <2>4. Len(t) = 1 + n /\ \A i \in 1..n : t[1 + i] = secret[i]
    BY <2>1, <2>3, Zenon DEF n
  <2>5. 1 + n = n + 1 /\ \A i \in 1..n : 1 + i \in 1..(1 + n)
    BY <1>2
  <2> QED
    BY <2>2, <2>4, <2>5, Zenon
<1> HIDE DEF text, h, b, n
<1> DEFINE j == h + 4
           part == SubSeq(text, j, (j - 1) + n)
<1>8. j \in (h - 1)..(h + b + 4) /\ (j - 1) + n = j + n - 1
        /\ j \in Nat /\ j >= 1 /\ (j - 1) + n <= h + b + 4
  BY <1>2, <1>7
<1>9. part \in Seq(Characters) /\ Len(part) = n /\ \A i \in 1..n : part[i] = text[(j - 1) + i]
  <2> HIDE DEF j
  <2>1. text \in Seq(Characters) /\ (j - 1) + n <= Len(text)
    BY <1>3, <1>8, Zenon
  <2> QED
    BY <1>2, <1>8, <2>1, PartOfText, Zenon
<1> HIDE DEF part
<1>10. \A i \in 1..n : part[i] = secret[i]
  <2> SUFFICES ASSUME NEW i \in 1..n PROVE part[i] = secret[i]
    OBVIOUS
  <2>1. 1 + i \in 1..b /\ (j - 1) + i = h + 2 + (1 + i)
    BY <1>2, <1>7
  <2>2. text[h + 2 + (1 + i)] = B[1 + i] /\ B[1 + i] = secret[i]
    BY <1>3, <1>7, <2>1, Zenon
  <2> HIDE DEF j
  <2>3. part[i] = text[(j - 1) + i]
    BY <1>9, Zenon
  <2> QED
    BY <2>1, <2>2, <2>3, Zenon
<1>11. part = secret
  BY <1>9, <1>10, SeqEqual, Zenon DEF n
<1> HIDE DEF j
<1>12. \E i \in BlankLine(text)..Len(text) : SubSeq(text, i, i + n - 1) = secret
  BY <1>3, <1>4, <1>8, <1>11, Zenon DEF part
<1> QED
  BY <1>5, <1>6, <1>12, Zenon DEF WellFormed, text, n

\* A header value: a text without line ends.
IsValue(text) == text \in Seq(Characters) /\ ~ContainsCrlf(text)

\* Values may be put together.
LEMMA ValuesJoin ==
  ASSUME NEW s, IsValue(s), NEW t, IsValue(t)
  PROVE  IsValue(s \o t)
<1> DEFINE u == s \o t
           m == Len(s)
           n == Len(t)
<1>1. s \in Seq(Characters) /\ t \in Seq(Characters)
  BY Zenon DEF IsValue
<1>2. m \in Nat /\ n \in Nat /\ DOMAIN s = 1..m /\ DOMAIN t = 1..n
  BY <1>1, LenProperties, Zenon
<1>3. /\ u \in Seq(Characters) /\ Len(u) = m + n
      /\ \A i \in 1..m : u[i] = s[i]
      /\ \A i \in 1..n : u[m + i] = t[i]
  BY <1>1, Concatenated, SMT
<1>4. DOMAIN u = 1..(m + n)
  BY <1>3, LenProperties, Zenon
<1> HIDE DEF u, m, n
<1>5. ASSUME NEW i \in 1..(m + n) PROVE u[i] \notin {"cr", "lf"}
  <2>1. CASE i \in 1..m
    BY <1>2, <1>3, <2>1, Zenon DEF IsValue, ContainsCrlf
  <2>2. CASE i \notin 1..m
    <3>1. i - m \in 1..n /\ m + (i - m) = i
      BY <1>2, <2>2
    <3>2. u[i] = t[i - m]
      BY <1>3, <3>1, Zenon
    <3> QED
      BY <1>2, <3>1, <3>2, Zenon DEF IsValue, ContainsCrlf
  <2> QED
    BY <2>1, <2>2, Zenon
<1> QED
  BY <1>3, <1>4, <1>5, Zenon DEF IsValue, ContainsCrlf, u

\* A letter, and any other character but a line end, is a header value.
LEMMA OneCharacterValues == IsValue(<<"a">>) /\ IsValue(<<"q">>)
<1>1. ASSUME NEW c \in {"a", "q"} PROVE IsValue(<<c>>)
  <2>1. c \in Characters /\ c \notin {"cr", "lf"}
    BY DEF Characters
  <2>2. <<c>> \in Seq(Characters) /\ <<c>>[1] = c
    BY <2>1, SmallTexts, Zenon
  <2>3. DOMAIN <<c>> = 1..1 /\ \A i \in 1..1 : i = 1
    OBVIOUS
  <2> QED
    BY <2>1, <2>2, <2>3, Zenon DEF IsValue, ContainsCrlf
<1> QED
  BY <1>1, Zenon

\* The mailbox of a sender without line ends has none.
LEMMA MailboxIsValue ==
  ASSUME NEW email, IsValue(email), NEW name, IsValue(name)
  PROVE  IsValue(FormatMailbox(email, name))
<1>1. IsValue(name \o <<"q">>)
  BY OneCharacterValues, ValuesJoin, Zenon
<1>2. IsValue(name \o <<"q">> \o email)
  BY <1>1, ValuesJoin, Zenon
<1>3. IsValue(name \o <<"q">> \o email \o <<"q">>)
  BY <1>2, OneCharacterValues, ValuesJoin, Zenon
<1> QED
  BY <1>3, Zenon DEF FormatMailbox

\* The headers of a mail, as BuildPlaintextRfc822 writes them.
HeadersOf(from, name, to, subject) ==
  Header(FormatMailbox(from, name)) \o Header(to) \o Header(subject)
    \o Fixed \o Fixed \o Fixed \o Fixed \o Fixed

\* They are eight lines.
LEMMA EightHeaders ==
  ASSUME NEW from, IsValue(from), NEW name, IsValue(name), NEW to, IsValue(to),
         NEW subject, IsValue(subject)
  PROVE  IsBlock(HeadersOf(from, name, to, subject), HeaderCount)
<1>1. ASSUME NEW value, IsValue(value) PROVE IsLine(Header(value))
  BY <1>1, HeaderIsLine, Zenon DEF IsValue
<1>2. IsLine(Fixed)
  BY <1>1, OneCharacterValues, Zenon DEF Fixed
<1> DEFINE a == Header(FormatMailbox(from, name))
           b == Header(to)
           c == Header(subject)
           d == Fixed
<1>3. IsLine(a) /\ IsLine(b) /\ IsLine(c) /\ IsLine(d)
  BY <1>1, <1>2, MailboxIsValue, Zenon
<1> HIDE DEF a, b, c, d
<1>4. /\ 1 \in Nat /\ 2 \in Nat /\ 3 \in Nat /\ 4 \in Nat /\ 5 \in Nat /\ 6 \in Nat /\ 7 \in Nat
      /\ 1 + 1 = 2 /\ 2 + 1 = 3 /\ 3 + 1 = 4 /\ 4 + 1 = 5 /\ 5 + 1 = 6 /\ 6 + 1 = 7 /\ 7 + 1 = 8
  OBVIOUS
<1>5. IsBlock(a, 1)
  BY <1>3, LineIsBlock, Zenon
<1>6. IsBlock(a \o b, 2)
  BY <1>3, <1>4, <1>5, BlockGrows, Zenon
<1>7. IsBlock(a \o b \o c, 3)
  BY <1>3, <1>4, <1>6, BlockGrows, Zenon
<1>8. IsBlock(a \o b \o c \o d, 4)
  BY <1>3, <1>4, <1>7, BlockGrows, Zenon
<1>9. IsBlock(a \o b \o c \o d \o d, 5)
  BY <1>3, <1>4, <1>8, BlockGrows, Zenon
<1>10. IsBlock(a \o b \o c \o d \o d \o d, 6)
  BY <1>3, <1>4, <1>9, BlockGrows, Zenon
<1>11. IsBlock(a \o b \o c \o d \o d \o d \o d, 7)
  BY <1>3, <1>4, <1>10, BlockGrows, Zenon
<1>12. IsBlock(a \o b \o c \o d \o d \o d \o d \o d, 8)
  BY <1>3, <1>4, <1>11, BlockGrows, Zenon
<1> QED
  BY <1>12, Zenon DEF HeadersOf, HeaderCount, a, b, c, d

-----------------------------------------------------------------------------
(***************************************************************************)
(* A mail with a secret.                                                   *)
(***************************************************************************)
SecretBody(secret) == <<"a">> \o secret \o CrLf \o CrLf \o <<"a">> \o CrLf

\* The body starts with a letter and the secret.
LEMMA SecretBodyStarts ==
  ASSUME NEW secret \in Seq(Characters)
  PROVE  SecretBody(secret) \in Seq(Characters)
           /\ StartsWith(SecretBody(secret), <<"a">> \o secret)
<1> DEFINE A == <<"a">>
           s == A \o secret
           S == Characters
<1>1. A \in Seq(S) /\ CrLf \in Seq(S) /\ secret \in Seq(S)
  BY SmallTexts, Zenon DEF Characters
<1> HIDE DEF A, S
<1>2. \A x, y \in Seq(S) : x \o y \in Seq(S)
  BY ConcatProperties, SMT
<1>3. s \in Seq(S)
  BY <1>1, <1>2, Zenon
<1> HIDE DEF s
<1>4. Len(s) \in Nat /\ StartsWith(s, s)
  BY <1>3, LenProperties, StartsWithItself, Zenon
<1>5. ASSUME NEW x \in Seq(S), StartsWith(x, s), NEW y \in Seq(S)
      PROVE  x \o y \in Seq(S) /\ StartsWith(x \o y, s)
  BY <1>2, <1>4, <1>5, StartsConcatenated, Zenon
<1>6. s \o CrLf \in Seq(S) /\ StartsWith(s \o CrLf, s)
  BY <1>1, <1>3, <1>4, <1>5, Zenon
<1>7. s \o CrLf \o CrLf \in Seq(S) /\ StartsWith(s \o CrLf \o CrLf, s)
  BY <1>1, <1>5, <1>6, Zenon
<1>8. s \o CrLf \o CrLf \o A \in Seq(S) /\ StartsWith(s \o CrLf \o CrLf \o A, s)
  BY <1>1, <1>5, <1>7, Zenon
<1>9. s \o CrLf \o CrLf \o A \o CrLf \in Seq(S) /\ StartsWith(s \o CrLf \o CrLf \o A \o CrLf, s)
  BY <1>1, <1>5, <1>8, Zenon
<1> QED
  BY <1>9, Zenon DEF SecretBody, s, A, S

\* What BuildPlaintextRfc822 makes of values and a body with a secret.
LEMMA BuiltMail ==
  ASSUME NEW from, IsValue(from), NEW name, IsValue(name), NEW to, IsValue(to),
         NEW secret \in Seq(Characters)
  PROVE  LET payload == BuildPlaintextRfc822(from, name, to, <<"a">>, SecretBody(secret))
         IN  /\ payload \in Seq(Characters) /\ payload # <<>>
             /\ WellFormed(payload, BodyLines(secret))
<1> DEFINE H == HeadersOf(from, name, to, <<"a">>)
           body == SecretBody(secret)
           B == BodyLines(body)
           payload == BuildPlaintextRfc822(from, name, to, <<"a">>, body)
<1>1. payload = Message(H, B)
  BY Zenon DEF BuildPlaintextRfc822, HeadersOf, Message
<1>2. IsBlock(H, HeaderCount)
  BY OneCharacterValues, EightHeaders, Zenon
<1>3. body \in Seq(Characters) /\ StartsWith(body, <<"a">> \o secret)
  BY SecretBodyStarts, Zenon
<1> HIDE DEF H, body
<1>4. B \in Seq(Characters) /\ LooksLikeCrLfText(B) /\ BodyLines(secret) \in Seq(Characters)
  BY <1>3, BodyIsCrLfText, Zenon
<1>5. StartsWith(B, <<"a">> \o BodyLines(secret))
  BY <1>3, BodyHoldsSecret, Zenon
<1> HIDE DEF B
<1>6. WellFormed(Message(H, B), BodyLines(secret))
  BY <1>2, <1>4, <1>5, MessageIsWellFormed, Zenon
<1>7. H \in Seq(Characters)
  BY <1>2, Zenon DEF IsBlock
<1>8. Message(H, B) \in Seq(Characters) /\ Len(Message(H, B)) = Len(H) + Len(B) + 4
  BY <1>4, <1>7, MessagePlaces, Zenon
<1>9. Len(H) + Len(B) + 4 # 0
  <2>1. Len(H) \in Nat /\ Len(B) \in Nat
    BY <1>4, <1>7, LenProperties, Zenon
  <2> QED
    BY <2>1
<1>10. Message(H, B) # <<>>
  <2>1. Len(<<>>) = 0
    OBVIOUS
  <2> QED
    BY <1>8, <1>9, <2>1, Zenon
<1> QED
  BY <1>1, <1>6, <1>8, <1>10, Zenon DEF body

\* A mail the server takes is delivered exactly when its header fields are
\* acceptable, however the text is read; it then arrives whole, with eight
\* headers and the secret in its body, and any other is refused for good.
THEOREM MailIsWellFormed ==
  ASSUME NEW from \in Seq(Characters), NEW name \in Seq(Characters),
         NEW to \in Seq(Characters), NEW secret \in Seq(Characters),
         NEW cap \in Nat, cap > 0
  PROVE  LET result == SendSecret(Client, from, name, to, secret,
                                  [code |-> "OK", cap |-> cap])
         IN  /\ result.ok => WellFormed(result.wire, BodyLines(secret))
             /\ Outcome(result) = IF Acceptable(from, name, to) THEN "sent"
                                  ELSE "permanent"
<1> DEFINE session == [code |-> "OK", cap |-> cap]
           result == SendSecret(Client, from, name, to, secret, session)
           body == SecretBody(secret)
           payload == BuildPlaintextRfc822(from, name, to, <<"a">>, body)
<1>1. result = SendPlaintext(Client, from, name, to, <<"a">>, body, session)
  BY Zenon DEF SendSecret, SecretBody
<1>2. ~ContainsCrlf(<<"a">>)
  BY OneCharacterValues, Zenon DEF IsValue
<1>3. session.code = "OK" /\ session.cap = cap
  BY Zenon
<1> HIDE DEF session, body
<1>4. CASE ~Acceptable(from, name, to)
  <2>1. \/ from = <<>> \/ to = <<>>
        \/ ContainsCrlf(from) \/ ContainsCrlf(to) \/ ContainsCrlf(name)
    BY <1>4, Zenon DEF Acceptable
  <2>2. result = Refused
    BY <1>1, <2>1, Zenon DEF SendPlaintext
  <2>3. Refused.ok = FALSE /\ Refused.retryable = FALSE
    BY Zenon DEF Refused
  <2> HIDE DEF result
  <2> QED
    BY <1>4, <2>2, <2>3, Zenon DEF Outcome, result, session
<1>5. CASE Acceptable(from, name, to)
  <2>1. from # <<>> /\ to # <<>> /\ IsValue(from) /\ IsValue(name) /\ IsValue(to)
    BY <1>5, Zenon DEF Acceptable, IsValue
  <2>2. result = Send(Client, <<to>>, payload, session)
    BY <1>1, <1>2, <2>1, Zenon DEF SendPlaintext, IsValue
  <2>3. /\ payload \in Seq(Characters) /\ payload # <<>>
        /\ WellFormed(payload, BodyLines(secret))
    BY <2>1, BuiltMail, Zenon DEF body
  <2> HIDE DEF payload, result
  <2>4. LooksLikeCrLfText(payload)
    BY <2>3, Zenon DEF WellFormed
  <2>5. Client.host /\ Client.username /\ Client.app_password
    BY Zenon DEF Client
  <2>6. <<to>> # <<>>
    OBVIOUS
  <2>7. session.code # "no_handle"
    BY <1>3
  <2>8. result = MapCurlError("OK", Upload(payload, cap))
    BY <1>3, <2>2, <2>3, <2>4, <2>5, <2>6, <2>7, Zenon DEF Send
  <2>9. Upload(payload, cap) = payload
    BY <2>3, UploadIsWhole, Zenon
  <2>10. result.ok = TRUE /\ result.wire = payload
    BY <2>8, <2>9, Zenon DEF MapCurlError
  <2>11. Outcome(result) = "sent"
    BY <2>10, Zenon DEF Outcome
  <2> QED
    BY <1>5, <2>3, <2>10, <2>11, Zenon DEF result, session
<1> QED
  BY <1>4, <1>5, Zenon

\* In every state of an instance: the mails of its outbox worker arrive well
\* formed, and those that cannot are refused for good.
THEOREM MailStaysWellFormed == Spec => []DeliveredMailIsWellFormed
<1>1. MailsAreWellFormed
  <2> SUFFICES ASSUME NEW from \in Strings, NEW name \in Strings, NEW to \in Strings,
                      NEW secret \in Strings, NEW cap \in {1, 4}
               PROVE  LET result == SendSecret(Client, from, name, to, secret,
                                               [code |-> "OK", cap |-> cap])
                      IN  /\ result.ok => WellFormed(result.wire, BodyLines(secret))
                          /\ Outcome(result) = IF Acceptable(from, name, to) THEN "sent"
                                               ELSE "permanent"
    BY Zenon DEF MailsAreWellFormed
  <2>1. cap \in Nat /\ cap > 0
    OBVIOUS
  <2>2. /\ from \in Seq(Characters) /\ name \in Seq(Characters)
        /\ to \in Seq(Characters) /\ secret \in Seq(Characters)
    BY ContentAssumption, Zenon
  <2> QED
    BY <2>1, <2>2, MailIsWellFormed, Zenon
<1>2. DeliveredMailIsWellFormed
  BY <1>1, Zenon DEF DeliveredMailIsWellFormed
<1> QED
  BY <1>2, PTL
=============================================================================
