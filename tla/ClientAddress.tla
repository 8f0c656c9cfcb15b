--------------------------- MODULE ClientAddress ---------------------------
(***************************************************************************)
(* The client's address, as infra/http/request_meta_extractor.cpp derives  *)
(* it from the connection and the forwarding headers.  It is the key of    *)
(* the per-address rate limits and is stored with every session.           *)
(*                                                                         *)
(* A text is what inet_pton can make of it: a record with form "v4", "v6", *)
(* "mapped" (an IPv4 address written as ::ffff:a.b.c.d, its IPv4 bytes in  *)
(* `bytes') or "bad" (anything else, the empty text included).  A header   *)
(* with commas is the sequence of its texts; an absent one is <<>>.        *)
(***************************************************************************)
EXTENDS Integers, Sequences, FiniteSets

CONSTANTS
    AddressBytes,   \* the bytes of an address: 4 of version 4, 16 of version 6
    Nothing         \* std::nullopt, or the throw of a constructor

ByteBits == 8

Addresses == [version : {4, 6}, bytes : Seq(0..255)]

ASSUME AddressAssumption ==
    /\ \A version \in {4, 6} : AddressBytes[version] \in Nat
    /\ Nothing \notin Nat /\ Nothing \notin Addresses /\ Nothing \notin Seq(Addresses)

(***************************************************************************)
(* Parsing.                                                                *)
(***************************************************************************)
Version(text) == IF text.form = "v6" THEN 6 ELSE 4

\* What inet_pton makes of a text.
IsText(text) ==
    text.form = "bad"
    \/ /\ text.form \in {"v4", "v6", "mapped"}
       /\ text.bytes \in Seq(0..255)
       /\ Len(text.bytes) = AddressBytes[Version(text)]

ParseIp(text) ==
    IF text.form = "bad" THEN Nothing
    ELSE [version |-> Version(text), bytes |-> text.bytes]

ParsePrefixLength(value, version) ==
    IF value \in 0..(ByteBits * AddressBytes[version]) THEN value ELSE Nothing

\* A cidr is [text, slash, prefix]: without a slash the whole address counts.
ParseTrustedProxyCidr(cidr) ==
    LET address == ParseIp(cidr.text)
        prefix == IF cidr.slash
                  THEN ParsePrefixLength(cidr.prefix, address.version)
                  ELSE ByteBits * AddressBytes[address.version]
    IN  IF address = Nothing THEN Nothing
        ELSE IF prefix = Nothing THEN Nothing
        ELSE [version |-> address.version, bytes |-> address.bytes,
              prefix_length |-> prefix]

ParseForwardedFor(header) ==
    LET parsed == [i \in DOMAIN header |-> ParseIp(header[i])]
    IN  IF header = <<>> \/ \E i \in DOMAIN parsed : parsed[i] = Nothing
        THEN Nothing
        ELSE parsed

-----------------------------------------------------------------------------
(***************************************************************************)
(* Networks.                                                               *)
(***************************************************************************)
\* byte & (0xFF << (8 - bits)): the byte with its low bits cleared.
Masked(byte, bits) == byte - (byte % 2^(ByteBits - bits))

PrefixMatches(network, address, prefix_length) ==
    LET full_bytes == prefix_length \div ByteBits
        remaining_bits == prefix_length % ByteBits
    IN  /\ \A i \in 1..full_bytes : network[i] = address[i]
        /\ \/ remaining_bits = 0
           \/ Masked(network[full_bytes + 1], remaining_bits)
                = Masked(address[full_bytes + 1], remaining_bits)

IsTrustedProxy(proxies, address) ==
    \E network \in proxies :
        /\ network.version = address.version
        /\ PrefixMatches(network.bytes, address.bytes, network.prefix_length)

-----------------------------------------------------------------------------
(***************************************************************************)
(* ClientIpExtractor::Extract.  A request is [remote, xff, xri].           *)
(***************************************************************************)
\* The walk from the last hop to the first untrusted one.
RightmostUntrusted(proxies, chain) ==
    LET untrusted == {i \in DOMAIN chain : ~IsTrustedProxy(proxies, chain[i])}
    IN  IF untrusted = {} THEN chain[1]
        ELSE chain[CHOOSE i \in untrusted : \A j \in untrusted : j <= i]

\* Mutant: the walk starts at the client's end of the header.
ExtractLeftmost(proxies, request) ==
    LET chain == ParseForwardedFor(request.xff)
    IN  IF chain = Nothing THEN ParseIp(request.remote) ELSE chain[1]

Extract(proxies, request) ==
    LET remote_ip == ParseIp(request.remote)
        chain == ParseForwardedFor(request.xff)
        real_ip == ParseIp(request.xri)
    IN  IF remote_ip = Nothing THEN Nothing
        ELSE IF ~IsTrustedProxy(proxies, remote_ip) THEN remote_ip
        ELSE IF chain # Nothing
        THEN RightmostUntrusted(proxies, Append(chain, remote_ip))
        ELSE IF real_ip # Nothing THEN real_ip
        ELSE remote_ip

-----------------------------------------------------------------------------
(***************************************************************************)
(* What the extractor promises, over a set of requests.                    *)
(***************************************************************************)
\* Bit b (counted from the left, from 0) of a sequence of bytes.
Bit(bytes, b) ==
    (bytes[(b \div ByteBits) + 1] \div 2^(ByteBits - 1 - (b % ByteBits))) % 2

\* An address lies in a network when they agree on the prefix, bit by bit.
InNetwork(network, address) ==
    /\ network.version = address.version
    /\ \A b \in 0..(network.prefix_length - 1) :
           Bit(network.bytes, b) = Bit(address.bytes, b)

\* Two texts that mean the same address.
SameAddress(text, other) ==
    /\ text.form # "bad" /\ other.form # "bad"
    /\ Version(text) = Version(other)
    /\ text.bytes = other.bytes

\* Once some hop is untrusted, addresses written before it change nothing.
PrefixIsIgnored(proxies, request, prefix) ==
    LET hops == Append(request.xff, request.remote)
        Trusted(text) ==
            \E network \in proxies : InNetwork(network, ParseIp(text))
    IN  (/\ \A i \in DOMAIN prefix : prefix[i].form # "bad"
         /\ \A i \in DOMAIN hops : hops[i].form # "bad"
         /\ \E i \in DOMAIN hops : ~Trusted(hops[i]))
        => Extract(proxies, [request EXCEPT !.xff = prefix \o request.xff])
             = Extract(proxies, request)

\* An entry that is no address makes the header count for nothing: what is
\* left is X-Real-IP, if a trusted proxy sent it, or the peer.
MalformedIsDropped(proxies, request, prefix) ==
    (\E i \in DOMAIN prefix : prefix[i].form = "bad")
    => Extract(proxies, [request EXCEPT !.xff = prefix \o request.xff])
         = Extract(proxies, [request EXCEPT !.xff = <<>>])

\* The notation of the peer's address changes nothing.
NotationIsIgnored(proxies, request, other) ==
    SameAddress(request.remote, other)
    => Extract(proxies, [request EXCEPT !.remote = other])
         = Extract(proxies, request)
=============================================================================
