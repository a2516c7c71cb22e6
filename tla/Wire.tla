-------------------------------- MODULE Wire --------------------------------
(***************************************************************************)
(* The encoding of SOCKS5 messages (protocol.rs).  Bytes, addresses and    *)
(* names are those of the code at a reduced width: a byte has ByteBits     *)
(* bits (8 in the code), an IPv4 address V4Len bytes (4) and an IPv6       *)
(* address V6Len bytes (16).  A function that may fail returns Ok(value)   *)
(* or Err(kind), with the io::ErrorKind the callers tell apart.            *)
(***************************************************************************)
EXTENDS Naturals, Sequences

CONSTANTS ByteBits,      \* bits of a byte, enough for the address types
          V4Len, V6Len,  \* bytes of an address
          MappedPrefix   \* what an IPv4-mapped address begins with (::ffff)

ASSUME WidthAssumption ==
  /\ ByteBits \in Nat /\ ByteBits > 2
  /\ V4Len \in Nat \ {0} /\ V6Len \in Nat /\ V4Len < V6Len
  /\ MappedPrefix \in Seq(0 .. 2 ^ ByteBits - 1)
  /\ Len(MappedPrefix) = V6Len - V4Len

Base == 2 ^ ByteBits

Ok(value) == [ok |-> TRUE, value |-> value]
Err(kind) == [ok |-> FALSE, error |-> kind]

From(bytes, i) == SubSeq(bytes, i, Len(bytes))

------------------------------------------------------------------------------
(* A Target is a host and a port; a SocketAddr is one whose host is an IP. *)
V4(bytes)     == [kind |-> "v4", bytes |-> bytes]
V6(bytes)     == [kind |-> "v6", bytes |-> bytes]
Domain(name)  == [kind |-> "domain", bytes |-> name]
At(host, port) == [host |-> host, port |-> port]

is_unspecified(ip) == \A i \in DOMAIN ip.bytes : ip.bytes[i] = 0

\* to_ipv4_mapped: an IPv4-mapped IPv6 address stands for the IPv4 address.
normalize(ip) ==
  IF ip.kind = "v6" /\ SubSeq(ip.bytes, 1, V6Len - V4Len) = MappedPrefix
    THEN V4(From(ip.bytes, V6Len - V4Len + 1)) ELSE ip

\* Every byte string is a name but for what is not UTF-8: the highest byte.
Utf8(name) == \A i \in DOMAIN name : name[i] # Base - 1

to_be_bytes(port)    == <<port \div Base, port % Base>>
from_be_bytes(bytes) == bytes[1] * Base + bytes[2]

Atyp(kind) == CASE kind = "v4" -> 1 [] kind = "domain" -> 3 [] kind = "v6" -> 4
KindOf(atyp) == CASE atyp = 1 -> "v4" [] atyp = 3 -> "domain" [] atyp = 4 -> "v6"

------------------------------------------------------------------------------
encode_address(address) ==
  <<Atyp(address.host.kind)>> \o address.host.bytes \o to_be_bytes(address.port)

\* A name has a length that fits in a byte, and is not empty.
encode_target(target) ==
  LET name == target.host.bytes IN
  IF target.host.kind # "domain" THEN Ok(encode_address(target))
  ELSE IF Len(name) = 0 \/ Len(name) > Base - 1 THEN Err("input")
  ELSE Ok(<<3, Len(name)>> \o name \o to_be_bytes(target.port))

\* read_target, blocking and async: each read_exact fails at the end of the
\* input, and the checks come between the reads.
read_target(bytes, atyp) ==
  LET head == IF atyp = 3 THEN 1 ELSE 0
      size == CASE atyp = 1 -> V4Len [] atyp = 4 -> V6Len [] OTHER -> bytes[1]
      host == SubSeq(bytes, head + 1, head + size)
      rest == From(bytes, head + size + 1)
  IN IF atyp \notin {1, 3, 4} THEN Err("data")
     ELSE IF Len(bytes) < head THEN Err("eof")
     ELSE IF size = 0 THEN Err("data")
     ELSE IF Len(bytes) < head + size THEN Err("eof")
     ELSE IF atyp = 3 /\ ~Utf8(host) THEN Err("data")
     ELSE IF Len(rest) < 2 THEN Err("eof")
     ELSE Ok([target |-> At([kind |-> KindOf(atyp), bytes |-> host],
                            from_be_bytes(rest)),
              rest |-> From(rest, 3)])

------------------------------------------------------------------------------
(* Requests and replies: 5, a command or status, 0, and an address.        *)
Prefixed(code, r) == IF r.ok THEN Ok(<<5, code, 0>> \o r.value) ELSE r

write_request(command, target) == Prefixed(command, encode_target(target))
write_reply(status, address)   == <<5, status, 0>> \o encode_address(address)

\* read_request and read_reply are alike, blocking and async.
read_header(bytes) ==
  IF Len(bytes) < 4 THEN Err("eof")
  ELSE IF bytes[1] # 5 \/ bytes[3] # 0 THEN Err("data")
  ELSE LET r == read_target(From(bytes, 5), bytes[4]) IN
       IF r.ok THEN Ok([code |-> bytes[2], target |-> r.value.target]) ELSE r

read_request(bytes) == read_header(bytes)
read_reply(bytes)   == read_header(bytes)

------------------------------------------------------------------------------
(* Datagrams: 0, 0, the fragment number 0, an address and the payload.     *)
parse_datagram(bytes) ==
  IF Len(bytes) < 4 \/ SubSeq(bytes, 1, 3) # <<0, 0, 0>> THEN Err("data")
  ELSE LET r == read_target(From(bytes, 5), bytes[4]) IN
       IF ~r.ok THEN r
       ELSE IF r.value.rest = <<>> THEN Err("data")
       ELSE Ok([target |-> r.value.target, payload |-> r.value.rest])

\* encode_datagram_to, append_datagram_to: the buffer is cleared first.
encode_datagram_to(target, payload) ==
  LET r == encode_target(target) IN
  IF r.ok THEN Ok(<<0, 0, 0>> \o r.value \o payload) ELSE r

datagram_header_len(address) ==
  6 + (IF address.host.kind = "v4" THEN V4Len ELSE V6Len)

\* write_datagram_header: the header takes the place of what the buffer holds
\* from `start` on.
write_datagram_header(buffer, start, address) ==
  LET header == <<0, 0, 0>> \o encode_address(address) IN
  [i \in DOMAIN buffer |-> IF i \in start + 1 .. start + Len(header)
                             THEN header[i - start] ELSE buffer[i]]
=============================================================================
