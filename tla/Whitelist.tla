------------------------------ MODULE Whitelist ------------------------------
(***************************************************************************)
(* The whitelist (config.rs): what an entry means after it has been parsed *)
(* and what the check of a source makes of it, at the widths of Wire.      *)
(*                                                                         *)
(* A text is the sequence of its entries: an IP, an IP with a prefix       *)
(* length, or nothing between two commas; <<>> is the empty text.          *)
(***************************************************************************)
EXTENDS Wire

CONSTANT None    \* no prefix length

Blank           == [blank |-> TRUE]
Entry(ip, bits) == [blank |-> FALSE, ip |-> ip, bits |-> bits]

Width(ip) == ByteBits * (IF ip.kind = "v4" THEN V4Len ELSE V6Len)

\* The mapped addresses are one network of this length (96 in the code).
MappedBits == ByteBits * (V6Len - V4Len)

\* A network of mapped addresses is kept as one of IPv4 addresses.
network(entry) ==
  IF normalize(entry.ip).kind # entry.ip.kind /\ entry.bits >= MappedBits
    THEN Entry(normalize(entry.ip), entry.bits - MappedBits) ELSE entry

\* Whitelist::parse: the entries in order, all of them valid, and at least one
\* unless the text is empty.
parse(text) ==
  LET entries == SelectSeq(text, LAMBDA e : ~e.blank)
      Invalid(e) == e.bits # None /\ e.bits > Width(e.ip)
      one(e) == IF e.bits = None THEN Entry(normalize(e.ip), None) ELSE network(e)
  IN IF \E i \in DOMAIN entries : Invalid(entries[i]) THEN Err("input")
     ELSE IF text # <<>> /\ entries = <<>> THEN Err("input")
     ELSE Ok({one(entries[i]) : i \in DOMAIN entries})

------------------------------------------------------------------------------
\* An address as an unsigned integer (u32::from, u128::from).
Number(ip) ==
  LET value[i \in 0 .. Len(ip.bytes)] ==
        IF i = 0 THEN 0 ELSE value[i - 1] * Base + ip.bytes[i]
  IN value[Len(ip.bytes)]

\* Mutant: a shift by the whole width leaves the mask as it is.
masked_wrapping(x, width, bits) ==
  IF bits = 0 THEN x ELSE x - (x % 2 ^ (width - bits))

\* MAX.checked_shl(width - bits).unwrap_or(0), and what is left of x under it.
masked(x, width, bits) == IF bits = 0 THEN 0 ELSE x - (x % 2 ^ (width - bits))

prefix_matches(net, ip, bits) ==
  /\ net.kind = ip.kind
  /\ masked(Number(net), Width(net), bits) = masked(Number(ip), Width(ip), bits)

\* Whitelist::allows; an empty list allows everybody.
allows(list, ip) ==
  \/ list = {}
  \/ Entry(normalize(ip), None) \in list
  \/ \E e \in list : /\ e.bits # None
                     /\ \/ prefix_matches(e.ip, normalize(ip), e.bits)
                        \/ prefix_matches(e.ip, ip, e.bits)

------------------------------------------------------------------------------
(* The reference: every address is one of the IPv6 addresses that the dual *)
(* stack sockets see, an IPv4 address being its mapped one, and an entry   *)
(* is the set of addresses that begin with the same bits.                  *)
Seen(ip) == IF ip.kind = "v4" THEN V6(MappedPrefix \o ip.bytes) ELSE ip

Bit(ip, i) == (Number(ip) \div 2 ^ (Width(ip) - i)) % 2

Covered(text, ip) ==
  LET Fixed(e) == IF e.bits = None THEN Width(Seen(e.ip))
                  ELSE IF e.ip.kind = "v4" THEN MappedBits + e.bits ELSE e.bits
  IN text = <<>> \/ \E k \in DOMAIN text :
       ~text[k].blank /\ \A i \in 1 .. Fixed(text[k]) :
                           Bit(Seen(text[k].ip), i) = Bit(Seen(ip), i)
=============================================================================
