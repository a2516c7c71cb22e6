---------------------------- MODULE UdpPathProofs ----------------------------
(***************************************************************************)
(* Proofs about UdpPath for any widths, addresses, payloads and limits:    *)
(* what is said by one end of the relay is what the other end is told, the *)
(* library learns where to send, and only datagrams worth relaying take an *)
(* association.                                                            *)
(***************************************************************************)
EXTENDS UdpPath, SequenceTheorems, TLAPS

------------------------------------------------------------------------------
(* Cutting sequences that were put together.                               *)
LEMMA JoinLemma ==
  ASSUME NEW a \in Seq(Nat), NEW b \in Seq(Nat), NEW c \in Seq(Nat)
  PROVE  /\ a \o b \o c \in Seq(Nat)
         /\ Len(a \o b \o c) = Len(a) + Len(b) + Len(c)
         /\ \A i \in 1 .. Len(a) : (a \o b \o c)[i] = a[i]
         /\ \A i \in 1 .. Len(b) : (a \o b \o c)[Len(a) + i] = b[i]
         /\ \A i \in 1 .. Len(c) : (a \o b \o c)[Len(a) + Len(b) + i] = c[i]
<1> DEFINE ab == a \o b
<1>1. /\ ab \in Seq(Nat) /\ Len(ab) = Len(a) + Len(b)
      /\ \A i \in 1 .. Len(a) + Len(b) : ab[i] = IF i <= Len(a) THEN a[i] ELSE b[i - Len(a)]
  BY ConcatProperties
<1>2. Len(a) \in Nat /\ Len(b) \in Nat /\ Len(c) \in Nat
  BY LenProperties
<1>3. \A i \in 1 .. Len(a) : ab[i] = a[i]
  BY <1>1, <1>2
<1>4. \A i \in 1 .. Len(b) : ab[Len(a) + i] = b[i]
  BY <1>1, <1>2
<1> HIDE DEF ab
<1>5. /\ ab \o c \in Seq(Nat) /\ Len(ab \o c) = Len(ab) + Len(c)
      /\ \A i \in 1 .. Len(ab) + Len(c) :
           (ab \o c)[i] = IF i <= Len(ab) THEN ab[i] ELSE c[i - Len(ab)]
  <2>1. ab \in Seq(Nat)
    BY <1>1
  <2> QED
    BY <2>1, ConcatProperties
<1>6. /\ \A i \in 1 .. Len(ab) : (ab \o c)[i] = ab[i]
      /\ \A i \in 1 .. Len(c) : (ab \o c)[Len(ab) + i] = c[i]
  BY <1>1, <1>2, <1>5, SMTT(40)
<1>7. \A i \in 1 .. Len(b) : (ab \o c)[Len(a) + i] = b[i]
  BY <1>1, <1>2, <1>4, <1>6, SMTT(40)
<1> QED
  BY <1>1, <1>2, <1>3, <1>5, <1>6, <1>7 DEF ab

\* Cutting a piece out that is known byte by byte.
LEMMA PieceLemma ==
  ASSUME NEW s \in Seq(Nat), NEW m \in Nat, NEW t \in Seq(Nat), m + Len(t) <= Len(s),
         \A i \in 1 .. Len(t) : s[m + i] = t[i]
  PROVE  SubSeq(s, m + 1, m + Len(t)) = t
<1> DEFINE n == m + Len(t)
           u == SubSeq(s, m + 1, n)
<1>1. /\ Len(t) \in Nat /\ Len(s) \in Nat /\ m + 1 \in Int /\ n \in Int
      /\ n - (m + 1) + 1 = Len(t)
  BY LenProperties
<1>2. \A i \in m + 1 .. n : s[i] \in Nat
  <2>1. \A i \in 1 .. Len(s) : s[i] \in Nat
    BY LenProperties
  <2> QED
    BY <1>1, <2>1
<1>3. /\ u \in Seq(Nat)
      /\ Len(u) = IF m + 1 <= n THEN n - (m + 1) + 1 ELSE 0
      /\ \A i \in 1 .. n - (m + 1) + 1 : u[i] = s[(m + 1) + i - 1]
  <2> HIDE DEF n
  <2> QED
    BY <1>1, <1>2, SubSeqProperties
<1>4. Len(u) = Len(t)
  BY <1>1, <1>3
<1>5. \A i \in 1 .. Len(t) : u[i] = t[i]
  <2> SUFFICES ASSUME NEW i \in 1 .. Len(t) PROVE u[i] = t[i]
    OBVIOUS
  <2>1. (m + 1) + i - 1 = m + i /\ i \in 1 .. n - (m + 1) + 1
    BY <1>1
  <2> HIDE DEF u, n
  <2> QED
    BY <1>3, <2>1
<1> HIDE DEF u, n
<1> QED
  BY <1>3, <1>4, <1>5, SeqEqual DEF u, n

LEMMA CutLemma ==
  ASSUME NEW a \in Seq(Nat), NEW b \in Seq(Nat), NEW c \in Seq(Nat)
  PROVE  /\ SubSeq(a \o b \o c, Len(a) + 1, Len(a) + Len(b)) = b
         /\ From(a \o b \o c, Len(a) + Len(b) + 1) = c
<1> DEFINE s == a \o b \o c
<1>1. /\ s \in Seq(Nat) /\ Len(s) = Len(a) + Len(b) + Len(c)
      /\ \A i \in 1 .. Len(b) : s[Len(a) + i] = b[i]
      /\ \A i \in 1 .. Len(c) : s[Len(a) + Len(b) + i] = c[i]
  BY JoinLemma, ZenonT(40)
<1>2. Len(a) \in Nat /\ Len(b) \in Nat /\ Len(c) \in Nat
  BY LenProperties
<1> HIDE DEF s
<1>5. SubSeq(s, Len(a) + 1, Len(a) + Len(b)) = b
  <2>1. Len(a) + Len(b) <= Len(s)
    BY <1>1, <1>2
  <2> QED
    BY <1>1, <1>2, <2>1, PieceLemma
<1>6. SubSeq(s, (Len(a) + Len(b)) + 1, (Len(a) + Len(b)) + Len(c)) = c
  <2>1. (Len(a) + Len(b)) + Len(c) <= Len(s) /\ Len(a) + Len(b) \in Nat
    BY <1>1, <1>2
  <2> QED
    BY <1>1, <1>2, <2>1, PieceLemma
<1> QED
  BY <1>1, <1>5, <1>6 DEF From, s

\* The same for two parts.
LEMMA FrontLemma ==
  ASSUME NEW b \in Seq(Nat), NEW c \in Seq(Nat)
  PROVE  /\ b \o c \in Seq(Nat) /\ Len(b \o c) = Len(b) + Len(c)
         /\ SubSeq(b \o c, 1, Len(b)) = b /\ From(b \o c, Len(b) + 1) = c
         /\ \A i \in 1 .. Len(b) : (b \o c)[i] = b[i]
         /\ \A i \in 1 .. Len(c) : (b \o c)[Len(b) + i] = c[i]
<1>1. <<>> \in Seq(Nat) /\ Len(<<>>) = 0 /\ <<>> \o b = b
  BY ConcatEmptySeq
<1>2. Len(b) \in Nat
  BY LenProperties
<1> DEFINE e == <<>>
<1> HIDE DEF e
<1>3. e \in Seq(Nat) /\ Len(e) = 0 /\ e \o b = b
  BY <1>1 DEF e
<1>4. /\ e \o b \o c \in Seq(Nat) /\ Len(e \o b \o c) = Len(e) + Len(b) + Len(c)
      /\ \A i \in 1 .. Len(b) : (e \o b \o c)[Len(e) + i] = b[i]
      /\ \A i \in 1 .. Len(c) : (e \o b \o c)[Len(e) + Len(b) + i] = c[i]
      /\ SubSeq(e \o b \o c, Len(e) + 1, Len(e) + Len(b)) = b
      /\ From(e \o b \o c, Len(e) + Len(b) + 1) = c
  <2>1. e \in Seq(Nat)
    BY <1>3
  <2>2. /\ e \o b \o c \in Seq(Nat) /\ Len(e \o b \o c) = Len(e) + Len(b) + Len(c)
        /\ \A i \in 1 .. Len(b) : (e \o b \o c)[Len(e) + i] = b[i]
        /\ \A i \in 1 .. Len(c) : (e \o b \o c)[Len(e) + Len(b) + i] = c[i]
    BY <2>1, JoinLemma, Zenon
  <2>3. /\ SubSeq(e \o b \o c, Len(e) + 1, Len(e) + Len(b)) = b
        /\ From(e \o b \o c, Len(e) + Len(b) + 1) = c
    BY <2>1, CutLemma
  <2> QED
    BY <2>2, <2>3
<1>5. 0 + 1 = 1 /\ 0 + Len(b) = Len(b) /\ \A i \in Nat : 0 + i = i /\ 0 + Len(b) + i = Len(b) + i
  BY <1>2
<1> DEFINE s == b \o c
<1> HIDE DEF s
<1>6. /\ s \in Seq(Nat) /\ Len(s) = 0 + Len(b) + Len(c)
      /\ \A i \in 1 .. Len(b) : s[0 + i] = b[i]
      /\ \A i \in 1 .. Len(c) : s[0 + Len(b) + i] = c[i]
      /\ SubSeq(s, 0 + 1, 0 + Len(b)) = b
      /\ From(s, 0 + Len(b) + 1) = c
  BY <1>3, <1>4, Zenon DEF s
<1> QED
  BY <1>2, <1>5, <1>6 DEF s

------------------------------------------------------------------------------
(* The parts of a message.                                                 *)
LEMMA OctetsAreNumbers == Seq(Octets) \subseteq Seq(Nat)
<1> SUFFICES ASSUME NEW s \in Seq(Octets) PROVE s \in Seq(Nat)
  OBVIOUS
<1>1. Octets \subseteq Nat
  BY PathAssumption DEF Octets
<1> QED
  BY <1>1, SeqMonotonic

LEMMA PortLemma ==
  ASSUME NEW port \in 0 .. Base * Base - 1
  PROVE  /\ to_be_bytes(port) \in Seq(Nat) /\ Len(to_be_bytes(port)) = 2
         /\ \A t : t[1] = to_be_bytes(port)[1] /\ t[2] = to_be_bytes(port)[2] =>
                     from_be_bytes(t) = port
<1>1. Base \in Nat /\ Base > 4 /\ port \in Nat
  BY PathAssumption
<1> HIDE DEF Base
<1> DEFINE q == port \div Base
           r == port % Base
<1>2. q \in Nat /\ r \in Nat
  BY <1>1, Z3
<1>3. q * Base + r = port
  BY <1>1, Z3
<1> HIDE DEF q, r
<1>4. to_be_bytes(port) = <<q, r>>
  BY DEF to_be_bytes, q, r
<1>5. /\ <<q, r>> \in Seq(Nat) /\ Len(<<q, r>>) = 2
      /\ <<q, r>>[1] = q /\ <<q, r>>[2] = r
  BY <1>2
<1> QED
  BY <1>3, <1>4, <1>5 DEF from_be_bytes

\* The bytes of an address or a name, and how many there are.
LEMMA HostLemma ==
  /\ \A ip \in Addresses : /\ ip.kind \in {"v4", "v6"} /\ ip.bytes \in Seq(Nat)
                           /\ ip.kind = "v4" => Len(ip.bytes) = V4Len
                           /\ ip.kind = "v6" => Len(ip.bytes) = V6Len
                           /\ ip = [kind |-> ip.kind, bytes |-> ip.bytes]
  /\ \A h \in Names : /\ h.kind = "domain" /\ h.bytes \in Seq(Nat) /\ Utf8(h.bytes)
                      /\ h = [kind |-> h.kind, bytes |-> h.bytes]
<1>1. Octets \subseteq Nat
  BY PathAssumption DEF Octets
<1>2. V4Len \in Nat /\ V6Len \in Nat
  BY WidthAssumption
<1>3. ASSUME NEW n \in Nat, NEW b \in [1 .. n -> Octets]
      PROVE  b \in Seq(Nat) /\ Len(b) = n
  <2>1. b \in [1 .. n -> Nat]
    BY <1>1, <1>3
  <2>2. b \in Seq(Nat)
    BY <2>1, SeqDef
  <2>3. DOMAIN b = 1 .. n /\ DOMAIN b = 1 .. Len(b) /\ Len(b) \in Nat
    BY <2>1, <2>2, LenProperties
  <2> QED
    BY <2>2, <2>3
<1>4. ASSUME NEW ip \in Addresses
      PROVE  /\ ip.kind \in {"v4", "v6"} /\ ip.bytes \in Seq(Nat)
             /\ ip.kind = "v4" => Len(ip.bytes) = V4Len
             /\ ip.kind = "v6" => Len(ip.bytes) = V6Len
             /\ ip = [kind |-> ip.kind, bytes |-> ip.bytes]
  <2>1. CASE ip \in [kind : {"v4"}, bytes : [1 .. V4Len -> Octets]]
    BY <1>2, <1>3, <2>1
  <2>2. CASE ip \in [kind : {"v6"}, bytes : [1 .. V6Len -> Octets]]
    BY <1>2, <1>3, <2>2
  <2> QED
    BY <1>4, <2>1, <2>2 DEF Addresses
<1>5. ASSUME NEW h \in Names
      PROVE  /\ h.kind = "domain" /\ h.bytes \in Seq(Nat) /\ Utf8(h.bytes)
             /\ h = [kind |-> h.kind, bytes |-> h.bytes]
  BY <1>5, OctetsAreNumbers DEF Names
<1> QED
  BY <1>4, <1>5

------------------------------------------------------------------------------
(* What is encoded is read back.                                           *)
Messages == [host : Addresses \cup Names, port : 0 .. Base * Base - 1]

\* What follows the type of an address: the length of a name, the bytes of the
\* host, the port, and whatever comes behind.
Lead(name) == IF name.kind = "domain" THEN <<Len(name.bytes)>> ELSE <<>>
Body(target, rest) ==
  Lead(target.host) \o target.host.bytes \o (to_be_bytes(target.port) \o rest)

LEMMA PartsLemma ==
  ASSUME NEW target \in Messages
  PROVE  /\ target.host.kind \in {"v4", "v6", "domain"}
         /\ target.host.bytes \in Seq(Nat)
         /\ target.host.kind = "v4" => Len(target.host.bytes) = V4Len
         /\ target.host.kind = "v6" => Len(target.host.bytes) = V6Len
         /\ target.host.kind = "domain" => Utf8(target.host.bytes)
         /\ target = At([kind |-> target.host.kind, bytes |-> target.host.bytes], target.port)
         /\ to_be_bytes(target.port) \in Seq(Nat) /\ Len(to_be_bytes(target.port)) = 2
         /\ \A t : (t[1] = to_be_bytes(target.port)[1] /\ t[2] = to_be_bytes(target.port)[2]) =>
                     from_be_bytes(t) = target.port
         /\ Lead(target.host) \in Seq(Nat)
         /\ Len(Lead(target.host)) = IF target.host.kind = "domain" THEN 1 ELSE 0
         /\ target.host.kind = "domain" => Lead(target.host)[1] = Len(target.host.bytes)
<1>1. /\ target.host \in Addresses \cup Names
      /\ target.port \in 0 .. Base * Base - 1
      /\ target = [host |-> target.host, port |-> target.port]
  BY DEF Messages
<1>2. /\ target.host.kind \in {"v4", "v6", "domain"}
      /\ target.host.bytes \in Seq(Nat)
      /\ target.host.kind = "v4" => Len(target.host.bytes) = V4Len
      /\ target.host.kind = "v6" => Len(target.host.bytes) = V6Len
      /\ target.host.kind = "domain" => Utf8(target.host.bytes)
      /\ target.host = [kind |-> target.host.kind, bytes |-> target.host.bytes]
  BY <1>1, HostLemma
<1>3. target = At([kind |-> target.host.kind, bytes |-> target.host.bytes], target.port)
  BY <1>1, <1>2 DEF At
<1>4. /\ to_be_bytes(target.port) \in Seq(Nat) /\ Len(to_be_bytes(target.port)) = 2
      /\ \A t : (t[1] = to_be_bytes(target.port)[1] /\ t[2] = to_be_bytes(target.port)[2]) =>
                  from_be_bytes(t) = target.port
  BY <1>1, PortLemma
<1>5. /\ Lead(target.host) \in Seq(Nat)
      /\ Len(Lead(target.host)) = IF target.host.kind = "domain" THEN 1 ELSE 0
      /\ target.host.kind = "domain" => Lead(target.host)[1] = Len(target.host.bytes)
  <2>1. Len(target.host.bytes) \in Nat
    BY <1>2, LenProperties
  <2> QED
    BY <2>1 DEF Lead
<1> QED
  BY <1>2, <1>3, <1>4, <1>5

LEMMA ReadLemma ==
  ASSUME NEW target \in Messages, NEW rest \in Seq(Nat), Len(target.host.bytes) # 0
  PROVE  read_target(Body(target, rest), Atyp(target.host.kind)) =
           Ok([target |-> target, rest |-> rest])
<1> DEFINE h == Lead(target.host)
           b == target.host.bytes
           t == to_be_bytes(target.port)
           q == t \o rest
           s == h \o b \o q
           kind == target.host.kind
           atyp == Atyp(kind)
<1>1. /\ kind \in {"v4", "v6", "domain"}
      /\ kind = "v4" => Len(b) = V4Len
      /\ kind = "v6" => Len(b) = V6Len
      /\ kind = "domain" => Utf8(b)
      /\ target = At([kind |-> kind, bytes |-> b], target.port)
      /\ b \in Seq(Nat) /\ h \in Seq(Nat) /\ t \in Seq(Nat) /\ Len(t) = 2
      /\ Len(h) = IF kind = "domain" THEN 1 ELSE 0
      /\ kind = "domain" => h[1] = Len(b)
  BY PartsLemma
<1>2. \A u : (u[1] = t[1] /\ u[2] = t[2]) => from_be_bytes(u) = target.port
  BY PartsLemma
<1>3. Len(b) \in Nat \ {0} /\ Len(rest) \in Nat
  <2>1. b \in Seq(Nat)
    BY <1>1
  <2> QED
    BY <2>1, LenProperties
<1>4. /\ q \in Seq(Nat) /\ Len(q) = 2 + Len(rest)
      /\ From(q, 3) = rest /\ q[1] = t[1] /\ q[2] = t[2]
  <2> HIDE DEF t
  <2>1. /\ t \o rest \in Seq(Nat) /\ Len(t \o rest) = Len(t) + Len(rest)
        /\ From(t \o rest, Len(t) + 1) = rest
        /\ \A i \in 1 .. Len(t) : (t \o rest)[i] = t[i]
    <3>1. t \in Seq(Nat)
      BY <1>1
    <3> QED
      BY <3>1, FrontLemma
  <2> QED
    BY <1>1, <2>1
<1>5. from_be_bytes(q) = target.port
  BY <1>2, <1>4
<1>6. /\ Len(s) = Len(h) + Len(b) + Len(q)
      /\ \A i \in 1 .. Len(h) : s[i] = h[i]
      /\ SubSeq(s, Len(h) + 1, Len(h) + Len(b)) = b
      /\ From(s, Len(h) + Len(b) + 1) = q
  <2> HIDE DEF h, b, q
  <2>1. h \in Seq(Nat) /\ b \in Seq(Nat) /\ q \in Seq(Nat)
    BY <1>1, <1>4
  <2>2. Len(s) = Len(h) + Len(b) + Len(q) /\ \A i \in 1 .. Len(h) : s[i] = h[i]
    BY <2>1, JoinLemma, ZenonT(40)
  <2>3. /\ SubSeq(s, Len(h) + 1, Len(h) + Len(b)) = b
        /\ From(s, Len(h) + Len(b) + 1) = q
    BY <2>1, CutLemma, SMTT(40)
  <2> QED
    BY <2>2, <2>3
<1>7. /\ kind = "v4" => atyp = 1
      /\ kind = "v6" => atyp = 4
      /\ kind = "domain" => atyp = 3
      /\ KindOf(atyp) = kind
  BY <1>1 DEF Atyp, KindOf
<1>8. kind = "domain" => s[1] = Len(b)
  <2> HIDE DEF h, b, q, s, kind
  <2> QED
    BY <1>1, <1>6
<1> HIDE DEF h, b, t, q, s, kind, atyp
<1> DEFINE head == IF atyp = 3 THEN 1 ELSE 0
           size == CASE atyp = 1 -> V4Len [] atyp = 4 -> V6Len [] OTHER -> s[1]
<1>9. atyp \in {1, 3, 4} /\ head = Len(h) /\ size = Len(b)
  <2>1. CASE kind = "domain"
    BY <1>1, <1>7, <1>8, <2>1
  <2>2. CASE kind = "v4"
    BY <1>1, <1>7, <2>2
  <2>3. CASE kind = "v6"
    BY <1>1, <1>7, <2>3
  <2> QED
    BY <1>1, <2>1, <2>2, <2>3
<1>10. b = SubSeq(s, head + 1, head + size) /\ q = From(s, head + size + 1)
  BY <1>6, <1>9
<1>11. /\ head \in Nat /\ size \in Nat \ {0} /\ Len(q) \in Nat /\ Len(q) >= 2
       /\ Len(s) = head + size + Len(q) /\ (atyp = 3 => Utf8(b))
  <2>1. Len(h) \in Nat /\ (atyp = 3 => Utf8(b))
    BY <1>1, <1>7
  <2> HIDE DEF head, size
  <2> QED
    BY <1>3, <1>4, <1>6, <1>9, <2>1
<1>12. ~(Len(s) < head) /\ size # 0 /\ ~(Len(s) < head + size) /\ ~(Len(q) < 2)
  <2> HIDE DEF head, size
  <2> QED
    BY <1>11
<1>13. read_target(s, atyp) =
        Ok([target |-> At([kind |-> KindOf(atyp), bytes |-> b], from_be_bytes(q)),
            rest |-> From(q, 3)])
  <2>1. atyp \in {1, 3, 4} /\ (atyp = 3 => Utf8(b))
    BY <1>9, <1>11
  <2> HIDE DEF head, size
  <2>2. head = (IF atyp = 3 THEN 1 ELSE 0)
    BY DEF head
  <2>3. size = CASE atyp = 1 -> V4Len [] atyp = 4 -> V6Len [] OTHER -> s[1]
    BY DEF size
  <2> QED
    BY <1>10, <1>12, <2>1, <2>2, <2>3 DEF read_target
<1>14. Body(target, rest) = s
  BY DEF Body, s, h, b, q, t
<1>15. Ok([target |-> At([kind |-> KindOf(atyp), bytes |-> b], from_be_bytes(q)),
           rest |-> From(q, 3)]) = Ok([target |-> target, rest |-> rest])
  BY <1>1, <1>4, <1>5, <1>7
<1> QED
  BY <1>13, <1>14, <1>15 DEF kind, atyp

LEMMA ClosedLemma ==
  ASSUME NEW a \in Seq(Nat), NEW b \in Seq(Nat)
  PROVE  a \o b \in Seq(Nat)
  BY ConcatProperties

LEMMA GroupLemma ==
  ASSUME NEW a \in Seq(Nat), NEW b \in Seq(Nat), NEW c \in Seq(Nat)
  PROVE  a \o b \o c = a \o (b \o c)
  BY ConcatAssociative, SMTT(40)

LEMMA RegroupLemma ==
  \A a, h, b, t, r \in Seq(Nat) : a \o h \o b \o t \o r = a \o (h \o b \o (t \o r))
<1> TAKE a, h, b, t, r \in Seq(Nat)
<1> DEFINE ah == a \o h
           hb == h \o b
           tr == t \o r
           ahb == ah \o b
<1>1. ah \in Seq(Nat) /\ hb \in Seq(Nat) /\ tr \in Seq(Nat)
  BY ClosedLemma
<1>2. ahb = a \o hb
  BY GroupLemma, ZenonT(40)
<1> HIDE DEF ah, hb, tr
<1>3. ahb \in Seq(Nat)
  BY <1>1, ClosedLemma, Zenon
<1>4. a \o hb \o tr = a \o (hb \o tr)
  <2>1. \A u, v \in Seq(Nat) : a \o u \o v = a \o (u \o v)
    BY GroupLemma
  <2> QED
    BY <1>1, <2>1, Zenon
<1> HIDE DEF ahb
<1>5. ahb \o t \o r = ahb \o tr
  BY <1>3, GroupLemma, Zenon DEF tr
<1>6. ahb \o t \o r = a \o (hb \o tr)
  BY <1>2, <1>4, <1>5, Zenon
<1> QED
  BY <1>6, Zenon DEF ah, hb, tr, ahb

LEMMA EncodeLemma ==
  ASSUME NEW target \in Messages, encode_target(target).ok
  PROVE  /\ Len(target.host.bytes) # 0
         /\ encode_target(target).value \in Seq(Nat)
         /\ \A rest \in Seq(Nat) : encode_target(target).value \o rest =
                                     <<Atyp(target.host.kind)>> \o Body(target, rest)
<1> DEFINE h == Lead(target.host)
           b == target.host.bytes
           t == to_be_bytes(target.port)
           kind == target.host.kind
           a == <<Atyp(kind)>>
           v == encode_target(target).value
<1>1. /\ kind \in {"v4", "v6", "domain"}
      /\ kind = "v4" => Len(b) = V4Len
      /\ kind = "v6" => Len(b) = V6Len
      /\ b \in Seq(Nat) /\ h \in Seq(Nat) /\ t \in Seq(Nat)
  BY PartsLemma
<1>2. V4Len \in Nat \ {0} /\ V6Len \in Nat \ {0}
  BY WidthAssumption
<1>3. Len(b) \in Nat
  <2>1. b \in Seq(Nat)
    BY <1>1
  <2> QED
    BY <2>1, LenProperties
<1>4. a \in Seq(Nat) /\ a = <<Atyp(kind)>>
  BY <1>1 DEF Atyp
<1>5. Len(b) # 0 /\ v = a \o h \o b \o t
  <2>1. CASE kind = "domain"
    <3>1. a \o h = <<3, Len(b)>>
      <4>1. a = <<3>> /\ h = <<Len(b)>>
        BY <2>1 DEF Atyp, Lead
      <4>2. ASSUME NEW n \in Nat PROVE <<3>> \o <<n>> = <<3, n>>
        <5> DEFINE x == <<3>>
                   y == <<n>>
                   z == <<3, n>>
        <5>1. /\ x \in Seq(Nat) /\ Len(x) = 1 /\ x[1] = 3
              /\ y \in Seq(Nat) /\ Len(y) = 1 /\ y[1] = n
              /\ z \in Seq(Nat) /\ Len(z) = 2 /\ z[1] = 3 /\ z[2] = n
          OBVIOUS
        <5> HIDE DEF x, y, z
        <5>2. /\ x \o y \in Seq(Nat) /\ Len(x \o y) = Len(x) + Len(y)
              /\ \A i \in 1 .. Len(x) : (x \o y)[i] = x[i]
              /\ \A i \in 1 .. Len(y) : (x \o y)[Len(x) + i] = y[i]
          <6>1. x \in Seq(Nat) /\ y \in Seq(Nat)
            BY <5>1
          <6> QED
            BY <6>1, FrontLemma
        <5>3. x \o y \in Seq(Nat) /\ Len(x \o y) = 2 /\ (x \o y)[1] = 3 /\ (x \o y)[2] = n
          BY <5>1, <5>2
        <5> DEFINE w == x \o y
        <5> HIDE DEF w
        <5>4. w \in Seq(Nat) /\ Len(w) = 2 /\ w[1] = 3 /\ w[2] = n
          BY <5>3 DEF w
        <5>5. Len(w) = Len(z) /\ \A i \in 1 .. Len(w) : w[i] = z[i]
          BY <5>1, <5>4
        <5>6. w = z
          BY <5>1, <5>4, <5>5, SeqEqual
        <5> QED
          BY <5>6 DEF w, x, y, z
      <4> HIDE DEF a, h, b
      <4> QED
        BY <1>3, <4>1, <4>2
    <3>2. Len(b) # 0 /\ v = <<3, Len(b)>> \o b \o t
      BY <2>1 DEF encode_target, Ok, Err
    <3> QED
      BY <3>1, <3>2
  <2>2. CASE kind # "domain"
    <3>1. a \o h = a
      BY <1>4, <2>2, ConcatEmptySeq DEF Lead
    <3>2. v = a \o b \o t
      BY <2>2 DEF encode_target, encode_address, Ok
    <3> QED
      BY <1>1, <1>2, <2>2, <3>1, <3>2
  <2> QED
    BY <2>1, <2>2
<1> HIDE DEF a, h, b, t, v, kind
<1>6. v \in Seq(Nat)
  <2>1. a \in Seq(Nat) /\ h \in Seq(Nat) /\ b \in Seq(Nat) /\ t \in Seq(Nat)
    BY <1>1, <1>4
  <2> QED
    BY <1>5, <2>1, ConcatProperties
<1>7. ASSUME NEW rest \in Seq(Nat)
      PROVE  v \o rest = a \o (h \o b \o (t \o rest))
  <2>1. a \o h \o b \o t \o rest = a \o (h \o b \o (t \o rest))
    <3>1. a \in Seq(Nat) /\ h \in Seq(Nat) /\ b \in Seq(Nat) /\ t \in Seq(Nat)
      BY <1>1, <1>4
    <3>2. \A b1, t1, r1 \in Seq(Nat) : a \o h \o b1 \o t1 \o r1 = a \o (h \o b1 \o (t1 \o r1))
      BY <3>1, RegroupLemma, ZenonT(40)
    <3> QED
      BY <3>1, <3>2, ZenonT(40)
  <2> QED
    BY <1>5, <2>1, Zenon
<1> QED
  BY <1>4, <1>5, <1>6, <1>7 DEF Body, a, h, b, t, v, kind

\* Three bytes, the type of an address, and the rest.
LEMMA FourBytesLemma ==
  ASSUME NEW p \in Seq(Nat), NEW a \in Seq(Nat), NEW c \in Seq(Nat)
  PROVE  LET s == p \o (a \o c) IN
         Len(p) = 3 /\ Len(a) = 1 =>
         /\ s \in Seq(Nat) /\ Len(s) \in Nat /\ ~(Len(s) < 4)
         /\ s[1] = p[1] /\ s[2] = p[2] /\ s[3] = p[3] /\ SubSeq(s, 1, 3) = p
         /\ s[4] = a[1] /\ From(s, 5) = c
<1>1. /\ p \o a \o c \in Seq(Nat) /\ Len(p \o a \o c) = Len(p) + Len(a) + Len(c)
      /\ \A i \in 1 .. Len(p) : (p \o a \o c)[i] = p[i]
      /\ \A i \in 1 .. Len(a) : (p \o a \o c)[Len(p) + i] = a[i]
  BY JoinLemma, ZenonT(40)
<1>2. From(p \o a \o c, Len(p) + Len(a) + 1) = c
  BY CutLemma, Zenon
<1>3. p \o a \o c = p \o (a \o c)
  BY GroupLemma, Zenon
<1>4. a \o c \in Seq(Nat)
  BY ClosedLemma, Zenon
<1>5. SubSeq(p \o (a \o c), 1, Len(p)) = p
  BY <1>4, FrontLemma, Zenon
<1> DEFINE s == p \o (a \o c)
<1>6. /\ s \in Seq(Nat) /\ Len(s) = Len(p) + Len(a) + Len(c)
      /\ \A i \in 1 .. Len(p) : s[i] = p[i]
      /\ \A i \in 1 .. Len(a) : s[Len(p) + i] = a[i]
      /\ SubSeq(s, 1, Len(p)) = p /\ From(s, Len(p) + Len(a) + 1) = c
  BY <1>1, <1>2, <1>3, <1>5, Zenon
<1>7. Len(c) \in Nat
  BY LenProperties
<1> HIDE DEF s
<1>8. ASSUME Len(p) = 3, Len(a) = 1
      PROVE  /\ s \in Seq(Nat) /\ Len(s) \in Nat /\ ~(Len(s) < 4)
             /\ s[1] = p[1] /\ s[2] = p[2] /\ s[3] = p[3]
             /\ SubSeq(s, 1, 3) = p /\ s[4] = a[1] /\ From(s, 5) = c
  BY <1>6, <1>7, <1>8
<1> QED
  BY <1>8 DEF s

\* A message that begins with three bytes and an encoded target.
LEMMA MessageLemma ==
  ASSUME NEW target \in Messages, encode_target(target).ok, NEW p \in Seq(Nat), Len(p) = 3,
         NEW rest \in Seq(Nat)
  PROVE  LET s == p \o encode_target(target).value \o rest IN
         /\ s \in Seq(Nat) /\ Len(s) \in Nat /\ ~(Len(s) < 4)
         /\ s[1] = p[1] /\ s[2] = p[2] /\ s[3] = p[3] /\ SubSeq(s, 1, 3) = p
         /\ read_target(From(s, 5), s[4]) = Ok([target |-> target, rest |-> rest])
<1> DEFINE v == encode_target(target).value
           a == <<Atyp(target.host.kind)>>
           c == Body(target, rest)
           s == p \o v \o rest
<1>1. v \in Seq(Nat) /\ v \o rest = a \o c /\ Len(target.host.bytes) # 0
  BY EncodeLemma
<1>2. c \in Seq(Nat)
  <2>1. /\ Lead(target.host) \in Seq(Nat) /\ target.host.bytes \in Seq(Nat)
        /\ to_be_bytes(target.port) \in Seq(Nat)
    BY PartsLemma
  <2>2. /\ Lead(target.host) \o target.host.bytes \in Seq(Nat)
        /\ to_be_bytes(target.port) \o rest \in Seq(Nat)
    BY <2>1, ClosedLemma
  <2> QED
    BY <2>2, ClosedLemma DEF Body
<1>3. read_target(c, Atyp(target.host.kind)) = Ok([target |-> target, rest |-> rest])
  BY <1>1, ReadLemma
<1>4. a \in Seq(Nat) /\ Len(a) = 1 /\ a[1] = Atyp(target.host.kind)
  <2>1. Atyp(target.host.kind) \in Nat
    BY PartsLemma DEF Atyp
  <2> QED
    BY <2>1
<1> HIDE DEF a, c, v
<1>5. s = p \o (a \o c)
  <2>1. s = p \o (v \o rest)
    BY <1>1, GroupLemma
  <2> QED
    BY <1>1, <2>1, Zenon
<1>6. /\ s \in Seq(Nat) /\ Len(s) \in Nat /\ ~(Len(s) < 4)
      /\ s[1] = p[1] /\ s[2] = p[2] /\ s[3] = p[3] /\ SubSeq(s, 1, 3) = p
      /\ s[4] = a[1] /\ From(s, 5) = c
  <2> DEFINE z == p \o (a \o c)
  <2>1. a \in Seq(Nat) /\ c \in Seq(Nat) /\ Len(a) = 1
    BY <1>2, <1>4
  <2>2. /\ z \in Seq(Nat) /\ Len(z) \in Nat /\ ~(Len(z) < 4)
        /\ z[1] = p[1] /\ z[2] = p[2] /\ z[3] = p[3] /\ SubSeq(z, 1, 3) = p
        /\ z[4] = a[1] /\ From(z, 5) = c
    BY <2>1, FourBytesLemma
  <2>3. s = z
    BY <1>5
  <2> HIDE DEF z, s
  <2> QED
    BY <2>2, <2>3
<1> HIDE DEF s
<1>7. /\ s \in Seq(Nat) /\ Len(s) \in Nat /\ ~(Len(s) < 4)
      /\ s[1] = p[1] /\ s[2] = p[2] /\ s[3] = p[3] /\ SubSeq(s, 1, 3) = p
      /\ read_target(From(s, 5), s[4]) = Ok([target |-> target, rest |-> rest])
  BY <1>3, <1>4, <1>6
<1> QED
  BY <1>7 DEF s, v

\* A request or a reply is read as it was written.
LEMMA HeaderLemma ==
  ASSUME NEW target \in Messages, encode_target(target).ok, NEW code \in Nat
  PROVE  read_header(<<5, code, 0>> \o encode_target(target).value) =
           Ok([code |-> code, target |-> target])
<1> DEFINE p == <<5, code, 0>>
           v == encode_target(target).value
           s == p \o v
           r == read_target(From(s, 5), s[4])
<1>1. p \in Seq(Nat) /\ Len(p) = 3 /\ p[1] = 5 /\ p[2] = code /\ p[3] = 0
  OBVIOUS
<1>2. v \in Seq(Nat) /\ <<>> \in Seq(Nat)
  BY EncodeLemma, EmptySeq
<1> HIDE DEF p
<1>3. p \o v \o <<>> = s
  BY <1>1, <1>2, ClosedLemma, ConcatEmptySeq
<1>4. LET z == p \o v \o <<>> IN
      /\ ~(Len(z) < 4) /\ z[1] = p[1] /\ z[2] = p[2] /\ z[3] = p[3]
      /\ read_target(From(z, 5), z[4]) = Ok([target |-> target, rest |-> <<>>])
  BY <1>1, <1>2, MessageLemma
<1>5. /\ ~(Len(s) < 4) /\ s[1] = 5 /\ s[2] = code /\ s[3] = 0
      /\ r = Ok([target |-> target, rest |-> <<>>])
  BY <1>1, <1>3, <1>4
<1>6. r.ok /\ r.value.target = target
  BY <1>5 DEF Ok
<1> HIDE DEF r, s
<1>7. read_header(s) = Ok([code |-> code, target |-> target])
  BY <1>5, <1>6 DEF read_header, r
<1> QED
  BY <1>7 DEF s, p, v

\* A datagram is parsed as it was encoded, unless it has no payload.
LEMMA DatagramLemma ==
  ASSUME NEW target \in Messages, encode_target(target).ok, NEW payload \in Seq(Nat)
  PROVE  LET s == <<0, 0, 0>> \o encode_target(target).value \o payload IN
         /\ s \in Seq(Nat)
         /\ parse_datagram(s).ok =>
              parse_datagram(s).value = [target |-> target, payload |-> payload]
<1> DEFINE p == <<0, 0, 0>>
           s == p \o encode_target(target).value \o payload
           r == read_target(From(s, 5), s[4])
<1>1. p \in Seq(Nat) /\ Len(p) = 3 /\ p = <<0, 0, 0>>
  OBVIOUS
<1> HIDE DEF p
<1>2. /\ s \in Seq(Nat) /\ ~(Len(s) < 4) /\ SubSeq(s, 1, 3) = p
      /\ r = Ok([target |-> target, rest |-> payload])
  BY <1>1, MessageLemma
<1>3. r.ok /\ r.value.target = target /\ r.value.rest = payload
  <2> HIDE DEF r
  <2> QED
    BY <1>2 DEF Ok
<1>4. SubSeq(s, 1, 3) = <<0, 0, 0>>
  BY <1>1, <1>2
<1> HIDE DEF r, s
<1>5. parse_datagram(s) = IF payload = <<>> THEN Err("data")
                          ELSE Ok([target |-> target, payload |-> payload])
  BY <1>2, <1>3, <1>4 DEF parse_datagram, r
<1>6. parse_datagram(s).ok =>
        parse_datagram(s).value = [target |-> target, payload |-> payload]
  BY <1>5 DEF Ok, Err
<1> QED
  BY <1>2, <1>6 DEF s, p

------------------------------------------------------------------------------
(* The buffers of the relay.                                               *)
LEMMA SizesLemma ==
  /\ BufferSize \in Nat /\ MaxV4 \in Nat /\ MaxV6 \in Nat /\ Room \in Nat
  /\ MaxV4 < MaxV6 /\ MaxV6 < BufferSize /\ MaxV4 <= BufferSize - Room
  /\ Room = 6 + V6Len /\ V4Len \in Nat \ {0} /\ V6Len \in Nat /\ V4Len < V6Len
  /\ Base \in Nat /\ Base > 4
<1>1. /\ BufferSize \in Nat /\ MaxV4 \in Nat /\ MaxV6 \in Nat
      /\ BufferSize > MaxV6 /\ MaxV6 > MaxV4 /\ BufferSize - Room >= MaxV4
      /\ Base \in Nat /\ Base > 4
  BY PathAssumption
<1>2. V4Len \in Nat \ {0} /\ V6Len \in Nat /\ V4Len < V6Len
  BY WidthAssumption
<1> HIDE DEF Base
<1> QED
  BY <1>1, <1>2 DEF Room

\* What a buffer holds after a datagram that fits into it.
LEMMA FilledLemma ==
  ASSUME NEW s \in Seq(Nat), NEW size \in Nat
  PROVE  /\ Filled(s, size) \in Seq(Nat) /\ Len(Filled(s, size)) = size
         /\ \A i \in 1 .. size : i <= Len(s) => Filled(s, size)[i] = s[i]
<1>1. Stale \in Nat
  BY SizesLemma DEF Stale
<1>2. Len(s) \in Nat /\ \A i \in 1 .. Len(s) : s[i] \in Nat
  BY LenProperties
<1> DEFINE f == [i \in 1 .. size |-> IF i <= Len(s) THEN s[i] ELSE Stale]
<1>3. f \in [1 .. size -> Nat]
  BY <1>1, <1>2
<1>4. f \in Seq(Nat)
  BY <1>3, SeqDef
<1>5. DOMAIN f = 1 .. size /\ DOMAIN f = 1 .. Len(f) /\ Len(f) \in Nat
  BY <1>3, <1>4, LenProperties
<1>6. Len(f) = size
  BY <1>5
<1>7. \A i \in 1 .. size : i <= Len(s) => f[i] = s[i]
  OBVIOUS
<1> QED
  BY <1>4, <1>6, <1>7 DEF Filled

\* A datagram that fits into the buffer is parsed whole.
LEMMA ReceivedLemma ==
  ASSUME NEW d, d.bytes \in Seq(Nat), Len(d.bytes) <= BufferSize
  PROVE  received(d) = parse_datagram(d.bytes)
<1> DEFINE s == d.bytes
           f == Filled(s, BufferSize)
<1>1. s \in Seq(Nat) /\ Len(s) \in Nat /\ BufferSize \in Nat /\ Len(s) <= BufferSize
  BY SizesLemma, LenProperties
<1> HIDE DEF s
<1>2. /\ f \in Seq(Nat) /\ Len(f) = BufferSize
      /\ \A i \in 1 .. BufferSize : i <= Len(s) => f[i] = s[i]
  BY <1>1, FilledLemma
<1> HIDE DEF f
<1>3. SubSeq(f, 0 + 1, 0 + Len(s)) = s
  <2>1. 0 + Len(s) <= Len(f) /\ \A i \in 1 .. Len(s) : f[0 + i] = s[i]
    BY <1>1, <1>2
  <2> QED
    BY <1>1, <1>2, <2>1, PieceLemma
<1>4. SubSeq(f, 1, Len(s)) = s
  BY <1>1, <1>3
<1> QED
  BY <1>4 DEF received, s, f

SocketAddrs == [host : Addresses, port : 0 .. Base * Base - 1]

LEMMA AddressLemma ==
  ASSUME NEW address \in SocketAddrs
  PROVE  /\ address \in Messages
         /\ encode_target(address) = Ok(encode_address(address))
         /\ encode_address(address) \in Seq(Nat)
         /\ Len(encode_address(address)) = datagram_header_len(address) - 3
         /\ datagram_header_len(address) \in Nat
         /\ address.host.kind \in {"v4", "v6"}
<1>1. address \in Messages
  BY DEF SocketAddrs, Messages
<1>2. address.host.kind \in {"v4", "v6"}
  BY HostLemma DEF SocketAddrs
<1>3. encode_target(address) = Ok(encode_address(address))
  BY <1>2 DEF encode_target
<1> DEFINE a == <<Atyp(address.host.kind)>>
           b == address.host.bytes
           t == to_be_bytes(address.port)
<1>4. /\ a \in Seq(Nat) /\ Len(a) = 1
      /\ b \in Seq(Nat) /\ t \in Seq(Nat) /\ Len(t) = 2
      /\ Len(b) = IF address.host.kind = "v4" THEN V4Len ELSE V6Len
  <2>1. Atyp(address.host.kind) \in Nat
    BY <1>2 DEF Atyp
  <2>2. a \in Seq(Nat) /\ Len(a) = 1
    BY <2>1
  <2>3. /\ b \in Seq(Nat) /\ t \in Seq(Nat) /\ Len(t) = 2
        /\ Len(b) = IF address.host.kind = "v4" THEN V4Len ELSE V6Len
    BY <1>1, <1>2, PartsLemma
  <2> QED
    BY <2>2, <2>3
<1> HIDE DEF a, b, t
<1>5. a \o b \o t \in Seq(Nat) /\ Len(a \o b \o t) = Len(a) + Len(b) + Len(t)
  <2>1. a \in Seq(Nat) /\ b \in Seq(Nat) /\ t \in Seq(Nat)
    BY <1>4
  <2> QED
    BY <2>1, JoinLemma, Zenon
<1>6. V4Len \in Nat /\ V6Len \in Nat
  BY SizesLemma
<1>7. encode_address(address) = a \o b \o t
  BY DEF encode_address, a, b, t
<1> QED
  BY <1>1, <1>2, <1>3, <1>4, <1>5, <1>6, <1>7 DEF datagram_header_len

\* An answer goes to the client as the datagram that its address and itself
\* make, or is too long for UDP.
LEMMA ReplyBytesLemma ==
  ASSUME NEW from \in SocketAddrs, NEW payload \in Seq(Nat),
         Len(payload) <= MaxUdp(from.host), Len(reply_bytes(from, payload)) <= MaxV6
  PROVE  reply_bytes(from, payload) = <<0, 0, 0>> \o encode_address(from) \o payload
<1> DEFINE hdr == <<0, 0, 0>> \o encode_address(from)
           n == datagram_header_len(from)
           size == BufferSize - Room
           length == Shorter(Len(payload), size)
           start == Room - n
           stale == [i \in 1 .. Room |-> Stale]
           filled == Filled(payload, size)
           buffer == stale \o filled
           w == write_datagram_header(buffer, start, from)
           t == hdr \o payload
<1>1. /\ n \in Nat /\ n <= Room /\ start \in Nat /\ start + n = Room
      /\ from.host.kind \in {"v4", "v6"} /\ (from.host.kind = "v6" => n = Room)
  <2>1. from.host.kind \in {"v4", "v6"}
    BY AddressLemma
  <2>2. /\ Room = 6 + V6Len /\ V4Len \in Nat /\ V6Len \in Nat /\ V4Len < V6Len
    BY SizesLemma
  <2>3. n = 6 + (IF from.host.kind = "v4" THEN V4Len ELSE V6Len)
    BY DEF datagram_header_len
  <2> HIDE DEF n
  <2>4. n \in Nat /\ n <= Room /\ (from.host.kind = "v6" => n = Room)
    BY <2>1, <2>2, <2>3
  <2> QED
    BY <2>1, <2>2, <2>4
<1>2. hdr \in Seq(Nat) /\ Len(hdr) = n
  <2> DEFINE p == <<0, 0, 0>>
             e == encode_address(from)
  <2>1. p \in Seq(Nat) /\ Len(p) = 3
    OBVIOUS
  <2>2. e \in Seq(Nat) /\ Len(e) = n - 3
    BY AddressLemma
  <2> HIDE DEF p, e
  <2>3. p \o e \in Seq(Nat) /\ Len(p \o e) = Len(p) + Len(e)
    <3>1. p \in Seq(Nat) /\ e \in Seq(Nat)
      BY <2>1, <2>2
    <3> QED
      BY <3>1, FrontLemma
  <2> HIDE DEF n
  <2> QED
    BY <1>1, <2>1, <2>2, <2>3 DEF p, e
<1>3. /\ size \in Nat /\ Len(payload) \in Nat /\ Room \in Nat /\ Room + size = BufferSize
      /\ MaxV6 < BufferSize /\ MaxV6 \in Nat /\ BufferSize \in Nat
      /\ MaxV4 \in Nat /\ MaxV4 <= size
  BY SizesLemma, LenProperties
<1>4. /\ length \in Nat /\ length <= Len(payload) /\ length <= size
      /\ (Len(payload) <= size => length = Len(payload))
      /\ (~(Len(payload) <= size) => length = size)
  <2> HIDE DEF size
  <2> QED
    BY <1>3 DEF Shorter
<1>5. /\ filled \in Seq(Nat) /\ Len(filled) = size
      /\ \A i \in 1 .. size : i <= Len(payload) => filled[i] = payload[i]
  <2> HIDE DEF size
  <2> QED
    BY <1>3, FilledLemma
<1>6. stale \in Seq(Nat) /\ Len(stale) = Room
  <2>1. Stale \in Nat
    BY SizesLemma DEF Stale
  <2>2. stale \in [1 .. Room -> Nat]
    BY <2>1
  <2>3. stale \in Seq(Nat)
    BY <1>3, <2>2, SeqDef
  <2>4. DOMAIN stale = 1 .. Room /\ DOMAIN stale = 1 .. Len(stale) /\ Len(stale) \in Nat
    BY <2>2, <2>3, LenProperties
  <2> QED
    BY <1>3, <2>3, <2>4
<1> HIDE DEF stale, filled, hdr, n, length, size
<1>7. /\ buffer \in Seq(Nat) /\ Len(buffer) = BufferSize
      /\ \A i \in 1 .. size : buffer[Room + i] = filled[i]
  <2>1. stale \in Seq(Nat) /\ filled \in Seq(Nat)
    BY <1>5, <1>6
  <2>2. /\ buffer \in Seq(Nat) /\ Len(buffer) = Len(stale) + Len(filled)
        /\ \A i \in 1 .. Len(filled) : buffer[Len(stale) + i] = filled[i]
    BY <2>1, FrontLemma
  <2> HIDE DEF buffer
  <2> QED
    BY <1>3, <1>5, <1>6, <2>2
<1> HIDE DEF buffer, start
<1>8. w = [i \in 1 .. BufferSize |-> IF i \in start + 1 .. start + n THEN hdr[i - start]
                                                                     ELSE buffer[i]]
  <2>1. DOMAIN buffer = 1 .. BufferSize
    BY <1>7, LenProperties
  <2> QED
    BY <1>2, <2>1 DEF write_datagram_header, hdr
<1> HIDE DEF w
<1>9. w \in Seq(Nat) /\ Len(w) = BufferSize
  <2>1. \A i \in 1 .. BufferSize : buffer[i] \in Nat
    BY <1>7, ElementOfSeq
  <2>2. \A i \in 1 .. n : hdr[i] \in Nat
    BY <1>2, ElementOfSeq
  <2>3. \A i \in start + 1 .. start + n : i - start \in 1 .. n
    BY <1>1 DEF start
  <2>4. w \in [1 .. BufferSize -> Nat]
    BY <1>8, <2>1, <2>2, <2>3
  <2>5. w \in Seq(Nat)
    BY <1>3, <2>4, SeqDef
  <2>6. DOMAIN w = 1 .. BufferSize /\ DOMAIN w = 1 .. Len(w) /\ Len(w) \in Nat
    BY <2>4, <2>5, LenProperties
  <2> QED
    BY <1>3, <2>5, <2>6
<1>10. start \in Nat /\ start + n = Room /\ n \in Nat
  BY <1>1 DEF start
<1>11. \A i \in 1 .. n : w[start + i] = hdr[i]
  <2> TAKE i \in 1 .. n
  <2>1. /\ start + i \in 1 .. BufferSize /\ start + i \in start + 1 .. start + n
        /\ (start + i) - start = i
    BY <1>3, <1>10
  <2> QED
    BY <1>8, <2>1
<1>12. \A i \in 1 .. length : w[Room + i] = payload[i]
  <2> TAKE i \in 1 .. length
  <2>1. /\ Room + i \in 1 .. BufferSize /\ Room + i \notin start + 1 .. start + n
        /\ i \in 1 .. size /\ i <= Len(payload)
    BY <1>3, <1>4, <1>10
  <2> QED
    BY <1>5, <1>7, <1>8, <2>1
<1>13. reply_bytes(from, payload) = SubSeq(w, start + 1, Room + length)
  BY Zenon DEF reply_bytes, w, start, buffer, stale, filled, length, size, n
<1>14. CASE Len(payload) <= size
  <2>1. /\ t \in Seq(Nat) /\ Len(t) = n + Len(payload)
        /\ \A i \in 1 .. n : t[i] = hdr[i]
        /\ \A i \in 1 .. Len(payload) : t[n + i] = payload[i]
    <3>1. hdr \in Seq(Nat)
      BY <1>2
    <3>2. /\ t \in Seq(Nat) /\ Len(t) = Len(hdr) + Len(payload)
          /\ \A i \in 1 .. Len(hdr) : t[i] = hdr[i]
          /\ \A i \in 1 .. Len(payload) : t[Len(hdr) + i] = payload[i]
      BY <3>1, FrontLemma
    <3> HIDE DEF t
    <3> QED
      BY <1>2, <3>2
  <2> HIDE DEF t
  <2>2. length = Len(payload)
    BY <1>4, <1>14
  <2>3. \A i \in 1 .. Len(t) : w[start + i] = t[i]
    <3> TAKE i \in 1 .. Len(t)
    <3>1. CASE i \in 1 .. n
      BY <1>11, <2>1, <3>1
    <3>2. CASE i \notin 1 .. n
      <4> DEFINE j == i - n
      <4>1. /\ j \in 1 .. Len(payload) /\ j \in 1 .. length /\ n + j = i
            /\ Room + j = start + i
        BY <1>3, <1>10, <2>1, <2>2, <3>2
      <4> HIDE DEF j
      <4>2. w[Room + j] = payload[j] /\ t[n + j] = payload[j]
        BY <1>12, <2>1, <4>1
      <4> QED
        BY <4>1, <4>2
    <3> QED
      BY <3>1, <3>2
  <2>4. start + Len(t) <= Len(w) /\ start + Len(t) = Room + length
    <3>1. Len(t) = n + Len(payload) /\ Len(w) = BufferSize
      BY <1>9, <2>1
    <3>2. start + Len(t) = Room + Len(payload)
      BY <1>3, <1>10, <3>1
    <3> QED
      BY <1>3, <1>14, <2>2, <3>1, <3>2
  <2>5. SubSeq(w, start + 1, start + Len(t)) = t
    BY <1>9, <1>10, <2>1, <2>3, <2>4, PieceLemma
  <2> QED
    BY <1>13, <2>4, <2>5 DEF t, hdr
<1>15. CASE ~(Len(payload) <= size)
  <2>1. from.host.kind = "v6" /\ length = size
    BY <1>1, <1>3, <1>4, <1>15 DEF MaxUdp
  <2>2. n = Room /\ start = 0
    BY <1>1, <1>3, <1>10, <2>1 DEF n
  <2>3. reply_bytes(from, payload) = SubSeq(w, 1, BufferSize)
    BY <1>3, <1>13, <2>1, <2>2
  <2>4. Len(SubSeq(w, 1, BufferSize)) = BufferSize
    <3>1. SubSeq(w, 0 + 1, 0 + Len(w)) = w
      BY <1>3, <1>9, PieceLemma
    <3> QED
      BY <1>3, <1>9, <3>1
  <2> QED
    BY <1>3, <2>3, <2>4
<1> QED
  BY <1>14, <1>15

------------------------------------------------------------------------------
(* What the server and the library make of each other's messages.          *)
LEMMA WrittenLemma ==
  ASSUME NEW address \in SocketAddrs, NEW code \in Nat
  PROVE  /\ read_reply(write_reply(code, address)) = Ok([code |-> code, target |-> address])
         /\ read_request(write_request(code, address).value) =
              Ok([code |-> code, target |-> address])
<1>1. address \in Messages /\ encode_target(address) = Ok(encode_address(address))
  BY AddressLemma
<1>2. encode_target(address).ok /\ encode_target(address).value = encode_address(address)
  BY <1>1 DEF Ok
<1>3. read_header(<<5, code, 0>> \o encode_address(address)) =
        Ok([code |-> code, target |-> address])
  <2>1. read_header(<<5, code, 0>> \o encode_target(address).value) =
          Ok([code |-> code, target |-> address])
    BY <1>1, <1>2, HeaderLemma
  <2> QED
    BY <1>2, <2>1
<1>4. write_request(code, address).value = <<5, code, 0>> \o encode_address(address)
  BY <1>2 DEF write_request, Prefixed, Ok
<1> QED
  BY <1>3, <1>4 DEF read_reply, read_request, write_reply

\* A dual-stack listener shows the mapped address of an IPv4 client.
LEMMA SeenLemma ==
  ASSUME NEW ip \in Addresses, normalize(ip) = ip
  PROVE  normalize(Seen(ip)) = ip /\ Seen(ip).kind = "v6"
<1>1. ip.kind \in {"v4", "v6"} /\ ip.bytes \in Seq(Nat)
  BY HostLemma
<1>2. CASE ip.kind = "v6"
  BY <1>2 DEF Seen
<1>3. CASE ip.kind = "v4"
  <2> DEFINE m == MappedPrefix
             b == ip.bytes
             s == m \o b
  <2>1. m \in Seq(Nat) /\ Len(m) = V6Len - V4Len
    <3>1. MappedPrefix \in Seq(0 .. 2 ^ ByteBits - 1) /\ Len(m) = V6Len - V4Len
      BY WidthAssumption
    <3>2. MappedPrefix \in Seq(Octets)
      BY <3>1 DEF Octets, Base
    <3> QED
      BY <3>1, <3>2, OctetsAreNumbers
  <2>2. SubSeq(s, 1, Len(m)) = m /\ From(s, Len(m) + 1) = b
    <3>1. m \in Seq(Nat) /\ b \in Seq(Nat)
      BY <1>1, <2>1
    <3> HIDE DEF b
    <3> QED
      BY <3>1, FrontLemma
  <2> HIDE DEF s
  <2>3. SubSeq(s, 1, V6Len - V4Len) = MappedPrefix /\ From(s, V6Len - V4Len + 1) = b
    BY <2>1, <2>2
  <2>4. normalize(V6(s)) = V4(b)
    BY <2>3 DEF normalize, V6, V4
  <2>5. V4(b) = ip
    BY <1>3, HostLemma DEF V4
  <2> QED
    BY <1>3, <2>4, <2>5 DEF Seen, s, V6
<1> QED
  BY <1>1, <1>2, <1>3

LEMMA UnspecifiedLemma ==
  ASSUME NEW kind \in {"v4", "v6"}
  PROVE  /\ Unspecified(kind) \in Addresses /\ is_unspecified(Unspecified(kind))
         /\ Unspecified(kind).kind = kind
<1>1. 0 \in Octets
  BY SizesLemma DEF Octets
<1> QED
  BY <1>1 DEF Unspecified, Addresses, V4, V6, is_unspecified

\* Clients and the server have addresses, and are seen under them.
LEMMA PlacesLemma ==
  /\ \A ip \in Hosts : /\ ip \in Addresses /\ ip.kind \in {"v4", "v6"}
                       /\ normalize(Seen(ip)) = ip /\ Seen(ip).kind = "v6"
  /\ ServerPort \in 0 .. Base * Base - 1
  /\ \A ip \in {ServerV4, ServerV6} :
       ip \in Addresses /\ normalize(Seen(ip)) = ip /\ ~is_unspecified(ip)
  /\ ServerV4.kind = "v4" /\ ServerV6.kind = "v6"
  /\ \A port \in Ports : port \in 0 .. Base * Base - 1 /\ port # 0
<1>1. /\ Hosts \cup {ServerV4, ServerV6} \subseteq {ip \in Addresses : normalize(ip) = ip}
      /\ ServerV4.kind = "v4" /\ ServerV6.kind = "v6"
      /\ ~is_unspecified(ServerV4) /\ ~is_unspecified(ServerV6)
      /\ Ports \cup {ServerPort} \subseteq 1 .. Base * Base - 1
  BY PathAssumption
<1>2. \A ip \in Hosts \cup {ServerV4, ServerV6} :
        ip \in Addresses /\ normalize(Seen(ip)) = ip /\ Seen(ip).kind = "v6"
  BY <1>1, SeenLemma
<1>3. \A ip \in Hosts : ip.kind \in {"v4", "v6"}
  BY <1>2, HostLemma
<1>4. \A port \in Ports \cup {ServerPort} : port \in 0 .. Base * Base - 1 /\ port # 0
  <2>1. Base * Base \in Int
    BY SizesLemma
  <2> DEFINE square == Base * Base
  <2> HIDE DEF square
  <2>2. Ports \cup {ServerPort} \subseteq 1 .. square - 1 /\ square \in Int
    BY <1>1, <2>1 DEF square
  <2>3. \A port \in Ports \cup {ServerPort} : port \in 0 .. square - 1 /\ port # 0
    BY <2>2
  <2> QED
    BY <2>3 DEF square
<1> QED
  BY <1>1, <1>2, <1>3, <1>4

------------------------------------------------------------------------------
(* The invariant.                                                          *)
\* Every connection has a client and a control connection.
Shape ==
  /\ host \in [Ids -> Hosts]
  /\ DOMAIN binding = Ids /\ binding = [i \in Ids |-> binding[i]]
  /\ control = [i \in Ids |-> control[i]]
  /\ client = [i \in Ids |-> [state |-> client[i].state, port |-> client[i].port,
                              relay |-> client[i].relay]]

\* What a message that fits is parsed into is what its sender meant.
Faithful(d) ==
  /\ d.bytes \in Seq(Nat) /\ Len(d.bytes) <= BufferSize
  /\ parse_datagram(d.bytes).ok => parse_datagram(d.bytes).value = d.meant

Meant(d) == parse_datagram(d.bytes).ok => d.meant # None /\ d.meant.target \in Targets

Datagrams ==
  /\ \A d \in up : Faithful(d) /\ Meant(d)
  /\ \A k \in tasks : k.said = k.meant /\ k.said.target \in Targets
  /\ \A f \in flows : f.from \in SocketAddrs
  /\ \A d \in down : Faithful(d)

\* The association is there, as the library asked for it.
Granted(id) == id \in live /\ binding[id] = Owner!Bound(Endpoint(id))

Listening(id) == At(IF host[id].kind = "v4" THEN ServerV4 ELSE ServerV6, ServerPort)

Agreed(id) ==
  /\ client[id].state \in {"idle", "asked", "answered", "open", "closed"}
  /\ client[id].state = "asked" =>
       /\ client[id].port \in Ports
       /\ control[id] = write_request(3, At(Unspecified(host[id].kind), client[id].port)).value
  /\ client[id].state = "answered" =>
       \/ control[id] = write_reply(0, relay_addr(id)) /\ Granted(id)
       \/ control[id] = write_reply(1, At(Unspecified("v6"), 0))
  /\ client[id].state = "open" => client[id].relay = Listening(id) /\ Granted(id)

PathInv == Shape /\ Datagrams /\ \A id \in Library : Agreed(id)

LEMMA InitInv == Init => PathInv
<1> SUFFICES ASSUME Init PROVE PathInv
  OBVIOUS
<1> USE DEF Init, Owner!Init
<1>1. host \in [Ids -> Hosts]
  BY PathAssumption
<1>2. Shape
  BY <1>1 DEF Shape, NoSocket
<1>3. Datagrams
  BY DEF Datagrams
<1>4. ASSUME NEW id \in Library PROVE Agreed(id)
  <2>1. client[id].state = "idle"
    BY PathAssumption DEF NoSocket
  <2> QED
    BY <2>1 DEF Agreed
<1> QED
  BY <1>2, <1>3, <1>4 DEF PathInv

\* A client's socket when it has asked for an association, and when it has one.
AskedBy(c, port)  == [c EXCEPT !.state = "asked", !.port = port]
Opened(c, address) == [c EXCEPT !.state = "open", !.relay = address]

LEMMA AskedByLemma ==
  ASSUME NEW c, c = [state |-> c.state, port |-> c.port, relay |-> c.relay], NEW y
  PROVE  AskedBy(c, y) = [state |-> "asked", port |-> y, relay |-> c.relay]
<1> DEFINE d == [c EXCEPT !.state = "asked"]
<1>1. d = [state |-> "asked", port |-> c.port, relay |-> c.relay]
  OBVIOUS
<1>2. AskedBy(c, y) = [d EXCEPT !.port = y]
  BY DEF AskedBy
<1> DEFINE p == c.port
           r == c.relay
<1> HIDE DEF d, p, r
<1>3. d = [state |-> "asked", port |-> p, relay |-> r]
  BY <1>1 DEF p, r
<1>4. [d EXCEPT !.port = y] = [state |-> "asked", port |-> y, relay |-> r]
  BY <1>3
<1> QED
  BY <1>2, <1>4 DEF p, r

LEMMA OpenedLemma ==
  ASSUME NEW c, c = [state |-> c.state, port |-> c.port, relay |-> c.relay], NEW y
  PROVE  Opened(c, y) = [state |-> "open", port |-> c.port, relay |-> y]
<1> DEFINE d == [c EXCEPT !.state = "open"]
<1>1. d = [state |-> "open", port |-> c.port, relay |-> c.relay]
  OBVIOUS
<1>2. Opened(c, y) = [d EXCEPT !.relay = y]
  BY DEF Opened
<1> DEFINE p == c.port
           r == c.relay
<1> HIDE DEF d, p, r
<1>3. d = [state |-> "open", port |-> p, relay |-> r]
  BY <1>1 DEF p, r
<1>4. [d EXCEPT !.relay = y] = [state |-> "open", port |-> p, relay |-> y]
  BY <1>3
<1> QED
  BY <1>2, <1>4 DEF p, r

LEMMA ShapeStep == Shape /\ [Next]_vars => Shape'
<1> SUFFICES ASSUME Shape, [Next]_vars PROVE Shape'
  OBVIOUS
<1> USE DEF Shape, associations
<1>1. CASE Start
  BY <1>1 DEF Start
<1>2. ASSUME NEW id \in Ids, NEW port \in Ports, NEW request \in RequestsOf(id),
             Ask(id, port, request)
      PROVE  Shape'
  <2>1. UNCHANGED <<host, binding>> /\ control' = [i \in Ids |-> control'[i]]
    BY <1>2 DEF Ask
  <2>2. client' = [i \in Ids |-> [state |-> client'[i].state, port |-> client'[i].port,
                                  relay |-> client'[i].relay]]
    <3> DEFINE after == [state |-> "asked", port |-> port, relay |-> client[id].relay]
    <3> DEFINE c == client[id]
    <3>1. c = [state |-> c.state, port |-> c.port, relay |-> c.relay] /\ id \in DOMAIN client
      OBVIOUS
    <3>2. client' = [client EXCEPT ![id] = AskedBy(c, port)]
      BY <1>2, <3>1 DEF Ask, AskedBy
    <3> HIDE DEF c
    <3>3. AskedBy(c, port) = [state |-> "asked", port |-> port, relay |-> c.relay]
      BY <3>1, AskedByLemma
    <3>4. client' = [client EXCEPT ![id] = [state |-> "asked", port |-> port, relay |-> c.relay]]
      BY <3>2, <3>3
    <3> QED
      BY <3>4
  <2> QED
    BY <2>1, <2>2
<1>3. ASSUME NEW id \in Ids, Grant(id) PROVE Shape'
  <2>1. binding' = [i \in Ids |-> binding'[i]] /\ DOMAIN binding' = Ids
    BY <1>3 DEF Grant, Owner!Await, Owner!Declare
  <2>2. UNCHANGED host
    BY <1>3 DEF Grant
  <2>3. control' = [i \in Ids |-> control'[i]]
    BY <1>3 DEF Grant
  <2>4. client' = [i \in Ids |-> [state |-> client'[i].state, port |-> client'[i].port,
                                  relay |-> client'[i].relay]]
    BY <1>3 DEF Grant
  <2> QED
    BY <2>1, <2>2, <2>3, <2>4
<1>4. ASSUME NEW id \in Ids, Refuse(id) PROVE Shape'
  <2>1. UNCHANGED <<host, binding>> /\ control' = [i \in Ids |-> control'[i]]
    BY <1>4 DEF Refuse
  <2>2. client' = [i \in Ids |-> [state |-> client'[i].state, port |-> client'[i].port,
                                  relay |-> client'[i].relay]]
    BY <1>4 DEF Refuse
  <2> QED
    BY <2>1, <2>2
<1>5. ASSUME NEW id \in Ids, Confirm(id) PROVE Shape'
  <2>1. UNCHANGED <<host, binding>> /\ control' = [i \in Ids |-> control'[i]]
    BY <1>5 DEF Confirm
  <2>2. ASSUME NEW after, client' = [client EXCEPT ![id] = after],
               after = [state |-> after.state, port |-> after.port, relay |-> after.relay]
        PROVE  client' = [i \in Ids |-> [state |-> client'[i].state, port |-> client'[i].port,
                                         relay |-> client'[i].relay]]
    BY <2>2
  <2>3. client' = [i \in Ids |-> [state |-> client'[i].state, port |-> client'[i].port,
                                  relay |-> client'[i].relay]]
    <3> DEFINE reply == read_reply(control[id]).value
               ip    == IF is_unspecified(reply.target.host) THEN normalize(local_addr(id))
                                                             ELSE reply.target.host
               r1 == [NoSocket EXCEPT !.state = "closed"]
               r2 == [NoSocket EXCEPT !.state = "failed"]
               r3 == [client[id] EXCEPT !.state = "open", !.relay = At(ip, reply.target.port)]
               after == IF reply.code # 0 THEN r1 ELSE IF ip.kind # host[id].kind THEN r2 ELSE r3
    <3>1. client' = [client EXCEPT ![id] = after]
      BY <1>5 DEF Confirm
    <3>2. \A r \in {r1, r2, r3} : r = [state |-> r.state, port |-> r.port, relay |-> r.relay]
      <4>1. r1 = [state |-> "closed", port |-> 0, relay |-> None]
        BY DEF NoSocket
      <4>2. r2 = [state |-> "failed", port |-> 0, relay |-> None]
        BY DEF NoSocket
      <4>3. r3 = [state |-> "open", port |-> client[id].port,
                  relay |-> At(ip, reply.target.port)]
        <5> DEFINE c == client[id]
                   to == At(ip, reply.target.port)
        <5>1. c = [state |-> c.state, port |-> c.port, relay |-> c.relay]
          OBVIOUS
        <5> HIDE DEF c, to, r3
        <5>2. Opened(c, to) = [state |-> "open", port |-> c.port, relay |-> to]
          BY <5>1, OpenedLemma
        <5>3. r3 = Opened(c, to)
          BY DEF r3, c, to, Opened
        <5> QED
          BY <5>2, <5>3 DEF c, to
      <4> HIDE DEF r1, r2, r3
      <4> QED
        BY <4>1, <4>2, <4>3
    <3>3. after \in {r1, r2, r3}
      <4> HIDE DEF r1, r2, r3, reply, ip
      <4> QED
        OBVIOUS
    <3> HIDE DEF after, r1, r2, r3
    <3> QED
      BY <2>2, <3>1, <3>2, <3>3
  <2> QED
    BY <2>1, <2>3
<1>6. ASSUME NEW id \in Ids, HangUp(id) PROVE Shape'
  <2>1. UNCHANGED <<host, binding>> /\ control' = [i \in Ids |-> control'[i]]
    BY <1>6 DEF HangUp
  <2>2. client' = [i \in Ids |-> [state |-> client'[i].state, port |-> client'[i].port,
                                  relay |-> client'[i].relay]]
    BY <1>6 DEF HangUp, NoSocket
  <2> QED
    BY <2>1, <2>2
<1>7. ASSUME NEW id \in Ids, Close(id) \/ Withdraw(id) PROVE Shape'
  BY <1>7 DEF Close, Withdraw, Owner!Close, Owner!Release
<1>8. ASSUME NEW id \in Ids, NEW target \in Targets, NEW payload \in Payloads,
             Send(id, target, payload)
      PROVE  Shape'
  BY <1>8 DEF Send
<1>9. ASSUME NEW id \in Ids, NEW s \in Strays, Stray(id, s[1], s[2]) PROVE Shape'
  BY <1>9 DEF Stray
<1>10. ASSUME NEW id \in Ids, NEW d \in down, Recv(id, d) PROVE Shape'
  BY <1>10 DEF Recv
<1>11. ASSUME NEW d \in up, UdpLoop(d) PROVE Shape'
  <2>1. PICK id \in Ids : Owner!HandOver(id, endpoint_key(d.source))
    BY <1>11 DEF UdpLoop
  <2>2. binding' = [i \in Ids |-> binding'[i]] /\ DOMAIN binding' = Ids
    BY <2>1 DEF Owner!HandOver
  <2>3. UNCHANGED <<host, client, control>>
    BY <1>11 DEF UdpLoop
  <2> QED
    BY <2>2, <2>3
<1>12. ASSUME NEW k \in tasks, Forward(k) PROVE Shape'
  BY <1>12 DEF Forward
<1>13. ASSUME NEW f \in flows, NEW payload \in Answers, Answer(f, payload) PROVE Shape'
  BY <1>13 DEF Answer
<1>14. ASSUME NEW f \in flows, EndFlow(f) PROVE Shape'
  BY <1>14 DEF EndFlow
<1>15. CASE Lose
  BY <1>15 DEF Lose
<1>16. CASE UNCHANGED vars
  BY <1>16 DEF vars
<1> QED
  BY <1>1, <1>2, <1>3, <1>4, <1>5, <1>6, <1>7, <1>8, <1>9, <1>10, <1>11, <1>12, <1>13, <1>14,
     <1>15, <1>16 DEF Next

LEMMA DatagramsStep == Datagrams /\ [Next]_vars => Datagrams'
<1> SUFFICES ASSUME Datagrams, [Next]_vars PROVE Datagrams'
  OBVIOUS
<1> USE DEF associations
<1>1. ASSUME UNCHANGED <<up, down, tasks, flows>> PROVE Datagrams'
  BY <1>1 DEF Datagrams
<1>2. ASSUME up' \subseteq up, down' \subseteq down, tasks' \subseteq tasks, flows' \subseteq flows
      PROVE  Datagrams'
  BY <1>2 DEF Datagrams
<1>3. CASE Start
  BY <1>1, <1>3 DEF Start
<1>4. ASSUME NEW id \in Ids, NEW port \in Ports, NEW request \in RequestsOf(id),
             Ask(id, port, request)
      PROVE  Datagrams'
  BY <1>1, <1>4 DEF Ask
<1>5. ASSUME NEW id \in Ids,
             Grant(id) \/ Refuse(id) \/ Confirm(id) \/ HangUp(id) \/ Close(id) \/ Withdraw(id)
      PROVE  Datagrams'
  BY <1>1, <1>5 DEF Grant, Refuse, Confirm, HangUp, Close, Withdraw
<1>6. ASSUME NEW id \in Ids, NEW target \in Targets, NEW payload \in Payloads,
             Send(id, target, payload)
      PROVE  Datagrams'
  <2> DEFINE r == encode_datagram_to(target, payload)
             meant == [target |-> target, payload |-> payload]
             d == [source |-> At(peer_addr(id), client[id].port), bytes |-> r.value,
                   meant |-> meant]
  <2>1. r.ok /\ Len(r.value) <= MaxUdp(host[id]) /\ up' = up \cup {d}
    BY <1>6 DEF Send, InFlight
  <2>2. target \in Messages /\ payload \in Seq(Nat)
    BY PathAssumption, OctetsAreNumbers DEF Messages
  <2>3. /\ encode_target(target).ok
        /\ r.value = <<0, 0, 0>> \o encode_target(target).value \o payload
    BY <2>1 DEF encode_datagram_to, Ok
  <2>4. /\ r.value \in Seq(Nat)
        /\ parse_datagram(r.value).ok => parse_datagram(r.value).value = meant
    <3>1. LET s == <<0, 0, 0>> \o encode_target(target).value \o payload IN
          /\ s \in Seq(Nat)
          /\ parse_datagram(s).ok => parse_datagram(s).value = meant
      BY <2>2, <2>3, DatagramLemma
    <3> QED
      BY <2>3, <3>1
  <2>5. Len(r.value) <= BufferSize
    <3>1. Len(r.value) \in Nat
      BY <2>4, LenProperties
    <3> HIDE DEF r
    <3> QED
      BY <2>1, <3>1, SizesLemma DEF MaxUdp
  <2>6. meant # None
    BY PathAssumption
  <2> HIDE DEF r
  <2>7. d.bytes = r.value /\ d.meant = meant /\ meant.target = target
    OBVIOUS
  <2> HIDE DEF d, meant
  <2>8. Faithful(d) /\ Meant(d)
    BY <2>4, <2>5, <2>6, <2>7 DEF Faithful, Meant
  <2>9. UNCHANGED <<down, tasks, flows>>
    BY <1>6 DEF Send
  <2> QED
    BY <2>1, <2>8, <2>9 DEF Datagrams
<1>7. ASSUME NEW id \in Ids, NEW s \in Strays, Stray(id, s[1], s[2]) PROVE Datagrams'
  <2> DEFINE d == [source |-> At(peer_addr(id), s[1]), bytes |-> s[2], meant |-> None]
  <2>1. up' = up \cup {d} /\ UNCHANGED <<down, tasks, flows>>
    BY <1>7 DEF Stray, InFlight
  <2>2. s[2] \in Seq(Nat) /\ Len(s[2]) <= MaxV6 /\ ~parse_datagram(s[2]).ok
    BY PathAssumption, OctetsAreNumbers
  <2>3. Len(s[2]) \in Nat
    BY <2>2, LenProperties
  <2>4. d.bytes = s[2] /\ Len(s[2]) <= BufferSize
    BY <2>2, <2>3, SizesLemma
  <2> HIDE DEF d
  <2>5. Faithful(d) /\ Meant(d)
    BY <2>2, <2>4 DEF Faithful, Meant
  <2> QED
    BY <2>1, <2>5 DEF Datagrams
<1>8. ASSUME NEW id \in Ids, NEW d \in down, Recv(id, d) PROVE Datagrams'
  BY <1>2, <1>8 DEF Recv
<1>9. ASSUME NEW d \in up, UdpLoop(d) PROVE Datagrams'
  <2>1. PICK id \in Ids : Spawn(id, received(d).value, d.meant)
    BY <1>9 DEF UdpLoop
  <2>2. received(d).ok /\ UNCHANGED <<up, down, flows>>
    BY <1>9 DEF UdpLoop
  <2>3. received(d) = parse_datagram(d.bytes)
    BY ReceivedLemma DEF Datagrams, Faithful
  <2>4. received(d).value = d.meant /\ d.meant.target \in Targets
    BY <2>2, <2>3 DEF Datagrams, Faithful, Meant
  <2> DEFINE k == [id |-> id, said |-> received(d).value, meant |-> d.meant]
  <2>5. tasks' \subseteq tasks \cup {k}
    BY <2>1 DEF Spawn
  <2>6. k.said = k.meant /\ k.said.target \in Targets
    BY <2>4
  <2> HIDE DEF k
  <2> QED
    BY <2>2, <2>5, <2>6 DEF Datagrams
<1>10. ASSUME NEW k \in tasks, Forward(k) PROVE Datagrams'
  <2> DEFINE f == [id |-> k.id, from |-> Resolve[k.said.target]]
  <2>1. tasks' \subseteq tasks /\ flows' \subseteq flows \cup {f} /\ UNCHANGED <<up, down>>
    BY <1>10 DEF Forward
  <2>2. f.from \in SocketAddrs
    BY PathAssumption DEF Datagrams, SocketAddrs
  <2> HIDE DEF f
  <2> QED
    BY <2>1, <2>2 DEF Datagrams
<1>11. ASSUME NEW f \in flows, NEW payload \in Answers, Answer(f, payload) PROVE Datagrams'
  <2> DEFINE to == binding[f.id].endpoint
             out == reply_bytes(f.from, payload)
             meant == [target |-> f.from, payload |-> payload]
             d == [to |-> to, bytes |-> out, meant |-> meant]
  <2>1. /\ Len(payload) <= MaxUdp(f.from.host) /\ UNCHANGED <<up, tasks, flows>>
        /\ down' = IF Len(out) > MaxUdp(to.ip) THEN down ELSE down \cup {d}
    BY <1>11 DEF Answer
  <2>2. f.from \in SocketAddrs /\ payload \in Seq(Nat)
    BY PathAssumption, OctetsAreNumbers DEF Datagrams
  <2>3. CASE Len(out) > MaxUdp(to.ip)
    BY <1>2, <2>1, <2>3
  <2>4. CASE ~(Len(out) > MaxUdp(to.ip))
    <3> DEFINE s == <<0, 0, 0>> \o encode_address(f.from) \o payload
    <3>1. /\ f.from \in Messages /\ encode_target(f.from).ok
          /\ encode_target(f.from).value = encode_address(f.from)
      BY <2>2, AddressLemma DEF Ok
    <3>2. s \in Seq(Nat) /\ (parse_datagram(s).ok => parse_datagram(s).value = meant)
      <4>1. LET z == <<0, 0, 0>> \o encode_target(f.from).value \o payload IN
            z \in Seq(Nat) /\ (parse_datagram(z).ok => parse_datagram(z).value = meant)
        BY <2>2, <3>1, DatagramLemma
      <4> QED
        BY <3>1, <4>1
    <3>3. Len(out) <= MaxV6
      BY <2>4, SizesLemma DEF MaxUdp
    <3>4. out = s
      BY <2>1, <2>2, <3>3, ReplyBytesLemma
    <3>5. Len(out) <= BufferSize
      <4>1. Len(out) \in Nat
        BY <3>2, <3>4, LenProperties
      <4> HIDE DEF out
      <4> QED
        BY <3>3, <4>1, SizesLemma
    <3> HIDE DEF out, s, meant, to
    <3>6. d.bytes = out /\ d.meant = meant
      OBVIOUS
    <3> HIDE DEF d
    <3>7. Faithful(d)
      BY <3>2, <3>4, <3>5, <3>6 DEF Faithful
    <3> QED
      BY <2>1, <3>7 DEF Datagrams
  <2> QED
    BY <2>3, <2>4
<1>12. ASSUME NEW f \in flows, EndFlow(f) PROVE Datagrams'
  BY <1>2, <1>12 DEF EndFlow
<1>13. CASE Lose
  BY <1>2, <1>13 DEF Lose
<1>14. CASE UNCHANGED vars
  BY <1>1, <1>14 DEF vars
<1> QED
  BY <1>3, <1>4, <1>5, <1>6, <1>7, <1>8, <1>9, <1>10, <1>11, <1>12, <1>13, <1>14 DEF Next

\* The server reads the request of the library as it was meant.
LEMMA AskedLemma ==
  ASSUME Shape, NEW id \in Library, Agreed(id), Waits(id)
  PROVE  /\ Own(id) /\ Asked(id).port # 0 /\ Asked(id).host.kind # "domain"
         /\ Declared(id) = Endpoint(id)
<1> DEFINE port == client[id].port
           target == At(Unspecified(host[id].kind), port)
<1>1. port \in Ports /\ control[id] = write_request(3, target).value
  BY DEF Agreed, Waits
<1>2. /\ host[id] \in Hosts /\ host[id].kind \in {"v4", "v6"}
      /\ normalize(Seen(host[id])) = host[id] /\ port \in 0 .. Base * Base - 1 /\ port # 0
  BY <1>1, PathAssumption, PlacesLemma DEF Shape
<1>3. /\ Unspecified(host[id].kind) \in Addresses /\ is_unspecified(Unspecified(host[id].kind))
      /\ Unspecified(host[id].kind).kind = host[id].kind
  BY <1>2, UnspecifiedLemma
<1>4. target \in SocketAddrs
  BY <1>2, <1>3 DEF SocketAddrs, At
<1>5. read_request(control[id]) = Ok([code |-> 3, target |-> target])
  BY <1>1, <1>4, WrittenLemma
<1>6. Asked(id) = target
  BY <1>5 DEF Asked, Ok
<1>7. target.host = Unspecified(host[id].kind) /\ target.port = port
  BY DEF At
<1>8. Own(id) /\ Asked(id).port # 0 /\ Asked(id).host.kind # "domain"
  BY <1>2, <1>3, <1>6, <1>7 DEF Own
<1> QED
  BY <1>2, <1>6, <1>7, <1>8 DEF Declared, Endpoint, peer_addr

LEMMA RelayLemma ==
  ASSUME Shape, NEW id \in Library
  PROVE  /\ relay_addr(id) = Listening(id) /\ relay_addr(id) \in SocketAddrs
         /\ ~is_unspecified(relay_addr(id).host) /\ relay_addr(id).host.kind = host[id].kind
         /\ relay_addr(id) = At(relay_addr(id).host, relay_addr(id).port)
<1> DEFINE server == IF host[id].kind = "v4" THEN ServerV4 ELSE ServerV6
<1>1. host[id] \in Hosts /\ host[id].kind \in {"v4", "v6"}
  BY PathAssumption, PlacesLemma DEF Shape
<1>2. /\ server \in {ServerV4, ServerV6} /\ server.kind = host[id].kind
      /\ server \in Addresses /\ normalize(Seen(server)) = server /\ ~is_unspecified(server)
      /\ ServerPort \in 0 .. Base * Base - 1
  BY <1>1, PlacesLemma
<1>3. relay_addr(id) = At(server, ServerPort) /\ Listening(id) = At(server, ServerPort)
  BY <1>2 DEF relay_addr, local_addr, Listening
<1> HIDE DEF server
<1>4. At(server, ServerPort) \in SocketAddrs /\ At(server, ServerPort).host = server
  BY <1>2 DEF SocketAddrs, At
<1> QED
  BY <1>2, <1>3, <1>4 DEF At

LEMMA FrameLemma ==
  ASSUME NEW id \in Library, Agreed(id), UNCHANGED host,
         client'[id] = client[id], control'[id] = control[id],
         id \in live => id \in live' /\ binding'[id] = binding[id]
  PROVE  Agreed(id)'
<1>1. relay_addr(id)' = relay_addr(id) /\ Listening(id)' = Listening(id)
  BY DEF relay_addr, local_addr, Listening
<1>2. Endpoint(id)' = Endpoint(id)
  BY DEF Endpoint
<1>3. Granted(id) => Granted(id)'
  BY <1>2 DEF Granted, Owner!Bound
<1> QED
  BY <1>1, <1>3 DEF Agreed

\* A connection that keeps its association is not touched by what others do.
LEMMA OthersLemma ==
  ASSUME Shape, NEW o \in Ids, NEW id \in Library, id # o, Agreed(id),
         \/ \E port \in Ports, request \in RequestsOf(o) : Ask(o, port, request)
         \/ Grant(o) \/ Refuse(o) \/ Confirm(o) \/ HangUp(o) \/ Close(o) \/ Withdraw(o)
  PROVE  Agreed(id)'
<1> USE DEF associations
<1>1. id \in Ids
  BY PathAssumption
<1>2. UNCHANGED host
  BY DEF Ask, Grant, Refuse, Confirm, HangUp, Close, Withdraw
<1>3. client'[id] = client[id]
  BY <1>1 DEF Shape, Ask, Grant, Refuse, Confirm, HangUp, Close, Withdraw
<1>4. control'[id] = control[id]
  BY <1>1 DEF Shape, Ask, Grant, Refuse, Confirm, HangUp, Close, Withdraw
<1>5. id \in live => id \in live'
  BY <1>1 DEF Ask, Grant, Refuse, Confirm, HangUp, Close, Withdraw,
     Owner!Await, Owner!Declare, Owner!Close, Owner!Release
<1>6. binding'[id] = binding[id]
  BY <1>1 DEF Shape, Ask, Grant, Refuse, Confirm, HangUp, Close, Withdraw,
     Owner!Await, Owner!Declare, Owner!Close, Owner!Release
<1> QED
  BY <1>2, <1>3, <1>4, <1>5, <1>6, FrameLemma

LEMMA AskStep ==
  ASSUME Shape, NEW id \in Library, NEW port \in Ports, NEW request,
         Ask(id, port, request)
  PROVE  Agreed(id)'
<1> DEFINE c == client[id]
<1>1. id \in Ids /\ id \in DOMAIN client /\ id \in DOMAIN control
  BY PathAssumption DEF Shape
<1>2. c = [state |-> c.state, port |-> c.port, relay |-> c.relay]
  BY <1>1 DEF Shape
<1>3. client' = [client EXCEPT ![id] = AskedBy(c, port)]
  BY <1>1 DEF Ask, AskedBy
<1> HIDE DEF c
<1>4. AskedBy(c, port) = [state |-> "asked", port |-> port, relay |-> c.relay]
  BY <1>2, AskedByLemma
<1>5. client'[id].state = "asked" /\ client'[id].port = port
  BY <1>1, <1>3, <1>4
<1>6. /\ UNCHANGED host
      /\ control'[id] = write_request(3, At(Unspecified(host[id].kind), port)).value
  BY <1>1 DEF Ask, associations
<1> QED
  BY <1>5, <1>6 DEF Agreed

LEMMA GrantStep ==
  ASSUME Shape, NEW id \in Library, Agreed(id), Grant(id)
  PROVE  Agreed(id)'
<1>1. id \in Ids /\ id \in DOMAIN client /\ id \in DOMAIN control /\ id \in DOMAIN binding
  BY PathAssumption DEF Shape
<1>2. Asked(id).port # 0 /\ Declared(id) = Endpoint(id)
  BY AskedLemma DEF Grant
<1>3. Owner!Declare(id, Endpoint(id)) /\ UNCHANGED host
  BY <1>2 DEF Grant
<1>4. client'[id].state = "answered" /\ client'[id].port = client[id].port
  BY <1>1 DEF Grant, Shape
<1>5. control'[id] = write_reply(0, relay_addr(id))
  BY <1>1 DEF Grant
<1>6. relay_addr(id)' = relay_addr(id)
  BY <1>3 DEF relay_addr, local_addr
<1>7. Endpoint(id)' = Endpoint(id)
  BY <1>3, <1>4 DEF Endpoint
<1>8. id \in live' /\ binding'[id] = Owner!Bound(Endpoint(id))
  BY <1>1, <1>3 DEF Owner!Declare
<1>9. Granted(id)'
  BY <1>7, <1>8 DEF Granted, Owner!Bound
<1> QED
  BY <1>4, <1>5, <1>6, <1>9 DEF Agreed

LEMMA RefuseStep ==
  ASSUME Shape, NEW id \in Library, Agreed(id), Refuse(id)
  PROVE  Agreed(id)'
<1>1. id \in Ids /\ id \in DOMAIN client /\ id \in DOMAIN control
  BY PathAssumption DEF Shape
<1>2. Asked(id).host.kind # "domain"
  BY AskedLemma DEF Refuse
<1>3. client'[id].state = "answered"
  BY <1>1 DEF Refuse, Shape
<1>4. local_addr(id).kind = "v6"
  <2>1. \A ip \in {ServerV4, ServerV6} : Seen(ip).kind = "v6"
    <3>1. ServerV4.kind = "v4" /\ ServerV6.kind = "v6"
      BY PlacesLemma
    <3> QED
      BY <3>1 DEF Seen, V6
  <2> QED
    BY <2>1 DEF local_addr
<1>5. control'[id] = write_reply(1, At(Unspecified("v6"), 0))
  BY <1>1, <1>2, <1>4 DEF Refuse
<1> QED
  BY <1>3, <1>5 DEF Agreed

LEMMA ConfirmStep ==
  ASSUME Shape, NEW id \in Library, Agreed(id), Confirm(id)
  PROVE  Agreed(id)'
<1>1. id \in Ids /\ id \in DOMAIN client
  BY PathAssumption DEF Shape
<1> DEFINE reply == read_reply(control[id]).value
           ip    == IF is_unspecified(reply.target.host) THEN normalize(local_addr(id))
                                                         ELSE reply.target.host
           after == IF reply.code # 0 THEN [NoSocket EXCEPT !.state = "closed"]
                    ELSE IF ip.kind # host[id].kind THEN [NoSocket EXCEPT !.state = "failed"]
                    ELSE Opened(client[id], At(ip, reply.target.port))
<1>2. client'[id] = after /\ client[id].state = "answered" /\ UNCHANGED <<host, live, binding>>
  BY <1>1 DEF Confirm, Opened, associations
<1>3. CASE control[id] = write_reply(0, relay_addr(id)) /\ Granted(id)
  <2> DEFINE relay == relay_addr(id)
             c == client[id]
  <2>1. reply = [code |-> 0, target |-> relay]
    <3>1. relay \in SocketAddrs
      BY RelayLemma
    <3> HIDE DEF relay
    <3>2. read_reply(write_reply(0, relay)) = Ok([code |-> 0, target |-> relay])
      BY <3>1, WrittenLemma
    <3>3. control[id] = write_reply(0, relay)
      BY <1>3 DEF relay
    <3> QED
      BY <3>2, <3>3 DEF Ok
  <2>2. reply.code = 0 /\ reply.target = relay
    BY <2>1
  <2>3. ~is_unspecified(relay.host) /\ relay.host.kind = host[id].kind
        /\ relay = At(relay.host, relay.port) /\ relay = Listening(id)
    BY RelayLemma
  <2> HIDE DEF relay, reply
  <2>4. after = Opened(c, relay)
    BY <2>2, <2>3
  <2>5. c = [state |-> c.state, port |-> c.port, relay |-> c.relay]
    BY <1>1 DEF Shape
  <2> HIDE DEF c, after
  <2>6. Opened(c, relay) = [state |-> "open", port |-> c.port, relay |-> relay]
    BY <2>5, OpenedLemma
  <2>7. client'[id].state = "open" /\ client'[id].port = c.port /\ client'[id].relay = relay
    BY <1>2, <2>4, <2>6
  <2>8. Listening(id)' = Listening(id)
    BY <1>2 DEF Listening
  <2>9. Granted(id)'
    BY <1>2, <1>3, <2>7 DEF Granted, Endpoint, Owner!Bound, c
  <2> QED
    BY <2>3, <2>7, <2>8, <2>9 DEF Agreed
<1>4. CASE control[id] = write_reply(1, At(Unspecified("v6"), 0))
  <2> DEFINE none == At(Unspecified("v6"), 0)
  <2>1. none \in SocketAddrs
    <3>1. Unspecified("v6") \in Addresses
      BY UnspecifiedLemma
    <3>2. 0 \in 0 .. Base * Base - 1
      <4>1. Base \in Nat /\ Base > 4
        BY SizesLemma
      <4> HIDE DEF Base
      <4>2. Base * Base \in Nat /\ Base * Base > 0
        BY <4>1, Z3
      <4> QED
        BY <4>2
    <3> QED
      BY <3>1, <3>2 DEF SocketAddrs, At
  <2>2. reply = [code |-> 1, target |-> none]
    <3> HIDE DEF none
    <3>1. read_reply(write_reply(1, none)) = Ok([code |-> 1, target |-> none])
      BY <2>1, WrittenLemma
    <3>2. control[id] = write_reply(1, none)
      BY <1>4 DEF none
    <3> QED
      BY <3>1, <3>2 DEF Ok
  <2>3. reply.code # 0
    BY <2>2
  <2> HIDE DEF reply
  <2>4. client'[id].state = "closed"
    BY <1>2, <2>3 DEF NoSocket
  <2> QED
    BY <2>4 DEF Agreed
<1> QED
  BY <1>2, <1>3, <1>4 DEF Agreed

\* The client lets go, and only then the server.
LEMMA EndStep ==
  ASSUME Shape, NEW id \in Library, Agreed(id), HangUp(id) \/ Close(id) \/ Withdraw(id)
  PROVE  Agreed(id)'
<1>1. id \in Ids /\ id \in DOMAIN client /\ id \in DOMAIN binding
  BY PathAssumption DEF Shape
<1>2. CASE HangUp(id)
  <2>1. client'[id].state = "closed"
    BY <1>1, <1>2 DEF HangUp, NoSocket
  <2> QED
    BY <2>1 DEF Agreed
<1>3. CASE Close(id)
  <2>1. client[id].state = "closed" /\ UNCHANGED client
    BY <1>3 DEF Close, Agreed
  <2> QED
    BY <2>1 DEF Agreed
<1>4. CASE Withdraw(id)
  <2>1. id \notin live /\ UNCHANGED <<host, live, client, control>>
    BY <1>4 DEF Withdraw, Owner!Release
  <2> QED
    BY <2>1, FrameLemma
<1> QED
  BY <1>2, <1>3, <1>4

LEMMA AgreedStep ==
  ASSUME Shape, [Next]_vars, NEW id \in Library, Agreed(id)
  PROVE  Agreed(id)'
<1> USE DEF associations
<1>1. ASSUME UNCHANGED <<binding, live, host, client, control>> PROVE Agreed(id)'
  BY <1>1, FrameLemma
<1>2. CASE Start \/ Lose \/ UNCHANGED vars
  BY <1>1, <1>2 DEF Start, Lose, vars
<1>3. ASSUME NEW o \in Ids, NEW port \in Ports, NEW request \in RequestsOf(o),
             Ask(o, port, request)
      PROVE  Agreed(id)'
  BY <1>3, AskStep, OthersLemma
<1>4. ASSUME NEW o \in Ids,
             Grant(o) \/ Refuse(o) \/ Confirm(o) \/ HangUp(o) \/ Close(o) \/ Withdraw(o)
      PROVE  Agreed(id)'
  BY <1>4, GrantStep, RefuseStep, ConfirmStep, EndStep, OthersLemma
<1>5. ASSUME NEW o \in Ids, NEW target \in Targets, NEW payload \in Payloads,
             Send(o, target, payload)
      PROVE  Agreed(id)'
  BY <1>1, <1>5 DEF Send
<1>6. ASSUME NEW o \in Ids, NEW s \in Strays, Stray(o, s[1], s[2]) PROVE Agreed(id)'
  BY <1>1, <1>6 DEF Stray
<1>7. ASSUME NEW o \in Ids, NEW d \in down, Recv(o, d) PROVE Agreed(id)'
  BY <1>1, <1>7 DEF Recv
<1>8. ASSUME NEW d \in up, UdpLoop(d) PROVE Agreed(id)'
  <2>1. PICK o \in Ids : Owner!HandOver(o, endpoint_key(d.source))
    BY <1>8 DEF UdpLoop
  <2>2. UNCHANGED <<live, host, client, control>>
    BY <1>8, <2>1 DEF UdpLoop, Owner!HandOver
  <2>3. ASSUME ~Granted(id) PROVE Agreed(id)'
    <3>1. client[id].state \notin {"open"}
      BY <2>3 DEF Agreed
    <3> QED
      BY <2>2, <2>3, <3>1 DEF Agreed, relay_addr, local_addr, Listening, Granted, Endpoint
  <2>4. ASSUME Granted(id) PROVE Agreed(id)'
    <3>1. binding[id] # Owner!Waiting(endpoint_key(d.source).ip)
      BY <2>4 DEF Granted, Owner!Bound, Owner!Waiting
    <3>2. binding'[id] = binding[id]
      BY <2>1, <3>1 DEF Owner!HandOver, Shape
    <3> QED
      BY <2>2, <3>2, FrameLemma
  <2> QED
    BY <2>3, <2>4
<1>9. ASSUME NEW k \in tasks, Forward(k) PROVE Agreed(id)'
  BY <1>1, <1>9 DEF Forward
<1>10. ASSUME NEW f \in flows, NEW payload \in Answers, Answer(f, payload) PROVE Agreed(id)'
  BY <1>1, <1>10 DEF Answer
<1>11. ASSUME NEW f \in flows, EndFlow(f) PROVE Agreed(id)'
  BY <1>1, <1>11 DEF EndFlow
<1> QED
  BY <1>2, <1>3, <1>4, <1>5, <1>6, <1>7, <1>8, <1>9, <1>10, <1>11 DEF Next

LEMMA NextInv == PathInv /\ [Next]_vars => PathInv'
  BY ShapeStep, DatagramsStep, AgreedStep DEF PathInv

LEMMA PathInvHolds == Spec => []PathInv
  BY InitInv, NextInv, PTL DEF Spec

------------------------------------------------------------------------------
\* What a packet task is to send, and what recv returns, is what was meant at
\* the other end, whatever the widths, the payloads and the sizes of the buffers
\* (append_datagram_to, parse_datagram, receive_remote 881-889).
THEOREM Intact == Spec => []PayloadsIntact
<1>1. PathInv => PayloadsIntact
  <2> SUFFICES ASSUME PathInv PROVE PayloadsIntact
    OBVIOUS
  <2>1. \A k \in tasks : k.said = k.meant
    BY DEF PathInv, Datagrams
  <2>2. ASSUME NEW d \in down, NEW room, recv(d, room).ok
        PROVE  recv(d, room).value = d.meant
    <3>1. /\ d.bytes \in Seq(Nat) /\ Len(d.bytes) <= BufferSize
          /\ parse_datagram(d.bytes).ok => parse_datagram(d.bytes).value = d.meant
      BY DEF PathInv, Datagrams, Faithful
    <3>2. received(d) = parse_datagram(d.bytes)
      BY <3>1, ReceivedLemma
    <3>3. received(d).ok /\ recv(d, room) = received(d)
      BY <2>2 DEF recv, Err
    <3> QED
      BY <3>1, <3>2, <3>3
  <2> QED
    BY <2>1, <2>2 DEF PayloadsIntact
<1> QED
  BY <1>1, PathInvHolds, PTL

\* The library finds in the reply the address to send to, and keeps the
\* association that it was granted as long as it keeps the control connection,
\* whoever else asks for one or sends (client.rs 154-193, server.rs 552-612).
THEOREM LibraryEstablished == Spec => []Established
<1>1. PathInv => Established
  <2> SUFFICES ASSUME PathInv, NEW id \in Library
               PROVE  /\ client[id].state # "failed"
                      /\ client[id].state = "open" =>
                           /\ client[id].relay = At(IF host[id].kind = "v4" THEN ServerV4
                                                                            ELSE ServerV6,
                                                    ServerPort)
                           /\ id \in live /\ binding[id] = Owner!Bound(Endpoint(id))
    BY DEF Established
  <2> QED
    BY DEF PathInv, Agreed, Listening, Granted
<1> QED
  BY <1>1, PathInvHolds, PTL

\* Only a datagram that is worth relaying is handed to an association, and takes
\* one that waits: no datagram of another kind comes before it (udp_loop 659-667).
THEOREM ValidBinds == Spec => OnlyValidBinds
<1> DEFINE Binds == \A h \in handed' \ handed :
                      \E d \in up : d.meant # None /\ endpoint_key(d.source) = h[2]
<1>1. PathInv /\ [Next]_vars => [Binds]_vars
  <2> SUFFICES ASSUME PathInv, [Next]_vars PROVE Binds
    OBVIOUS
  <2> USE DEF associations
  <2>1. ASSUME handed' \subseteq handed PROVE Binds
    BY <2>1
  <2>2. CASE Start \/ Lose \/ UNCHANGED vars
    BY <2>1, <2>2 DEF Start, Lose, vars
  <2>3. ASSUME NEW id \in Ids, NEW port \in Ports, NEW request \in RequestsOf(id),
               Ask(id, port, request)
        PROVE  Binds
    BY <2>1, <2>3 DEF Ask
  <2>4. ASSUME NEW id \in Ids,
               Grant(id) \/ Refuse(id) \/ Confirm(id) \/ HangUp(id) \/ Close(id) \/ Withdraw(id)
        PROVE  Binds
    <3>1. handed' \subseteq handed
      BY <2>4 DEF Grant, Refuse, Confirm, HangUp, Close, Withdraw,
         Owner!Await, Owner!Declare, Owner!Close, Owner!Release
    <3> QED
      BY <2>1, <3>1
  <2>5. ASSUME NEW id \in Ids, NEW target \in Targets, NEW payload \in Payloads,
               Send(id, target, payload)
        PROVE  Binds
    BY <2>1, <2>5 DEF Send
  <2>6. ASSUME NEW id \in Ids, NEW s \in Strays, Stray(id, s[1], s[2]) PROVE Binds
    BY <2>1, <2>6 DEF Stray
  <2>7. ASSUME NEW id \in Ids, NEW d \in down, Recv(id, d) PROVE Binds
    BY <2>1, <2>7 DEF Recv
  <2>8. ASSUME NEW d \in up, UdpLoop(d) PROVE Binds
    <3>1. d.bytes \in Seq(Nat) /\ Len(d.bytes) <= BufferSize /\ Meant(d)
      BY DEF PathInv, Datagrams, Faithful
    <3>2. received(d) = parse_datagram(d.bytes)
      BY <3>1, ReceivedLemma
    <3>3. d.meant # None
      BY <2>8, <3>1, <3>2 DEF UdpLoop, Meant
    <3>4. PICK id \in Ids : Owner!HandOver(id, endpoint_key(d.source))
      BY <2>8 DEF UdpLoop
    <3>5. handed' = handed \cup {<<id, endpoint_key(d.source)>>}
      BY <3>4 DEF Owner!HandOver
    <3> QED
      BY <3>3, <3>5
  <2>9. ASSUME NEW k \in tasks, Forward(k) PROVE Binds
    BY <2>1, <2>9 DEF Forward
  <2>10. ASSUME NEW f \in flows, NEW payload \in Answers, Answer(f, payload) PROVE Binds
    BY <2>1, <2>10 DEF Answer
  <2>11. ASSUME NEW f \in flows, EndFlow(f) PROVE Binds
    BY <2>1, <2>11 DEF EndFlow
  <2> QED
    BY <2>2, <2>3, <2>4, <2>5, <2>6, <2>7, <2>8, <2>9, <2>10, <2>11 DEF Next
<1> QED
  BY <1>1, PathInvHolds, PTL DEF Spec, OnlyValidBinds
=============================================================================
