----------------------------- MODULE MCUdpPath -----------------------------
(***************************************************************************)
(* An instance of UdpPath: the library and another client, on one machine  *)
(* or on two, with an IPv4 and an IPv6 address.                            *)
(***************************************************************************)
EXTENDS UdpPath

Host4 == V4(<<2>>)
Host6 == V6(<<3, 4>>)
MCHosts == {Host4, Host6}

\* The other client on the machine of the library, and on another one.
MCPlacements == {h \in [Ids -> MCHosts] : \A id \in Ids \ Library : h[id] = Host4}

MCPrefix   == <<1>>
MCServerV4 == V4(<<5>>)
MCServerV6 == V6(<<5, 6>>)

\* Ports that differ by the order of their bytes.
MCPorts == {18, 33}

ByAddress == At(V4(<<7>>), 19)
ByName    == At(Domain(<<7, 8>>), 20)
TooLong   == At(Domain([i \in 1 .. 16 |-> 7]), 20)
MCTargets == {ByAddress, ByName, TooLong}
MCResolve == [t \in MCTargets |-> IF t = ByAddress THEN t ELSE At(V6(<<9, 9>>), 20)]

Bytes(n) == [i \in 1 .. n |-> 3]
MCPayloads == {Bytes(1)}
\* Nothing; the most that fits with the shorter header for an IPv4 client, and
\* not with the longer; more than the room in the buffer.
MCAnswers == {Bytes(n) : n \in {0, 13, 22}}

\* A datagram cut off within the port, one without payload, a fragment, an
\* unknown type, and a name that is no UTF-8.
MCStrays ==
  {<<18, <<0, 0, 0, 1, 7, 1>>>>, <<33, <<0, 0, 0, 1, 7, 1, 3>>>>,
   <<33, <<0, 0, 1, 1, 7, 1, 3, 3>>>>, <<33, <<0, 0, 0, 2, 7, 1, 3, 3>>>>,
   <<18, <<0, 0, 0, 3, 1, 15, 1, 3, 3>>>>}

MCRequests ==
  {At(h, 0) : h \in {Seen(Host4), Host6, V4(<<0>>), Domain(<<7>>)}}

\* One entry of every kind and length around the addresses that matter, and
\* lists of several entries.
Ips  == {V4(<<x>>) : x \in {0, 2, 3, 15}} \cup
        {V6(<<x, y>>) : x \in {0, 1, 2, 3}, y \in {0, 2, 4, 15}}
Ones == UNION {{Entry(ip, b) : b \in {None} \cup 0 .. Width(ip) + 1} : ip \in Ips}
Some == {Blank, Entry(Host4, None), Entry(Seen(Host4), 8), Entry(Host6, 4),
         Entry(V6(<<0, 0>>), 0), Entry(V4(<<8>>), 5)}
MCTexts == {<<>>} \cup {<<e>> : e \in Ones} \cup Some \X Some

\* Servers started from a file with one whitelist each, and all short command
\* lines with all short files, over values in and out of their ranges.
Path == Option("config", Word(1))
Options ==
  {Path, Option("config", <<>>), Option("config", None), Option("help", None),
   Option("port", Numeral(0)), Option("port", Numeral(2)), Option("username", Word(1)),
   Option("password", Word(3)), Option("whitelist", <<Entry(Host4, None)>>),
   Option("udp_timeout", <<>>), Option("tcp_timeout", Numeral(0)),
   Option("other", Word(1))}
Lines ==
  {Comment, NoEquals, As(Comment, "foreign"), Assign("port", Numeral(3)), Assign("port", Numeral(4000)),
   Assign("username", <<>>), Assign("password", Word(1)),
   Assign("tcp_timeout", Numeral(5)), Assign("whitelist", <<Blank>>),
   Assign("dns_servers", <<Server(Host4, None)>>),
   Assign("dns_servers", <<Server(Host4, 1), Server(Host6, 0)>>), Assign("other", <<>>)}
MCDefaultDns == <<Server(V4(<<8>>), 53), Server(V4(<<1>>), 53)>>

Whitelisted(t) == [args |-> <<Path>>, file |-> <<Assign("whitelist", t)>>]
MCStarts ==
  {Whitelisted(t) : t \in MCTexts} \cup
  [args : SeqOf(Options, 2), file : {None} \cup SeqOf(Lines, 2)]
MCExplored == {Whitelisted(<<Entry(V6(<<0, 0>>), 2)>>)}
=============================================================================
