------------------------------- MODULE UdpPath -------------------------------
(***************************************************************************)
(* The way of a UDP datagram through the relay and back: the client library*)
(* (associate, send and recv of client.rs) or some other client, the bytes *)
(* on the wire, the whitelist, the UDP loop (udp_loop), the association    *)
(* that owns the source, the packet task, and the reply that the worker    *)
(* sends back with a header written into its receive buffer                *)
(* (receive_remote).                                                       *)
(*                                                                         *)
(* The registry is replaced by what it implements, UdpOwnership; how flows *)
(* begin and end is the subject of UdpFlow.  The network loses, reorders   *)
(* and repeats datagrams.  Where a datagram carries `meant`, that is a     *)
(* ghost: what its sender wanted to say, None if it is no SOCKS5 datagram. *)
(***************************************************************************)
EXTENDS Config

CONSTANTS Ids,         \* control connections
          Library,     \* the ones whose client is the library
          Hosts,       \* IPs of client machines
          Placements,  \* which client is on which machine: a set of [Ids -> Hosts]
          ServerV4, ServerV6, ServerPort,  \* where the server listens
          Ports,       \* client UDP ports
          Targets,     \* what clients name
          Resolve,     \* the address that a target resolves to
          Payloads,    \* what clients send
          Answers,     \* what targets send back
          Strays,      \* what arrives besides: <<source port, bytes>>, no SOCKS5 datagrams
          Requests,    \* targets in the requests of other clients
          BufferSize,  \* UDP_BUFFER_SIZE
          MaxV4, MaxV6,  \* the longest UDP payload over IPv4 and IPv6
          MaxTasks,    \* the permits of packet_slots (MAX_UDP_PACKET_TASKS)
          MaxFlows,    \* the permits of flow_slots (MAX_UDP_FLOWS)
          Starts,      \* ways to start the server: its arguments and its file
          Explored,    \* bound: the ones under which there is traffic
          MaxUp, MaxDown  \* bounds on the datagrams and the answers in flight

VARIABLES launch,   \* how the server was started, None before that
          config,   \* what it made of that; the server runs if it is a configuration
          binding, live, handed,  \* the associations: see UdpOwnership
          host,     \* [Ids -> the IP of the client's machine]
          client,   \* [Ids -> the client's socket and what it knows]
          control,  \* [Ids -> the message on the control connection]
          up, down, \* datagrams in flight to the relay and to clients
          tasks,    \* packet tasks
          flows     \* flows with a worker

------------------------------------------------------------------------------
Room == 6 + V6Len

Octets    == 0 .. Base - 1
Addresses == [kind : {"v4"}, bytes : [1 .. V4Len -> Octets]]
               \cup [kind : {"v6"}, bytes : [1 .. V6Len -> Octets]]
Names     == {h \in [kind : {"domain"}, bytes : Seq(Octets)] : Utf8(h.bytes)}

\* Addresses have their lengths and are not mapped, ports their range; names
\* are UTF-8, and so are strings.  The room that is left for an answer from an
\* IPv4 target is enough for the longest one (65535 - 22 >= 65507).
ASSUME PathAssumption ==
  /\ Base \in Nat /\ Base > 4
  /\ {MaxV4, MaxV6, BufferSize} \subseteq Nat
  /\ BufferSize > MaxV6 /\ MaxV6 > MaxV4 /\ BufferSize - Room >= MaxV4
  /\ Ports \cup {ServerPort} \subseteq 1 .. Base * Base - 1
  /\ Hosts \cup {ServerV4, ServerV6} \subseteq {ip \in Addresses : normalize(ip) = ip}
  /\ ServerV4.kind = "v4" /\ ServerV6.kind = "v6"
  /\ ~is_unspecified(ServerV4) /\ ~is_unspecified(ServerV6)
  /\ Placements \subseteq [Ids -> Hosts] /\ Library \subseteq Ids
  /\ Targets \subseteq [host : Addresses \cup Names, port : 0 .. Base * Base - 1]
  /\ Resolve \in [Targets -> [host : Addresses, port : 0 .. Base * Base - 1]]
  /\ Payloads \cup Answers \subseteq Seq(Octets)
  /\ \A s \in Strays : /\ s[2] \in Seq(Octets) /\ Len(s[2]) <= MaxV6
                       /\ ~parse_datagram(s[2]).ok
  /\ None \notin [target : Targets, payload : Payloads]

associations == <<binding, live, handed, host>>
vars == <<launch, config, binding, live, handed, host, client, control, up, down, tasks, flows>>

Owner == INSTANCE UdpOwnership WITH Ips <- Hosts

------------------------------------------------------------------------------
Unspecified(kind) ==
  IF kind = "v4" THEN V4([i \in 1 .. V4Len |-> 0]) ELSE V6([i \in 1 .. V6Len |-> 0])

\* The addresses of a control connection, as the dual-stack listener has them.
peer_addr(id)  == Seen(host[id])
local_addr(id) == Seen(IF host[id].kind = "v4" THEN ServerV4 ELSE ServerV6)

\* The client's UDP socket as the relay sees it and as the registry indexes it.
Endpoint(id)         == [ip |-> host[id], port |-> client[id].port]
endpoint_key(source) == [ip |-> normalize(source.host), port |-> source.port]

Runs       == config.ok /\ config.value # None
Admits(ip) == Runs /\ allows(config.value.whitelist, ip)

MaxUdp(ip) == IF ip.kind = "v4" THEN MaxV4 ELSE MaxV6

\* recv and recv_from: a datagram that is longer than the buffer is cut; what
\* the buffer held behind it stays there.
Stale == Base - 1
Filled(bytes, size) ==
  [i \in 1 .. size |-> IF i <= Len(bytes) THEN bytes[i] ELSE Stale]
\* What udp_loop and recv parse: as much of the buffer as was received.
received(d) == parse_datagram(SubSeq(Filled(d.bytes, BufferSize), 1, Len(d.bytes)))

Shorter(a, b) == IF a < b THEN a ELSE b

NoSocket == [state |-> "idle", port |-> 0, relay |-> None]

Init ==
  /\ launch = None /\ config = Err("not started")
  /\ Owner!Init
  /\ host \in Placements
  /\ client = [id \in Ids |-> NoSocket]
  /\ control = [id \in Ids |-> <<>>]
  /\ up = {} /\ down = {} /\ tasks = {} /\ flows = {}

\* main: the server is bound and runs if Config::parse returns a configuration.
Start ==
  /\ launch = None
  /\ launch' \in Starts
  /\ config' = parse_config(launch'.args, launch'.file)
  /\ UNCHANGED <<associations, client, control, up, down, tasks, flows>>

Serving == launch \in Explored

------------------------------------------------------------------------------
(* The control connection: UDP ASSOCIATE.                                  *)
RequestsOf(id) == Requests \cup {At(Unspecified(host[id].kind), p) : p \in Ports}

\* Client::associate up to the request: a socket of the family of the control
\* connection, and its port in the request.  Another client asks as it likes.
Ask(id, port, request) ==
  /\ client[id] = NoSocket
  /\ Serving /\ Admits(peer_addr(id))
  /\ \A o \in Ids \ {id} : host[o] = host[id] => client[o].port # port
  /\ id \in Library => request = At(Unspecified(host[id].kind), port)
  /\ client' = [client EXCEPT ![id].state = "asked", ![id].port = port]
  /\ control' = [control EXCEPT ![id] = write_request(3, request).value]
  /\ UNCHANGED <<launch, config, associations, up, down, tasks, flows>>

\* What `associate` of the server makes of the request.
Asked(id)   == read_request(control[id]).value.target
Waits(id)   == client[id].state = "asked"
Own(id)     ==
  /\ Asked(id).host.kind # "domain"
  /\ \/ is_unspecified(Asked(id).host)
     \/ normalize(Asked(id).host) = normalize(peer_addr(id))
Declared(id) == [ip |-> normalize(peer_addr(id)), port |-> Asked(id).port]
Vacant(id)  == IF Asked(id).port = 0 THEN Owner!Unawaited(Declared(id).ip)
                                     ELSE Owner!Unowned(Declared(id))

\* Mutant: the address of a dual-stack socket is passed on as it is.
relay_addr_raw(id) == At(local_addr(id), ServerPort)

relay_addr(id) == At(normalize(local_addr(id)), ServerPort)

Grant(id) ==
  /\ Waits(id) /\ Own(id) /\ Vacant(id)
  /\ IF Asked(id).port = 0 THEN Owner!Await(id, Declared(id).ip)
                           ELSE Owner!Declare(id, Declared(id))
  /\ client' = [client EXCEPT ![id].state = "answered"]
  /\ control' = [control EXCEPT ![id] = write_reply(0, relay_addr(id))]
  /\ UNCHANGED <<launch, config, host, up, down, tasks, flows>>

\* SERVER_FAILURE, or ADDRESS_UNSUPPORTED for a name.
Refuse(id) ==
  LET status == IF Asked(id).host.kind = "domain" THEN 8 ELSE 1 IN
  /\ Waits(id) /\ ~(Own(id) /\ Vacant(id))
  /\ client' = [client EXCEPT ![id].state = "answered"]
  /\ control' = [control EXCEPT ![id] =
                   write_reply(status, At(Unspecified(local_addr(id).kind), 0))]
  /\ UNCHANGED <<launch, config, associations, up, down, tasks, flows>>

\* The rest of Client::associate: the status, and the address to send to,
\* which has to be of the family of the socket for connect to succeed.
Confirm(id) ==
  LET reply == read_reply(control[id]).value
      ip    == IF is_unspecified(reply.target.host) THEN normalize(local_addr(id))
                                                    ELSE reply.target.host
      after == IF reply.code # 0 THEN [NoSocket EXCEPT !.state = "closed"]
               ELSE IF ip.kind # host[id].kind THEN [NoSocket EXCEPT !.state = "failed"]
               ELSE [client[id] EXCEPT !.state = "open",
                                       !.relay = At(ip, reply.target.port)]
  IN
  /\ client[id].state = "answered"
  /\ client' = [client EXCEPT ![id] = after]
  /\ control' = [control EXCEPT ![id] = <<>>]
  /\ UNCHANGED <<launch, config, associations, up, down, tasks, flows>>

\* The client drops its socket and its end of the control connection.
HangUp(id) ==
  /\ client[id].state \in {"answered", "open"}
  /\ client' = [client EXCEPT ![id] = [NoSocket EXCEPT !.state = "closed"]]
  /\ control' = [control EXCEPT ![id] = <<>>]
  /\ UNCHANGED <<launch, config, associations, up, down, tasks, flows>>

\* The server's task sees it, and then withdraws the association.
Close(id) ==
  /\ client[id].state \in {"closed", "failed"} /\ id \in live
  /\ Owner!Close({id})
  /\ UNCHANGED <<launch, config, host, client, control, up, down, tasks, flows>>

Withdraw(id) ==
  /\ binding[id] # Owner!Absent
  /\ Owner!Release(id)
  /\ UNCHANGED <<launch, config, host, client, control, up, down, tasks, flows>>

------------------------------------------------------------------------------
(* From the client to the target.                                          *)
InFlight(d) == /\ Cardinality(up) + Cardinality(tasks) < MaxUp
               /\ up' = up \cup {d}

\* UdpAssociation::send; the library keeps to one target for an association,
\* another client need not.  The socket refuses what is too long for UDP.
Send(id, target, payload) ==
  LET r == encode_datagram_to(target, payload) IN
  /\ client[id].state = "open"
  /\ r.ok /\ Len(r.value) <= MaxUdp(host[id])
  /\ InFlight([source |-> At(peer_addr(id), client[id].port), bytes |-> r.value,
               meant |-> [target |-> target, payload |-> payload]])
  /\ UNCHANGED <<launch, config, associations, client, control, down, tasks, flows>>

\* Something else arrives from the client's machine.
Stray(id, port, bytes) ==
  /\ Serving
  /\ InFlight([source |-> At(peer_addr(id), port), bytes |-> bytes, meant |-> None])
  /\ UNCHANGED <<launch, config, associations, client, control, down, tasks, flows>>

\* A task for the datagram if there is a permit; otherwise it is dropped.
Spawn(id, said, meant) ==
  tasks' = IF Cardinality(tasks) < MaxTasks
             THEN tasks \cup {[id |-> id, said |-> said, meant |-> meant]} ELSE tasks

\* Mutant: the association is looked up before the datagram is parsed.
UdpLoopFindsFirst(d) ==
  /\ Admits(d.source.host)
  /\ \E id \in Ids :
       /\ Owner!HandOver(id, endpoint_key(d.source))
       /\ IF received(d).ok THEN Spawn(id, received(d).value, d.meant) ELSE UNCHANGED tasks
  /\ UNCHANGED <<launch, config, host, client, control, up, down, flows>>

\* One round of udp_loop: the whitelist, the datagram, the association that
\* owns the source, and a task.  A datagram that fails one of them is dropped.
UdpLoop(d) ==
  /\ Admits(d.source.host)
  /\ received(d).ok
  /\ \E id \in Ids : /\ Owner!HandOver(id, endpoint_key(d.source))
                     /\ Spawn(id, received(d).value, d.meant)
  /\ UNCHANGED <<launch, config, host, client, control, up, down, flows>>

\* handle_udp_packet: the payload goes out on the flow of its target, which
\* is opened if there is none and the limit permits; otherwise, or when the
\* association is closed, it is dropped.
Forward(k) ==
  LET flow == [id |-> k.id, from |-> Resolve[k.said.target]] IN
  /\ tasks' = tasks \ {k}
  /\ flows' = IF /\ k.id \in live /\ Cardinality(flows) < MaxFlows
                THEN flows \cup {flow} ELSE flows
  /\ UNCHANGED <<launch, config, associations, client, control, up, down>>

------------------------------------------------------------------------------
(* And back.                                                               *)
\* The datagram that receive_remote makes of an answer: the payload is
\* received behind room for the longer header, and the header is put
\* directly in front of it.

\* Mutant: the header is put at the beginning of its room.
reply_bytes_fixed(from, payload) ==
  LET length == Shorter(Len(payload), BufferSize - Room)
      buffer == [i \in 1 .. Room |-> Stale] \o Filled(payload, BufferSize - Room)
  IN SubSeq(write_datagram_header(buffer, 0, from), 1, Room + length)

reply_bytes(from, payload) ==
  LET length == Shorter(Len(payload), BufferSize - Room)
      start  == Room - datagram_header_len(from)
      buffer == [i \in 1 .. Room |-> Stale] \o Filled(payload, BufferSize - Room)
  IN SubSeq(write_datagram_header(buffer, start, from), start + 1, Room + length)

\* The worker receives an answer, finds the association alive, reads its
\* endpoint and sends, all without waiting.  Nobody looks at the outcome of
\* send_to: the datagram may be too long for the family of the client.
Answer(f, payload) ==
  LET to  == binding[f.id].endpoint
      out == reply_bytes(f.from, payload)
  IN
  /\ f.id \in live
  /\ Cardinality(down) < MaxDown
  /\ Len(payload) <= MaxUdp(f.from.host)
  /\ down' = IF Len(out) > MaxUdp(to.ip) THEN down
             ELSE down \cup {[to |-> to, bytes |-> out,
                              meant |-> [target |-> f.from, payload |-> payload]]}
  /\ UNCHANGED <<launch, config, associations, client, control, up, tasks, flows>>

\* The worker ends, see UdpFlow.
EndFlow(f) ==
  /\ flows' = flows \ {f}
  /\ UNCHANGED <<launch, config, associations, client, control, up, down, tasks>>

\* UdpAssociation::recv: what it returns to a caller with this much room, and
\* the datagram it takes from the socket in any case.
recv(d, room) ==
  IF ~received(d).ok THEN received(d)
  ELSE IF Len(received(d).value.payload) > room THEN Err("input")
  ELSE received(d)

Recv(id, d) ==
  /\ id \in Library /\ client[id].state = "open"
  /\ d.to = Endpoint(id)
  /\ down' = down \ {d}
  /\ UNCHANGED <<launch, config, associations, client, control, up, tasks, flows>>

\* The network loses a datagram, or stops repeating it.
Lose ==
  /\ \/ \E d \in up : up' = up \ {d} /\ UNCHANGED down
     \/ \E d \in down : down' = down \ {d} /\ UNCHANGED up
  /\ UNCHANGED <<launch, config, associations, client, control, tasks, flows>>

Next ==
  \/ Start
  \/ \E id \in Ids :
       \/ client[id] = NoSocket /\ \E port \in Ports, request \in RequestsOf(id) :
            Ask(id, port, request)
       \/ Grant(id) \/ Refuse(id) \/ Confirm(id)
       \/ HangUp(id) \/ Close(id) \/ Withdraw(id)
       \/ \E target \in Targets, payload \in Payloads : Send(id, target, payload)
       \/ \E s \in Strays : Stray(id, s[1], s[2])
       \/ \E d \in down : Recv(id, d)
  \/ \E d \in up : UdpLoop(d)
  \/ \E k \in tasks : Forward(k)
  \/ \E f \in flows : \/ \E payload \in Answers : Answer(f, payload)
                      \/ EndFlow(f)
  \/ Lose

Spec == Init /\ [][Next]_vars

------------------------------------------------------------------------------
\* What a task is to send is what the owner of the source meant to be sent, to
\* the target that was meant, and what recv returns is what the target at that
\* address has answered, whole and unmixed with what the buffers held before:
\* through both encodings, the reused buffers, the header written in place
\* (881-889) and the limits of UDP, for every datagram that is not lost.
PayloadsIntact ==
  /\ \A k \in tasks : k.said = k.meant
  /\ \A d \in down, room \in {0, BufferSize} :
       recv(d, room).ok => recv(d, room).value = d.meant

\* An association is handed datagrams, and one that left its port open is
\* bound, only by a datagram that is worth relaying: whatever else
\* arrives from the same machine first does not take the association
\* (docs/usage.md 95, udp_loop 659-667).
OnlyValidBinds ==
  [][\A h \in handed' \ handed :
       \E d \in up : d.meant # None /\ endpoint_key(d.source) = h[2]]_vars

\* An association that the server has granted to the library does not fail there
\* for the address in the reply; the relay address that associate returns is
\* where the server listens, and as long as the client keeps the control
\* connection the server accepts the datagrams of exactly that socket
\* (client.rs 154-193, server.rs 552-612).
Established ==
  \A id \in Library :
    /\ client[id].state # "failed"
    /\ client[id].state = "open" =>
         /\ client[id].relay = At(IF host[id].kind = "v4" THEN ServerV4 ELSE ServerV6,
                                  ServerPort)
         /\ id \in live /\ binding[id] = Owner!Bound(Endpoint(id))

\* The whitelist in force admits exactly the addresses that one of its entries
\* covers, for every entry, prefix length and source (config.rs 24-100).
WhitelistExact ==
  [][launch' # launch /\ Runs' =>
       LET texts == Given(launch'.args, launch'.file, "whitelist")
           text  == IF texts = <<>> THEN <<>> ELSE Last(texts)
       IN \A bytes \in [1 .. V6Len -> 0 .. Base - 1] :
            allows(config'.value.whitelist, V6(bytes)) <=> Covered(text, V6(bytes))]_vars

\* The server runs with the last text that is given for a key, the arguments
\* counting after the file wherever --config is (docs/usage.md 50), and with the
\* default without one; it asks for a password if and only if it asks for a name.
\* It refuses to start only if some argument or line is wrong, or the user name
\* and the password do not go together (config.rs 103-267).
StartExact ==
  [][launch' # launch =>
       /\ Runs' => \A key \in Keys :
                     Ok(config'.value[key]) = InForce(launch'.args, launch'.file, key)
       /\ Runs' \/ ~config'.ok => Runs' = Sound(launch'.args, launch'.file)]_vars
=============================================================================
