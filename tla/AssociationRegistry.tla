------------------------- MODULE AssociationRegistry -------------------------
(***************************************************************************)
(* The registry of UDP associations (server.rs): the table of entries and  *)
(* its two indexes, the tasks that register and withdraw an association    *)
(* for each control connection, the lookup the UDP loop makes for every    *)
(* datagram, and the sweep of a server that shuts down.                    *)
(*                                                                         *)
(* A step is what runs under one lock of the registry, or one step of a    *)
(* connection task between two awaits.  An association's `stopped` token   *)
(* is cancelled right after `alive` is cleared; it wakes the flows of the  *)
(* association and is modelled in UdpFlow.                                 *)
(***************************************************************************)
EXTENDS Naturals

CONSTANTS Ids,        \* connection ids: next_id hands out each one once
          Hosts,      \* what tells two client machines apart
          Families,   \* address families seen on the dual-stack sockets
          Ports,      \* client UDP ports
          None        \* an absent value

ASSUME IdsAssumption      == None \notin Ids
ASSUME FamiliesAssumption == /\ Families \subseteq {"v4", "mapped", "v6"}
                             /\ "mapped" \in Families => "v4" \in Families
ASSUME PortsAssumption    == Ports \subseteq Nat \ {0}
ASSUME NoneAssumption     ==
  None \notin [ip : [family : Families, host : Hosts], port : Ports]
                \cup [family : Families, host : Hosts] \cup Nat

VARIABLES entries,         \* ids with an entry in the registry
          endpoints,       \* index: client endpoint -> id
          pending,         \* index: client IP -> id that waits for a port
          client_ip,       \* peer address of the control connection
          requested_port,  \* port of the request, 0 when left open
          endpoint,        \* last source accepted, None before the first
          alive,           \* ids whose `alive` flag is set
          pc,              \* where the connection's task is
          hung_up,         \* ids whose client closed the control connection
          server,          \* "running", "cancelled" or "swept"
          udp,             \* "running" or "stopped": the UDP loop
          handed           \* history: <<id, endpoint>> of what entries were given

registry    == <<entries, endpoints, pending>>
association == <<client_ip, requested_port, endpoint, alive>>
vars == <<entries, endpoints, pending, client_ip, requested_port, endpoint,
          alive, pc, hung_up, server, udp, handed>>

------------------------------------------------------------------------------
Ips     == [family : Families, host : Hosts]
Sources == [ip : Ips, port : Ports]

\* A client may name a domain, an unspecified address, or an IP.
Domain      == [kind |-> "domain"]
Unspecified == [kind |-> "unspecified"]
IpHost(ip)  == [kind |-> "ip", ip |-> ip]
RequestHosts == {Domain, Unspecified} \cup {IpHost(ip) : ip \in Ips}

\* An IPv4-mapped IPv6 address and the IPv4 address are the same client.
normalize(ip) ==
  IF ip.family = "mapped" THEN [family |-> "v4", host |-> ip.host] ELSE ip

endpoint_key(source) == [ip |-> normalize(source.ip), port |-> source.port]

\* `accepts`: the address and port of the request, then the endpoint held so
\* far; the caller records the source when it is accepted.
accepts(id, source) ==
  /\ normalize(source.ip) = normalize(client_ip[id])
  /\ requested_port[id] \in {0, source.port}
  /\ endpoint[id] # None => endpoint_key(endpoint[id]) = endpoint_key(source)

\* The endpoint an entry occupies according to its association, None while
\* it waits for its first datagram.
occupied(id) ==
  IF requested_port[id] # 0
    THEN [ip |-> normalize(client_ip[id]), port |-> requested_port[id]]
    ELSE IF endpoint[id] = None THEN None ELSE endpoint_key(endpoint[id])

------------------------------------------------------------------------------
Init ==
  /\ entries = {}
  /\ endpoints = [e \in Sources |-> None]
  /\ pending = [ip \in Ips |-> None]
  /\ client_ip = [id \in Ids |-> None]
  /\ requested_port = [id \in Ids |-> 0]
  /\ endpoint = [id \in Ids |-> None]
  /\ alive = {}
  /\ pc = [id \in Ids |-> "request"]
  /\ hung_up = {}
  /\ server = "running"
  /\ udp = "running"
  /\ handed = {}

\* The address of an ASSOCIATE request must be open or the peer's own.
hostAllowed(peer, host) ==
  \/ host = Unspecified
  \/ host \in {IpHost(ip) : ip \in Ips} /\ normalize(host.ip) = normalize(peer)

RefuseHost(id, peer, host) ==
  /\ pc[id] = "request"
  /\ ~hostAllowed(peer, host)
  /\ pc' = [pc EXCEPT ![id] = "done"]
  /\ UNCHANGED <<registry, association, hung_up, server, udp, handed>>

\* The request never comes, is malformed or asks for something else; each
\* wait of the handshake is bounded by HANDSHAKE_TIMEOUT.
RequestEnds(id) ==
  /\ pc[id] = "request"
  /\ pc' = [pc EXCEPT ![id] = "done"]
  /\ UNCHANGED <<registry, association, hung_up, server, udp, handed>>

\* The association object, created with its flag up and no endpoint.
newAssociation(id, peer, port) ==
  /\ client_ip' = [client_ip EXCEPT ![id] = peer]
  /\ requested_port' = [requested_port EXCEPT ![id] = port]
  /\ endpoint' = [endpoint EXCEPT ![id] = None]

\* `insert` of a request that leaves the port open.
InsertPending(id, peer, host) ==
  /\ pc[id] = "request"
  /\ hostAllowed(peer, host)
  /\ pending[normalize(peer)] = None
  /\ newAssociation(id, peer, 0)
  /\ alive' = alive \cup {id}
  /\ pending' = [pending EXCEPT ![normalize(peer)] = id]
  /\ entries' = entries \cup {id}
  /\ pc' = [pc EXCEPT ![id] = "replying"]
  /\ UNCHANGED <<endpoints, hung_up, server, udp, handed>>

\* Mutant: `insert` does not look whether the endpoint has an owner.
InsertDeclaredUnchecked(id, peer, host, port) ==
  LET key == [ip |-> normalize(peer), port |-> port] IN
  /\ pc[id] = "request"
  /\ hostAllowed(peer, host)
  /\ newAssociation(id, peer, port)
  /\ alive' = alive \cup {id}
  /\ endpoints' = [endpoints EXCEPT ![key] = id]
  /\ entries' = entries \cup {id}
  /\ pc' = [pc EXCEPT ![id] = "replying"]
  /\ UNCHANGED <<pending, hung_up, server, udp, handed>>

\* `insert` of a request that declares its port.
InsertDeclared(id, peer, host, port) ==
  LET key == [ip |-> normalize(peer), port |-> port] IN
  /\ pc[id] = "request"
  /\ hostAllowed(peer, host)
  /\ endpoints[key] = None
  /\ newAssociation(id, peer, port)
  /\ alive' = alive \cup {id}
  /\ endpoints' = [endpoints EXCEPT ![key] = id]
  /\ entries' = entries \cup {id}
  /\ pc' = [pc EXCEPT ![id] = "replying"]
  /\ UNCHANGED <<pending, hung_up, server, udp, handed>>

\* `insert` returns false: the endpoint has an owner, or the IP a waiter.
RejectInsert(id, peer, host, port) ==
  /\ pc[id] = "request"
  /\ hostAllowed(peer, host)
  /\ IF port = 0 THEN pending[normalize(peer)] # None
                 ELSE endpoints[[ip |-> normalize(peer), port |-> port]] # None
  /\ pc' = [pc EXCEPT ![id] = "done"]
  /\ UNCHANGED <<registry, association, hung_up, server, udp, handed>>

\* The success reply is written, and the task watches the connection.
ReplySent(id) ==
  /\ pc[id] = "replying"
  /\ pc' = [pc EXCEPT ![id] = "serving"]
  /\ UNCHANGED <<registry, association, hung_up, server, udp, handed>>

\* Mutant: the error is returned without withdrawing the association.
ReplyFailedKeepsEntry(id) ==
  /\ pc[id] = "replying"
  /\ alive' = alive \ {id}
  /\ pc' = [pc EXCEPT ![id] = "done"]
  /\ UNCHANGED <<registry, client_ip, requested_port, endpoint, hung_up,
                 server, udp, handed>>

\* The success reply cannot be written: the association is withdrawn.
ReplyFailed(id) ==
  /\ pc[id] = "replying"
  /\ alive' = alive \ {id}
  /\ pc' = [pc EXCEPT ![id] = "closing"]
  /\ UNCHANGED <<registry, client_ip, requested_port, endpoint, hung_up,
                 server, udp, handed>>

\* The client closes or resets the control connection.
HangUp(id) ==
  /\ pc[id] \in {"replying", "serving"}
  /\ hung_up' = hung_up \cup {id}
  /\ UNCHANGED <<registry, association, pc, server, udp, handed>>

\* Mutants: the loop around the read misses the end of the stream, or is
\* not raced against the shutdown.
StopServingOn(id, event) ==
  /\ pc[id] = "serving"
  /\ event
  /\ alive' = alive \ {id}
  /\ pc' = [pc EXCEPT ![id] = "closing"]
  /\ UNCHANGED <<registry, client_ip, requested_port, endpoint, hung_up,
                 server, udp, handed>>
StopServingOnShutdown(id) == StopServingOn(id, server # "running")
StopServingOnHangUp(id)   == StopServingOn(id, id \in hung_up)

\* The watching task sees the end of the stream or the shutdown.
StopServing(id) ==
  /\ pc[id] = "serving"
  /\ id \in hung_up \/ server # "running"
  /\ alive' = alive \ {id}
  /\ pc' = [pc EXCEPT ![id] = "closing"]
  /\ UNCHANGED <<registry, client_ip, requested_port, endpoint, hung_up,
                 server, udp, handed>>

\* Mutant: an association that left its port open is looked for among the
\* pending ones only, though a datagram may have bound it.
RemoveByRequest(id) ==
  LET ip == normalize(client_ip[id])
      e  == [ip |-> ip, port |-> requested_port[id]]
  IN
  /\ pc[id] = "closing"
  /\ entries' = entries \ {id}
  /\ endpoints' = IF requested_port[id] # 0
                    THEN [endpoints EXCEPT ![e] = None] ELSE endpoints
  /\ pending' = IF requested_port[id] = 0 /\ pending[ip] = id
                  THEN [pending EXCEPT ![ip] = None] ELSE pending
  /\ pc' = [pc EXCEPT ![id] = "done"]
  /\ client_ip' = [client_ip EXCEPT ![id] = None]
  /\ requested_port' = [requested_port EXCEPT ![id] = 0]
  /\ endpoint' = [endpoint EXCEPT ![id] = None]
  /\ hung_up' = hung_up \ {id}
  /\ handed' = {h \in handed : h[1] # id}
  /\ UNCHANGED <<alive, server, udp>>

\* `remove`: the entry goes, and with it the one index entry that is its own.
\* The stream and the registry's reference to the association are dropped.
Remove(id) ==
  LET e  == occupied(id)
      ip == normalize(client_ip[id])
  IN
  /\ pc[id] = "closing"
  /\ entries' = entries \ {id}
  /\ endpoints' = IF e # None /\ endpoints[e] = id
                    THEN [endpoints EXCEPT ![e] = None] ELSE endpoints
  /\ pending' = IF e = None /\ pending[ip] = id
                  THEN [pending EXCEPT ![ip] = None] ELSE pending
  /\ pc' = [pc EXCEPT ![id] = "done"]
  /\ client_ip' = [client_ip EXCEPT ![id] = None]
  /\ requested_port' = [requested_port EXCEPT ![id] = 0]
  /\ endpoint' = [endpoint EXCEPT ![id] = None]
  /\ hung_up' = hung_up \ {id}
  /\ handed' = {h \in handed : h[1] # id}
  /\ UNCHANGED <<alive, server, udp>>

------------------------------------------------------------------------------
\* Mutant: the owner of a source is returned without recording the source.
FindBoundUnrecorded(source) ==
  LET e  == endpoint_key(source)
      id == endpoints[e]
  IN
  /\ udp = "running"
  /\ id # None
  /\ id \in entries
  /\ id \in alive
  /\ handed' = handed \cup {<<id, e>>}
  /\ UNCHANGED <<registry, association, pc, hung_up, server, udp>>

\* `find` when the source has an owner.
FindBound(source) ==
  LET e  == endpoint_key(source)
      id == endpoints[e]
  IN
  /\ udp = "running"
  /\ id # None
  /\ id \in entries
  /\ id \in alive
  /\ accepts(id, source)
  /\ endpoint' = [endpoint EXCEPT ![id] = source]
  /\ handed' = handed \cup {<<id, e>>}
  /\ UNCHANGED <<registry, client_ip, requested_port, alive, pc, hung_up,
                 server, udp>>

\* Mutant: the waiting association is tried before the owner.
FindPendingFirst(source) ==
  LET e  == endpoint_key(source)
      ip == normalize(source.ip)
      id == pending[ip]
  IN
  /\ udp = "running"
  /\ id # None
  /\ id \in entries
  /\ id \in alive
  /\ accepts(id, source)
  /\ endpoint' = [endpoint EXCEPT ![id] = source]
  /\ pending' = [pending EXCEPT ![ip] = None]
  /\ endpoints' = [endpoints EXCEPT ![e] = id]
  /\ handed' = handed \cup {<<id, e>>}
  /\ UNCHANGED <<entries, client_ip, requested_port, alive, pc, hung_up,
                 server, udp>>

\* `find` when it has none, and an association waits on its IP.
FindPending(source) ==
  LET e  == endpoint_key(source)
      ip == normalize(source.ip)
      id == pending[ip]
  IN
  /\ udp = "running"
  /\ endpoints[e] = None
  /\ id # None
  /\ id \in entries
  /\ id \in alive
  /\ accepts(id, source)
  /\ endpoint' = [endpoint EXCEPT ![id] = source]
  /\ pending' = [pending EXCEPT ![ip] = None]
  /\ endpoints' = [endpoints EXCEPT ![e] = id]
  /\ handed' = handed \cup {<<id, e>>}
  /\ UNCHANGED <<entries, client_ip, requested_port, alive, pc, hung_up,
                 server, udp>>

------------------------------------------------------------------------------
\* A signal, a failed accept or the end of the UDP loop ends the accept loop.
Shutdown ==
  /\ server = "running"
  /\ server' = "cancelled"
  /\ UNCHANGED <<registry, association, pc, hung_up, udp, handed>>

\* Every entry's flag is cleared under one lock of the registry.
Sweep ==
  /\ server = "cancelled"
  /\ server' = "swept"
  /\ alive' = alive \ entries
  /\ UNCHANGED <<registry, client_ip, requested_port, endpoint, pc, hung_up,
                 udp, handed>>

\* The UDP loop ends on a receive error, or when it sees the shutdown.
UdpFails ==
  /\ udp = "running"
  /\ udp' = "stopped"
  /\ UNCHANGED <<registry, association, pc, hung_up, server, handed>>

UdpStops ==
  /\ server # "running"
  /\ UdpFails

\* Nothing is left to do: the server is down and every task has ended.
Terminated ==
  /\ server = "swept" /\ udp = "stopped"
  /\ \A id \in Ids : pc[id] = "done"
  /\ UNCHANGED vars

Task(id) ==
  \/ ReplySent(id)
  \/ ReplyFailed(id)
  \/ StopServing(id)
  \/ Remove(id)

Next ==
  \/ \E id \in Ids, peer \in Ips, host \in RequestHosts :
       \/ RefuseHost(id, peer, host)
       \/ InsertPending(id, peer, host)
       \/ \E port \in Ports : InsertDeclared(id, peer, host, port)
       \/ \E port \in Ports \cup {0} : RejectInsert(id, peer, host, port)
  \/ \E id \in Ids : Task(id) \/ RequestEnds(id) \/ HangUp(id)
  \/ \E source \in Sources : FindBound(source) \/ FindPending(source)
  \/ Shutdown
  \/ Sweep
  \/ UdpFails
  \/ Terminated

Spec == Init /\ [][Next]_vars

\* The runtime runs every task that can make a step, a handshake times out,
\* and the end of the UDP loop ends the accept loop.  Clients owe nothing.
Fairness ==
  /\ \A id \in Ids : WF_vars(Task(id)) /\ WF_vars(RequestEnds(id))
  /\ WF_vars(Sweep)
  /\ WF_vars(UdpStops)
  /\ WF_vars(udp = "stopped" /\ Shutdown)

FairSpec == Spec /\ Fairness

------------------------------------------------------------------------------
Registered == {"replying", "serving", "closing"}

\* Every variable has its type, and the registry holds exactly the
\* associations whose task is between `insert` and `remove`: no path out of
\* `associate` leaves an entry behind, and only an entry can be alive.
TypeOK ==
  /\ entries = {id \in Ids : pc[id] \in Registered}
  /\ endpoints \in [Sources -> Ids \cup {None}]
  /\ pending \in [Ips -> Ids \cup {None}]
  /\ client_ip \in [Ids -> Ips \cup {None}]
  /\ \A id \in entries : client_ip[id] \in Ips
  /\ \A h \in handed : h[1] \in entries
  /\ requested_port \in [Ids -> Ports \cup {0}]
  /\ endpoint \in [Ids -> Sources \cup {None}]
  /\ pc \in [Ids -> Registered \cup {"request", "done"}]
  /\ alive \subseteq {id \in Ids : pc[id] \in {"replying", "serving"}}
  /\ hung_up \subseteq Ids
  /\ server \in {"running", "cancelled", "swept"}
  /\ udp \in {"running", "stopped"}
  /\ handed \subseteq Ids \X Sources

\* The two indexes say exactly what the associations say: an endpoint is
\* mapped to an id iff that id is registered and occupies it, an IP iff that
\* id is registered and still waits on it.  So an entry is reachable from
\* one place only, and `remove` leaves no dangling index (server.rs 26-87).
IndexExact ==
  /\ \A e \in Sources, id \in Ids :
       endpoints[e] = id <=> id \in entries /\ occupied(id) = e
  /\ \A ip \in Ips, id \in Ids :
       pending[ip] = id <=> /\ id \in entries
                            /\ occupied(id) = None
                            /\ normalize(client_ip[id]) = ip

\* All that an association is handed while registered comes from one endpoint, on the IP
\* of its control connection and the port it declared, and that endpoint is
\* where its replies go (find and accepts; receive_remote reads `endpoint`).
SourceFidelity ==
  \A h \in handed :
    LET id == h[1] IN
    /\ occupied(id) = h[2]
    /\ endpoint[id] # None
    /\ endpoint_key(endpoint[id]) = h[2]
    /\ normalize(client_ip[id]) = h[2].ip

\* An owner is never replaced: an endpoint changes hands only by becoming
\* free, and only once its owner's flag is down (insert, find, remove).
NoTakeover ==
  [][\A e \in Sources :
       endpoints[e] # None /\ endpoints'[e] # endpoints[e] =>
         endpoints'[e] = None /\ endpoints[e] \notin alive]_vars

\* A client that hangs up gives back its endpoint or its place, whatever the
\* UDP loop and the other connections do (associate 606-627).
HangUpReleases ==
  \A id \in Ids : (id \in hung_up) ~> (id \notin entries)

\* A shutdown empties the registry for good, though a connection may still
\* register after the sweep (run_async 295-300, associate 614).
ShutdownDrains ==
  (server # "running") ~> [](entries = {} /\ udp = "stopped")

\* The ownership of UDP sources, read off the associations and not off the
\* indexes that the lookups use.
bindingOf ==
  [id \in Ids |->
     IF id \notin entries THEN [state |-> "absent"]
     ELSE IF occupied(id) = None
       THEN [state |-> "waiting", ip |-> normalize(client_ip[id])]
       ELSE [state |-> "bound", endpoint |-> occupied(id)]]

Ownership == INSTANCE UdpOwnership WITH
  Ips     <- {normalize(ip) : ip \in Ips},
  live    <- alive,
  binding <- bindingOf

\* Every step of the registry is a step of UdpOwnership or changes nothing
\* there: no two associations own one source, no datagram of an owned source
\* reaches the association that waits on its IP (find 52-68).
ImplementsOwnership == Ownership!Spec
=============================================================================
