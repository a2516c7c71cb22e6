---------------------------- MODULE UdpOwnership ----------------------------
(***************************************************************************)
(* What the relay promises about UDP sources, with no index and no lookup: *)
(* every association is absent, waiting for the first datagram of an IP,   *)
(* or bound to one client endpoint.  An endpoint has at most one owner, an *)
(* IP at most one waiting association, and a datagram is handed to the     *)
(* owner of its source, or, when it has none, to the association waiting   *)
(* on its IP, which owns that source from then on.                         *)
(***************************************************************************)
CONSTANTS Ids,        \* TCP connections that may ask for an association
          Ips,        \* client IPs, one per host
          Ports       \* client UDP ports

VARIABLES binding,    \* [Ids -> Binding]
          live,       \* associations whose control connection is open
          handed      \* <<id, endpoint>>: what each association was handed

vars == <<binding, live, handed>>

Endpoints == [ip : Ips, port : Ports]

Absent       == [state |-> "absent"]
Waiting(ip)  == [state |-> "waiting", ip |-> ip]
Bound(e)     == [state |-> "bound", endpoint |-> e]

Unowned(e)    == \A id \in Ids : binding[id] # Bound(e)
Unawaited(ip) == \A id \in Ids : binding[id] # Waiting(ip)

Init ==
  /\ binding = [id \in Ids |-> Absent]
  /\ live = {}
  /\ handed = {}

\* A connection registers the endpoint it declared.
Declare(id, e) ==
  /\ binding[id] = Absent
  /\ Unowned(e)
  /\ binding' = [binding EXCEPT ![id] = Bound(e)]
  /\ live' = live \cup {id}
  /\ UNCHANGED handed

\* A connection that declared no port waits for the first datagram.
Await(id, ip) ==
  /\ binding[id] = Absent
  /\ Unawaited(ip)
  /\ binding' = [binding EXCEPT ![id] = Waiting(ip)]
  /\ live' = live \cup {id}
  /\ UNCHANGED handed

\* A datagram from e is handed to its owner, or to the association waiting
\* on its IP.
HandOver(id, e) ==
  /\ id \in live
  /\ \/ binding[id] = Bound(e)
     \/ binding[id] = Waiting(e.ip) /\ Unowned(e)
  /\ binding' = [binding EXCEPT ![id] = Bound(e)]
  /\ handed' = handed \cup {<<id, e>>}
  /\ UNCHANGED live

\* Control connections close, one at a time or all at once.
Close(S) ==
  /\ S \subseteq live
  /\ live' = live \ S
  /\ UNCHANGED <<binding, handed>>

\* A closed association gives up its endpoint or its place in the queue.
Release(id) ==
  /\ id \notin live
  /\ binding' = [binding EXCEPT ![id] = Absent]
  /\ handed' = {h \in handed : h[1] # id}
  /\ UNCHANGED live

Next ==
  \/ \E id \in Ids, e \in Endpoints : Declare(id, e) \/ HandOver(id, e)
  \/ \E id \in Ids, ip \in Ips : Await(id, ip)
  \/ \E S \in SUBSET Ids : Close(S)
  \/ \E id \in Ids : Release(id)

Spec == Init /\ [][Next]_vars
=============================================================================
