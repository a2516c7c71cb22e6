---------------------- MODULE AssociationRegistryProofs ----------------------
(***************************************************************************)
(* Proofs about AssociationRegistry for any number of connections, hosts,  *)
(* families and ports.                                                     *)
(***************************************************************************)
EXTENDS AssociationRegistry, TLAPS

\* Normalising an address yields an address of the model, and normalising
\* twice changes nothing (normalize, server.rs 136-144).
LEMMA NormalizeLemma ==
  ASSUME NEW ip \in Ips
  PROVE  /\ normalize(ip) \in Ips
         /\ normalize(normalize(ip)) = normalize(ip)
  BY FamiliesAssumption DEF Ips, normalize

\* The key of a source is itself a source with the same port and the
\* normalised address (endpoint_key, server.rs 146-148).
LEMMA EndpointKeyLemma ==
  ASSUME NEW source \in Sources
  PROVE  /\ endpoint_key(source) \in Sources
         /\ endpoint_key(source).ip = normalize(source.ip)
         /\ endpoint_key(source).port = source.port
  BY NormalizeLemma DEF Sources, endpoint_key

\* None is neither an id, an address, an endpoint nor a port.
LEMMA NoneLemma ==
  None \notin Ids /\ None \notin Ips /\ None \notin Sources
  BY IdsAssumption, NoneAssumption DEF Ips, Sources
------------------------------------------------------------------------------
\* Every reachable state has the type of the module, and the registry holds
\* exactly the associations between `insert` and `remove`.
THEOREM TypeCorrect == Spec => []TypeOK
<1>1. Init => TypeOK
  BY DEF Init, TypeOK, Registered
<1>2. TypeOK /\ [Next]_vars => TypeOK'
  <2> SUFFICES ASSUME TypeOK, [Next]_vars PROVE TypeOK'
    OBVIOUS
  <2> USE DEF TypeOK, Registered, registry, association
  <2>1. CASE UNCHANGED vars
    BY <2>1 DEF vars
  <2>2. ASSUME NEW id \in Ids, NEW peer \in Ips, NEW host \in RequestHosts,
               RefuseHost(id, peer, host)
        PROVE  TypeOK'
    BY <2>2 DEF RefuseHost
  <2>3. ASSUME NEW id \in Ids, NEW peer \in Ips, NEW host \in RequestHosts,
               InsertPending(id, peer, host)
        PROVE  TypeOK'
    BY <2>3, NormalizeLemma DEF InsertPending, newAssociation
  <2>4. ASSUME NEW id \in Ids, NEW peer \in Ips, NEW host \in RequestHosts,
               NEW port \in Ports, InsertDeclared(id, peer, host, port)
        PROVE  TypeOK'
    <3>1. [ip |-> normalize(peer), port |-> port] \in Sources
      BY NormalizeLemma DEF Sources
    <3> QED
      BY <2>4, <3>1 DEF InsertDeclared, newAssociation
  <2>5. ASSUME NEW id \in Ids, NEW peer \in Ips, NEW host \in RequestHosts,
               NEW port \in Ports \cup {0}, RejectInsert(id, peer, host, port)
        PROVE  TypeOK'
    BY <2>5 DEF RejectInsert
  <2>6. ASSUME NEW id \in Ids, RequestEnds(id) PROVE TypeOK'
    BY <2>6 DEF RequestEnds
  <2>7. ASSUME NEW id \in Ids, ReplySent(id) PROVE TypeOK'
    BY <2>7 DEF ReplySent
  <2>8. ASSUME NEW id \in Ids, ReplyFailed(id) PROVE TypeOK'
    BY <2>8 DEF ReplyFailed
  <2>9. ASSUME NEW id \in Ids, StopServing(id) PROVE TypeOK'
    BY <2>9 DEF StopServing
  <2>10. ASSUME NEW id \in Ids, Remove(id) PROVE TypeOK'
    BY <2>10 DEF Remove
  <2>11. ASSUME NEW id \in Ids, HangUp(id) PROVE TypeOK'
    BY <2>11 DEF HangUp
  <2>12. ASSUME NEW source \in Sources, FindBound(source) PROVE TypeOK'
    BY <2>12, EndpointKeyLemma DEF FindBound
  <2>13. ASSUME NEW source \in Sources, FindPending(source) PROVE TypeOK'
    <3> DEFINE e  == endpoint_key(source)
               ip == normalize(source.ip)
               id == pending[ip]
    <3>1. e \in Sources /\ ip \in Ips
      BY EndpointKeyLemma, NormalizeLemma DEF Sources
    <3>2. id \in Ids /\ id \in entries
      BY <2>13 DEF FindPending
    <3> HIDE DEF e, ip
    <3>3. /\ endpoint' = [endpoint EXCEPT ![id] = source]
          /\ pending' = [pending EXCEPT ![ip] = None]
          /\ endpoints' = [endpoints EXCEPT ![e] = id]
          /\ handed' = handed \cup {<<id, e>>}
          /\ UNCHANGED <<entries, client_ip, requested_port, alive, pc, hung_up,
                         server, udp>>
      BY <2>13 DEF FindPending, e, ip
    <3> HIDE DEF id
    <3>4. handed' \subseteq Ids \X Sources /\ \A h \in handed' : h[1] \in entries'
      BY <3>1, <3>2, <3>3
    <3> QED
      BY <3>1, <3>2, <3>3, <3>4
  <2>14. CASE Shutdown
    BY <2>14 DEF Shutdown
  <2>15. CASE Sweep
    BY <2>15 DEF Sweep
  <2>16. CASE UdpFails
    BY <2>16 DEF UdpFails
  <2>17. CASE Terminated
    BY <2>17 DEF Terminated, vars
  <2> QED
    BY <2>1, <2>2, <2>3, <2>4, <2>5, <2>6, <2>7, <2>8, <2>9, <2>10, <2>11,
       <2>12, <2>13, <2>14, <2>15, <2>16, <2>17 DEF Next, Task
<1> QED
  BY <1>1, <1>2, PTL DEF Spec
------------------------------------------------------------------------------
\* An entry that occupies no endpoint has asked for no port and has accepted
\* no datagram; an entry that does occupies a source of the model.
LEMMA OccupiedLemma ==
  ASSUME TypeOK, NEW id \in entries
  PROVE  /\ occupied(id) \in Sources \cup {None}
         /\ occupied(id) = None <=> requested_port[id] = 0 /\ endpoint[id] = None
         /\ normalize(client_ip[id]) \in Ips
<1>1. id \in Ids /\ client_ip[id] \in Ips
  BY DEF TypeOK
<1>2. normalize(client_ip[id]) \in Ips
  BY <1>1, NormalizeLemma
<1>3. CASE requested_port[id] # 0
  <2>1. requested_port[id] \in Ports
    BY <1>1, <1>3 DEF TypeOK
  <2>2. occupied(id) \in Sources
    BY <1>2, <1>3, <2>1 DEF occupied, Sources
  <2> QED
    BY <1>2, <1>3, <2>2, NoneLemma
<1>4. CASE requested_port[id] = 0 /\ endpoint[id] = None
  BY <1>2, <1>4 DEF occupied
<1>5. CASE requested_port[id] = 0 /\ endpoint[id] # None
  <2>1. endpoint[id] \in Sources
    BY <1>1, <1>5 DEF TypeOK
  <2>2. occupied(id) \in Sources
    BY <1>5, <2>1, EndpointKeyLemma DEF occupied
  <2> QED
    BY <1>2, <1>5, <2>2, NoneLemma
<1> QED
  BY <1>3, <1>4, <1>5

\* The indexes and the associations agree in every reachable state: nothing
\* is indexed twice, nothing is left behind (insert, find, remove).
THEOREM IndexExactness == Spec => []IndexExact
<1>1. Init => IndexExact
  BY NoneLemma DEF Init, IndexExact
<1>2. TypeOK /\ IndexExact /\ [Next]_vars => IndexExact'
  <2> SUFFICES ASSUME TypeOK, IndexExact, [Next]_vars PROVE IndexExact'
    OBVIOUS
  <2>1. ASSUME UNCHANGED <<registry, client_ip, requested_port, endpoint>>
        PROVE  IndexExact'
    BY <2>1 DEF IndexExact, registry, occupied
  <2>2. ASSUME NEW id \in Ids, NEW peer \in Ips, NEW host \in RequestHosts,
               InsertPending(id, peer, host)
        PROVE  IndexExact'
    <3> DEFINE n == normalize(peer)
    <3>1. id \notin entries /\ entries' = entries \cup {id} /\ n \in Ips
      BY <2>2, NormalizeLemma DEF InsertPending, TypeOK, Registered
    <3>2. /\ endpoints' = endpoints
          /\ pending[n] = None
          /\ pending' = [pending EXCEPT ![n] = id]
      BY <2>2 DEF InsertPending
    <3>3. occupied(id)' = None /\ client_ip'[id] = peer
      BY <2>2 DEF InsertPending, newAssociation, occupied, TypeOK
    <3>4. \A j \in Ids \ {id} : occupied(j)' = occupied(j) /\ client_ip'[j] = client_ip[j]
      BY <2>2 DEF InsertPending, newAssociation, occupied, TypeOK
    <3> HIDE DEF n
    <3>5. ASSUME NEW e \in Sources, NEW j \in Ids
          PROVE  endpoints'[e] = j <=> j \in entries' /\ occupied(j)' = e
      BY <3>1, <3>2, <3>3, <3>4, NoneLemma DEF IndexExact
    <3>6. ASSUME NEW ip \in Ips, NEW j \in Ids
          PROVE  pending'[ip] = j <=> /\ j \in entries'
                                      /\ occupied(j)' = None
                                      /\ normalize(client_ip'[j]) = ip
      <4>1. CASE j = id
        BY <4>1, <3>1, <3>2, <3>3 DEF IndexExact, TypeOK, n
      <4>2. CASE j # id
        BY <4>2, <3>1, <3>2, <3>4, NoneLemma DEF IndexExact, TypeOK
      <4> QED
        BY <4>1, <4>2
    <3> QED
      BY <3>5, <3>6 DEF IndexExact
  <2>3. ASSUME NEW id \in Ids, NEW peer \in Ips, NEW host \in RequestHosts,
               NEW port \in Ports, InsertDeclared(id, peer, host, port)
        PROVE  IndexExact'
    <3> DEFINE key == [ip |-> normalize(peer), port |-> port]
    <3>1. id \notin entries /\ entries' = entries \cup {id} /\ key \in Sources
      BY <2>3, NormalizeLemma DEF InsertDeclared, TypeOK, Registered, Sources
    <3>2. /\ pending' = pending
          /\ endpoints[key] = None
          /\ endpoints' = [endpoints EXCEPT ![key] = id]
      BY <2>3 DEF InsertDeclared
    <3>3. occupied(id)' = key
      <4>1. port # 0
        BY PortsAssumption
      <4>2. client_ip'[id] = peer /\ requested_port'[id] = port
        BY <2>3 DEF InsertDeclared, newAssociation, TypeOK
      <4> QED
        BY <4>1, <4>2 DEF occupied
    <3>4. \A j \in Ids \ {id} : occupied(j)' = occupied(j) /\ client_ip'[j] = client_ip[j]
      BY <2>3 DEF InsertDeclared, newAssociation, occupied, TypeOK
    <3> HIDE DEF key
    <3>5. ASSUME NEW e \in Sources, NEW j \in Ids
          PROVE  endpoints'[e] = j <=> j \in entries' /\ occupied(j)' = e
      <4>1. CASE j = id
        BY <4>1, <3>1, <3>2, <3>3 DEF IndexExact, TypeOK
      <4>2. CASE j # id
        BY <4>2, <3>1, <3>2, <3>4, NoneLemma DEF IndexExact, TypeOK
      <4> QED
        BY <4>1, <4>2
    <3>6. ASSUME NEW ip \in Ips, NEW j \in Ids
          PROVE  pending'[ip] = j <=> /\ j \in entries'
                                      /\ occupied(j)' = None
                                      /\ normalize(client_ip'[j]) = ip
      BY <3>1, <3>2, <3>3, <3>4, NoneLemma DEF IndexExact
    <3> QED
      BY <3>5, <3>6 DEF IndexExact
  <2>4. ASSUME NEW id \in Ids, Remove(id) PROVE IndexExact'
    <3> DEFINE o == occupied(id)
               n == normalize(client_ip[id])
    <3>1. id \in entries /\ entries' = entries \ {id}
      BY <2>4 DEF Remove, TypeOK, Registered
    <3>2. o \in Sources \cup {None} /\ n \in Ips
      BY <3>1, OccupiedLemma
    <3>3. /\ endpoints' = IF o # None /\ endpoints[o] = id
                            THEN [endpoints EXCEPT ![o] = None] ELSE endpoints
          /\ pending' = IF o = None /\ pending[n] = id
                          THEN [pending EXCEPT ![n] = None] ELSE pending
      BY <2>4 DEF Remove
    <3>4. \A j \in Ids \ {id} : occupied(j)' = occupied(j) /\ client_ip'[j] = client_ip[j]
      BY <2>4 DEF Remove, occupied, TypeOK
    <3>5. /\ \A e \in Sources : endpoints[e] = id <=> o = e
          /\ \A ip \in Ips : pending[ip] = id <=> o = None /\ n = ip
      BY <3>1 DEF IndexExact
    <3> HIDE DEF o, n
    <3>6. ASSUME NEW e \in Sources, NEW j \in Ids
          PROVE  endpoints'[e] = j <=> j \in entries' /\ occupied(j)' = e
      <4>1. CASE j = id
        BY <4>1, <3>1, <3>2, <3>3, <3>5, NoneLemma DEF TypeOK
      <4>2. CASE j # id
        <5>1. endpoints'[e] = j <=> endpoints[e] = j
          BY <4>2, <3>2, <3>3, <3>5, NoneLemma DEF TypeOK
        <5> QED
          BY <4>2, <5>1, <3>1, <3>4 DEF IndexExact
      <4> QED
        BY <4>1, <4>2
    <3>7. ASSUME NEW ip \in Ips, NEW j \in Ids
          PROVE  pending'[ip] = j <=> /\ j \in entries'
                                      /\ occupied(j)' = None
                                      /\ normalize(client_ip'[j]) = ip
      <4>1. CASE j = id
        BY <4>1, <3>1, <3>2, <3>3, <3>5, NoneLemma DEF TypeOK
      <4>2. CASE j # id
        <5>1. pending'[ip] = j <=> pending[ip] = j
          BY <4>2, <3>2, <3>3, <3>5, NoneLemma DEF TypeOK
        <5> QED
          BY <4>2, <5>1, <3>1, <3>4 DEF IndexExact
      <4> QED
        BY <4>1, <4>2
    <3> QED
      BY <3>6, <3>7 DEF IndexExact
  <2>5. ASSUME NEW source \in Sources, FindBound(source) PROVE IndexExact'
    <3> DEFINE e == endpoint_key(source)
    <3>0. PICK id \in Ids : id = endpoints[e]
      BY <2>5 DEF FindBound, TypeOK
    <3>1. id \in entries /\ e \in Sources
      BY <2>5, <3>0, EndpointKeyLemma DEF FindBound
    <3>2. occupied(id) = e
      BY <3>0, <3>1 DEF IndexExact
    <3>3. occupied(id)' = e
      <4>1. endpoint'[id] = source /\ source # None
        BY <2>5, <3>0, NoneLemma DEF FindBound, TypeOK
      <4>2. UNCHANGED <<client_ip, requested_port>>
        BY <2>5 DEF FindBound
      <4> QED
        BY <4>1, <4>2, <3>2 DEF occupied
    <3>4. \A j \in Ids \ {id} : occupied(j)' = occupied(j)
      BY <2>5, <3>0 DEF FindBound, occupied, TypeOK
    <3>5. \A j \in Ids : occupied(j)' = occupied(j)
      BY <3>2, <3>3, <3>4
    <3>6. UNCHANGED <<entries, endpoints, pending, client_ip>>
      BY <2>5 DEF FindBound, registry
    <3> QED
      BY <3>5, <3>6 DEF IndexExact
  <2>6. ASSUME NEW source \in Sources, FindPending(source) PROVE IndexExact'
    <3> DEFINE e  == endpoint_key(source)
               n  == normalize(source.ip)
    <3>0. PICK id \in Ids : id = pending[n]
      BY <2>6 DEF FindPending, TypeOK
    <3>1. e \in Sources /\ n \in Ips
      BY EndpointKeyLemma, NormalizeLemma DEF Sources
    <3>2. id \in entries
      BY <2>6, <3>0 DEF FindPending
    <3>3. /\ endpoints[e] = None
          /\ endpoint' = [endpoint EXCEPT ![id] = source]
          /\ pending' = [pending EXCEPT ![n] = None]
          /\ endpoints' = [endpoints EXCEPT ![e] = id]
          /\ UNCHANGED <<entries, client_ip, requested_port>>
      BY <2>6, <3>0 DEF FindPending
    <3>4. occupied(id) = None /\ normalize(client_ip[id]) = n
      BY <3>0, <3>1, <3>2 DEF IndexExact
    <3>5. \A ip \in Ips : pending[ip] = id <=> ip = n
      BY <3>1, <3>2, <3>4 DEF IndexExact
    <3> HIDE DEF n
    <3>6. occupied(id)' = e
      <4>1. requested_port[id] = 0
        BY <3>2, <3>4, OccupiedLemma
      <4>2. endpoint'[id] = source /\ source # None
        BY <3>2, <3>3, NoneLemma DEF TypeOK
      <4> QED
        BY <4>1, <4>2, <3>3 DEF occupied
    <3>7. \A j \in Ids \ {id} : occupied(j)' = occupied(j)
      BY <3>2, <3>3 DEF occupied, TypeOK
    <3> HIDE DEF e
    <3>8. ASSUME NEW f \in Sources, NEW j \in Ids
          PROVE  endpoints'[f] = j <=> j \in entries' /\ occupied(j)' = f
      <4>1. CASE j = id
        BY <4>1, <3>1, <3>2, <3>3, <3>4, <3>6, NoneLemma DEF IndexExact, TypeOK
      <4>2. CASE j # id
        <5>1. endpoints'[f] = j <=> endpoints[f] = j
          BY <4>2, <3>1, <3>3, NoneLemma DEF TypeOK
        <5> QED
          BY <4>2, <5>1, <3>3, <3>7 DEF IndexExact
      <4> QED
        BY <4>1, <4>2
    <3>9. ASSUME NEW ip \in Ips, NEW j \in Ids
          PROVE  pending'[ip] = j <=> /\ j \in entries'
                                      /\ occupied(j)' = None
                                      /\ normalize(client_ip'[j]) = ip
      <4>1. CASE j = id
        BY <4>1, <3>1, <3>2, <3>3, <3>5, <3>6, NoneLemma DEF TypeOK
      <4>2. CASE j # id
        <5>1. pending'[ip] = j <=> pending[ip] = j
          BY <4>2, <3>1, <3>3, <3>5, NoneLemma DEF TypeOK
        <5> QED
          BY <4>2, <5>1, <3>3, <3>7 DEF IndexExact
      <4> QED
        BY <4>1, <4>2
    <3> QED
      BY <3>8, <3>9 DEF IndexExact
  <2> QED
    BY <2>1, <2>2, <2>3, <2>4, <2>5, <2>6
       DEF Next, Task, vars, association, registry, RefuseHost, RejectInsert,
           RequestEnds, ReplySent, ReplyFailed, StopServing, HangUp, Shutdown,
           Sweep, UdpFails, Terminated
<1> QED
  BY <1>1, <1>2, TypeCorrect, PTL DEF Spec
------------------------------------------------------------------------------
\* All that an association is handed comes from the one endpoint it occupies,
\* which is where its replies go (find, accepts).
THEOREM Fidelity == Spec => []SourceFidelity
<1>1. Init => SourceFidelity
  BY DEF Init, SourceFidelity
<1>2. TypeOK /\ IndexExact /\ SourceFidelity /\ [Next]_vars => SourceFidelity'
  <2> SUFFICES ASSUME TypeOK, IndexExact, SourceFidelity, [Next]_vars
               PROVE  SourceFidelity'
    OBVIOUS
  <2>1. ASSUME UNCHANGED <<handed, client_ip, requested_port, endpoint>>
        PROVE  SourceFidelity'
    BY <2>1 DEF SourceFidelity, occupied
  \* What is rewritten belongs to an id that has been handed nothing.
  <2>2. ASSUME NEW id \in Ids, handed' \subseteq {h \in handed : h[1] # id},
               \A j \in Ids \ {id} : /\ client_ip'[j] = client_ip[j]
                                     /\ requested_port'[j] = requested_port[j]
                                     /\ endpoint'[j] = endpoint[j]
        PROVE  SourceFidelity'
    BY <2>2 DEF SourceFidelity, occupied, TypeOK
  <2>3. ASSUME NEW id \in Ids, NEW peer, NEW port, pc[id] = "request",
               newAssociation(id, peer, port), UNCHANGED handed
        PROVE  SourceFidelity'
    <3>1. id \notin entries
      BY <2>3 DEF TypeOK, Registered
    <3>2. handed' \subseteq {h \in handed : h[1] # id}
      BY <2>3, <3>1 DEF TypeOK
    <3> QED
      BY <2>2, <2>3, <3>2 DEF newAssociation, TypeOK
  <2>4. ASSUME NEW id \in Ids, Remove(id) PROVE SourceFidelity'
    BY <2>2, <2>4 DEF Remove, TypeOK
  \* A datagram is handed to id from e, which id occupies after the step.
  <2>5. ASSUME NEW id \in Ids, NEW source \in Sources,
               endpoint' = [endpoint EXCEPT ![id] = source],
               UNCHANGED <<client_ip, requested_port>>,
               handed' = handed \cup {<<id, endpoint_key(source)>>},
               accepts(id, source),
               occupied(id) \in {None, endpoint_key(source)}
        PROVE  SourceFidelity'
    <3> DEFINE e == endpoint_key(source)
    <3>1. endpoint'[id] = source /\ source # None /\ e \in Sources
      BY <2>5, NoneLemma, EndpointKeyLemma DEF TypeOK
    <3>2. normalize(client_ip[id]) = e.ip
      BY <2>5, EndpointKeyLemma DEF accepts
    <3>3. occupied(id)' = e
      <4>1. CASE requested_port[id] = 0
        BY <4>1, <2>5, <3>1 DEF occupied
      <4>2. CASE requested_port[id] # 0
        <5>1. occupied(id)' = occupied(id)
          BY <4>2, <2>5 DEF occupied
        <5>2. occupied(id) = [ip |-> normalize(client_ip[id]), port |-> requested_port[id]]
          BY <4>2 DEF occupied
        <5>3. requested_port[id] = source.port
          BY <4>2, <2>5 DEF accepts
        <5> QED
          BY <5>1, <5>2, <5>3, <3>2, EndpointKeyLemma DEF endpoint_key
      <4> QED
        BY <4>1, <4>2
    <3>4. \A h \in handed : h[1] = id => h[2] = e
      BY <2>5, <3>1, NoneLemma DEF SourceFidelity, TypeOK
    <3>5. \A j \in Ids \ {id} : occupied(j)' = occupied(j) /\ endpoint'[j] = endpoint[j]
      BY <2>5 DEF occupied, TypeOK
    <3> HIDE DEF e
    <3>6. ASSUME NEW h \in handed'
          PROVE  /\ occupied(h[1])' = h[2]
                 /\ endpoint'[h[1]] # None
                 /\ endpoint_key(endpoint'[h[1]]) = h[2]
                 /\ normalize(client_ip'[h[1]]) = h[2].ip
      <4>1. CASE h[1] = id
        <5>1. h[2] = e
          BY <4>1, <2>5, <3>4 DEF e
        <5> QED
          BY <4>1, <5>1, <2>5, <3>1, <3>2, <3>3 DEF e
      <4>2. CASE h[1] # id
        <5>1. h \in handed /\ h[1] \in Ids
          BY <4>2, <2>5 DEF TypeOK
        <5> QED
          BY <4>2, <5>1, <2>5, <3>5 DEF SourceFidelity
      <4> QED
        BY <4>1, <4>2
    <3> QED
      BY <3>6 DEF SourceFidelity
  <2>6. ASSUME NEW source \in Sources, FindBound(source) PROVE SourceFidelity'
    <3> DEFINE e == endpoint_key(source)
    <3>1. PICK id \in Ids : id = endpoints[e]
      BY <2>6 DEF FindBound, TypeOK
    <3>2. occupied(id) = e
      BY <3>1, EndpointKeyLemma DEF IndexExact
    <3> QED
      BY <2>5, <2>6, <3>1, <3>2 DEF FindBound
  <2>7. ASSUME NEW source \in Sources, FindPending(source) PROVE SourceFidelity'
    <3> DEFINE n == normalize(source.ip)
    <3>1. PICK id \in Ids : id = pending[n]
      BY <2>7 DEF FindPending, TypeOK
    <3>2. occupied(id) = None
      BY <3>1, NormalizeLemma DEF IndexExact, Sources
    <3> QED
      BY <2>5, <2>7, <3>1, <3>2 DEF FindPending
  <2> QED
    BY <2>1, <2>3, <2>4, <2>6, <2>7, ZenonT(40)
       DEF Next, Task, vars, association, registry, InsertPending,
           InsertDeclared, RefuseHost, RejectInsert, RequestEnds, ReplySent,
           ReplyFailed, StopServing, HangUp, Shutdown, Sweep, UdpFails, Terminated
<1> QED
  BY <1>1, <1>2, TypeCorrect, IndexExactness, PTL DEF Spec

\* An endpoint never passes from one owner to another in one step, and is
\* given up only when its owner's flag is down (insert, find, remove).
THEOREM Takeover == Spec => NoTakeover
<1> DEFINE Step ==
      \A e \in Sources :
        endpoints[e] # None /\ endpoints'[e] # endpoints[e] =>
          endpoints'[e] = None /\ endpoints[e] \notin alive
<1>1. TypeOK /\ [Next]_vars => [Step]_vars
  <2> SUFFICES ASSUME TypeOK, Next PROVE Step
    OBVIOUS
  <2>1. CASE UNCHANGED endpoints
    BY <2>1
  <2>2. ASSUME NEW id \in Ids, NEW peer \in Ips, NEW host \in RequestHosts,
               NEW port \in Ports, InsertDeclared(id, peer, host, port)
        PROVE  Step
    BY <2>2 DEF InsertDeclared, TypeOK
  <2>3. ASSUME NEW id \in Ids, Remove(id) PROVE Step
    BY <2>3 DEF Remove, TypeOK
  <2>4. ASSUME NEW source \in Sources, FindPending(source) PROVE Step
    BY <2>4 DEF FindPending, TypeOK
  <2> QED
    BY <2>1, <2>2, <2>3, <2>4, ZenonT(40)
       DEF Next, Task, vars, association, registry, InsertPending, RefuseHost,
           RejectInsert, RequestEnds, ReplySent, ReplyFailed, StopServing,
           HangUp, FindBound, Shutdown, Sweep, UdpFails, Terminated
<1> QED
  BY <1>1, TypeCorrect, PTL DEF Spec, NoTakeover
------------------------------------------------------------------------------
\* What bindingOf says of an id, by the state of its association.
LEMMA BindingLemma ==
  ASSUME NEW id \in Ids
  PROVE  /\ id \notin entries => bindingOf[id] = Ownership!Absent
         /\ id \in entries /\ occupied(id) = None
              => bindingOf[id] = Ownership!Waiting(normalize(client_ip[id]))
         /\ id \in entries /\ occupied(id) # None
              => bindingOf[id] = Ownership!Bound(occupied(id))
  BY DEF bindingOf, Ownership!Absent, Ownership!Waiting, Ownership!Bound

\* The three kinds of binding differ, and name their IP or endpoint.
LEMMA KindsLemma ==
  /\ \A e, f : Ownership!Bound(e) = Ownership!Bound(f) <=> e = f
  /\ \A i, j : Ownership!Waiting(i) = Ownership!Waiting(j) <=> i = j
  /\ \A e, i : /\ Ownership!Bound(e) # Ownership!Waiting(i)
               /\ Ownership!Bound(e) # Ownership!Absent
               /\ Ownership!Waiting(i) # Ownership!Absent
  BY DEF Ownership!Absent, Ownership!Waiting, Ownership!Bound

\* An endpoint without an index entry has no owner, an IP without one no
\* waiting association: the guards of `insert` and `find` say what they mean.
LEMMA FreeLemma ==
  ASSUME TypeOK, IndexExact
  PROVE  /\ \A e \in Sources : endpoints[e] = None => Ownership!Unowned(e)
         /\ \A ip \in Ips : pending[ip] = None => Ownership!Unawaited(ip)
<1>1. ASSUME NEW e \in Sources, endpoints[e] = None, NEW id \in Ids
      PROVE  bindingOf[id] # Ownership!Bound(e)
  BY <1>1, BindingLemma, KindsLemma, NoneLemma DEF IndexExact
<1>2. ASSUME NEW ip \in Ips, pending[ip] = None, NEW id \in Ids
      PROVE  bindingOf[id] # Ownership!Waiting(ip)
  BY <1>2, BindingLemma, KindsLemma, NoneLemma DEF IndexExact
<1> QED
  BY <1>1, <1>2 DEF Ownership!Unowned, Ownership!Unawaited

\* When one entry changes, the binding changes at that id only.
LEMMA OneBindingLemma ==
  ASSUME NEW id \in Ids,
         \A j \in Ids \ {id} : /\ j \in entries' <=> j \in entries
                               /\ occupied(j)' = occupied(j)
                               /\ client_ip'[j] = client_ip[j]
  PROVE  \A b : bindingOf'[id] = b => bindingOf' = [bindingOf EXCEPT ![id] = b]
<1>1. bindingOf \in [Ids -> {bindingOf[j] : j \in Ids}] /\ bindingOf' \in [Ids -> {bindingOf'[j] : j \in Ids}]
  BY DEF bindingOf
<1>2. \A j \in Ids \ {id} : bindingOf'[j] = bindingOf[j]
  BY DEF bindingOf
<1> QED
  BY <1>1, <1>2

\* The registry implements the ownership of UDP sources.
THEOREM Refinement == Spec => ImplementsOwnership
<1>1. Init => Ownership!Init
  BY DEF Init, Ownership!Init, bindingOf, Ownership!Absent
<1>2. TypeOK /\ IndexExact /\ [Next]_vars => [Ownership!Next]_(Ownership!vars)
  <2> SUFFICES ASSUME TypeOK, IndexExact, [Next]_vars
               PROVE  [Ownership!Next]_(Ownership!vars)
    OBVIOUS
  <2> DEFINE NormIps == {normalize(ip) : ip \in Ips}
             Known   == [ip : NormIps, port : Ports]
  <2>1. ASSUME UNCHANGED <<entries, client_ip, requested_port, endpoint, alive, handed>>
        PROVE  UNCHANGED Ownership!vars
    BY <2>1 DEF Ownership!vars, bindingOf, occupied
  \* Steps that only lower flags close the control connections.
  <2>2. ASSUME UNCHANGED <<entries, client_ip, requested_port, endpoint, handed>>,
               NEW S \in SUBSET Ids, S \subseteq alive, alive' = alive \ S
        PROVE  Ownership!Next
    <3>1. UNCHANGED bindingOf
      BY <2>2 DEF bindingOf, occupied
    <3> QED
      BY <2>2, <3>1 DEF Ownership!Next, Ownership!Close
  <2>3. ASSUME NEW id \in Ids, NEW peer \in Ips, NEW host \in RequestHosts,
               InsertPending(id, peer, host)
        PROVE  Ownership!Next
    <3> DEFINE n == normalize(peer)
    <3>1. id \notin entries /\ n \in NormIps /\ n \in Ips
      BY <2>3, NormalizeLemma DEF InsertPending, TypeOK, Registered
    <3>2. bindingOf[id] = Ownership!Absent /\ Ownership!Unawaited(n)
      BY <2>3, <3>1, BindingLemma, FreeLemma DEF InsertPending
    <3>3. bindingOf'[id] = Ownership!Waiting(n)
      <4>1. id \in entries' /\ occupied(id)' = None /\ client_ip'[id] = peer
        BY <2>3 DEF InsertPending, newAssociation, occupied, TypeOK
      <4> QED
        BY <4>1 DEF bindingOf, Ownership!Waiting
    <3>4. \A j \in Ids \ {id} : /\ j \in entries' <=> j \in entries
                                /\ occupied(j)' = occupied(j)
                                /\ client_ip'[j] = client_ip[j]
      BY <2>3 DEF InsertPending, newAssociation, occupied, TypeOK
    <3>5. bindingOf' = [bindingOf EXCEPT ![id] = Ownership!Waiting(n)]
      BY <3>3, <3>4, OneBindingLemma
    <3>6. Ownership!Await(id, n)
      BY <2>3, <3>2, <3>5 DEF Ownership!Await, InsertPending
    <3> QED
      BY <3>1, <3>6 DEF Ownership!Next
  <2>4. ASSUME NEW id \in Ids, NEW peer \in Ips, NEW host \in RequestHosts,
               NEW port \in Ports, InsertDeclared(id, peer, host, port)
        PROVE  Ownership!Next
    <3> DEFINE key == [ip |-> normalize(peer), port |-> port]
    <3>1. id \notin entries /\ key \in Sources /\ key \in Known
      BY <2>4, NormalizeLemma DEF InsertDeclared, TypeOK, Registered, Sources
    <3>2. bindingOf[id] = Ownership!Absent /\ Ownership!Unowned(key)
      BY <2>4, <3>1, BindingLemma, FreeLemma DEF InsertDeclared
    <3>3. bindingOf'[id] = Ownership!Bound(key)
      <4>1. id \in entries' /\ client_ip'[id] = peer /\ requested_port'[id] = port
        BY <2>4 DEF InsertDeclared, newAssociation, TypeOK
      <4>2. occupied(id)' = key /\ key # None
        BY <4>1, <3>1, PortsAssumption, NoneLemma DEF occupied
      <4> HIDE DEF key
      <4> QED
        BY <4>1, <4>2 DEF bindingOf, Ownership!Bound
    <3>4. \A j \in Ids \ {id} : /\ j \in entries' <=> j \in entries
                                /\ occupied(j)' = occupied(j)
                                /\ client_ip'[j] = client_ip[j]
      BY <2>4 DEF InsertDeclared, newAssociation, occupied, TypeOK
    <3>5. bindingOf' = [bindingOf EXCEPT ![id] = Ownership!Bound(key)]
      BY <3>3, <3>4, OneBindingLemma
    <3>6. Ownership!Declare(id, key)
      BY <2>4, <3>2, <3>5 DEF Ownership!Declare, InsertDeclared
    <3> QED
      BY <3>1, <3>6 DEF Ownership!Next, Ownership!Endpoints
  <2>5. ASSUME NEW id \in Ids, Remove(id) PROVE Ownership!Next
    <3>1. id \notin alive /\ id \notin entries'
      BY <2>5 DEF Remove, TypeOK
    <3>2. \A j \in Ids \ {id} : /\ j \in entries' <=> j \in entries
                                /\ occupied(j)' = occupied(j)
                                /\ client_ip'[j] = client_ip[j]
      BY <2>5 DEF Remove, occupied, TypeOK
    <3>3. bindingOf' = [bindingOf EXCEPT ![id] = Ownership!Absent]
      <4>1. bindingOf'[id] = Ownership!Absent
        BY <3>1 DEF bindingOf, Ownership!Absent
      <4> QED
        BY <4>1, <3>2, OneBindingLemma
    <3> QED
      BY <2>5, <3>1, <3>3 DEF Ownership!Next, Ownership!Release, Remove
  \* A datagram reaches id from e, which id owned, or waited for.
  <2>6. ASSUME NEW id \in Ids, NEW source \in Sources, id \in entries, id \in alive,
               \/ occupied(id) = endpoint_key(source)
               \/ /\ occupied(id) = None
                  /\ normalize(client_ip[id]) = normalize(source.ip)
                  /\ endpoints[endpoint_key(source)] = None,
               endpoint' = [endpoint EXCEPT ![id] = source],
               UNCHANGED <<entries, client_ip, requested_port, alive>>,
               handed' = handed \cup {<<id, endpoint_key(source)>>}
        PROVE  Ownership!Next
    <3> DEFINE e == endpoint_key(source)
    <3>1. e \in Known /\ e \in Sources /\ e.ip = normalize(source.ip) /\ e # None
      BY EndpointKeyLemma, NoneLemma DEF endpoint_key, Sources
    <3>2. \/ bindingOf[id] = Ownership!Bound(e)
          \/ bindingOf[id] = Ownership!Waiting(e.ip) /\ Ownership!Unowned(e)
      BY <2>6, <3>1, BindingLemma, FreeLemma
    <3>3. occupied(id)' = e
      <4>1. endpoint'[id] = source /\ source # None
        BY <2>6, NoneLemma DEF TypeOK
      <4>2. CASE requested_port[id] = 0
        BY <4>1, <4>2, <2>6 DEF occupied
      <4>3. CASE requested_port[id] # 0
        BY <4>3, <2>6, OccupiedLemma DEF occupied
      <4> QED
        BY <4>2, <4>3
    <3>4. \A j \in Ids \ {id} : /\ j \in entries' <=> j \in entries
                                /\ occupied(j)' = occupied(j)
                                /\ client_ip'[j] = client_ip[j]
      BY <2>6 DEF occupied, TypeOK
    <3> HIDE DEF e
    <3>5. bindingOf' = [bindingOf EXCEPT ![id] = Ownership!Bound(e)]
      <4>1. bindingOf'[id] = Ownership!Bound(e)
        BY <2>6, <3>1, <3>3 DEF bindingOf, Ownership!Bound
      <4> QED
        BY <4>1, <3>4, OneBindingLemma
    <3>6. Ownership!HandOver(id, e)
      BY <2>6, <3>2, <3>5 DEF Ownership!HandOver, e
    <3> QED
      BY <3>1, <3>6 DEF Ownership!Next, Ownership!Endpoints
  <2>7. ASSUME NEW source \in Sources, FindBound(source) PROVE Ownership!Next
    <3> DEFINE e == endpoint_key(source)
    <3>1. PICK id \in Ids : id = endpoints[e]
      BY <2>7 DEF FindBound, TypeOK
    <3>2. occupied(id) = e
      BY <3>1, EndpointKeyLemma DEF IndexExact
    <3> QED
      BY <2>6, <2>7, <3>1, <3>2 DEF FindBound, registry
  <2>8. ASSUME NEW source \in Sources, FindPending(source) PROVE Ownership!Next
    <3> DEFINE n == normalize(source.ip)
    <3>1. PICK id \in Ids : id = pending[n]
      BY <2>8 DEF FindPending, TypeOK
    <3>2. occupied(id) = None /\ normalize(client_ip[id]) = n
      BY <3>1, NormalizeLemma DEF IndexExact, Sources
    <3> QED
      BY <2>6, <2>8, <3>1, <3>2 DEF FindPending
  <2>9. ASSUME NEW id \in Ids, ReplyFailed(id) \/ StopServing(id)
        PROVE  [Ownership!Next]_(Ownership!vars)
    <3>1. CASE id \in alive
      BY <2>2, <2>9, <3>1 DEF ReplyFailed, StopServing, registry
    <3>2. CASE id \notin alive
      BY <2>1, <2>9, <3>2 DEF ReplyFailed, StopServing, registry
    <3> QED
      BY <3>1, <3>2
  <2>10. CASE Sweep
    <3>1. alive' = alive \ (alive \cap entries)
      BY <2>10 DEF Sweep
    <3> QED
      BY <2>2, <2>10, <3>1 DEF Sweep, registry, TypeOK
  <2>11. ASSUME NEW id \in Ids, NEW peer \in Ips, NEW host \in RequestHosts,
                NEW port \in Ports \cup {0},
                \/ RefuseHost(id, peer, host)
                \/ RejectInsert(id, peer, host, port)
         PROVE  [Ownership!Next]_(Ownership!vars)
    BY <2>1, <2>11 DEF RefuseHost, RejectInsert, association, registry
  <2>12. ASSUME NEW id \in Ids, RequestEnds(id) \/ ReplySent(id) \/ HangUp(id)
         PROVE  [Ownership!Next]_(Ownership!vars)
    BY <2>1, <2>12 DEF RequestEnds, ReplySent, HangUp, association, registry
  <2>13. CASE Shutdown \/ UdpFails \/ Terminated \/ UNCHANGED vars
    BY <2>1, <2>13 DEF Shutdown, UdpFails, Terminated, vars, association, registry
  <2> QED
    BY <2>3, <2>4, <2>5, <2>7, <2>8, <2>9, <2>10, <2>11, <2>12, <2>13
       DEF Next, Task
<1> QED
  BY <1>1, <1>2, TypeCorrect, IndexExactness, PTL
     DEF Spec, ImplementsOwnership, Ownership!Spec
=============================================================================
