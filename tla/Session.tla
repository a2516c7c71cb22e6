------------------------------ MODULE Session ------------------------------
(***************************************************************************)
(* The life of the server and of its control connections up to the relay:  *)
(* the accept loop with its whitelist, permits and shutdown (run_async),   *)
(* the handshake of a connection (negotiate, handle_client), and at the    *)
(* other end either the client library (client.rs) or a stranger that      *)
(* sends whatever it likes.                                                *)
(*                                                                         *)
(* A message is what the reader makes of the bytes; it is read and         *)
(* answered in one step, since the answers are a few bytes on a fresh      *)
(* connection.  Time limits may strike whenever their side waits.          *)
(***************************************************************************)
EXTENDS Naturals, Sequences, FiniteSets

CONSTANTS Conns,       \* connections that clients may open
          MaxClients,  \* MAX_TCP_CLIENTS, the permits of client_slots
          MaxAhead     \* bound on what a stranger sends ahead

ASSUME SessionAssumption ==
  MaxClients \in Nat \ {0} /\ MaxAhead \in Nat \ {0}

VARIABLES required,    \* the configuration has a username and password
          loop,        \* "accepting", "stopping" or "returned"
          shutdown,    \* the shutdown token
          udp,         \* "running", "ok" or "error": the UDP task
          result,      \* "none", "ok" or "error": what run_async returned
          requested,   \* history: somebody asked for the shutdown
          client,      \* [Conns -> where the client is]
          account,     \* [Conns -> its credentials]
          serve,       \* [Conns -> where the connection's task is]
          up, down,    \* [Conns -> messages on their way]
          shown,       \* history: tasks that were sent the right credentials
          granted      \* history: clients that were answered with success

lifecycle == <<loop, shutdown, udp, result, requested>>
peers     == <<client, account>>
wire      == <<up, down>>
vars == <<required, loop, shutdown, udp, result, requested, client, account,
          serve, up, down, shown, granted>>

------------------------------------------------------------------------------
Accounts == {"none", "right", "wrong"}
Commands == {"connect", "associate", "other"}

Greeting(methods) == [kind |-> "greeting", methods |-> methods]
Auth(a)           == [kind |-> "auth", account |-> a]
Request(command)  == [kind |-> "request", command |-> command]

\* What a stranger's bytes may amount to: methods other than 0 and 2 do not
\* matter, an empty password is as wrong as any other, and what does not parse
\* as what is being read is a message of another kind.
Messages == {Greeting(m) : m \in SUBSET {0, 2}}
              \cup {Auth(a) : a \in {"right", "wrong"}}
              \cup {Request(c) : c \in Commands}

Method(m)     == [kind |-> "method", method |-> m]
AuthStatus(b) == [kind |-> "status", status |-> b]
Reply(s)      == [kind |-> "reply", status |-> s]
Data          == [kind |-> "data"]

Handshake == {"greeting", "auth", "request"}
\* Tasks hold a permit from their acceptance to their end.
Running   == Handshake \cup {"connect", "associate", "relay", "associated"}
InUse     == {c \in Conns : serve[c] \in Running}

Init ==
  /\ required \in BOOLEAN
  /\ loop = "accepting" /\ shutdown = FALSE /\ udp = "running"
  /\ result = "none" /\ requested = FALSE
  /\ client = [c \in Conns |-> "absent"]
  /\ account = [c \in Conns |-> "none"]
  /\ serve = [c \in Conns |-> "none"]
  /\ up = [c \in Conns |-> <<>>] /\ down = [c \in Conns |-> <<>>]
  /\ shown = {} /\ granted = {}

------------------------------------------------------------------------------
(* The client library.                                                     *)
\* connect_proxy: the connection is established by the listen backlog.
Dial(c, a) ==
  /\ client[c] = "absent" /\ loop # "returned"
  /\ client' = [client EXCEPT ![c] = "greet"]
  /\ account' = [account EXCEPT ![c] = a]
  /\ serve' = [serve EXCEPT ![c] = "backlog"]
  /\ UNCHANGED <<required, lifecycle, wire, shown, granted>>

\* The method follows from the client's own credentials.
method(c) == IF account[c] = "none" THEN 0 ELSE 2

\* What is written after the server has closed is lost.
Write(c, m) ==
  up' = IF serve[c] = "ended" THEN up ELSE [up EXCEPT ![c] = Append(@, m)]

Show(c, m) ==
  shown' = IF m = Auth("right") /\ serve[c] # "ended" THEN shown \cup {c} ELSE shown

Greet(c) ==
  /\ client[c] = "greet"
  /\ client' = [client EXCEPT ![c] = "method"]
  /\ Write(c, Greeting({method(c)}))
  /\ UNCHANGED <<required, lifecycle, account, serve, down, shown, granted>>

\* A read of the next message, and what the client does about it: the stream
\* is dropped when the message is not the one it wants.
Take(c, at) == client[c] = at /\ down[c] # <<>>

Become(c, to) ==
  /\ client' = [client EXCEPT ![c] = to]
  /\ UNCHANGED <<account, granted>>
  /\ down' = [down EXCEPT ![c] = Tail(@)]

Leave(c) ==
  /\ client' = [client EXCEPT ![c] = "closed"]
  /\ account' = [account EXCEPT ![c] = "none"]
  /\ granted' = granted \ {c}
  /\ down' = [down EXCEPT ![c] = <<>>]

TakeMethod(c, command) ==
  /\ Take(c, "method")
  /\ \/ /\ Head(down[c]) # Method(method(c))
        /\ Leave(c)
        /\ UNCHANGED <<up, shown>>
     \/ /\ Head(down[c]) = Method(0) /\ method(c) = 0
        /\ Become(c, "reply")
        /\ Write(c, Request(command))
        /\ UNCHANGED shown
     \/ /\ Head(down[c]) = Method(2) /\ method(c) = 2
        /\ Become(c, "status")
        /\ Write(c, Auth(account[c]))
        /\ Show(c, Auth(account[c]))
  /\ UNCHANGED <<required, lifecycle, serve>>

TakeStatus(c, command) ==
  /\ Take(c, "status")
  /\ IF Head(down[c]) = AuthStatus(0)
       THEN Become(c, "reply") /\ Write(c, Request(command))
       ELSE Leave(c) /\ UNCHANGED up
  /\ UNCHANGED <<required, lifecycle, serve, shown>>

\* Mutant: the status of the reply is not looked at.
TakeReplyUnchecked(c) ==
  /\ Take(c, "reply")
  /\ Become(c, "ok")
  /\ UNCHANGED <<required, lifecycle, serve, up, shown>>

\* The call returns a stream or an association, or an error.
TakeReply(c) ==
  /\ Take(c, "reply")
  /\ IF Head(down[c]) = Reply("success") THEN Become(c, "ok") ELSE Leave(c)
  /\ UNCHANGED <<required, lifecycle, serve, up, shown>>

\* The call returns an error: CONNECT_TIMEOUT has passed, the server has closed,
\* or a socket call of the client has failed.
CallFails(c) ==
  /\ client[c] \in {"greet", "method", "status", "reply"}
  /\ Leave(c)
  /\ UNCHANGED <<required, lifecycle, serve, up, shown>>

(* A stranger connects and sends messages in any order; what it reads is   *)
(* its own affair.                                                         *)
Stranger(c) ==
  /\ client[c] = "absent" /\ loop # "returned"
  /\ client' = [client EXCEPT ![c] = "stranger"]
  /\ serve' = [serve EXCEPT ![c] = "backlog"]
  /\ UNCHANGED <<required, lifecycle, account, wire, shown, granted>>

\* What it sends before it is accepted might as well be sent just after.
StrangerSends(c, m) ==
  /\ client[c] = "stranger" /\ serve[c] \in Handshake
  /\ Len(up[c]) < MaxAhead
  /\ Write(c, m)
  /\ Show(c, m)
  /\ UNCHANGED <<required, lifecycle, client, account, serve, down, granted>>

\* A stranger leaves, or the application drops what the call returned.
HangUp(c) ==
  /\ client[c] \in {"stranger", "ok"}
  /\ Leave(c)
  /\ UNCHANGED <<required, lifecycle, serve, up, shown>>

------------------------------------------------------------------------------
(* The task of a connection.                                               *)
Answer(c, m) ==
  down' = IF client[c] \in {"stranger", "closed"} THEN down
            ELSE [down EXCEPT ![c] = Append(@, m)]

\* The task returns: the stream is dropped and the permit given back.
End(c) ==
  /\ serve' = [serve EXCEPT ![c] = "ended"]
  /\ shown' = shown \ {c}
  /\ up' = [up EXCEPT ![c] = <<>>]

Go(c, to) ==
  /\ serve' = [serve EXCEPT ![c] = to]
  /\ UNCHANGED shown
  /\ up' = [up EXCEPT ![c] = Tail(@)]

Receive(c, at) ==
  /\ serve[c] = at
  /\ up[c] # <<>>
  /\ UNCHANGED <<required, lifecycle, peers, granted>>

selected == IF required THEN 2 ELSE 0

\* Mutants: any method that both sides know will do; or without a password
\* there is nothing to answer.
ReadGreetingAnyMethod(c) ==
  LET m == Head(up[c]) IN
  /\ Receive(c, "greeting")
  /\ \/ m.kind # "greeting" /\ End(c) /\ UNCHANGED down
     \/ m = Greeting({}) /\ End(c) /\ Answer(c, Method(255))
     \/ /\ m.kind = "greeting" /\ m # Greeting({})
        /\ IF 0 \in m.methods THEN Answer(c, Method(0)) /\ Go(c, "request")
                              ELSE Answer(c, Method(2)) /\ Go(c, "auth")
ReadGreetingSilent(c) ==
  LET m == Head(up[c]) IN
  /\ Receive(c, "greeting")
  /\ IF m.kind # "greeting" \/ selected = 2
       THEN End(c) /\ UNCHANGED down
       ELSE Go(c, "request") /\ UNCHANGED down

\* negotiate: the method follows from the configuration alone.
ReadGreeting(c) ==
  LET m == Head(up[c]) IN
  /\ Receive(c, "greeting")
  /\ \/ m.kind # "greeting" /\ End(c) /\ UNCHANGED down
     \/ /\ m.kind = "greeting" /\ selected \notin m.methods
        /\ End(c) /\ Answer(c, Method(255))
     \/ /\ m.kind = "greeting" /\ selected \in m.methods
        /\ Answer(c, Method(selected))
        /\ Go(c, IF selected = 2 THEN "auth" ELSE "request")

\* The credentials, when the configuration asks for them.
ReadAuth(c) ==
  LET m == Head(up[c]) IN
  /\ Receive(c, "auth")
  /\ \/ m.kind # "auth" /\ End(c) /\ UNCHANGED down
     \/ m = Auth("right") /\ Go(c, "request") /\ Answer(c, AuthStatus(0))
     \/ m = Auth("wrong") /\ End(c) /\ Answer(c, AuthStatus(1))

\* handle_client: the request, and the two commands there are.
ReadRequest(c) ==
  LET m == Head(up[c]) IN
  /\ Receive(c, "request")
  /\ \/ m.kind # "request" /\ End(c) /\ Answer(c, Reply("address"))
     \/ m = Request("other") /\ End(c) /\ Answer(c, Reply("command"))
     \/ /\ m \in {Request("connect"), Request("associate")}
        /\ Go(c, m.command) /\ UNCHANGED down

\* Mutant: the time limit covers the negotiation only.
HandshakeEndsEarly(c) ==
  /\ serve[c] \in {"greeting", "auth"}
  /\ up[c] = <<>>
  /\ End(c)
  /\ UNCHANGED <<required, lifecycle, peers, down, granted>>

\* The client has left, or HANDSHAKE_TIMEOUT of this half has passed.
HandshakeEnds(c) ==
  /\ serve[c] \in Handshake
  /\ up[c] = <<>>
  /\ End(c)
  /\ UNCHANGED <<required, lifecycle, peers, down, granted>>

\* connect or associate answers: see Connect and AssociationRegistry.
Serve(c) ==
  /\ serve[c] \in {"connect", "associate"}
  /\ Answer(c, Reply("success"))
  /\ serve' = [serve EXCEPT ![c] = IF @ = "connect" THEN "relay" ELSE "associated"]
  /\ granted' = IF client[c] = "closed" THEN granted ELSE granted \cup {c}
  /\ UNCHANGED <<required, lifecycle, peers, up, shown>>

Refuse(c) ==
  /\ serve[c] \in {"connect", "associate"}
  /\ Answer(c, Reply("failure"))
  /\ End(c)
  /\ UNCHANGED <<required, lifecycle, peers, granted>>

\* The relay passes data of the target on, one message of it in the model.
RelayData(c) ==
  /\ serve[c] = "relay"
  /\ client[c] \in {"reply", "ok"}
  /\ \A i \in 1 .. Len(down[c]) : down[c][i] # Data
  /\ Answer(c, Data)
  /\ UNCHANGED <<required, lifecycle, peers, serve, up, shown, granted>>

\* The relay ends for reasons of its own (TcpRelay), the association when its
\* client has left.
SessionEnds(c) ==
  /\ \/ serve[c] = "relay"
     \/ serve[c] = "associated" /\ client[c] = "closed"
  /\ End(c)
  /\ UNCHANGED <<required, lifecycle, peers, down, granted>>

\* Mutant: a relay that is established is not stopped.
StopBeforeRelay(c) ==
  /\ serve[c] \in {"connect", "associated"} /\ shutdown
  /\ End(c)
  /\ UNCHANGED <<required, lifecycle, peers, down, granted>>

\* connect and associate watch the token; the handshake does not.
StopOnShutdown(c) ==
  /\ serve[c] \in {"connect", "relay", "associated"} /\ shutdown
  /\ End(c)
  /\ UNCHANGED <<required, lifecycle, peers, down, granted>>

------------------------------------------------------------------------------
(* run_async.                                                              *)
\* Mutant: the permits are not looked at.
AcceptBeyond(c) ==
  /\ loop = "accepting" /\ serve[c] = "backlog"
  /\ serve' = [serve EXCEPT ![c] = "greeting"]
  /\ UNCHANGED <<required, lifecycle, peers, wire, shown, granted>>

Accept(c) ==
  /\ loop = "accepting" /\ serve[c] = "backlog"
  /\ Cardinality(InUse) < MaxClients
  /\ serve' = [serve EXCEPT ![c] = "greeting"]
  /\ UNCHANGED <<required, lifecycle, peers, wire, shown, granted>>

\* A connection outside the whitelist, or beyond the permits, is dropped.
DropAccepted(c, allowed) ==
  /\ loop = "accepting" /\ serve[c] = "backlog"
  /\ ~allowed \/ Cardinality(InUse) >= MaxClients
  /\ End(c)
  /\ UNCHANGED <<required, lifecycle, peers, down, granted>>

\* A signal or the embedding program cancels the token.
RequestShutdown ==
  /\ ~shutdown
  /\ shutdown' = TRUE /\ requested' = TRUE
  /\ UNCHANGED <<required, loop, udp, result, peers, serve, wire, shown, granted>>

\* The UDP loop sees the token, or its socket fails.
UdpStops ==
  /\ udp = "running" /\ shutdown
  /\ udp' = "ok"
  /\ UNCHANGED <<required, loop, shutdown, result, requested, peers, serve, wire, shown, granted>>

UdpFails ==
  /\ udp = "running"
  /\ udp' = "error"
  /\ UNCHANGED <<required, loop, shutdown, result, requested, peers, serve, wire, shown, granted>>

\* The loop ends, by the token, by the UDP task or by a failed accept; the
\* token is cancelled in each case.
Break(failed) ==
  /\ loop = "accepting"
  /\ failed \/ shutdown \/ udp # "running"
  /\ loop' = "stopping"
  /\ shutdown' = TRUE
  /\ result' = IF failed THEN "error" ELSE "none"
  /\ UNCHANGED <<required, udp, requested, peers, serve, wire, shown, granted>>

DropBacklog ==
  LET queued == {c \in Conns : serve[c] = "backlog"} IN
  /\ serve' = [c \in Conns |-> IF c \in queued THEN "ended" ELSE serve[c]]
  /\ up' = [c \in Conns |-> IF c \in queued THEN <<>> ELSE up[c]]
  /\ shown' = shown \ queued

\* Mutant: the outcome of the UDP task is waited for and forgotten.
ReturnForgetful ==
  /\ loop = "stopping" /\ udp # "running"
  /\ loop' = "returned"
  /\ result' = IF result = "error" THEN "error" ELSE "ok"
  /\ DropBacklog
  /\ UNCHANGED <<required, shutdown, udp, requested, peers, down, granted>>

\* The UDP task is joined, and the listener is dropped with its backlog.
Return ==
  /\ loop = "stopping" /\ udp # "running"
  /\ loop' = "returned"
  /\ result' = IF result = "error" \/ udp = "error" THEN "error" ELSE "ok"
  /\ DropBacklog
  /\ UNCHANGED <<required, shutdown, udp, requested, peers, down, granted>>

\* Everything is over: the server, its tasks and its clients.
Over ==
  /\ loop = "returned"
  /\ \A c \in Conns : serve[c] \notin Running
  /\ UNCHANGED vars

LibraryStep(c) ==
  \/ Greet(c)
  \/ \E command \in {"connect", "associate"} :
       TakeMethod(c, command) \/ TakeStatus(c, command)
  \/ TakeReply(c)

TaskStep(c) ==
  \/ ReadGreeting(c)
  \/ ReadAuth(c)
  \/ ReadRequest(c)
  \/ HandshakeEnds(c)
  \/ Serve(c)
  \/ Refuse(c)
  \/ StopOnShutdown(c)

Next ==
  \/ \E c \in Conns :
       \/ \E a \in Accounts : Dial(c, a)
       \/ LibraryStep(c)
       \/ CallFails(c)
       \/ Stranger(c)
       \/ \E m \in Messages : StrangerSends(c, m)
       \/ HangUp(c)
       \/ TaskStep(c)
       \/ RelayData(c)
       \/ SessionEnds(c)
       \/ Accept(c)
       \/ \E allowed \in BOOLEAN : DropAccepted(c, allowed)
  \/ RequestShutdown
  \/ UdpStops
  \/ UdpFails
  \/ \E failed \in BOOLEAN : Break(failed)
  \/ Return
  \/ Over

Spec == Init /\ [][Next]_vars

\* The runtime runs every task that is ready, the time limits of a handshake
\* come, and connect and associate answer (Connect, AssociationRegistry).
\* Nothing is asked of clients, and nothing but the token ends a session.
Fairness ==
  /\ \A c \in Conns : WF_vars(TaskStep(c))
  /\ WF_vars(UdpStops) /\ WF_vars(Break(FALSE)) /\ WF_vars(Return)

FairSpec == Spec /\ Fairness

------------------------------------------------------------------------------
ClientPcs == {"absent", "greet", "method", "status", "reply", "ok", "closed",
              "stranger"}
ServerMessages == {Method(m) : m \in {0, 2, 255}} \cup {AuthStatus(b) : b \in {0, 1}}
                    \cup {Reply(s) : s \in {"success", "failure", "address", "command"}}
                    \cup {Data}

\* Every variable has its type, there are never more tasks than permits.
TypeOK ==
  /\ required \in BOOLEAN /\ shutdown \in BOOLEAN /\ requested \in BOOLEAN
  /\ loop \in {"accepting", "stopping", "returned"}
  /\ udp \in {"running", "ok", "error"} /\ result \in {"none", "ok", "error"}
  /\ client \in [Conns -> ClientPcs]
  /\ account \in [Conns -> Accounts]
  /\ serve \in [Conns -> Running \cup {"none", "backlog", "ended"}]
  /\ up \in [Conns -> Seq(Messages)] /\ down \in [Conns -> Seq(ServerMessages)]
  /\ shown \subseteq Conns /\ granted \subseteq Conns
  /\ Cardinality(InUse) <= MaxClients

\* Nobody gets past the handshake of a server with a password without having
\* sent the right one on this connection, whatever it sends, in whatever
\* order and however far ahead (negotiate 323-361).
AuthGate ==
  \A c \in Conns :
    required /\ serve[c] \in Running \ {"greeting", "auth"} => c \in shown

\* The library and the server agree: a call that returns a stream was granted
\* one, and what is left to read belongs to the application: no message of the
\* handshake (client.rs 110-193, handle_client).
InSync ==
  \A c \in Conns :
    client[c] = "ok" =>
      /\ c \in granted
      /\ \A i \in 1 .. Len(down[c]) : down[c][i] = Data

\* The library and the server never wait for each other: when one waits with
\* nothing to read, the other has something to read, to do or has left.
NoMutualWait ==
  \A c \in Conns :
    ~ /\ client[c] \in {"method", "status", "reply"} /\ down[c] = <<>>
      /\ serve[c] \in Handshake /\ up[c] = <<>>

\* run_async reports success only when it was asked to stop and neither the
\* accept loop nor the UDP task failed, whichever of the three the select
\* noticed first (247-307).
ResultTruthful ==
  result = "ok" => requested /\ udp = "ok"

\* A connection that is accepted leaves the handshake and, if it is not
\* served, its permit, though its client sends nothing more (HANDSHAKE_TIMEOUT).
HandshakeIsShort ==
  \A c \in Conns : (serve[c] \in Handshake) ~> (serve[c] \notin Handshake)

\* After the token is cancelled, or the UDP task has failed, run_async returns
\* and every connection ends, one that was still in its handshake too.
ShutdownEndsAll ==
  (shutdown \/ udp = "error") ~>
    [](loop = "returned" /\ \A c \in Conns : serve[c] \in {"none", "ended"})
=============================================================================
