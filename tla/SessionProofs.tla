--------------------------- MODULE SessionProofs ---------------------------
(***************************************************************************)
(* Proofs about Session for any connections and any number of permits.     *)
(***************************************************************************)
EXTENDS Session, SequenceTheorems, FiniteSetTheorems, TLAPS

\* What the proofs need of the types: where the tasks are and what is on its
\* way to them.
Typed ==
  /\ serve \in [Conns -> Running \cup {"none", "backlog", "ended"}]
  /\ up \in [Conns -> Seq(Messages)]
  /\ account \in [Conns -> Accounts]
  /\ shown \subseteq Conns

\* The right credentials are on their way only to a task that is counted as
\* having been sent them.
SentShown ==
  \A c \in Conns : \A i \in 1 .. Len(up[c]) : up[c][i] = Auth("right") => c \in shown

GateInv == Typed /\ SentShown /\ AuthGate

\* A server that has stopped by itself has an error to report.
LifeInv ==
  /\ udp \in {"running", "ok", "error"} /\ result \in {"none", "ok", "error"}
  /\ shutdown \in BOOLEAN /\ requested \in BOOLEAN
  /\ loop = "accepting" => result = "none"
  /\ udp = "ok" => shutdown
  /\ shutdown /\ ~requested =>
       loop # "accepting" /\ (result = "error" \/ udp = "error")
  /\ ResultTruthful

------------------------------------------------------------------------------
\* What a client may send is a message, and a message of one kind is not of
\* another (the formats of negotiate and read_request).
LEMMA MessageLemma ==
  /\ \A a \in {"right", "wrong"} : Auth(a) \in Messages
  /\ \A c \in Commands : Request(c) \in Messages
  /\ \A s \in SUBSET {0, 2} : Greeting(s) \in Messages
  /\ \A s \in SUBSET {0, 2} : Greeting(s) # Auth("right")
  /\ \A c \in Commands : Request(c) # Auth("right")
<1>1. \A s : Greeting(s).kind = "greeting"
  BY DEF Greeting
<1>2. \A c : Request(c).kind = "request"
  BY DEF Request
<1>3. Auth("right").kind = "auth"
  BY DEF Auth
<1> QED
  BY <1>1, <1>2, <1>3 DEF Messages

\* Writing to a connection (write_all of the client) adds nothing that was not
\* shown, if what is written is.
LEMMA WriteLemma ==
  ASSUME Typed, SentShown, NEW c \in Conns, NEW m \in Messages, Write(c, m),
         UNCHANGED serve, shown' \in SUBSET Conns, shown \subseteq shown',
         m = Auth("right") /\ serve[c] # "ended" => c \in shown'
  PROVE  up' \in [Conns -> Seq(Messages)] /\ SentShown'
<1>1. CASE serve[c] = "ended"
  BY <1>1 DEF Write, Typed, SentShown
<1>2. CASE serve[c] # "ended"
  <2>1. up' = [up EXCEPT ![c] = Append(up[c], m)]
    BY <1>2 DEF Write
  <2>2. up[c] \in Seq(Messages)
    BY DEF Typed
  <2>3. up' \in [Conns -> Seq(Messages)]
    BY <2>1, <2>2 DEF Typed
  <2>4. ASSUME NEW d \in Conns, NEW i \in 1 .. Len(up'[d]), up'[d][i] = Auth("right")
        PROVE  d \in shown'
    <3>1. CASE d # c
      BY <2>1, <2>4, <3>1 DEF Typed, SentShown
    <3>2. CASE d = c
      <4>1. up'[d] = Append(up[c], m)
        BY <2>1, <3>2 DEF Typed
      <4>2. CASE i = Len(up[c]) + 1
        BY <1>2, <2>2, <2>4, <3>2, <4>1, <4>2
      <4>3. CASE i # Len(up[c]) + 1
        <5>1. i \in 1 .. Len(up[c]) /\ up'[d][i] = up[c][i]
          BY <2>2, <4>1, <4>3
        <5> QED
          BY <2>4, <3>2, <5>1 DEF SentShown
      <4> QED
        BY <4>2, <4>3
    <3> QED
      BY <3>1, <3>2
  <2> QED
    BY <2>3, <2>4 DEF SentShown
<1> QED
  BY <1>1, <1>2

\* The end of a task, however it comes (the stream is dropped).
LEMMA EndLemma == ASSUME GateInv, NEW c \in Conns, End(c), UNCHANGED <<required, account>>
                  PROVE  GateInv'
<1>1. Typed'
  <2>1. <<>> \in Seq(Messages)
    OBVIOUS
  <2> QED
    BY <2>1 DEF GateInv, Typed, End
<1>2. SentShown'
  BY DEF GateInv, Typed, SentShown, End
<1>3. AuthGate'
  BY DEF GateInv, Typed, AuthGate, End, Running, Handshake
<1> QED
  BY <1>1, <1>2, <1>3 DEF GateInv

\* A task that reads a message and goes on, with the gate checked by the caller.
LEMMA GoLemma ==
  ASSUME GateInv, NEW c \in Conns, NEW to \in Running, up[c] # <<>>, Go(c, to),
         UNCHANGED <<required, account>>,
         required /\ to \notin {"greeting", "auth"} => c \in shown
  PROVE  GateInv'
<1>1. up[c] \in Seq(Messages)
  BY DEF GateInv, Typed
<1>2. /\ Tail(up[c]) \in Seq(Messages)
      /\ Len(Tail(up[c])) = Len(up[c]) - 1
      /\ \A i \in 1 .. Len(Tail(up[c])) : /\ i + 1 \in 1 .. Len(up[c])
                                          /\ Tail(up[c])[i] = up[c][i + 1]
  BY <1>1
<1>3. Typed'
  BY <1>2 DEF GateInv, Typed, Go
<1>4. SentShown'
  BY <1>2 DEF GateInv, Typed, SentShown, Go
<1>5. AuthGate'
  BY DEF GateInv, Typed, AuthGate, Go
<1> QED
  BY <1>3, <1>4, <1>5 DEF GateInv

\* Moves of a task that neither read nor end: accept, and the answer of
\* connect or associate.
LEMMA MoveLemma ==
  ASSUME GateInv, NEW c \in Conns, NEW to \in Running \cup {"backlog"},
         serve' = [serve EXCEPT ![c] = to],
         UNCHANGED <<required, up, shown>>, account' \in [Conns -> Accounts],
         required /\ to \in Running \ {"greeting", "auth"} => c \in shown
  PROVE  GateInv'
<1>1. Typed' /\ SentShown'
  BY DEF GateInv, Typed, SentShown
<1>2. AuthGate'
  BY DEF GateInv, Typed, AuthGate
<1> QED
  BY <1>1, <1>2 DEF GateInv

\* Steps that leave the tasks and what is sent to them alone.
LEMMA StayLemma ==
  ASSUME GateInv, UNCHANGED <<required, serve, up, shown>>,
         account' \in [Conns -> Accounts]
  PROVE  GateInv'
BY DEF GateInv, Typed, SentShown, AuthGate

------------------------------------------------------------------------------
\* A server that starts has no tasks (run_async).
LEMMA GateInit == Init => GateInv
<1> SUFFICES ASSUME Init PROVE GateInv
  OBVIOUS
<1>1. <<>> \in Seq(Messages)
  OBVIOUS
<1> QED
  BY <1>1 DEF Init, GateInv, Typed, SentShown, AuthGate, Accounts, Running, Handshake

\* The steps of the client library and of strangers.
LEMMA GateClients ==
  ASSUME GateInv, NEW c \in Conns,
         \/ \E a \in Accounts : Dial(c, a)
         \/ LibraryStep(c) \/ CallFails(c) \/ HangUp(c) \/ Stranger(c)
         \/ \E m \in Messages : StrangerSends(c, m)
  PROVE  GateInv'
<1> USE DEF lifecycle, wire, peers
<1>0. account \in [Conns -> Accounts] /\ "none" \in Accounts
  BY DEF GateInv, Typed, Accounts
<1>1. ASSUME NEW a \in Accounts, Dial(c, a) PROVE GateInv'
  BY <1>0, <1>1, MoveLemma, "backlog" \notin Running DEF Dial, Running, Handshake
<1>2. CASE Stranger(c)
  BY <1>0, <1>2, MoveLemma, "backlog" \notin Running DEF Stranger, Running, Handshake
<1>3. CASE CallFails(c) \/ HangUp(c) \/ TakeReply(c)
  <2>1. account' \in [Conns -> Accounts] /\ UNCHANGED <<required, serve, up, shown>>
    BY <1>0, <1>3 DEF CallFails, HangUp, TakeReply, Leave, Become
  <2> QED
    BY <2>1, StayLemma
<1>4. ASSUME NEW m \in Messages, Write(c, m), UNCHANGED <<required, serve>>,
             account' \in [Conns -> Accounts],
             Show(c, m) \/ (m # Auth("right") /\ UNCHANGED shown)
      PROVE GateInv'
  <2>1. shown' \in SUBSET Conns /\ shown \subseteq shown'
    BY <1>4 DEF Show, GateInv, Typed
  <2>2. m = Auth("right") /\ serve[c] # "ended" => c \in shown'
    BY <1>4 DEF Show
  <2>3. up' \in [Conns -> Seq(Messages)] /\ SentShown'
    BY <1>4, <2>1, <2>2, WriteLemma DEF GateInv
  <2>4. AuthGate'
    BY <1>4, <2>1 DEF GateInv, AuthGate
  <2> QED
    BY <1>4, <2>1, <2>3, <2>4 DEF GateInv, Typed
<1>5. ASSUME NEW m \in Messages, StrangerSends(c, m) PROVE GateInv'
  BY <1>0, <1>5, <1>4 DEF StrangerSends
<1>6. CASE Greet(c)
  <2>1. {method(c)} \in SUBSET {0, 2}
    BY DEF method
  <2> QED
    BY <1>0, <1>6, <2>1, <1>4, MessageLemma DEF Greet
<1>7. ASSUME NEW command \in {"connect", "associate"}, TakeMethod(c, command)
      PROVE  GateInv'
  <2>0. UNCHANGED <<required, serve>> /\ command \in Commands
    BY <1>7 DEF TakeMethod, Commands
  <2>1. CASE Leave(c) /\ UNCHANGED <<up, shown>>
    BY <1>0, <2>0, <2>1, StayLemma DEF Leave
  <2>2. CASE Become(c, "reply") /\ Write(c, Request(command)) /\ UNCHANGED shown
    BY <1>0, <2>0, <2>2, <1>4, MessageLemma DEF Become
  <2>3. CASE /\ method(c) = 2 /\ Become(c, "status")
             /\ Write(c, Auth(account[c])) /\ Show(c, Auth(account[c]))
    <3>1. account[c] \in {"right", "wrong"}
      BY <1>0, <2>3 DEF method, Accounts
    <3> QED
      BY <1>0, <2>0, <2>3, <3>1, <1>4, MessageLemma DEF Become
  <2> QED
    BY <1>7, <2>1, <2>2, <2>3 DEF TakeMethod
<1>8. ASSUME NEW command \in {"connect", "associate"}, TakeStatus(c, command)
      PROVE  GateInv'
  <2>0. UNCHANGED <<required, serve, shown>> /\ command \in Commands
    BY <1>8 DEF TakeStatus, Commands
  <2>1. CASE Leave(c) /\ UNCHANGED up
    BY <1>0, <2>0, <2>1, StayLemma DEF Leave
  <2>2. CASE Become(c, "reply") /\ Write(c, Request(command))
    BY <1>0, <2>0, <2>2, <1>4, MessageLemma DEF Become
  <2> QED
    BY <1>8, <2>1, <2>2 DEF TakeStatus
<1> QED
  BY <1>1, <1>2, <1>3, <1>5, <1>6, <1>7, <1>8 DEF LibraryStep

\* The steps of the task of a connection.
LEMMA GateTask ==
  ASSUME GateInv, NEW c \in Conns,
         TaskStep(c) \/ RelayData(c) \/ SessionEnds(c) \/ Accept(c)
           \/ \E allowed \in BOOLEAN : DropAccepted(c, allowed)
  PROVE  GateInv'
<1> USE DEF lifecycle, wire, peers
<1>0. account \in [Conns -> Accounts] /\ serve[c] \in Running \cup {"none", "backlog", "ended"}
  BY DEF GateInv, Typed
<1>1. CASE ReadGreeting(c)
  <2>1. UNCHANGED <<required, account>> /\ up[c] # <<>>
    BY <1>1 DEF ReadGreeting, Receive
  <2>2. CASE End(c)
    BY <2>1, <2>2, EndLemma
  <2>3. CASE Go(c, IF selected = 2 THEN "auth" ELSE "request")
    <3>1. required => (IF selected = 2 THEN "auth" ELSE "request") = "auth"
      BY DEF selected
    <3>2. (IF selected = 2 THEN "auth" ELSE "request") \in Running
      BY DEF Running, Handshake
    <3> QED
      BY <2>1, <2>3, <3>1, <3>2, GoLemma
  <2> QED
    BY <1>1, <2>2, <2>3 DEF ReadGreeting
<1>2. CASE ReadAuth(c)
  <2>1. UNCHANGED <<required, account>> /\ up[c] # <<>>
    BY <1>2 DEF ReadAuth, Receive
  <2>2. CASE End(c)
    BY <2>1, <2>2, EndLemma
  <2>3. CASE Head(up[c]) = Auth("right") /\ Go(c, "request")
    <3>1. up[c] \in Seq(Messages)
      BY DEF GateInv, Typed
    <3>2. 1 \in 1 .. Len(up[c]) /\ up[c][1] = Auth("right")
      BY <2>1, <2>3, <3>1
    <3>3. c \in shown
      BY <3>2 DEF GateInv, SentShown
    <3>4. "request" \in Running
      BY DEF Running, Handshake
    <3> QED
      BY <2>1, <2>3, <3>3, <3>4, GoLemma
  <2> QED
    BY <1>2, <2>2, <2>3 DEF ReadAuth
<1>3. CASE ReadRequest(c)
  <2>1. UNCHANGED <<required, account>> /\ up[c] # <<>> /\ serve[c] = "request"
    BY <1>3 DEF ReadRequest, Receive
  <2>2. required => c \in shown
    BY <2>1 DEF GateInv, AuthGate, Running, Handshake
  <2>3. CASE End(c)
    BY <2>1, <2>3, EndLemma
  <2>4. CASE Head(up[c]) \in {Request("connect"), Request("associate")}
             /\ Go(c, Head(up[c]).command)
    <3>1. Head(up[c]).command \in Running
      BY <2>4 DEF Request, Running
    <3> QED
      BY <2>1, <2>2, <2>4, <3>1, GoLemma
  <2> QED
    BY <1>3, <2>3, <2>4 DEF ReadRequest
<1>4. CASE HandshakeEnds(c) \/ Refuse(c) \/ SessionEnds(c) \/ StopOnShutdown(c)
  <2>1. End(c) /\ UNCHANGED <<required, account>>
    BY <1>4 DEF HandshakeEnds, Refuse, SessionEnds, StopOnShutdown
  <2> QED
    BY <2>1, EndLemma
<1>5. ASSUME NEW allowed \in BOOLEAN, DropAccepted(c, allowed) PROVE GateInv'
  <2>1. End(c) /\ UNCHANGED <<required, account>>
    BY <1>5 DEF DropAccepted
  <2> QED
    BY <2>1, EndLemma
<1>6. CASE Serve(c)
  <2>1. serve[c] \in {"connect", "associate"}
    BY <1>6 DEF Serve
  <2>2. required => c \in shown
    BY <2>1 DEF GateInv, AuthGate, Running, Handshake
  <2>3. PICK to \in {"relay", "associated"} : serve' = [serve EXCEPT ![c] = to]
    BY <1>0, <1>6 DEF Serve, GateInv, Typed
  <2>4. to \in Running
    BY DEF Running
  <2>5. UNCHANGED <<required, up, shown, account>>
    BY <1>6 DEF Serve
  <2> QED
    BY <1>0, <2>2, <2>3, <2>4, <2>5, MoveLemma
<1>7. CASE Accept(c)
  <2>1. "greeting" \in Running
    BY DEF Running, Handshake
  <2> QED
    BY <1>0, <1>7, <2>1, MoveLemma DEF Accept
<1>8. CASE RelayData(c)
  BY <1>0, <1>8, StayLemma DEF RelayData
<1> QED
  BY <1>1, <1>2, <1>3, <1>4, <1>5, <1>6, <1>7, <1>8 DEF TaskStep

\* The end of run_async drops what waits in the backlog.
LEMMA GateReturn == ASSUME GateInv, Return PROVE GateInv'
<1>1. <<>> \in Seq(Messages)
  OBVIOUS
<1>2. Typed'
  BY <1>1 DEF GateInv, Typed, Return, DropBacklog, peers
<1>3. SentShown'
  BY DEF GateInv, Typed, SentShown, Return, DropBacklog
<1>4. AuthGate'
  BY DEF GateInv, Typed, AuthGate, Return, DropBacklog, Running, Handshake
<1> QED
  BY <1>2, <1>3, <1>4 DEF GateInv

\* Every step of clients, tasks and server keeps the gate.
LEMMA GateNext == GateInv /\ [Next]_vars => GateInv'
<1> SUFFICES ASSUME GateInv, [Next]_vars PROVE GateInv'
  OBVIOUS
<1>0. account \in [Conns -> Accounts]
  BY DEF GateInv, Typed
<1>1. CASE \/ RequestShutdown \/ UdpStops \/ UdpFails \/ Over \/ UNCHANGED vars
           \/ \E failed \in BOOLEAN : Break(failed)
  <2>1. UNCHANGED <<required, serve, up, shown, account>>
    BY <1>1 DEF RequestShutdown, UdpStops, UdpFails, Over, Break, vars, wire, peers
  <2> QED
    BY <1>0, <2>1, StayLemma
<1> QED
  BY <1>1, GateClients, GateTask, GateReturn DEF Next

\* With a password configured, no task reads a request, connects, relays or
\* associates unless the right credentials were sent to it (negotiate).
THEOREM Gate == Spec => []AuthGate
  BY GateInit, GateNext, PTL DEF Spec, GateInv

------------------------------------------------------------------------------
\* run_async returns success only after somebody asked it to stop, and never
\* hides a failure of the UDP task or of the accept.
THEOREM Truthful == Spec => []ResultTruthful
<1>1. Init => LifeInv
  BY DEF Init, LifeInv, ResultTruthful
<1>2. LifeInv /\ [Next]_vars => LifeInv'
  <2> SUFFICES ASSUME LifeInv, [Next]_vars PROVE LifeInv'
    OBVIOUS
  <2> USE DEF LifeInv, ResultTruthful
  <2>1. CASE UNCHANGED lifecycle
    BY <2>1 DEF lifecycle
  <2>2. CASE RequestShutdown
    BY <2>2 DEF RequestShutdown
  <2>3. CASE UdpStops
    BY <2>3 DEF UdpStops
  <2>4. CASE UdpFails
    BY <2>4 DEF UdpFails
  <2>5. ASSUME NEW failed \in BOOLEAN, Break(failed) PROVE LifeInv'
    BY <2>5 DEF Break
  <2>6. CASE Return
    BY <2>6 DEF Return
  <2>7. CASE Over \/ UNCHANGED vars
    BY <2>7 DEF Over, vars
  <2>8. ASSUME NEW c \in Conns,
               \/ \E a \in Accounts : Dial(c, a)
               \/ LibraryStep(c) \/ CallFails(c) \/ HangUp(c) \/ Stranger(c)
               \/ \E m \in Messages : StrangerSends(c, m)
               \/ TaskStep(c) \/ RelayData(c) \/ SessionEnds(c) \/ Accept(c)
               \/ \E allowed \in BOOLEAN : DropAccepted(c, allowed)
        PROVE  UNCHANGED lifecycle
    BY <2>8 DEF Dial, LibraryStep, Greet, TakeMethod, TakeStatus, TakeReply, CallFails,
                HangUp, Stranger, StrangerSends, TaskStep, ReadGreeting, ReadAuth,
                ReadRequest, Receive, HandshakeEnds, Serve, Refuse, StopOnShutdown,
                RelayData, SessionEnds, Accept, DropAccepted
  <2> QED
    BY <2>1, <2>2, <2>3, <2>4, <2>5, <2>6, <2>7, <2>8 DEF Next
<1> QED
  BY <1>1, <1>2, PTL DEF Spec, LifeInv

------------------------------------------------------------------------------
\* What the library's stream holds when the call was granted.
Granted(c) ==
  /\ c \in granted
  /\ down[c] \in {<<Reply("success")>>, <<Reply("success"), Data>>}

\* How far the library and the task of the connection are, and what is on its
\* way between them (client.rs 110-193 against negotiate and handle_client).
\* The library has greeted and waits for the method.
AtMethod(c) ==
  \/ /\ serve[c] \in {"backlog", "greeting"}
     /\ up[c] = <<Greeting({method(c)})>> /\ down[c] = <<>>
  \/ /\ serve[c] = (IF selected = 2 THEN "auth" ELSE "request")
     /\ up[c] = <<>> /\ down[c] = <<Method(selected)>>
  \/ /\ serve[c] = "ended"
     /\ down[c] = <<>> \/ down[c] = <<Method(selected)>> \/ down[c] = <<Method(255)>>

\* It has sent its credentials.
AtStatus(c) ==
  \/ serve[c] = "auth" /\ up[c] = <<Auth(account[c])>> /\ down[c] = <<>>
  \/ serve[c] = "request" /\ up[c] = <<>> /\ down[c] = <<AuthStatus(0)>>
  \/ /\ serve[c] = "ended"
     /\ down[c] = <<>> \/ down[c] = <<AuthStatus(0)>> \/ down[c] = <<AuthStatus(1)>>

\* It has sent its request.
AtReply(c) ==
  \/ /\ serve[c] = "request" /\ down[c] = <<>>
     /\ \E command \in {"connect", "associate"} : up[c] = <<Request(command)>>
  \/ serve[c] \in {"connect", "associate"} /\ down[c] = <<>>
  \/ serve[c] \in {"relay", "associated"} /\ Granted(c)
  \/ /\ serve[c] = "ended"
     /\ \/ down[c] = <<>>
        \/ \E s \in {"failure", "address", "command"} : down[c] = <<Reply(s)>>
        \/ Granted(c)

\* The call has returned what it was asked for.
AtOk(c) ==
  /\ serve[c] \in {"relay", "associated", "ended"}
  /\ c \in granted
  /\ down[c] = <<>> \/ down[c] = <<Data>>

Talk(c) ==
  /\ client[c] = "absent" => serve[c] = "none" /\ up[c] = <<>> /\ down[c] = <<>>
  /\ client[c] \in {"stranger", "closed"} => down[c] = <<>>
  /\ client[c] = "greet" =>
       serve[c] \in {"backlog", "greeting", "ended"} /\ up[c] = <<>> /\ down[c] = <<>>
  /\ client[c] = "method" => AtMethod(c)
  /\ client[c] = "status" => AtStatus(c)
  /\ client[c] = "reply" => AtReply(c)
  /\ client[c] = "ok" => AtOk(c)

\* Never more tasks than permits, which TypeOK asks for as well.
Slots == IsFiniteSet(InUse) /\ Cardinality(InUse) <= MaxClients

Types ==
  /\ required \in BOOLEAN
  /\ client \in [Conns -> ClientPcs]
  /\ account \in [Conns -> Accounts]
  /\ serve \in [Conns -> Running \cup {"none", "backlog", "ended"}]
  /\ up \in [Conns -> Seq(Messages)] /\ down \in [Conns -> Seq(ServerMessages)]
  /\ shown \in SUBSET Conns /\ granted \in SUBSET Conns

TalkInv == Types /\ \A c \in Conns : Talk(c)

\* Lists of one and two messages.
LEMMA ListLemma ==
  /\ \A x : Head(<<x>>) = x /\ Tail(<<x>>) = <<>> /\ Append(<<>>, x) = <<x>> /\ <<x>> # <<>>
            /\ Len(<<x>>) = 1 /\ <<x>>[1] = x
  /\ \A x, y : /\ Head(<<x, y>>) = x /\ Tail(<<x, y>>) = <<y>> /\ Append(<<x>>, y) = <<x, y>>
               /\ <<x, y>> # <<>> /\ Len(<<x, y>>) = 2 /\ <<x, y>>[2] = y
  /\ Len(<<>>) = 0
<1>1. \A x : Head(<<x>>) = x /\ <<x>> # <<>> /\ Len(<<x>>) = 1 /\ <<x>>[1] = x
  OBVIOUS
<1>2. \A x : Append(<<>>, x) = <<x>>
  OBVIOUS
<1>3. \A x : Tail(<<x>>) = <<>>
  OBVIOUS
<1>4. \A x, y : Head(<<x, y>>) = x /\ <<x, y>> # <<>> /\ Len(<<x, y>>) = 2 /\ <<x, y>>[2] = y
  OBVIOUS
<1>5. ASSUME NEW x, NEW y PROVE Append(<<x>>, y) = <<x, y>>
  <2>1. /\ <<x, y>> \in Seq({x, y}) /\ Len(<<x, y>>) = 2
        /\ <<x, y>>[1] = x /\ <<x, y>>[2] = y
    OBVIOUS
  <2> DEFINE s == <<x>>
  <2>2. s \in Seq({x, y}) /\ Len(s) = 1 /\ s[1] = x
    OBVIOUS
  <2> HIDE DEF s
  <2>3. /\ Append(s, y) \in Seq({x, y}) /\ Len(Append(s, y)) = 2
        /\ Append(s, y)[1] = x /\ Append(s, y)[2] = y
    <3> DEFINE S == {x, y}
    <3>1. s \in Seq(S) /\ y \in S
      BY <2>2
    <3> HIDE DEF S
    <3>2. /\ Append(s, y) \in Seq(S) /\ Len(Append(s, y)) = Len(s) + 1
          /\ \A i \in 1 .. Len(s) : Append(s, y)[i] = s[i]
          /\ Append(s, y)[Len(s) + 1] = y
      BY <3>1, AppendProperties
    <3> QED
      BY <2>2, <3>2 DEF S
  <2> DEFINE t == Append(s, y)  u == <<x, y>>
  <2>4. /\ t \in Seq({x, y}) /\ u \in Seq({x, y}) /\ Len(t) = Len(u)
        /\ \A i \in 1 .. Len(t) : t[i] = u[i]
    BY <2>1, <2>3
  <2> HIDE DEF t, u
  <2>5. t = u
    BY <2>4, SeqEqual
  <2> QED
    BY <2>5 DEF s, t, u
<1>6. ASSUME NEW x, NEW y PROVE Tail(<<x, y>>) = <<y>>
  <2>1. <<x, y>> \in Seq({x, y}) /\ <<y>> \in Seq({x, y}) /\ Len(<<x, y>>) = 2 /\ Len(<<y>>) = 1
    OBVIOUS
  <2> DEFINE s == <<x, y>>
  <2>2. s[2] = y /\ <<y>>[1] = y /\ s # <<>> /\ Len(s) = 2 /\ s \in Seq({x, y})
    BY <2>1
  <2> HIDE DEF s
  <2>3. Tail(s) \in Seq({x, y}) /\ Len(Tail(s)) = 1 /\ Tail(s)[1] = s[2]
    BY <2>2
  <2>4. \A t \in Seq({x, y}) : Len(t) = 1 /\ t[1] = y => t = <<y>>
    <3> TAKE t \in Seq({x, y})
    <3> HAVE Len(t) = 1 /\ t[1] = y
    <3>1. Len(t) = Len(<<y>>) /\ \A i \in 1 .. Len(t) : t[i] = <<y>>[i]
      BY <2>1
    <3> HIDE DEF s
    <3> QED
      BY <2>1, <3>1, SeqEqual
  <2> QED
    BY <2>2, <2>3, <2>4 DEF s
<1> QED
  BY <1>1, <1>2, <1>3, <1>4, <1>5, <1>6

\* The answers of the server are told apart by the library.
LEMMA AnswerLemma ==
  /\ \A m : Method(m).kind = "method" /\ Method(m).method = m
  /\ \A b : AuthStatus(b).kind = "status" /\ AuthStatus(b).status = b
  /\ \A s : Reply(s).kind = "reply" /\ Reply(s).status = s
  /\ Data.kind = "data"
  /\ \A m \in {0, 2, 255} : Method(m) \in ServerMessages
  /\ \A b \in {0, 1} : AuthStatus(b) \in ServerMessages
  /\ \A s \in {"success", "failure", "address", "command"} : Reply(s) \in ServerMessages
  /\ Data \in ServerMessages
  /\ \A s : Greeting(s).kind = "greeting" /\ Greeting(s).methods = s
  /\ \A a : Auth(a).kind = "auth" /\ Auth(a).account = a
  /\ \A r : Request(r).kind = "request" /\ Request(r).command = r
BY DEF Method, AuthStatus, Reply, Data, ServerMessages, Greeting, Auth, Request

\* A step that is about one connection.
Local(c) ==
  /\ required' = required
  /\ \A d \in Conns \ {c} :
       /\ client'[d] = client[d] /\ account'[d] = account[d] /\ serve'[d] = serve[d]
       /\ up'[d] = up[d] /\ down'[d] = down[d]
       /\ d \in granted' <=> d \in granted

LEMMA LocalLemma ==
  ASSUME TalkInv, NEW c \in Conns, Types', Local(c), Talk(c)'
  PROVE  TalkInv'
<1> SUFFICES ASSUME NEW d \in Conns \ {c} PROVE Talk(d)'
  BY DEF TalkInv
<1>1. /\ required' = required /\ client'[d] = client[d] /\ account'[d] = account[d]
      /\ serve'[d] = serve[d] /\ up'[d] = up[d] /\ down'[d] = down[d]
      /\ d \in granted' <=> d \in granted
  BY DEF Local
<1>2. Talk(d)
  BY DEF TalkInv
<1> QED
  BY <1>1, <1>2 DEF Talk, AtMethod, AtStatus, AtReply, AtOk, Granted, method, selected

\* What the shared parts of the handlers do at their connection and elsewhere.
LEMMA EndAt ==
  ASSUME Types, NEW c \in Conns, End(c)
  PROVE  /\ serve' \in [Conns -> Running \cup {"none", "backlog", "ended"}]
         /\ up' \in [Conns -> Seq(Messages)] /\ shown' \in SUBSET Conns
         /\ serve'[c] = "ended" /\ up'[c] = <<>>
         /\ \A d \in Conns \ {c} : serve'[d] = serve[d] /\ up'[d] = up[d]
<1>1. <<>> \in Seq(Messages)
  OBVIOUS
<1> QED
  BY <1>1 DEF Types, End

LEMMA GoAt ==
  ASSUME Types, NEW c \in Conns, NEW to \in Running, up[c] # <<>>, Go(c, to)
  PROVE  /\ serve' \in [Conns -> Running \cup {"none", "backlog", "ended"}]
         /\ up' \in [Conns -> Seq(Messages)] /\ shown' \in SUBSET Conns
         /\ serve'[c] = to /\ up'[c] = Tail(up[c])
         /\ \A d \in Conns \ {c} : serve'[d] = serve[d] /\ up'[d] = up[d]
<1>1. up[c] \in Seq(Messages)
  BY DEF Types
<1>2. Tail(up[c]) \in Seq(Messages)
  BY <1>1
<1> QED
  BY <1>2 DEF Types, Go

LEMMA AnswerAt ==
  ASSUME Types, NEW c \in Conns, NEW m \in ServerMessages, Answer(c, m)
  PROVE  /\ down' \in [Conns -> Seq(ServerMessages)]
         /\ down'[c] = IF client[c] \in {"stranger", "closed"} THEN down[c]
                                                              ELSE Append(down[c], m)
         /\ \A d \in Conns \ {c} : down'[d] = down[d]
<1>1. down[c] \in Seq(ServerMessages)
  BY DEF Types
<1>2. Append(down[c], m) \in Seq(ServerMessages)
  BY <1>1
<1> QED
  BY <1>2 DEF Types, Answer

LEMMA WriteAt ==
  ASSUME Types, NEW c \in Conns, NEW m \in Messages, Write(c, m)
  PROVE  /\ up' \in [Conns -> Seq(Messages)]
         /\ up'[c] = IF serve[c] = "ended" THEN up[c] ELSE Append(up[c], m)
         /\ \A d \in Conns \ {c} : up'[d] = up[d]
<1>1. up[c] \in Seq(Messages)
  BY DEF Types
<1>2. Append(up[c], m) \in Seq(Messages)
  BY <1>1
<1> QED
  BY <1>2 DEF Types, Write

LEMMA LeaveAt ==
  ASSUME Types, NEW c \in Conns, Leave(c)
  PROVE  /\ client' \in [Conns -> ClientPcs] /\ account' \in [Conns -> Accounts]
         /\ down' \in [Conns -> Seq(ServerMessages)] /\ granted' \in SUBSET Conns
         /\ client'[c] = "closed" /\ down'[c] = <<>>
         /\ \A d \in Conns \ {c} :
              /\ client'[d] = client[d] /\ account'[d] = account[d] /\ down'[d] = down[d]
              /\ d \in granted' <=> d \in granted
<1>1. <<>> \in Seq(ServerMessages)
  OBVIOUS
<1> QED
  BY <1>1 DEF Types, Leave, ClientPcs, Accounts

LEMMA BecomeAt ==
  ASSUME Types, NEW c \in Conns, NEW to \in ClientPcs, down[c] # <<>>, Become(c, to)
  PROVE  /\ client' \in [Conns -> ClientPcs] /\ account' = account
         /\ down' \in [Conns -> Seq(ServerMessages)] /\ granted' = granted
         /\ client'[c] = to /\ down'[c] = Tail(down[c])
         /\ \A d \in Conns \ {c} : client'[d] = client[d] /\ down'[d] = down[d]
<1>1. down[c] \in Seq(ServerMessages)
  BY DEF Types
<1>2. Tail(down[c]) \in Seq(ServerMessages)
  BY <1>1
<1> QED
  BY <1>2 DEF Types, Become

------------------------------------------------------------------------------
\* Whoever does not listen any more has nothing to read.
LEMMA GoneTalk ==
  ASSUME NEW c \in Conns, client'[c] \in {"stranger", "closed"}, down'[c] = <<>>
  PROVE  Talk(c)'
BY DEF Talk

\* The stream is dropped without an answer.
LEMMA EndTalk ==
  ASSUME TalkInv, NEW c \in Conns, serve[c] # "none", End(c),
         UNCHANGED <<required, client, account, down, granted>>
  PROVE  TalkInv'
<1>1. Types /\ Talk(c)
  BY DEF TalkInv
<1>2. /\ serve' \in [Conns -> Running \cup {"none", "backlog", "ended"}]
      /\ up' \in [Conns -> Seq(Messages)] /\ shown' \in SUBSET Conns
      /\ serve'[c] = "ended" /\ up'[c] = <<>>
      /\ \A d \in Conns \ {c} : serve'[d] = serve[d] /\ up'[d] = up[d]
  BY <1>1, EndAt
<1>3. Types' /\ Local(c)
  BY <1>1, <1>2 DEF Types, Local
<1>4. Talk(c)'
  <2>1. client[c] = "method" => AtMethod(c)'
    BY <1>1, <1>2 DEF Talk, AtMethod, selected
  <2>2. client[c] = "status" => AtStatus(c)'
    BY <1>1, <1>2 DEF Talk, AtStatus
  <2>3. client[c] = "reply" => AtReply(c)'
    BY <1>1, <1>2 DEF Talk, AtReply, Granted
  <2>4. client[c] = "ok" => AtOk(c)'
    BY <1>1, <1>2 DEF Talk, AtOk
  <2> QED
    BY <1>1, <1>2, <2>1, <2>2, <2>3, <2>4 DEF Talk
<1> QED
  BY <1>3, <1>4, LocalLemma

\* negotiate answers a greeting.
LEMMA ReadGreetingTalk ==
  ASSUME TalkInv, NEW c \in Conns, ReadGreeting(c)
  PROVE  TalkInv'
<1> USE DEF peers
<1>1. /\ Types /\ Talk(c) /\ serve[c] = "greeting" /\ up[c] # <<>>
      /\ UNCHANGED <<required, client, account, granted>>
  BY DEF TalkInv, ReadGreeting, Receive
<1>2. \/ client[c] \in {"stranger", "closed"} /\ down[c] = <<>>
      \/ client[c] = "method" /\ down[c] = <<>> /\ up[c] = <<Greeting({method(c)})>>
  BY <1>1 DEF Talk, AtMethod, AtStatus, AtReply, AtOk, Types, ClientPcs
<1>3. CASE End(c) /\ UNCHANGED down
  BY <1>1, <1>3, EndTalk
<1>4. CASE End(c) /\ Answer(c, Method(255))
  <2>1. Method(255) \in ServerMessages
    BY AnswerLemma
  <2>2. /\ down' \in [Conns -> Seq(ServerMessages)]
        /\ down'[c] = IF client[c] \in {"stranger", "closed"} THEN down[c]
                                                             ELSE Append(down[c], Method(255))
        /\ \A d \in Conns \ {c} : down'[d] = down[d]
    BY <1>1, <1>4, <2>1, AnswerAt
  <2>3. /\ serve' \in [Conns -> Running \cup {"none", "backlog", "ended"}]
        /\ up' \in [Conns -> Seq(Messages)] /\ shown' \in SUBSET Conns
        /\ serve'[c] = "ended"
        /\ \A d \in Conns \ {c} : serve'[d] = serve[d] /\ up'[d] = up[d]
    BY <1>1, <1>4, EndAt
  <2>4. Types' /\ Local(c)
    BY <1>1, <2>2, <2>3 DEF Types, Local
  <2>5. CASE client[c] = "method"
    <3>1. down[c] = <<>> /\ down'[c] = Append(down[c], Method(255))
      BY <1>2, <2>2, <2>5
    <3>2. down'[c] = <<Method(255)>> /\ client'[c] = "method"
      BY <1>1, <2>5, <3>1, ListLemma
    <3>3. Talk(c)'
      BY <2>3, <3>2 DEF Talk, AtMethod
    <3> QED
      BY <2>4, <3>3, LocalLemma
  <2>6. CASE client[c] \in {"stranger", "closed"}
    <3>1. down'[c] = <<>> /\ client'[c] = client[c]
      BY <1>1, <1>2, <2>2, <2>6
    <3> QED
      BY <2>4, <2>6, <3>1, GoneTalk, LocalLemma
  <2> QED
    BY <1>2, <2>5, <2>6
<1>5. CASE Answer(c, Method(selected)) /\ Go(c, IF selected = 2 THEN "auth" ELSE "request")
  <2> DEFINE to == IF selected = 2 THEN "auth" ELSE "request"
  <2>1. Method(selected) \in ServerMessages /\ to \in Running
    BY AnswerLemma DEF selected, Running, Handshake
  <2> DEFINE m == Method(selected)
  <2> HIDE DEF to, m
  <2>2. /\ down' \in [Conns -> Seq(ServerMessages)]
        /\ down'[c] = IF client[c] \in {"stranger", "closed"} THEN down[c]
                                                             ELSE Append(down[c], m)
        /\ \A d \in Conns \ {c} : down'[d] = down[d]
    BY <1>1, <1>5, <2>1, AnswerAt DEF m
  <2>3. /\ serve' \in [Conns -> Running \cup {"none", "backlog", "ended"}]
        /\ up' \in [Conns -> Seq(Messages)] /\ shown' \in SUBSET Conns
        /\ serve'[c] = to /\ up'[c] = Tail(up[c])
        /\ \A d \in Conns \ {c} : serve'[d] = serve[d] /\ up'[d] = up[d]
    BY <1>1, <1>5, <2>1, GoAt DEF to
  <2>4. Types' /\ Local(c)
    BY <1>1, <2>2, <2>3 DEF Types, Local
  <2>5. CASE client[c] = "method"
    <3>1. /\ down[c] = <<>> /\ up[c] = <<Greeting({method(c)})>>
          /\ down'[c] = Append(down[c], m) /\ up'[c] = Tail(up[c])
      BY <1>2, <2>2, <2>3, <2>5
    <3>2. down'[c] = <<m>> /\ up'[c] = <<>> /\ client'[c] = "method"
      BY <1>1, <2>5, <3>1, ListLemma
    <3>3. selected' = selected
      BY <1>1 DEF selected
    <3>4. Talk(c)'
      BY <2>3, <3>2, <3>3 DEF Talk, AtMethod, m, to
    <3> QED
      BY <2>4, <3>4, LocalLemma
  <2>6. CASE client[c] \in {"stranger", "closed"}
    <3>1. down'[c] = <<>> /\ client'[c] = client[c]
      BY <1>1, <1>2, <2>2, <2>6
    <3> QED
      BY <2>4, <2>6, <3>1, GoneTalk, LocalLemma
  <2> QED
    BY <1>2, <2>5, <2>6
<1> QED
  BY <1>3, <1>4, <1>5 DEF ReadGreeting

\* A task that answers and ends.
LEMMA EndAnswerTalk ==
  ASSUME TalkInv, NEW c \in Conns, serve[c] # "none", NEW m \in ServerMessages,
         End(c), Answer(c, m), UNCHANGED <<required, client, account, granted>>,
         \/ client[c] \in {"stranger", "closed"}
         \/ /\ client[c] = "status" /\ down[c] = <<>> /\ m = AuthStatus(1)
         \/ /\ client[c] = "reply" /\ down[c] = <<>>
            /\ \E s \in {"failure", "address", "command"} : m = Reply(s)
  PROVE  TalkInv'
<1>1. Types /\ Talk(c)
  BY DEF TalkInv
<1>2. /\ down' \in [Conns -> Seq(ServerMessages)]
      /\ down'[c] = IF client[c] \in {"stranger", "closed"} THEN down[c]
                                                           ELSE Append(down[c], m)
      /\ \A d \in Conns \ {c} : down'[d] = down[d]
  BY <1>1, AnswerAt
<1>3. /\ serve' \in [Conns -> Running \cup {"none", "backlog", "ended"}]
      /\ up' \in [Conns -> Seq(Messages)] /\ shown' \in SUBSET Conns
      /\ serve'[c] = "ended"
      /\ \A d \in Conns \ {c} : serve'[d] = serve[d] /\ up'[d] = up[d]
  BY <1>1, EndAt
<1>4. Types' /\ Local(c)
  BY <1>1, <1>2, <1>3 DEF Types, Local
<1>5. CASE client[c] = "status" /\ down[c] = <<>> /\ m = AuthStatus(1)
  <2>1. down'[c] = <<AuthStatus(1)>>
    BY <1>2, <1>5, ListLemma
  <2> QED
    BY <1>3, <1>4, <1>5, <2>1, LocalLemma DEF Talk, AtStatus
<1>6. CASE /\ client[c] = "reply" /\ down[c] = <<>>
           /\ \E s \in {"failure", "address", "command"} : m = Reply(s)
  <2>1. \E s \in {"failure", "address", "command"} : down'[c] = <<Reply(s)>>
    BY <1>2, <1>6, ListLemma
  <2> QED
    BY <1>3, <1>4, <1>6, <2>1, LocalLemma DEF Talk, AtReply
<1>7. CASE client[c] \in {"stranger", "closed"}
  <2>1. down'[c] = <<>>
    BY <1>1, <1>2, <1>7 DEF Talk
  <2> QED
    BY <1>4, <1>7, <2>1, GoneTalk, LocalLemma
<1> QED
  BY <1>5, <1>6, <1>7

\* The credentials are answered.
LEMMA ReadAuthTalk ==
  ASSUME TalkInv, NEW c \in Conns, ReadAuth(c)
  PROVE  TalkInv'
<1> USE DEF peers
<1>1. /\ Types /\ Talk(c) /\ serve[c] = "auth" /\ up[c] # <<>>
      /\ UNCHANGED <<required, client, account, granted>>
  BY DEF TalkInv, ReadAuth, Receive
<1>2. \/ client[c] \in {"stranger", "closed"} /\ down[c] = <<>>
      \/ client[c] = "status" /\ down[c] = <<>> /\ up[c] = <<Auth(account[c])>>
  BY <1>1 DEF Talk, AtMethod, AtStatus, AtReply, AtOk, Types, ClientPcs
<1>3. CASE End(c) /\ UNCHANGED down
  BY <1>1, <1>3, EndTalk
<1>4. CASE End(c) /\ Answer(c, AuthStatus(1))
  <2>1. AuthStatus(1) \in ServerMessages
    BY AnswerLemma
  <2> QED
    BY <1>1, <1>2, <1>4, <2>1, EndAnswerTalk
<1>5. CASE Go(c, "request") /\ Answer(c, AuthStatus(0))
  <2> DEFINE m == AuthStatus(0)
  <2>1. m \in ServerMessages /\ "request" \in Running
    BY AnswerLemma DEF Running, Handshake
  <2> HIDE DEF m
  <2>2. /\ down' \in [Conns -> Seq(ServerMessages)]
        /\ down'[c] = IF client[c] \in {"stranger", "closed"} THEN down[c]
                                                             ELSE Append(down[c], m)
        /\ \A d \in Conns \ {c} : down'[d] = down[d]
    BY <1>1, <1>5, <2>1, AnswerAt DEF m
  <2>3. /\ serve' \in [Conns -> Running \cup {"none", "backlog", "ended"}]
        /\ up' \in [Conns -> Seq(Messages)] /\ shown' \in SUBSET Conns
        /\ serve'[c] = "request" /\ up'[c] = Tail(up[c])
        /\ \A d \in Conns \ {c} : serve'[d] = serve[d] /\ up'[d] = up[d]
    BY <1>1, <1>5, <2>1, GoAt
  <2>4. Types' /\ Local(c)
    BY <1>1, <2>2, <2>3 DEF Types, Local
  <2>5. CASE client[c] = "status"
    <3>1. /\ down[c] = <<>> /\ up[c] = <<Auth(account[c])>>
          /\ down'[c] = Append(down[c], m) /\ up'[c] = Tail(up[c])
      BY <1>2, <2>2, <2>3, <2>5
    <3>2. down'[c] = <<m>> /\ up'[c] = <<>> /\ client'[c] = "status"
      BY <1>1, <2>5, <3>1, ListLemma
    <3>3. Talk(c)'
      BY <2>3, <3>2 DEF Talk, AtStatus, m
    <3> QED
      BY <2>4, <3>3, LocalLemma
  <2>6. CASE client[c] \in {"stranger", "closed"}
    <3>1. down'[c] = <<>> /\ client'[c] = client[c]
      BY <1>1, <1>2, <2>2, <2>6
    <3> QED
      BY <2>4, <2>6, <3>1, GoneTalk, LocalLemma
  <2> QED
    BY <1>2, <2>5, <2>6
<1> QED
  BY <1>3, <1>4, <1>5 DEF ReadAuth

\* The request is read; the library's own is always one of the two commands.
LEMMA ReadRequestTalk ==
  ASSUME TalkInv, NEW c \in Conns, ReadRequest(c)
  PROVE  TalkInv'
<1> USE DEF peers
<1>1. /\ Types /\ Talk(c) /\ serve[c] = "request" /\ up[c] # <<>>
      /\ UNCHANGED <<required, client, account, granted>>
  BY DEF TalkInv, ReadRequest, Receive
<1>2. \/ client[c] \in {"stranger", "closed"} /\ down[c] = <<>>
      \/ client[c] = "reply" /\ down[c] = <<>>
  BY <1>1 DEF Talk, AtMethod, AtStatus, AtReply, AtOk, Types, ClientPcs
<1>3. ASSUME NEW s \in {"address", "command"}, End(c), Answer(c, Reply(s)) PROVE TalkInv'
  <2>1. Reply(s) \in ServerMessages
    BY AnswerLemma
  <2> QED
    BY <1>1, <1>2, <1>3, <2>1, EndAnswerTalk
<1>4. CASE /\ Head(up[c]) \in {Request("connect"), Request("associate")}
           /\ Go(c, Head(up[c]).command) /\ UNCHANGED down
  <2> DEFINE to == Head(up[c]).command
  <2>1. to \in {"connect", "associate"} /\ to \in Running
    BY <1>4, AnswerLemma DEF Running
  <2> HIDE DEF to
  <2>2. /\ serve' \in [Conns -> Running \cup {"none", "backlog", "ended"}]
        /\ up' \in [Conns -> Seq(Messages)] /\ shown' \in SUBSET Conns
        /\ serve'[c] = to
        /\ \A d \in Conns \ {c} : serve'[d] = serve[d] /\ up'[d] = up[d]
    BY <1>1, <1>4, <2>1, GoAt DEF to
  <2>3. Types' /\ Local(c)
    BY <1>1, <1>4, <2>2 DEF Types, Local
  <2>4. Talk(c)'
    BY <1>1, <1>2, <1>4, <2>1, <2>2 DEF Talk, AtReply
  <2> QED
    BY <2>3, <2>4, LocalLemma
<1> QED
  BY <1>3, <1>4 DEF ReadRequest

\* connect or associate grants what was asked for.
LEMMA ServeTalk ==
  ASSUME TalkInv, NEW c \in Conns, Serve(c)
  PROVE  TalkInv'
<1> USE DEF peers
<1> DEFINE m == Reply("success")
<1>1. /\ Types /\ Talk(c) /\ serve[c] \in {"connect", "associate"} /\ Answer(c, m)
      /\ granted' = (IF client[c] = "closed" THEN granted ELSE granted \cup {c})
      /\ UNCHANGED <<required, client, account, up, shown>>
  BY DEF TalkInv, Serve
<1>2. m \in ServerMessages
  BY AnswerLemma
<1> HIDE DEF m
<1>3. \/ client[c] \in {"stranger", "closed"} /\ down[c] = <<>>
      \/ client[c] = "reply" /\ down[c] = <<>>
  BY <1>1 DEF Talk, AtMethod, AtStatus, AtReply, AtOk, Types, ClientPcs
<1>4. PICK to \in {"relay", "associated"} : serve' = [serve EXCEPT ![c] = to]
  BY <1>1 DEF Serve, Types
<1>5. to \in Running
  BY DEF Running
<1>6. /\ down' \in [Conns -> Seq(ServerMessages)]
      /\ down'[c] = IF client[c] \in {"stranger", "closed"} THEN down[c]
                                                           ELSE Append(down[c], m)
      /\ \A d \in Conns \ {c} : down'[d] = down[d]
  BY <1>1, <1>2, AnswerAt
<1>7. Types' /\ Local(c)
  BY <1>1, <1>4, <1>5, <1>6 DEF Types, Local
<1>8. CASE client[c] = "reply"
  <2>1. down[c] = <<>> /\ down'[c] = Append(down[c], m)
    BY <1>3, <1>6, <1>8
  <2>2. down'[c] = <<m>> /\ client'[c] = "reply" /\ c \in granted' /\ serve'[c] = to
    BY <1>1, <1>4, <1>8, <2>1, ListLemma DEF Types
  <2>3. Talk(c)'
    BY <2>2 DEF Talk, AtReply, Granted, m
  <2> QED
    BY <1>7, <2>3, LocalLemma
<1>9. CASE client[c] \in {"stranger", "closed"}
  <2>1. down'[c] = <<>> /\ client'[c] = client[c]
    BY <1>1, <1>3, <1>6, <1>9
  <2> QED
    BY <1>7, <1>9, <2>1, GoneTalk, LocalLemma
<1> QED
  BY <1>3, <1>8, <1>9

\* The relay sends data after the reply.
LEMMA RelayDataTalk ==
  ASSUME TalkInv, NEW c \in Conns, RelayData(c)
  PROVE  TalkInv'
<1> USE DEF peers
<1>1. /\ Types /\ Talk(c) /\ serve[c] = "relay" /\ client[c] \in {"reply", "ok"}
      /\ \A i \in 1 .. Len(down[c]) : down[c][i] # Data
      /\ Answer(c, Data)
      /\ UNCHANGED <<required, client, account, serve, up, shown, granted>>
  BY DEF TalkInv, RelayData
<1> DEFINE D == Data  R == Reply("success")
<1>2. D \in ServerMessages
  BY AnswerLemma
<1> HIDE DEF D, R
<1>3. /\ down' \in [Conns -> Seq(ServerMessages)]
      /\ down'[c] = Append(down[c], D)
      /\ \A d \in Conns \ {c} : down'[d] = down[d]
  BY <1>1, <1>2, AnswerAt DEF D
<1>4. Types' /\ Local(c)
  BY <1>1, <1>3 DEF Types, Local
<1>5. CASE client[c] = "reply"
  <2>1. c \in granted /\ down[c] \in {<<R>>, <<R, D>>}
    BY <1>1, <1>5 DEF Talk, AtReply, Granted, D, R
  <2>2. down[c] = <<R>>
    <3>1. Len(<<R, D>>) = 2 /\ <<R, D>>[2] = D
      BY ListLemma
    <3>2. 2 \in 1 .. 2
      OBVIOUS
    <3> QED
      BY <1>1, <2>1, <3>1, <3>2 DEF D
  <2>3. down'[c] = <<R, D>>
    BY <1>3, <2>2, ListLemma
  <2>4. Talk(c)'
    BY <1>1, <1>5, <2>1, <2>3 DEF Talk, AtReply, Granted, D, R
  <2> QED
    BY <1>4, <2>4, LocalLemma
<1>6. CASE client[c] = "ok"
  <2>1. c \in granted /\ (down[c] = <<>> \/ down[c] = <<D>>)
    BY <1>1, <1>6 DEF Talk, AtOk, D
  <2>2. down[c] = <<>>
    <3>1. Len(<<D>>) = 1 /\ <<D>>[1] = D
      BY ListLemma
    <3>2. 1 \in 1 .. 1
      OBVIOUS
    <3> QED
      BY <1>1, <2>1, <3>1, <3>2 DEF D
  <2>3. down'[c] = <<D>>
    BY <1>3, <2>2, ListLemma
  <2>4. Talk(c)'
    BY <1>1, <1>6, <2>1, <2>3 DEF Talk, AtOk, D
  <2> QED
    BY <1>4, <2>4, LocalLemma
<1> QED
  BY <1>1, <1>5, <1>6

\* The accept loop starts the task of a connection.
LEMMA AcceptTalk ==
  ASSUME TalkInv, NEW c \in Conns, Accept(c)
  PROVE  TalkInv'
<1>1. /\ Types /\ Talk(c) /\ serve[c] = "backlog"
      /\ serve' = [serve EXCEPT ![c] = "greeting"]
      /\ UNCHANGED <<required, client, account, up, down, shown, granted>>
  BY DEF TalkInv, Accept, peers, wire
<1>2. serve'[c] = "greeting" /\ Types' /\ Local(c)
  BY <1>1 DEF Types, Local, Running, Handshake
<1>3. Talk(c)'
  BY <1>1, <1>2 DEF Talk, AtMethod, AtStatus, AtReply, AtOk, method
<1> QED
  BY <1>2, <1>3, LocalLemma

\* The other ways in which a task ends.
LEMMA EndingsTalk ==
  ASSUME TalkInv, NEW c \in Conns,
         \/ HandshakeEnds(c) \/ Refuse(c) \/ StopOnShutdown(c) \/ SessionEnds(c)
         \/ \E allowed \in BOOLEAN : DropAccepted(c, allowed)
  PROVE  TalkInv'
<1> USE DEF peers
<1>1. Types /\ Talk(c)
  BY DEF TalkInv
<1>2. CASE HandshakeEnds(c)
  BY <1>2, EndTalk DEF HandshakeEnds, Handshake
<1>3. CASE StopOnShutdown(c)
  BY <1>3, EndTalk DEF StopOnShutdown
<1>4. CASE SessionEnds(c)
  BY <1>4, EndTalk DEF SessionEnds
<1>5. ASSUME NEW allowed \in BOOLEAN, DropAccepted(c, allowed) PROVE TalkInv'
  BY <1>5, EndTalk DEF DropAccepted
<1>6. CASE Refuse(c)
  <2>1. /\ serve[c] \in {"connect", "associate"} /\ End(c) /\ Answer(c, Reply("failure"))
        /\ UNCHANGED <<required, client, account, granted>>
    BY <1>6 DEF Refuse
  <2>2. \/ client[c] \in {"stranger", "closed"}
        \/ client[c] = "reply" /\ down[c] = <<>>
    BY <1>1, <2>1 DEF Talk, AtMethod, AtStatus, AtReply, AtOk, Types, ClientPcs
  <2>3. Reply("failure") \in ServerMessages
    BY AnswerLemma
  <2> QED
    BY <2>1, <2>2, <2>3, EndAnswerTalk
<1> QED
  BY <1>2, <1>3, <1>4, <1>5, <1>6

------------------------------------------------------------------------------
\* Somebody connects: a program with the library, or a stranger.
LEMMA DialTalk ==
  ASSUME TalkInv, NEW c \in Conns, (\E a \in Accounts : Dial(c, a)) \/ Stranger(c)
  PROVE  TalkInv'
<1>1. Types /\ Talk(c) /\ client[c] = "absent"
  BY DEF TalkInv, Dial, Stranger
<1>2. up[c] = <<>> /\ down[c] = <<>>
  BY <1>1 DEF Talk
<1>3. /\ UNCHANGED <<required, up, down, shown, granted>>
      /\ serve' = [serve EXCEPT ![c] = "backlog"]
      /\ \E a \in Accounts : account' = account \/ account' = [account EXCEPT ![c] = a]
      /\ \E to \in {"greet", "stranger"} : client' = [client EXCEPT ![c] = to]
  BY DEF Dial, Stranger, wire, Accounts
<1>4. PICK to \in {"greet", "stranger"} : client' = [client EXCEPT ![c] = to]
  BY <1>3
<1>5. PICK a \in Accounts : account' = account \/ account' = [account EXCEPT ![c] = a]
  BY <1>3
<1>6. Types'
  BY <1>1, <1>3, <1>4, <1>5, ZenonT(40) DEF Types, ClientPcs
<1>7. Local(c)
  BY <1>1, <1>3, <1>4, <1>5 DEF Types, Local
<1>8. client'[c] = to /\ serve'[c] = "backlog" /\ up'[c] = <<>> /\ down'[c] = <<>>
  BY <1>1, <1>2, <1>3, <1>4 DEF Types
<1>9. Talk(c)'
  BY <1>8 DEF Talk
<1> QED
  BY <1>6, <1>7, <1>9, LocalLemma

\* A stranger sends what it likes.
LEMMA StrangerTalk ==
  ASSUME TalkInv, NEW c \in Conns, NEW m \in Messages, StrangerSends(c, m)
  PROVE  TalkInv'
<1>1. /\ Types /\ Talk(c) /\ client[c] = "stranger" /\ Write(c, m) /\ Show(c, m)
      /\ UNCHANGED <<required, client, account, serve, down, granted>>
  BY DEF TalkInv, StrangerSends
<1>2. up' \in [Conns -> Seq(Messages)] /\ \A d \in Conns \ {c} : up'[d] = up[d]
  BY <1>1, WriteAt
<1>3. Types' /\ Local(c)
  BY <1>1, <1>2 DEF Types, Local, Show
<1>4. client'[c] = "stranger" /\ down'[c] = <<>>
  BY <1>1 DEF Talk
<1> QED
  BY <1>3, <1>4, GoneTalk, LocalLemma

\* The library gives up, or its user does.
LEMMA LeaveTalk ==
  ASSUME TalkInv, NEW c \in Conns, Leave(c), UNCHANGED <<required, serve, up, shown>>
  PROVE  TalkInv'
<1>1. Types
  BY DEF TalkInv
<1>2. /\ client' \in [Conns -> ClientPcs] /\ account' \in [Conns -> Accounts]
      /\ down' \in [Conns -> Seq(ServerMessages)] /\ granted' \in SUBSET Conns
      /\ client'[c] = "closed" /\ down'[c] = <<>>
      /\ \A d \in Conns \ {c} :
           /\ client'[d] = client[d] /\ account'[d] = account[d] /\ down'[d] = down[d]
           /\ d \in granted' <=> d \in granted
  BY <1>1, LeaveAt
<1>3. Types' /\ Local(c)
  BY <1>1, <1>2 DEF Types, Local
<1> QED
  BY <1>2, <1>3, GoneTalk, LocalLemma

\* The library greets.
LEMMA GreetTalk ==
  ASSUME TalkInv, NEW c \in Conns, Greet(c)
  PROVE  TalkInv'
<1> DEFINE m == Greeting({method(c)})
<1>1. /\ Types /\ Talk(c) /\ client[c] = "greet"
      /\ client' = [client EXCEPT ![c] = "method"]
      /\ UNCHANGED <<required, account, serve, down, shown, granted>>
      /\ Write(c, m)
  BY DEF TalkInv, Greet, lifecycle
<1>2. m \in Messages
  <2>1. {method(c)} \in SUBSET {0, 2}
    BY DEF method
  <2> QED
    BY <2>1, MessageLemma
<1> HIDE DEF m
<1>3. /\ up' \in [Conns -> Seq(Messages)]
      /\ up'[c] = IF serve[c] = "ended" THEN up[c] ELSE Append(up[c], m)
      /\ \A d \in Conns \ {c} : up'[d] = up[d]
  BY <1>1, <1>2, WriteAt
<1>4. Types' /\ Local(c)
  BY <1>1, <1>3 DEF Types, Local, ClientPcs
<1>5. client'[c] = "method" /\ serve'[c] = serve[c] /\ down'[c] = down[c]
  BY <1>1 DEF Types
<1>6. serve[c] \in {"backlog", "greeting", "ended"} /\ up[c] = <<>> /\ down[c] = <<>>
  BY <1>1 DEF Talk
<1>7. serve[c] # "ended" => up'[c] = <<m>>
  BY <1>3, <1>6, ListLemma
<1>8. AtMethod(c)'
  <2>1. m = Greeting({method(c)'})
    BY <1>1 DEF m, method
  <2> QED
    BY <1>5, <1>6, <1>7, <2>1 DEF AtMethod
<1>9. Talk(c)'
  BY <1>5, <1>8 DEF Talk
<1> QED
  BY <1>4, <1>9, LocalLemma

\* The library reads a message it wants and sends the next.
LEMMA AskLemma ==
  ASSUME TalkInv, NEW c \in Conns, NEW to \in {"status", "reply"}, NEW m \in Messages,
         down[c] # <<>>, Become(c, to), Write(c, m), UNCHANGED <<required, serve>>,
         shown' \in SUBSET Conns
  PROVE  /\ Types' /\ Local(c)
         /\ client'[c] = to /\ serve'[c] = serve[c] /\ account'[c] = account[c]
         /\ down'[c] = Tail(down[c])
         /\ up'[c] = IF serve[c] = "ended" THEN up[c] ELSE Append(up[c], m)
<1>1. Types /\ to \in ClientPcs
  BY DEF TalkInv, ClientPcs
<1>2. /\ client' \in [Conns -> ClientPcs] /\ account' = account
      /\ down' \in [Conns -> Seq(ServerMessages)] /\ granted' = granted
      /\ client'[c] = to /\ down'[c] = Tail(down[c])
      /\ \A d \in Conns \ {c} : client'[d] = client[d] /\ down'[d] = down[d]
  BY <1>1, BecomeAt
<1>3. /\ up' \in [Conns -> Seq(Messages)]
      /\ up'[c] = IF serve[c] = "ended" THEN up[c] ELSE Append(up[c], m)
      /\ \A d \in Conns \ {c} : up'[d] = up[d]
  BY <1>1, WriteAt
<1> QED
  BY <1>1, <1>2, <1>3 DEF Types, Local

\* The library sends its request, after the method or after the status.
LEMMA RequestTalk ==
  ASSUME TalkInv, NEW c \in Conns, NEW command \in {"connect", "associate"},
         Become(c, "reply"), Write(c, Request(command)),
         UNCHANGED <<required, serve, shown>>,
         NEW m, down[c] = <<m>>,
         serve[c] = "ended" \/ (serve[c] = "request" /\ up[c] = <<>>)
  PROVE  TalkInv'
<1> DEFINE r == Request(command)
<1>1. r \in Messages
  BY MessageLemma DEF Commands
<1> HIDE DEF r
<1>2. down[c] # <<>> /\ shown' \in SUBSET Conns
  BY ListLemma DEF TalkInv, Types
<1>3. /\ Types' /\ Local(c)
      /\ client'[c] = "reply" /\ serve'[c] = serve[c] /\ down'[c] = Tail(down[c])
      /\ up'[c] = IF serve[c] = "ended" THEN up[c] ELSE Append(up[c], r)
  BY <1>1, <1>2, AskLemma DEF r
<1>4. down'[c] = <<>> /\ (serve[c] = "request" => up'[c] = <<r>>)
  <2>1. Tail(<<m>>) = <<>> /\ Append(<<>>, r) = <<r>>
    BY ListLemma
  <2>2. serve[c] = "request" => up'[c] = Append(up[c], r) /\ up[c] = <<>>
    BY <1>3
  <2> QED
    BY <1>3, <2>1, <2>2
<1>5. Talk(c)'
  BY <1>3, <1>4 DEF Talk, AtReply, r
<1> QED
  BY <1>3, <1>5, LocalLemma

\* The library learns the method.
LEMMA TakeMethodTalk ==
  ASSUME TalkInv, NEW c \in Conns, NEW command \in {"connect", "associate"},
         TakeMethod(c, command)
  PROVE  TalkInv'
<1>1. /\ Types /\ Talk(c) /\ client[c] = "method" /\ down[c] # <<>>
      /\ UNCHANGED <<required, serve>>
  BY DEF TalkInv, TakeMethod, Take
<1>2. /\ \/ serve[c] = "ended"
         \/ up[c] = <<>> /\ serve[c] = (IF selected = 2 THEN "auth" ELSE "request")
      /\ down[c] = <<Method(selected)>> \/ down[c] = <<Method(255)>>
      /\ serve[c] # "ended" => down[c] = <<Method(selected)>>
  BY <1>1 DEF Talk, AtMethod
<1>3. \E x : down[c] = <<x>>
  BY <1>2
<1>4. serve[c] # "ended" => Head(down[c]) = Method(selected)
  BY <1>2, ListLemma
<1>5. CASE Leave(c) /\ UNCHANGED <<up, shown>>
  BY <1>1, <1>5, LeaveTalk
<1>6. CASE /\ Head(down[c]) = Method(0) /\ Become(c, "reply")
           /\ Write(c, Request(command)) /\ UNCHANGED shown
  <2>1. serve[c] # "ended" => selected = 0
    BY <1>4, <1>6, AnswerLemma
  <2>2. serve[c] = "ended" \/ (serve[c] = "request" /\ up[c] = <<>>)
    BY <1>2, <2>1
  <2> QED
    BY <1>1, <1>3, <1>6, <2>2, RequestTalk
<1>7. CASE /\ Head(down[c]) = Method(2) /\ method(c) = 2 /\ Become(c, "status")
           /\ Write(c, Auth(account[c])) /\ Show(c, Auth(account[c]))
  <2> DEFINE m == Auth(account[c])
  <2>1. m \in Messages
    <3>1. account[c] \in {"right", "wrong"}
      BY <1>1, <1>7 DEF method, Types, Accounts
    <3> QED
      BY <3>1, MessageLemma
  <2>2. shown' \in SUBSET Conns
    BY <1>1, <1>7 DEF Show, Types
  <2> HIDE DEF m
  <2>3. /\ Types' /\ Local(c)
        /\ client'[c] = "status" /\ serve'[c] = serve[c] /\ account'[c] = account[c]
        /\ down'[c] = Tail(down[c])
        /\ up'[c] = IF serve[c] = "ended" THEN up[c] ELSE Append(up[c], m)
    BY <1>1, <1>7, <2>1, <2>2, AskLemma DEF m
  <2>4. serve[c] # "ended" => selected = 2
    BY <1>4, <1>7, AnswerLemma
  <2>5. serve[c] = "ended" \/ (serve[c] = "auth" /\ up[c] = <<>>)
    BY <1>2, <2>4
  <2>6. down'[c] = <<>> /\ (serve[c] = "auth" => up'[c] = <<m>>)
    <3>1. PICK x : down[c] = <<x>>
      BY <1>3
    <3>2. Tail(<<x>>) = <<>> /\ Append(<<>>, m) = <<m>>
      BY ListLemma
    <3>3. serve[c] = "auth" => up'[c] = Append(up[c], m) /\ up[c] = <<>>
      BY <2>3, <2>5
    <3> QED
      BY <2>3, <3>1, <3>2, <3>3
  <2>7. Talk(c)'
    BY <2>3, <2>5, <2>6 DEF Talk, AtStatus, m
  <2> QED
    BY <2>3, <2>7, LocalLemma
<1> QED
  BY <1>5, <1>6, <1>7 DEF TakeMethod

\* The library learns whether its credentials are right.
LEMMA TakeStatusTalk ==
  ASSUME TalkInv, NEW c \in Conns, NEW command \in {"connect", "associate"},
         TakeStatus(c, command)
  PROVE  TalkInv'
<1>1. /\ Types /\ Talk(c) /\ client[c] = "status" /\ down[c] # <<>>
      /\ UNCHANGED <<required, serve, shown>>
  BY DEF TalkInv, TakeStatus, Take
<1>2. /\ serve[c] = "ended" \/ (serve[c] = "request" /\ up[c] = <<>>)
      /\ \E x : down[c] = <<x>>
  BY <1>1 DEF Talk, AtStatus
<1>3. CASE Leave(c) /\ UNCHANGED up
  BY <1>1, <1>3, LeaveTalk
<1>4. CASE Become(c, "reply") /\ Write(c, Request(command))
  BY <1>1, <1>2, <1>4, RequestTalk
<1> QED
  BY <1>3, <1>4 DEF TakeStatus

\* The call returns.
LEMMA TakeReplyTalk ==
  ASSUME TalkInv, NEW c \in Conns, TakeReply(c)
  PROVE  TalkInv'
<1> DEFINE R == Reply("success")  D == Data
<1>1. /\ Types /\ Talk(c) /\ client[c] = "reply" /\ down[c] # <<>>
      /\ UNCHANGED <<required, serve, up, shown>>
  BY DEF TalkInv, TakeReply, Take
<1>2. CASE Leave(c)
  BY <1>1, <1>2, LeaveTalk
<1>3. CASE Head(down[c]) = R /\ Become(c, "ok")
  <2>1. ASSUME NEW s \in {"failure", "address", "command"}, down[c] = <<Reply(s)>> PROVE FALSE
    <3>1. Reply(s) = R
      BY <1>3, <2>1, ListLemma
    <3>2. Reply(s).status = s /\ R.status = "success"
      BY AnswerLemma
    <3> QED
      BY <3>1, <3>2
  <2>2. /\ serve[c] \in {"relay", "associated", "ended"} /\ c \in granted
        /\ down[c] \in {<<R>>, <<R, D>>}
    BY <1>1, <2>1 DEF Talk, AtReply, Granted
  <2>3. "ok" \in ClientPcs
    BY DEF ClientPcs
  <2> HIDE DEF R, D
  <2>4. /\ client' \in [Conns -> ClientPcs] /\ account' = account
        /\ down' \in [Conns -> Seq(ServerMessages)] /\ granted' = granted
        /\ client'[c] = "ok" /\ down'[c] = Tail(down[c])
        /\ \A d \in Conns \ {c} : client'[d] = client[d] /\ down'[d] = down[d]
    BY <1>1, <1>3, <2>3, BecomeAt
  <2>5. Types' /\ Local(c)
    BY <1>1, <2>4 DEF Types, Local
  <2>6. down'[c] = <<>> \/ down'[c] = <<D>>
    <3>1. Tail(<<R>>) = <<>> /\ Tail(<<R, D>>) = <<D>>
      BY ListLemma
    <3> QED
      BY <2>2, <2>4, <3>1
  <2>7. serve'[c] = serve[c]
    BY <1>1
  <2>8. Talk(c)'
    BY <2>2, <2>4, <2>6, <2>7 DEF Talk, AtOk, D
  <2> QED
    BY <2>5, <2>8, LocalLemma
<1> QED
  BY <1>2, <1>3 DEF TakeReply

\* The end of run_async drops what waits in the backlog.
LEMMA ReturnTalk == ASSUME TalkInv, Return PROVE TalkInv'
<1>1. Types /\ UNCHANGED <<required, client, account, down, granted>> /\ DropBacklog
  BY DEF TalkInv, Return, peers
<1>2. <<>> \in Seq(Messages)
  OBVIOUS
<1>3. Types'
  BY <1>1, <1>2 DEF Types, DropBacklog
<1>4. ASSUME NEW c \in Conns PROVE Talk(c)'
  <2>1. Talk(c)
    BY DEF TalkInv
  <2>2. /\ serve'[c] = IF serve[c] = "backlog" THEN "ended" ELSE serve[c]
        /\ up'[c] = IF serve[c] = "backlog" THEN <<>> ELSE up[c]
    BY <1>1 DEF DropBacklog
  <2>3. CASE serve[c] # "backlog"
    BY <1>1, <2>1, <2>2, <2>3
       DEF Talk, AtMethod, AtStatus, AtReply, AtOk, Granted, method, selected
  <2>4. CASE serve[c] = "backlog"
    BY <1>1, <2>1, <2>2, <2>4
       DEF Talk, AtMethod, AtStatus, AtReply, AtOk, Granted, method, selected
  <2> QED
    BY <2>3, <2>4
<1> QED
  BY <1>3, <1>4 DEF TalkInv

\* Steps that leave the connections alone.
LEMMA StillTalk ==
  ASSUME TalkInv,
         UNCHANGED <<required, client, account, serve, up, down, shown, granted>>
  PROVE  TalkInv'
<1>1. Types'
  BY DEF TalkInv, Types
<1>2. ASSUME NEW c \in Conns PROVE Talk(c)'
  <2>1. Talk(c)
    BY DEF TalkInv
  <2> QED
    BY <2>1 DEF Talk, AtMethod, AtStatus, AtReply, AtOk, Granted, method, selected
<1> QED
  BY <1>1, <1>2 DEF TalkInv

LEMMA TalkInit == Init => TalkInv
<1> SUFFICES ASSUME Init PROVE TalkInv
  OBVIOUS
<1>1. <<>> \in Seq(Messages) /\ <<>> \in Seq(ServerMessages)
  OBVIOUS
<1>2. Types
  BY <1>1 DEF Init, Types, ClientPcs, Accounts
<1>3. ASSUME NEW c \in Conns PROVE Talk(c)
  BY DEF Init, Talk
<1> QED
  BY <1>2, <1>3 DEF TalkInv

LEMMA TalkNext == TalkInv /\ [Next]_vars => TalkInv'
<1> SUFFICES ASSUME TalkInv, [Next]_vars PROVE TalkInv'
  OBVIOUS
<1> USE DEF lifecycle, wire, peers
<1>1. CASE \/ RequestShutdown \/ UdpStops \/ UdpFails \/ Over \/ UNCHANGED vars
           \/ \E failed \in BOOLEAN : Break(failed)
  <2>1. UNCHANGED <<required, client, account, serve, up, down, shown, granted>>
    BY <1>1 DEF RequestShutdown, UdpStops, UdpFails, Over, Break, vars
  <2> QED
    BY <2>1, StillTalk
<1>2. CASE Return
  BY <1>2, ReturnTalk
<1>3. ASSUME NEW c \in Conns,
             \/ \E a \in Accounts : Dial(c, a)
             \/ Stranger(c) \/ LibraryStep(c) \/ CallFails(c) \/ HangUp(c)
             \/ \E m \in Messages : StrangerSends(c, m)
      PROVE  TalkInv'
  <2>1. CASE (\E a \in Accounts : Dial(c, a)) \/ Stranger(c)
    BY <2>1, DialTalk
  <2>2. CASE \E m \in Messages : StrangerSends(c, m)
    BY <2>2, StrangerTalk
  <2>3. CASE CallFails(c) \/ HangUp(c)
    <3>1. Leave(c) /\ UNCHANGED <<required, serve, up, shown>>
      BY <2>3 DEF CallFails, HangUp
    <3> QED
      BY <3>1, LeaveTalk
  <2>4. CASE LibraryStep(c)
    BY <2>4, GreetTalk, TakeMethodTalk, TakeStatusTalk, TakeReplyTalk DEF LibraryStep
  <2> QED
    BY <1>3, <2>1, <2>2, <2>3, <2>4
<1>4. ASSUME NEW c \in Conns,
             \/ TaskStep(c) \/ RelayData(c) \/ SessionEnds(c) \/ Accept(c)
             \/ \E allowed \in BOOLEAN : DropAccepted(c, allowed)
      PROVE  TalkInv'
  BY <1>4, ReadGreetingTalk, ReadAuthTalk, ReadRequestTalk, ServeTalk, RelayDataTalk,
     AcceptTalk, EndingsTalk DEF TaskStep
<1> QED
  BY <1>1, <1>2, <1>3, <1>4 DEF Next

LEMMA TalkAlways == Spec => []TalkInv
BY TalkInit, TalkNext, PTL DEF Spec

\* The library and the server agree: a call that returned a stream was granted
\* one, and what is left to read is data of the application (client.rs 110-193,
\* handle_client).
THEOREM CallsAgree == Spec => []InSync
<1>1. TalkInv => InSync
  <2> SUFFICES ASSUME TalkInv, NEW c \in Conns, client[c] = "ok"
               PROVE  /\ c \in granted
                      /\ \A i \in 1 .. Len(down[c]) : down[c][i] = Data
    BY DEF InSync
  <2> DEFINE D == Data
  <2>1. c \in granted /\ (down[c] = <<>> \/ down[c] = <<D>>)
    BY DEF TalkInv, Talk, AtOk
  <2> HIDE DEF D
  <2>2. Len(<<>>) = 0 /\ Len(<<D>>) = 1 /\ <<D>>[1] = D
    BY ListLemma
  <2>3. CASE down[c] = <<>>
    BY <2>1, <2>2, <2>3
  <2>4. CASE down[c] = <<D>>
    <3>1. \A i \in 1 .. 1 : i = 1
      OBVIOUS
    <3> QED
      BY <2>1, <2>2, <2>4, <3>1 DEF D
  <2> QED
    BY <2>1, <2>3, <2>4
<1> QED
  BY <1>1, TalkAlways, PTL

\* The library never waits for an answer while the task of its connection
\* waits for its message (client.rs 110-193 against negotiate, handle_client).
THEOREM NobodyWaitsForNobody == Spec => []NoMutualWait
<1>1. TalkInv => NoMutualWait
  <2> SUFFICES ASSUME TalkInv, NEW c \in Conns, client[c] \in {"method", "status", "reply"},
                      down[c] = <<>>, serve[c] \in Handshake, up[c] = <<>>
               PROVE  FALSE
    BY DEF NoMutualWait
  <2>1. Talk(c) /\ \A x : <<x>> # <<>>
    BY ListLemma DEF TalkInv
  <2> QED
    BY <2>1 DEF Talk, AtMethod, AtStatus, AtReply, Handshake
<1> QED
  BY <1>1, TalkAlways, PTL

------------------------------------------------------------------------------
\* No step but an acceptance starts a task.
LEMMA SlotsStep ==
  ASSUME Types, Slots, [Next]_vars
  PROVE  Slots'
<1>0. MaxClients \in Nat
  BY SessionAssumption
<1>1. ASSUME \A d \in Conns : serve'[d] \in Running => serve[d] \in Running PROVE Slots'
  <2>1. InUse' \in SUBSET InUse
    BY <1>1 DEF InUse
  <2>2. IsFiniteSet(InUse') /\ Cardinality(InUse') <= Cardinality(InUse)
    BY <2>1, FS_Subset DEF Slots
  <2>3. Cardinality(InUse) \in Nat /\ Cardinality(InUse') \in Nat
    BY <2>2, FS_CardinalityType DEF Slots
  <2> QED
    BY <1>0, <2>2, <2>3 DEF Slots
<1>2. ASSUME NEW c \in Conns, Accept(c) PROVE Slots'
  <2>1. /\ serve' = [serve EXCEPT ![c] = "greeting"] /\ Cardinality(InUse) < MaxClients
        /\ c \notin InUse
    BY <1>2 DEF Accept, InUse, Running, Handshake
  <2>2. InUse' = InUse \cup {c}
    BY <2>1 DEF Types, InUse, Running, Handshake
  <2>3. IsFiniteSet(InUse \cup {c}) /\ Cardinality(InUse \cup {c}) = Cardinality(InUse) + 1
    BY <2>1, FS_AddElement DEF Slots
  <2>4. Cardinality(InUse) \in Nat
    BY FS_CardinalityType DEF Slots
  <2> QED
    BY <1>0, <2>1, <2>2, <2>3, <2>4 DEF Slots
<1>3. ASSUME UNCHANGED serve PROVE Slots'
  BY <1>1, <1>3
<1>4. ASSUME NEW c \in Conns, NEW to,
             serve' = [serve EXCEPT ![c] = to], to \notin Running \/ serve[c] \in Running
      PROVE  Slots'
  <2>1. \A d \in Conns : serve'[d] \in Running => serve[d] \in Running
    BY <1>4 DEF Types
  <2> QED
    BY <1>1, <2>1
<1>5. ASSUME NEW c \in Conns, End(c) PROVE Slots'
  <2>1. "ended" \notin Running
    BY DEF Running, Handshake
  <2> QED
    BY <1>4, <1>5, <2>1 DEF End
<1>6. ASSUME NEW c \in Conns, NEW to, Go(c, to), serve[c] \in Running PROVE Slots'
  BY <1>4, <1>6 DEF Go
<1>7. CASE Return
  BY <1>1, <1>7 DEF Return, DropBacklog, Running, Handshake
<1> USE DEF lifecycle, wire, peers
<1>8. CASE \/ RequestShutdown \/ UdpStops \/ UdpFails \/ Over \/ UNCHANGED vars
           \/ \E failed \in BOOLEAN : Break(failed)
  BY <1>3, <1>8 DEF RequestShutdown, UdpStops, UdpFails, Over, Break, vars
<1>9. ASSUME NEW c \in Conns, (\E a \in Accounts : Dial(c, a)) \/ Stranger(c) PROVE Slots'
  <2>1. serve' = [serve EXCEPT ![c] = "backlog"] /\ "backlog" \notin Running
    BY <1>9 DEF Dial, Stranger, Running, Handshake
  <2> QED
    BY <1>4, <2>1
<1>10. ASSUME NEW c \in Conns,
              \/ LibraryStep(c) \/ CallFails(c) \/ HangUp(c) \/ RelayData(c)
              \/ \E m \in Messages : StrangerSends(c, m)
       PROVE  Slots'
  <2>1. UNCHANGED serve
    BY <1>10 DEF LibraryStep, Greet, TakeMethod, TakeStatus, TakeReply, CallFails, HangUp,
                 RelayData, StrangerSends
  <2> QED
    BY <1>3, <2>1
<1>11. ASSUME NEW c \in Conns, TaskStep(c) PROVE Slots'
  <2>1. CASE ReadGreeting(c) \/ ReadAuth(c) \/ ReadRequest(c)
    <3>1. serve[c] \in Running /\ (End(c) \/ \E to : Go(c, to))
      BY <2>1 DEF ReadGreeting, ReadAuth, ReadRequest, Receive, Running, Handshake
    <3> QED
      BY <1>5, <1>6, <3>1
  <2>2. CASE HandshakeEnds(c) \/ Refuse(c) \/ StopOnShutdown(c)
    BY <1>5, <2>2 DEF HandshakeEnds, Refuse, StopOnShutdown
  <2>3. CASE Serve(c)
    <3>1. /\ serve[c] \in Running
          /\ \E to : serve' = [serve EXCEPT ![c] = to]
      BY <2>3 DEF Serve, Running
    <3> QED
      BY <1>4, <3>1
  <2> QED
    BY <1>11, <2>1, <2>2, <2>3 DEF TaskStep
<1>12. ASSUME NEW c \in Conns,
              SessionEnds(c) \/ \E allowed \in BOOLEAN : DropAccepted(c, allowed)
       PROVE  Slots'
  BY <1>5, <1>12 DEF SessionEnds, DropAccepted
<1> QED
  BY <1>2, <1>7, <1>8, <1>9, <1>10, <1>11, <1>12 DEF Next

\* Every variable has its type, and there are never more tasks than permits,
\* however many connections are opened (run_async).
THEOREM TypeCorrect == Spec => []TypeOK
<1> DEFINE LifeTypes ==
             /\ loop \in {"accepting", "stopping", "returned"}
             /\ udp \in {"running", "ok", "error"} /\ result \in {"none", "ok", "error"}
             /\ shutdown \in BOOLEAN /\ requested \in BOOLEAN
<1>1. Init => Slots /\ LifeTypes
  <2> SUFFICES ASSUME Init PROVE Slots /\ LifeTypes
    OBVIOUS
  <2>1. InUse = {}
    BY DEF Init, InUse, Running, Handshake
  <2> QED
    <3>1. IsFiniteSet({}) /\ Cardinality({}) = 0
      BY FS_EmptySet
    <3>2. Slots
      BY <2>1, <3>1, SessionAssumption DEF Slots
    <3> QED
      BY <3>2 DEF Init
<1>2. LifeTypes /\ [Next]_vars => LifeTypes'
  <2> SUFFICES ASSUME LifeTypes, [Next]_vars PROVE LifeTypes'
    OBVIOUS
  <2>1. CASE UNCHANGED lifecycle
    BY <2>1 DEF lifecycle
  <2>2. CASE \/ RequestShutdown \/ UdpStops \/ UdpFails \/ Return \/ Over \/ UNCHANGED vars
             \/ \E failed \in BOOLEAN : Break(failed)
    BY <2>2 DEF RequestShutdown, UdpStops, UdpFails, Return, Over, Break, vars
  <2>3. ASSUME NEW c \in Conns,
               \/ \E a \in Accounts : Dial(c, a)
               \/ LibraryStep(c) \/ CallFails(c) \/ HangUp(c) \/ Stranger(c)
               \/ \E m \in Messages : StrangerSends(c, m)
               \/ TaskStep(c) \/ RelayData(c) \/ SessionEnds(c) \/ Accept(c)
               \/ \E allowed \in BOOLEAN : DropAccepted(c, allowed)
        PROVE  UNCHANGED lifecycle
    BY <2>3 DEF Dial, LibraryStep, Greet, TakeMethod, TakeStatus, TakeReply, CallFails,
                HangUp, Stranger, StrangerSends, TaskStep, ReadGreeting, ReadAuth,
                ReadRequest, Receive, HandshakeEnds, Serve, Refuse, StopOnShutdown,
                RelayData, SessionEnds, Accept, DropAccepted
  <2> QED
    BY <2>1, <2>2, <2>3 DEF Next
<1>3. TalkInv /\ Slots /\ LifeTypes => TypeOK
  BY DEF TalkInv, Types, Slots, TypeOK
<1>4. TalkInv /\ Slots /\ [Next]_vars => Slots'
  BY SlotsStep DEF TalkInv
<1> HIDE DEF LifeTypes
<1> QED
  BY <1>1, <1>2, <1>3, <1>4, TalkAlways, PTL DEF Spec
=============================================================================
