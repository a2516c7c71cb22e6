------------------------------- MODULE Connect -------------------------------
(***************************************************************************)
(* A CONNECT request up to the start of the relay: the lookup of the       *)
(* target, the Happy Eyeballs race over its addresses (happy_eyeballs.rs)  *)
(* and the reply that the client gets (connect, server.rs).                *)
(*                                                                         *)
(* An attempt is named by its position in the interleaved list.  How an    *)
(* attempt would end is fixed when the addresses are known; when it ends,  *)
(* and in which order the race sees it, is not.                            *)
(***************************************************************************)
EXTENDS Naturals, Sequences

CONSTANTS MaxAddresses   \* bound on the addresses of a lookup

ASSUME AddressesAssumption == MaxAddresses \in Nat \ {0}

VARIABLES phase,       \* "lookup", "race", "reply", "relay" or "ended"
          addresses,   \* what the lookup returned
          ordered,     \* the order of the race
          outcome,     \* [attempts -> how the attempt ends]
          next,        \* the next candidate, beyond the last when none
          finished,    \* attempts that ended and were not joined yet
          joined,      \* failed attempts taken from the join set
          last_error,  \* error of the attempt joined last
          winner,      \* the attempt whose stream is used, 0 before
          timed_out,   \* total_timeout has expired
          reply        \* what the client was told, "none" before

race == <<addresses, ordered, outcome, next, finished, joined, last_error>>
vars == <<phase, addresses, ordered, outcome, next, finished, joined,
          last_error, winner, timed_out, reply>>

Families == {"v4", "v6"}
Errors   == {"refused", "unreachable"}
Outcomes == Errors \cup {"ok", "hang"}

\* The addresses of a lookup: their families, told apart by their position.
Lists == UNION {{[i \in 1 .. n |-> [family |-> f[i], pos |-> i]] :
                   f \in [1 .. n -> Families]} : n \in 1 .. MaxAddresses}

\* The addresses of a family, in the order of the list.
Keep(kept, address, family) ==
  IF address.family = family THEN Append(kept, address) ELSE kept

OfFamily(list, family) ==
  LET kept[n \in 0 .. Len(list)] ==
        IF n = 0 THEN <<>> ELSE Keep(kept[n - 1], list[n], family)
  IN  kept[Len(list)]

\* The n-th element of a list as a list, empty when the list has run out.
Nth(list, n) == IF n <= Len(list) THEN <<list[n]>> ELSE <<>>

\* A round adds the next address of each family.
Round(list, v6, v4, n) == list \o Nth(v6, n) \o Nth(v4, n)

\* Mutant: the rounds end when the IPv6 addresses have run out.
interleave_while_v6(list) ==
  LET v6 == OfFamily(list, "v6")
      v4 == OfFamily(list, "v4")
      rounds[n \in 0 .. Len(list)] ==
        IF n = 0 THEN <<>> ELSE Round(rounds[n - 1], v6, v4, n)
  IN  rounds[IF v6 = <<>> THEN Len(list) ELSE Len(v6)]

\* interleave_addresses: rounds until both lists have run out.
interleave_addresses(list) ==
  LET v6 == OfFamily(list, "v6")
      v4 == OfFamily(list, "v4")
      rounds[n \in 0 .. Len(list)] ==
        IF n = 0 THEN <<>> ELSE Round(rounds[n - 1], v6, v4, n)
  IN  rounds[Len(list)]

Attempts  == 1 .. Len(ordered)
Started   == {i \in Attempts : i < next}
InFlight  == Started \ joined

------------------------------------------------------------------------------
Init ==
  /\ phase = "lookup"
  /\ addresses = <<>> /\ ordered = <<>> /\ outcome = <<>>
  /\ next = 1 /\ finished = {} /\ joined = {}
  /\ last_error = "none" /\ winner = 0 /\ timed_out = FALSE
  /\ reply = "none"

LookupFails ==
  /\ phase = "lookup"
  /\ phase' = "ended"
  /\ reply' = "unreachable"
  /\ UNCHANGED <<race, winner, timed_out>>

\* The race starts with its first attempt under way.
Lookup(list, o) ==
  /\ phase = "lookup"
  /\ phase' = "race"
  /\ addresses' = list
  /\ ordered' = interleave_addresses(list)
  /\ outcome' = o
  /\ next' = 2
  /\ UNCHANGED <<finished, joined, last_error, winner, timed_out, reply>>

\* The network: a connection attempt is accepted or fails.
Finish(i) ==
  /\ phase = "race"
  /\ i \in InFlight \ finished
  /\ outcome[i] # "hang"
  /\ finished' = finished \cup {i}
  /\ UNCHANGED <<phase, addresses, ordered, outcome, next, joined, last_error,
                 winner, timed_out, reply>>

\* join_next yields a stream: the other attempts are aborted.
JoinStream(i) ==
  /\ phase = "race"
  /\ i \in finished /\ outcome[i] = "ok"
  /\ winner' = i
  /\ phase' = "reply"
  /\ UNCHANGED <<race, timed_out, reply>>

\* The attempt after `next` is started, if there is one.
StartNext == next' = IF next \in Attempts THEN next + 1 ELSE next

\* Mutants: a failed attempt waits for the delay, or starts a candidate that
\* does not exist.
JoinErrorWith(i, n) ==
  /\ phase = "race"
  /\ i \in finished /\ outcome[i] # "ok"
  /\ finished' = finished \ {i}
  /\ joined' = joined \cup {i}
  /\ last_error' = outcome[i]
  /\ next' = n
  /\ UNCHANGED <<phase, addresses, ordered, outcome, winner, timed_out, reply>>
JoinErrorWaits(i)   == JoinErrorWith(i, next)
JoinErrorOverrun(i) == JoinErrorWith(i, next + 1)

\* join_next yields an error: the next candidate starts at once.
JoinError(i) ==
  /\ phase = "race"
  /\ i \in finished /\ outcome[i] # "ok"
  /\ finished' = finished \ {i}
  /\ joined' = joined \cup {i}
  /\ last_error' = outcome[i]
  /\ StartNext
  /\ UNCHANGED <<phase, addresses, ordered, outcome, winner, timed_out, reply>>

\* Mutant: one attempt at a time.
DelayUntilIdle ==
  /\ phase = "race"
  /\ next \in Attempts /\ InFlight = {}
  /\ StartNext
  /\ UNCHANGED <<phase, addresses, ordered, outcome, finished, joined,
                 last_error, winner, timed_out, reply>>

\* HAPPY_EYEBALLS_DELAY has passed: the next candidate joins the race.
Delay ==
  /\ phase = "race"
  /\ next \in Attempts
  /\ StartNext
  /\ UNCHANGED <<phase, addresses, ordered, outcome, finished, joined,
                 last_error, winner, timed_out, reply>>

\* Mutant: the race is given up when the last candidate has been started.
RaceFailsEarly ==
  /\ phase = "race"
  /\ next \notin Attempts /\ joined # {}
  /\ reply' = last_error
  /\ phase' = "ended"
  /\ UNCHANGED <<race, winner, timed_out>>

\* No candidate and no attempt is left: the last error decides the reply.
RaceFails ==
  /\ phase = "race"
  /\ next \notin Attempts /\ InFlight = {}
  /\ reply' = last_error
  /\ phase' = "ended"
  /\ UNCHANGED <<race, winner, timed_out>>

\* total_timeout ends the race and drops its attempts.
Deadline ==
  /\ phase = "race"
  /\ timed_out' = TRUE
  /\ reply' = "unreachable"
  /\ phase' = "ended"
  /\ UNCHANGED <<race, winner>>

ReplySuccess ==
  /\ phase = "reply"
  /\ reply' = "success"
  /\ phase' = "relay"
  /\ UNCHANGED <<race, winner, timed_out>>

\* The socket option or the reply fails: the client has gone.
ReplyFails ==
  /\ phase = "reply"
  /\ phase' = "ended"
  /\ UNCHANGED <<race, winner, timed_out, reply>>

\* The select in `connect` drops the request, the relay included.
Shutdown ==
  /\ phase # "ended"
  /\ phase' = "ended"
  /\ UNCHANGED <<race, winner, timed_out, reply>>

Ended == phase = "ended" /\ UNCHANGED vars

Join == \E i \in Attempts : JoinStream(i) \/ JoinError(i)

Next ==
  \/ LookupFails
  \/ \E list \in Lists : \E o \in [1 .. Len(list) -> Outcomes] : Lookup(list, o)
  \/ \E i \in Attempts : Finish(i)
  \/ Join
  \/ Delay
  \/ RaceFails
  \/ Deadline
  \/ ReplySuccess
  \/ ReplyFails
  \/ Shutdown
  \/ Ended

Spec == Init /\ [][Next]_vars

\* The delay passes, the race joins what has finished, and an attempt that
\* does not hang finishes.  Nothing makes the total timeout come.
Fairness ==
  /\ \A i \in 1 .. MaxAddresses : WF_vars(Finish(i))
  /\ WF_vars(Join) /\ WF_vars(Delay) /\ WF_vars(RaceFails)
  /\ WF_vars(ReplySuccess \/ ReplyFails)

FairSpec == Spec /\ Fairness

------------------------------------------------------------------------------
\* Every variable has its type, and what is finished or joined was started.
TypeOK ==
  /\ phase \in {"lookup", "race", "reply", "relay", "ended"}
  /\ Len(ordered) <= MaxAddresses /\ Len(addresses) = Len(ordered)
  /\ phase = "race" => Attempts # {}
  /\ outcome \in [Attempts -> Outcomes]
  /\ next \in 1 .. MaxAddresses + 1
  /\ finished \subseteq Started /\ joined \subseteq Started
  /\ finished \cap joined = {}
  /\ last_error \in Errors \cup {"none"}
  /\ winner \in Attempts \cup {0}
  /\ timed_out \in BOOLEAN
  /\ reply \in {"none", "success", "refused", "unreachable"}

\* The order of the race: every address once, each family in the order of
\* the lookup, IPv6 first, and two neighbours of one family only when the
\* other family has run out (interleave_addresses).
Interleaved ==
  /\ \A f \in Families : OfFamily(ordered, f) = OfFamily(addresses, f)
  /\ \A i \in Attempts \ {1} :
       ordered[i].family = ordered[i - 1].family =>
         \A j \in Attempts : j > i => ordered[j].family = ordered[i].family
  /\ Attempts # {} /\ ordered[1].family = "v4" =>
       \A j \in Attempts : ordered[j].family = "v4"

\* While a candidate waits, some attempt is under way: the select never
\* waits on an empty join set, and a failure never costs the delay.
NeverIdle ==
  phase = "race" /\ next \in Attempts => InFlight # {}

\* The reply tells the truth: success only with a stream, a failure only when
\* the lookup failed, the time ran out, or every single address was tried and
\* failed; "refused" only when some address refused (connect 463-480).
ReplyTruthful ==
  /\ reply = "success" => winner # 0 /\ outcome[winner] = "ok"
  /\ reply \in Errors =>
       \/ Attempts = {} /\ reply = "unreachable"
       \/ timed_out /\ reply = "unreachable"
       \/ /\ joined = Attempts
          /\ \A i \in Attempts : outcome[i] \in Errors
          /\ \E i \in Attempts : outcome[i] = reply

\* If one address accepts, the race ends with a stream however many others
\* hang, unless the total timeout comes first (or the server stops).
GoodAddressWins ==
  (phase = "race" /\ \E i \in Attempts : outcome[i] = "ok")
     ~> (winner # 0 \/ timed_out \/ (phase = "ended" /\ reply = "none"))
=============================================================================
