------------------------------ MODULE TcpRelay ------------------------------
(***************************************************************************)
(* The relay of an established CONNECT (server.rs): forward_bidirectional  *)
(* and its two copy_direction loops, with the idle timeout of the whole    *)
(* connection.  Everything runs in one task; a step is what happens        *)
(* between two awaits.  Bytes are counted, not looked at.                  *)
(*                                                                         *)
(* Without a timeout the code calls tokio's copy_bidirectional, which does *)
(* the same two loops: that is the model with timeout = 0.                 *)
(***************************************************************************)
EXTENDS Naturals

CONSTANTS MaxBytes,   \* bound on the bytes a peer sends
          Buffer,     \* size of the copy buffer (65536)
          Timeouts    \* values of tcp_timeout in ticks, 0 when there is none

ASSUME RelayAssumption ==
  MaxBytes \in Nat /\ Buffer \in Nat \ {0} /\ Timeouts \subseteq Nat

VARIABLES timeout,    \* the configured tcp_timeout
          sent,       \* [Directions -> bytes the sender has written]
          eof,        \* [Directions -> the sender has closed its side]
          held,       \* [Directions -> bytes read and not yet written]
          delivered,  \* [Directions -> bytes written to the receiver]
          copy,       \* [Directions -> where copy_direction is]
          result,     \* "running", or how forward_bidirectional returned
          age,        \* time since the last value was sent on `activity`
          left,       \* time to the deadline of the pending sleep
          activity,   \* "seen", or "new" when the loop has not seen its value
          quiet       \* history: time since a byte was last delivered

streams == <<timeout, sent, eof, held, delivered, copy>>
timer   == <<age, left, activity, quiet>>
vars    == <<timeout, sent, eof, held, delivered, copy, result, age, left, activity,
             quiet>>

Directions == {"c2r", "r2c"}
Other(d)   == IF d = "c2r" THEN "r2c" ELSE "c2r"

Init ==
  /\ timeout \in Timeouts
  /\ sent = [d \in Directions |-> 0]
  /\ eof = [d \in Directions |-> FALSE]
  /\ held = [d \in Directions |-> 0]
  /\ delivered = [d \in Directions |-> 0]
  /\ copy = [d \in Directions |-> "read"]
  /\ result = "running"
  /\ age = 0 /\ left = timeout /\ activity = "seen" /\ quiet = 0

------------------------------------------------------------------------------
(* The peers.                                                              *)
Send(d) ==
  /\ result = "running"
  /\ ~eof[d] /\ sent[d] < MaxBytes
  /\ sent' = [sent EXCEPT ![d] = @ + 1]
  /\ UNCHANGED <<timeout, eof, held, delivered, copy, result, timer>>

CloseWrite(d) ==
  /\ result = "running"
  /\ ~eof[d]
  /\ eof' = [eof EXCEPT ![d] = TRUE]
  /\ UNCHANGED <<timeout, sent, held, delivered, copy, result, timer>>

(* copy_direction.                                                         *)
Unread(d) == sent[d] - (held[d] + delivered[d])

Read(d, n) ==
  /\ result = "running"
  /\ copy[d] = "read"
  /\ n <= Unread(d)
  /\ held' = [held EXCEPT ![d] = n]
  /\ copy' = [copy EXCEPT ![d] = "write"]
  /\ UNCHANGED <<timeout, sent, eof, delivered, result, timer>>

\* Mutant: the writer is shut down only when both peers have closed.
ReadEofBoth(d) ==
  /\ result = "running"
  /\ copy[d] = "read"
  /\ eof[d] /\ eof[Other(d)] /\ Unread(d) = 0
  /\ copy' = [copy EXCEPT ![d] = "done"]
  /\ result' = IF copy[Other(d)] = "done" THEN "done" ELSE "running"
  /\ UNCHANGED <<timeout, sent, eof, held, delivered, timer>>

\* A read of 0 bytes: the writer is shut down and this direction is done;
\* the transfer is over when both are.
ReadEof(d) ==
  /\ result = "running"
  /\ copy[d] = "read"
  /\ eof[d] /\ Unread(d) = 0
  /\ copy' = [copy EXCEPT ![d] = "done"]
  /\ result' = IF copy[Other(d)] = "done" THEN "done" ELSE "running"
  /\ UNCHANGED <<timeout, sent, eof, held, delivered, timer>>

\* Mutant: `write` instead of `write_all`, so a short write counts as all.
WriteShort(d, n) ==
  /\ result = "running"
  /\ copy[d] = "write"
  /\ n <= held[d]
  /\ held' = [held EXCEPT ![d] = @ - n]
  /\ delivered' = [delivered EXCEPT ![d] = @ + n]
  /\ copy' = [copy EXCEPT ![d] = "read"]
  /\ quiet' = 0 /\ age' = 0 /\ activity' = "new"
  /\ UNCHANGED <<timeout, sent, eof, result, left>>

\* write_all delivers what the receiver takes, maybe in several pieces, and
\* reports activity after the last one.
Write(d, n) ==
  /\ result = "running"
  /\ copy[d] = "write"
  /\ n <= held[d]
  /\ held' = [held EXCEPT ![d] = @ - n]
  /\ delivered' = [delivered EXCEPT ![d] = @ + n]
  /\ quiet' = 0
  /\ IF n = held[d]
       THEN /\ copy' = [copy EXCEPT ![d] = "read"]
            /\ age' = 0 /\ activity' = "new"
       ELSE UNCHANGED <<copy, age, activity>>
  /\ UNCHANGED <<timeout, sent, eof, result, left>>

\* A failed read, write or shutdown of either direction ends both.
Fail(d) ==
  /\ result = "running"
  /\ copy[d] # "done"
  /\ result' = "error"
  /\ UNCHANGED <<streams, timer>>

------------------------------------------------------------------------------
(* The loop of forward_bidirectional around the select.                    *)
\* The deadline of the next sleep, from the last activity seen.
Rearm == left' = timeout - age /\ activity' = "seen"

\* Mutants: the end of the sleep is the end of the connection, with no second
\* look at the activity; or a blocked write keeps the timer from being seen.
SleepEndsUnchecked ==
  /\ result = "running"
  /\ timeout > 0 /\ left = 0
  /\ result' = "timeout"
  /\ UNCHANGED <<streams, timer>>
SleepEndsBetweenWrites ==
  /\ \A d \in Directions : copy[d] # "write"
  /\ age >= timeout
  /\ SleepEndsUnchecked

\* The sleep has ended: the idle time is measured again, as the transfer may
\* have reported activity since the deadline was set.
SleepEnds ==
  /\ result = "running"
  /\ timeout > 0 /\ left = 0
  /\ IF age >= timeout
       THEN result' = "timeout" /\ UNCHANGED <<left, activity>>
       ELSE Rearm /\ UNCHANGED result
  /\ UNCHANGED <<streams, age, quiet>>

ActivityChanged ==
  /\ result = "running"
  /\ timeout > 0 /\ activity = "new"
  /\ Rearm
  /\ UNCHANGED <<streams, result, age, quiet>>

\* Dropping the task at shutdown, from the select in `connect`.
Shutdown ==
  /\ result = "running"
  /\ result' = "shutdown"
  /\ UNCHANGED <<streams, timer>>

\* Time passes; a time beyond timeout counts as timeout.
Later(x) == IF x < timeout THEN x + 1 ELSE x

Tick ==
  /\ result = "running"
  /\ age < timeout \/ left > 0 \/ quiet < timeout
  /\ age' = Later(age) /\ quiet' = Later(quiet)
  /\ left' = IF left > 0 THEN left - 1 ELSE 0
  /\ UNCHANGED <<streams, result, activity>>

\* The relay has returned and both sockets are closed.
Returned == result # "running" /\ UNCHANGED vars

CopyStep(d) ==
  \/ \E n \in 1 .. Buffer : Read(d, n)
  \/ ReadEof(d)
  \/ \E n \in 1 .. Buffer : Write(d, n)

Next ==
  \/ \E d \in Directions : \/ Send(d) \/ CloseWrite(d) \/ CopyStep(d) \/ Fail(d)
  \/ SleepEnds
  \/ ActivityChanged
  \/ Shutdown
  \/ Tick
  \/ Returned

Spec == Init /\ [][Next]_vars

\* The task is polled when its timer is due or has something to read, and
\* time goes on.  A receiver may stop reading for ever.
Fairness ==
  /\ WF_vars(SleepEnds) /\ WF_vars(ActivityChanged) /\ WF_vars(Tick)
  /\ \A d \in Directions : WF_vars(ReadEof(d) \/ \E n \in 1 .. Buffer : Read(d, n))

FairSpec == Spec /\ Fairness

------------------------------------------------------------------------------
\* Every variable has its type, the deadline is never further away than the
\* timeout, and a direction holds bytes exactly while it is writing them.
TypeOK ==
  /\ timeout \in Timeouts
  /\ sent \in [Directions -> 0 .. MaxBytes]
  /\ eof \in [Directions -> BOOLEAN]
  /\ held \in [Directions -> 0 .. Buffer]
  /\ delivered \in [Directions -> Nat]
  /\ copy \in [Directions -> {"read", "write", "done"}]
  /\ \A d \in Directions : copy[d] = "write" <=> held[d] > 0
  /\ result \in {"running", "done", "timeout", "error", "shutdown"}
  /\ age \in 0 .. timeout /\ left \in 0 .. timeout /\ quiet \in 0 .. timeout
  /\ activity \in {"seen", "new"}

\* Nothing is delivered that was not sent, and a direction is shut down only
\* after its sender has closed and all it sent has been delivered; so when
\* the relay reports success, both streams arrived whole (copy_direction).
HalfCloseKeepsData ==
  /\ \A d \in Directions :
       /\ held[d] + delivered[d] <= sent[d]
       /\ copy[d] = "done" => eof[d] /\ delivered[d] = sent[d]
  /\ result = "done" => \A d \in Directions : copy[d] = "done"

\* The deadline that is slept on is never later than the last activity plus
\* the timeout, so an idle connection is not kept beyond it; and although the
\* deadline may be older than the last activity, a connection that times out
\* has been idle for the whole timeout (the second check at 513).
DeadlineSound ==
  /\ age + left <= timeout
  /\ result = "timeout" => age = timeout

\* A connection that stays idle ends, also when a write is blocked
\* (docs/performance.md 14).
IdleEnds ==
  (timeout > 0 /\ result = "running" /\ age = timeout)
     ~> (result # "running" \/ age < timeout)

\* When a peer closes its side, the close reaches the other one while the
\* opposite direction goes on, without any timeout too, unless that one does
\* not take the bytes that come before it (half close).
HalfClosePropagates ==
  \A d \in Directions :
    eof[d] ~> (copy[d] = "done" \/ held[d] > 0 \/ result # "running")

\* docs/usage.md 69: data forwarded in either direction renews the timeout,
\* so a connection that times out has delivered nothing for the whole of it.
TimesOutOnlyWhenQuiet == result = "timeout" => quiet = timeout
=============================================================================
