--------------------------- MODULE TcpRelayProofs ---------------------------
(***************************************************************************)
(* Proofs about TcpRelay for any number of bytes, any buffer and timeout.  *)
(***************************************************************************)
EXTENDS TcpRelay, TLAPS

\* The invariants of the relay together: none of them alone says enough of
\* the state before a step.
Inv == TypeOK /\ HalfCloseKeepsData /\ DeadlineSound

\* The initial state of forward_bidirectional.
LEMMA InitInv == Init => Inv
<1> SUFFICES ASSUME Init PROVE Inv
  OBVIOUS
<1>1. TypeOK
  BY RelayAssumption DEF Init, TypeOK
<1>2. HalfCloseKeepsData
  BY DEF Init, HalfCloseKeepsData
<1>3. DeadlineSound
  BY RelayAssumption DEF Init, DeadlineSound
<1> QED
  BY <1>1, <1>2, <1>3 DEF Inv

\* Every step of the peers, the copy loops and the timer keeps the invariants.
LEMMA NextInv == Inv /\ [Next]_vars => Inv'
<1> SUFFICES ASSUME Inv, [Next]_vars PROVE Inv'
  OBVIOUS
<1> USE RelayAssumption
    DEF Inv, TypeOK, HalfCloseKeepsData, DeadlineSound, streams, timer
<1>1. ASSUME NEW d \in Directions, Send(d) PROVE Inv'
  BY <1>1 DEF Send
<1>2. ASSUME NEW d \in Directions, CloseWrite(d) PROVE Inv'
  BY <1>2 DEF CloseWrite
<1>3. ASSUME NEW d \in Directions, NEW n \in 1 .. Buffer, Read(d, n) PROVE Inv'
  BY <1>3 DEF Read, Unread
<1>4. ASSUME NEW d \in Directions, ReadEof(d) PROVE Inv'
  <2>1. held[d] = 0 /\ delivered[d] = sent[d] /\ eof[d]
    BY <1>4, SMTT(40) DEF ReadEof, Unread
  <2>2. TypeOK' /\ DeadlineSound'
    BY <1>4, <2>1 DEF ReadEof
  <2>3. \A c \in Directions :
          /\ held'[c] + delivered'[c] <= sent'[c]
          /\ copy'[c] = "done" => eof'[c] /\ delivered'[c] = sent'[c]
    BY <1>4, <2>1 DEF ReadEof
  <2>4. result' = "done" => \A c \in Directions : copy'[c] = "done"
    BY <1>4 DEF ReadEof, Other, Directions
  <2> QED
    BY <2>2, <2>3, <2>4
<1>5. ASSUME NEW d \in Directions, NEW n \in 1 .. Buffer, Write(d, n) PROVE Inv'
  <2>1. CASE n = held[d]
    BY <1>5, <2>1 DEF Write
  <2>2. CASE n # held[d]
    BY <1>5, <2>2 DEF Write
  <2> QED
    BY <2>1, <2>2
<1>6. ASSUME NEW d \in Directions, Fail(d) PROVE Inv'
  BY <1>6 DEF Fail
<1>7. CASE SleepEnds
  BY <1>7 DEF SleepEnds, Rearm
<1>8. CASE ActivityChanged
  BY <1>8 DEF ActivityChanged, Rearm
<1>9. CASE Shutdown
  BY <1>9 DEF Shutdown
<1>10. CASE Tick
  BY <1>10 DEF Tick, Later
<1>11. CASE Returned \/ UNCHANGED vars
  BY <1>11 DEF Returned, vars
<1> QED
  BY <1>1, <1>2, <1>3, <1>4, <1>5, <1>6, <1>7, <1>8, <1>9, <1>10, <1>11
     DEF Next, CopyStep

\* Every reachable state has the type of the module.
THEOREM TypeCorrect == Spec => []TypeOK
  BY InitInv, NextInv, PTL DEF Spec, Inv

\* The relay delivers a prefix of what was sent, and a closed direction all
\* of it, whatever the interleaving, the sizes of the pieces and the timer.
THEOREM NothingLost == Spec => []HalfCloseKeepsData
  BY InitInv, NextInv, PTL DEF Spec, Inv

\* The idle timeout neither fires early nor is waited for too long.
THEOREM DeadlineIsSound == Spec => []DeadlineSound
  BY InitInv, NextInv, PTL DEF Spec, Inv
=============================================================================
