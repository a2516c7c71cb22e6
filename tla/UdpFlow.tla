------------------------------- MODULE UdpFlow -------------------------------
(***************************************************************************)
(* The flows of a UDP association (server.rs): the packet tasks that open  *)
(* a flow for a target and send on it, the worker that carries the replies *)
(* of a flow and ends it, the addresses remembered for the next flow, and  *)
(* the limits on tasks, flows and addresses.                               *)
(*                                                                         *)
(* Tasks and workers run on several threads, so a step is one access to    *)
(* shared state: one lock section, one atomic operation or one await.  A   *)
(* step that only reads what can no longer change, or learns the outcome   *)
(* of a call, is joined with the one that follows it.                      *)
(* The time of a flow is its age, the time since its last activity.        *)
(***************************************************************************)
EXTENDS Naturals, FiniteSets

CONSTANTS Assocs,       \* associations, registered when the model starts
          Targets,      \* destinations that clients name
          Tasks,        \* the permits of packet_slots
          Slots,        \* storage for flow slots, more than MaxFlows
          MaxFlows,     \* the permits of flow_slots (MAX_UDP_FLOWS)
          MaxPerAssoc,  \* MAX_FLOWS_PER_ASSOCIATION
          MaxStaleRetries, \* retries of a datagram on ended flows (2)
          MaxAddresses, \* bound on the addresses a lookup returns
          Timeout,      \* udp_timeout in ticks, 0 when there is none
          None          \* an absent value

ASSUME LimitsAssumption ==
  /\ MaxFlows \in Nat /\ MaxPerAssoc \in Nat \ {0}
  /\ MaxStaleRetries \in Nat
  /\ MaxAddresses \in Nat \ {0} /\ Timeout \in Nat
ASSUME NoneAssumption ==
  /\ None \notin Slots /\ None \notin Nat
  /\ None \notin Assocs /\ None \notin Targets
ASSUME FiniteAssumption == IsFiniteSet(Slots) /\ IsFiniteSet(Targets)

VARIABLES alive,      \* [Assocs -> BOOLEAN]
          stopped,    \* [Assocs -> BOOLEAN], the `stopped` token
          flows,      \* [Assocs -> [Targets -> Slots \cup {None}]]
          preferred,  \* [Assocs -> [Targets -> address index or None]]
          slot,       \* [Slots -> the FlowSlot, its Flow and its worker]
          task        \* [Tasks -> the packet task that holds the permit]

vars == <<alive, stopped, flows, preferred, slot, task>>

Indexes == 0 .. MaxAddresses - 1

------------------------------------------------------------------------------
(* A slot holds its OnceCell (`cell`), the Flow and the state of the       *)
(* flow's worker.  `spent` counts how often its address was given up.      *)
Blank ==
  [cell |-> "blank", assoc |-> None, target |-> None, active |-> FALSE,
   stopped |-> FALSE, age |-> 0, index |-> 0, count |-> 0, received |-> FALSE,
   worker |-> "none", why |-> "none", spent |-> 0]

NewSlot(a, tgt) == [Blank EXCEPT !.cell = "empty", !.assoc = a, !.target = tgt]

Idle ==
  [pc |-> "idle", assoc |-> None, target |-> None, slot |-> None,
   attempts |-> 0, retries |-> 0, count |-> 0, start |-> 0]

\* The Arcs of a slot: the map of its association, the tasks that work with
\* it and its worker.  When the last one goes the slot and its permit go too.
Held(s, fl, sl, tk) ==
  \/ \E a \in Assocs, tgt \in Targets : fl[a][tgt] = s
  \/ \E t \in Tasks : tk[t].slot = s
  \/ sl[s].worker \notin {"none", "done"}

Settle(fl, sl, tk) ==
  /\ flows' = fl
  /\ task' = tk
  /\ slot' = [s \in Slots |-> IF Held(s, fl, sl, tk) THEN sl[s] ELSE Blank]

InUse == {s \in Slots : slot[s] # Blank}

\* Targets with a flow, and targets with a remembered address.
FlowsOf(a)     == {tgt \in Targets : flows[a][tgt] # None}
Remembered(a)  == {tgt \in Targets : preferred[a][tgt] # None}

\* Mutant: the target's slot is removed whichever slot it is.
remove_any_slot(a, tgt, s) == [flows EXCEPT ![a][tgt] = None]

\* remove_flow_slot: only the slot that is still the mapped one goes.
remove_flow_slot(a, tgt, s) ==
  IF flows[a][tgt] = s THEN [flows EXCEPT ![a][tgt] = None] ELSE flows

\* remember_udp_address: at the limit some other target is forgotten.
remember_udp_address(a, tgt, i) ==
  IF Cardinality(Remembered(a)) >= MaxPerAssoc /\ preferred[a][tgt] = None
    THEN \E old \in Remembered(a) :
           preferred' = [preferred EXCEPT ![a][old] = None, ![a][tgt] = i]
    ELSE preferred' = [preferred EXCEPT ![a][tgt] = i]

\* advance_udp_address: with several addresses, the one after the flow's.
advance_udp_address(s) ==
  LET f == slot[s] IN
  IF f.count > 1
    THEN remember_udp_address(f.assoc, f.target, (f.index + 1) % f.count)
    ELSE UNCHANGED preferred

------------------------------------------------------------------------------
Init ==
  /\ alive = [a \in Assocs |-> TRUE]
  /\ stopped = [a \in Assocs |-> FALSE]
  /\ flows = [a \in Assocs |-> [tgt \in Targets |-> None]]
  /\ preferred = [a \in Assocs |-> [tgt \in Targets |-> None]]
  /\ slot = [s \in Slots |-> Blank]
  /\ task = [t \in Tasks |-> Idle]

(* The packet task: handle_udp_packet.                                     *)
GoTo(t, pc) == [task EXCEPT ![t].pc = pc]
Return(t)   == [task EXCEPT ![t] = Idle]

\* The loop finds a live association and a free permit, and the task sees it
\* alive; otherwise the datagram is dropped and nothing changes.
Spawn(t, a, tgt) ==
  /\ task[t] = Idle
  /\ alive[a]
  /\ task' = [task EXCEPT ![t] = [Idle EXCEPT !.pc = "slot", !.assoc = a,
                                              !.target = tgt]]
  /\ UNCHANGED <<alive, stopped, flows, preferred, slot>>

\* Under the lock of the association's flows: the mapped slot, or a new one
\* within both limits, or the datagram is dropped.
JoinSlot(t) ==
  LET s == flows[task[t].assoc][task[t].target] IN
  /\ task[t].pc = "slot"
  /\ s # None
  /\ task' = [task EXCEPT ![t].slot = s, ![t].pc = "cell"]
  /\ UNCHANGED <<alive, stopped, flows, preferred, slot>>

\* Mutant: only flows that are still mapped hold a permit.
AtLimitMapped(a) ==
  Cardinality(FlowsOf(a)) >= MaxPerAssoc

AtLimit(a) ==
  \/ Cardinality(FlowsOf(a)) >= MaxPerAssoc
  \/ Cardinality(InUse) >= MaxFlows

NewSlotFor(t, s) ==
  LET a == task[t].assoc  tgt == task[t].target IN
  /\ task[t].pc = "slot"
  /\ flows[a][tgt] = None
  /\ ~AtLimit(a)
  /\ slot[s] = Blank
  /\ flows' = [flows EXCEPT ![a][tgt] = s]
  /\ slot' = [slot EXCEPT ![s] = NewSlot(a, tgt)]
  /\ task' = [task EXCEPT ![t].slot = s, ![t].pc = "cell"]
  /\ UNCHANGED <<alive, stopped, preferred>>

DropAtLimit(t) ==
  LET a == task[t].assoc IN
  /\ task[t].pc = "slot"
  /\ flows[a][task[t].target] = None
  /\ AtLimit(a)
  /\ task' = Return(t)
  /\ UNCHANGED <<alive, stopped, flows, preferred, slot>>

\* get_or_init: one task initialises the cell, the others wait for it.
StartInit(t) ==
  LET s == task[t].slot IN
  /\ task[t].pc = "cell"
  /\ slot[s].cell = "empty"
  /\ slot' = [slot EXCEPT ![s].cell = "initializing"]
  /\ task' = GoTo(t, "lookup")
  /\ UNCHANGED <<alive, stopped, flows, preferred>>

\* Mutant: the task gives up without setting the cell.
InitFailsUnset(t) ==
  /\ task[t].pc \in {"lookup", "open"}
  /\ Settle(flows, slot, Return(t))
  /\ UNCHANGED <<alive, stopped, preferred>>

\* The lookup fails, or no address can be opened: the cell holds nothing.
InitFails(t) ==
  /\ task[t].pc \in {"lookup", "open"}
  /\ slot' = [slot EXCEPT ![task[t].slot].cell = "nothing"]
  /\ task' = GoTo(t, "cell")
  /\ UNCHANGED <<alive, stopped, flows, preferred>>

\* The lookup returns n addresses, and the one to start with is read before
\* any socket is opened.
LookedUp(t, n) ==
  LET p == preferred[task[t].assoc][task[t].target] IN
  /\ task[t].pc = "lookup"
  /\ task' = [task EXCEPT ![t].start = (IF p = None THEN 0 ELSE p) % n,
                          ![t].count = n, ![t].pc = "open"]
  /\ UNCHANGED <<alive, stopped, flows, preferred, slot>>

\* The first address from there on that can be opened; the flow's worker is
\* spawned before the cell is set.
Open(t, offset) ==
  LET k == task[t]
      i == (k.start + offset) % k.count
  IN
  /\ k.pc = "open"
  /\ offset < k.count
  /\ IF k.count > 1 THEN remember_udp_address(k.assoc, k.target, i)
                    ELSE UNCHANGED preferred
  /\ slot' = [slot EXCEPT ![k.slot].active = TRUE, ![k.slot].age = 0,
                          ![k.slot].index = i, ![k.slot].count = k.count,
                          ![k.slot].worker = "loop"]
  /\ task' = [task EXCEPT ![t].pc = "publish", ![t].count = 0, ![t].start = 0]
  /\ UNCHANGED <<alive, stopped, flows>>

Publish(t) ==
  /\ task[t].pc = "publish"
  /\ slot' = [slot EXCEPT ![task[t].slot].cell = "flow"]
  /\ task' = GoTo(t, "cell")
  /\ UNCHANGED <<alive, stopped, flows, preferred>>

\* The cell holds nothing: the slot is removed and the datagram dropped.
DiscardNothing(t) ==
  LET k == task[t] IN
  /\ k.pc = "cell"
  /\ slot[k.slot].cell = "nothing"
  /\ Settle(remove_flow_slot(k.assoc, k.target, k.slot), slot, Return(t))
  /\ UNCHANGED <<alive, stopped, preferred>>

\* The next round of the loop: the slot of this one is dropped.
Again(t) == [task EXCEPT ![t].pc = "slot", ![t].slot = None]

\* A flow that has ended: try again with a new slot, a bounded number of times.
DiscardStale(t) ==
  LET k == task[t] IN
  /\ k.pc = "cell"
  /\ slot[k.slot].cell = "flow" /\ ~slot[k.slot].active
  /\ Settle(remove_flow_slot(k.assoc, k.target, k.slot), slot,
            IF k.retries + 1 > MaxStaleRetries THEN Return(t)
              ELSE [Again(t) EXCEPT ![t].retries = k.retries + 1])
  /\ UNCHANGED <<alive, stopped, preferred>>

SeeActive(t) ==
  LET s == task[t].slot IN
  /\ task[t].pc = "cell"
  /\ slot[s].cell = "flow" /\ slot[s].active
  /\ task' = GoTo(t, "alive")
  /\ UNCHANGED <<alive, stopped, flows, preferred, slot>>

CheckAlive(t) ==
  LET k == task[t] IN
  /\ k.pc = "alive"
  /\ Settle(flows, slot, IF alive[k.assoc] THEN GoTo(t, "touch") ELSE Return(t))
  /\ UNCHANGED <<alive, stopped, preferred>>

Touch(t) ==
  /\ task[t].pc = "touch"
  /\ slot' = [slot EXCEPT ![task[t].slot].age = 0]
  /\ task' = [task EXCEPT ![t].attempts = @ + 1, ![t].pc = "send"]
  /\ UNCHANGED <<alive, stopped, flows, preferred>>

Sent(t) ==
  LET k == task[t] IN
  /\ k.pc = "send"
  /\ Settle(flows, [slot EXCEPT ![k.slot].age = 0], Return(t))
  /\ UNCHANGED <<alive, stopped, preferred>>

\* The send fails, and active.swap(false) tells whether this task is the one
\* that ends the flow.  The one that ends it advances its address first; then
\* the worker is told to stop.
SendFails(t) ==
  LET s == task[t].slot IN
  /\ task[t].pc = "send"
  /\ slot' = [slot EXCEPT ![s].active = FALSE, ![s].stopped = @ \/ ~slot[s].active]
  /\ task' = GoTo(t, IF slot[s].active THEN "advance" ELSE "unlink")
  /\ UNCHANGED <<alive, stopped, flows, preferred>>

TaskAdvance(t) ==
  LET s == task[t].slot IN
  /\ task[t].pc = "advance"
  /\ advance_udp_address(s)
  /\ slot' = [slot EXCEPT ![s].spent = @ + 1, ![s].stopped = TRUE]
  /\ task' = GoTo(t, "unlink")
  /\ UNCHANGED <<alive, stopped, flows>>

\* Mutant: one attempt too many.
TaskUnlinkOnce(t) ==
  LET k == task[t] IN
  /\ k.pc = "unlink"
  /\ Settle(remove_flow_slot(k.assoc, k.target, k.slot), slot,
            IF k.attempts > slot[k.slot].count THEN Return(t) ELSE Again(t))
  /\ UNCHANGED <<alive, stopped, preferred>>

TaskUnlink(t) ==
  LET k == task[t] IN
  /\ k.pc = "unlink"
  /\ Settle(remove_flow_slot(k.assoc, k.target, k.slot), slot,
            IF k.attempts >= slot[k.slot].count THEN Return(t) ELSE Again(t))
  /\ UNCHANGED <<alive, stopped, preferred>>

------------------------------------------------------------------------------
(* The worker of a flow: receive_remote.                                   *)
Worker(s, w) == [slot EXCEPT ![s].worker = w]
Leave(s, w)  == [slot EXCEPT ![s].worker = "swap", ![s].why = w]

\* The head of the loop, entered again when the deadline of the select has
\* passed (a deadline that later activity has moved only goes round).
WorkerLoop(s) ==
  /\ \/ slot[s].worker = "loop"
     \/ slot[s].worker = "wait" /\ Timeout > 0 /\ slot[s].age >= Timeout
  /\ slot' = IF alive[slot[s].assoc] THEN Worker(s, "deadline") ELSE Leave(s, "closed")
  /\ UNCHANGED <<alive, stopped, flows, preferred, task>>

\* The deadline is taken from the last activity, and compared with the clock.
WorkerDeadline(s) ==
  /\ slot[s].worker = "deadline"
  /\ slot' = IF Timeout > 0 /\ slot[s].age >= Timeout
               THEN Leave(s, "expired") ELSE Worker(s, "wait")
  /\ UNCHANGED <<alive, stopped, flows, preferred, task>>

\* Mutant: the select does not watch the association's token.
WorkerCancelledByFlow(s) ==
  /\ slot[s].worker = "wait"
  /\ slot[s].stopped
  /\ slot' = Leave(s, "closed")
  /\ UNCHANGED <<alive, stopped, flows, preferred, task>>

\* The select is cancelled by the association or by a task.
WorkerCancelled(s) ==
  /\ slot[s].worker = "wait"
  /\ stopped[slot[s].assoc] \/ slot[s].stopped
  /\ slot' = Leave(s, "closed")
  /\ UNCHANGED <<alive, stopped, flows, preferred, task>>

\* A reply renews the flow and goes to the client, unless the association
\* has been closed in the meantime.
Receive(s) ==
  /\ slot[s].worker = "wait"
  /\ slot' = IF alive[slot[s].assoc]
               THEN [Worker(s, "loop") EXCEPT ![s].received = TRUE, ![s].age = 0]
               ELSE Leave(s, "closed")
  /\ UNCHANGED <<alive, stopped, flows, preferred, task>>

ReceiveFails(s) ==
  /\ slot[s].worker = "wait"
  /\ slot' = Leave(s, "error")
  /\ UNCHANGED <<alive, stopped, flows, preferred, task>>

\* An error, or the deadline of a flow that never received a reply.
failed(s) ==
  \/ slot[s].why = "error"
  \/ slot[s].why = "expired" /\ ~slot[s].received

\* Mutant: the address is advanced whoever has ended the flow.
WorkerSwapBlind(s) ==
  /\ slot[s].worker = "swap"
  /\ slot' = [Worker(s, IF failed(s) THEN "advance" ELSE "unlink")
                EXCEPT ![s].active = FALSE]
  /\ UNCHANGED <<alive, stopped, flows, preferred, task>>

WorkerSwap(s) ==
  /\ slot[s].worker = "swap"
  /\ slot' = [Worker(s, IF slot[s].active /\ failed(s) THEN "advance" ELSE "unlink")
                EXCEPT ![s].active = FALSE]
  /\ UNCHANGED <<alive, stopped, flows, preferred, task>>

WorkerAdvance(s) ==
  /\ slot[s].worker = "advance"
  /\ advance_udp_address(s)
  /\ slot' = [Worker(s, "unlink") EXCEPT ![s].spent = @ + 1]
  /\ UNCHANGED <<alive, stopped, flows, task>>

\* Mutant: the worker leaves its slot in the map.
WorkerUnlinkNothing(s) ==
  /\ slot[s].worker = "unlink"
  /\ Settle(flows, [Worker(s, "done") EXCEPT ![s].age = 0], task)
  /\ UNCHANGED <<alive, stopped, preferred>>

\* The locals of receive_remote go with it.
WorkerUnlink(s) ==
  /\ slot[s].worker = "unlink"
  /\ Settle(remove_flow_slot(slot[s].assoc, slot[s].target, s),
            [Worker(s, "done") EXCEPT ![s].age = 0, ![s].why = "none",
                                      ![s].received = FALSE], task)
  /\ UNCHANGED <<alive, stopped, preferred>>

------------------------------------------------------------------------------
(* The control connection and the clock.                                   *)
\* `associate` ends, or the server's sweep: the flag, then the token.
CloseFlag(a) ==
  /\ alive[a]
  /\ alive' = [alive EXCEPT ![a] = FALSE]
  /\ UNCHANGED <<stopped, flows, preferred, slot, task>>

CloseToken(a) ==
  /\ ~alive[a] /\ ~stopped[a]
  /\ stopped' = [stopped EXCEPT ![a] = TRUE]
  /\ UNCHANGED <<alive, flows, preferred, slot, task>>

\* Time passes for every flow that exists; an age beyond Timeout is Timeout.
Tick ==
  LET ageing == {s \in Slots : slot[s].worker # "none" /\ slot[s].age < Timeout} IN
  /\ ageing # {}
  /\ slot' = [s \in Slots |-> IF s \in ageing THEN [slot[s] EXCEPT !.age = @ + 1]
                              ELSE slot[s]]
  /\ UNCHANGED <<alive, stopped, flows, preferred, task>>

\* The association is closed and everything it used has been given back.
Quiet ==
  /\ \A a \in Assocs : stopped[a]
  /\ InUse = {} /\ \A t \in Tasks : task[t] = Idle
  /\ UNCHANGED vars

TaskStep(t) ==
  \/ JoinSlot(t)
  \/ \E s \in Slots : NewSlotFor(t, s)
  \/ DropAtLimit(t)
  \/ StartInit(t)
  \/ InitFails(t)
  \/ \E n \in 1 .. MaxAddresses : LookedUp(t, n)
  \/ \E offset \in Indexes : Open(t, offset)
  \/ Publish(t)
  \/ DiscardNothing(t)
  \/ DiscardStale(t)
  \/ SeeActive(t)
  \/ CheckAlive(t)
  \/ Touch(t)
  \/ Sent(t)
  \/ SendFails(t)
  \/ TaskAdvance(t)
  \/ TaskUnlink(t)

WorkerStep(s) ==
  \/ WorkerLoop(s)
  \/ WorkerDeadline(s)
  \/ WorkerCancelled(s)
  \/ WorkerSwap(s)
  \/ WorkerAdvance(s)
  \/ WorkerUnlink(s)

Next ==
  \/ \E t \in Tasks : \/ TaskStep(t)
                      \/ \E a \in Assocs, tgt \in Targets : Spawn(t, a, tgt)
  \/ \E s \in Slots : WorkerStep(s) \/ Receive(s) \/ ReceiveFails(s)
  \/ \E a \in Assocs : CloseFlag(a) \/ CloseToken(a)
  \/ Tick
  \/ Quiet

Spec == Init /\ [][Next]_vars

\* Tasks and workers that can step do: a lookup ends within the resolver's
\* time limits and a UDP send does not block for long.  What arrives from
\* targets and whether clients close is nobody's duty.
Fairness ==
  /\ \A t \in Tasks : WF_vars(TaskStep(t))
  /\ \A s \in Slots : WF_vars(WorkerStep(s))
  /\ \A a \in Assocs : WF_vars(CloseToken(a))
  /\ WF_vars(Tick)

FairSpec == Spec /\ Fairness

------------------------------------------------------------------------------
TaskPcs == {"idle", "slot", "cell", "lookup", "open", "publish", "alive",
            "touch", "send", "advance", "unlink"}
\* Where a task holds the slot it works with.
Holding == TaskPcs \ {"idle", "slot"}
WorkerPcs == {"none", "loop", "deadline", "wait", "swap", "advance",
              "unlink", "done"}

SlotRecords ==
  [cell : {"blank", "empty", "initializing", "nothing", "flow"},
   assoc : Assocs \cup {None}, target : Targets \cup {None},
   active : BOOLEAN, stopped : BOOLEAN, age : 0 .. Timeout, index : Indexes,
   count : 0 .. MaxAddresses, received : BOOLEAN, worker : WorkerPcs,
   why : {"none", "closed", "expired", "error"}, spent : Nat]

TaskRecords ==
  [pc : TaskPcs, assoc : Assocs \cup {None}, target : Targets \cup {None},
   slot : Slots \cup {None}, attempts : 0 .. MaxAddresses,
   retries : 0 .. MaxStaleRetries, count : 0 .. MaxAddresses, start : Indexes]

\* Every variable has its type; a task holds a slot exactly while it works
\* with one, of its own association and target, and never retries a datagram
\* more often than there are addresses or more than MaxStaleRetries on stale flows.
TypeOK ==
  /\ alive \in [Assocs -> BOOLEAN] /\ stopped \in [Assocs -> BOOLEAN]
  /\ flows \in [Assocs -> [Targets -> Slots \cup {None}]]
  /\ preferred \in [Assocs -> [Targets -> Indexes \cup {None}]]
  /\ slot \in [Slots -> SlotRecords]
  /\ task \in [Tasks -> TaskRecords]
  /\ \A t \in Tasks : task[t].pc \in Holding <=> task[t].slot # None

\* An active flow is the one its target is mapped to, so a target never has
\* two: no task or worker that is late removes its successor's slot, and a
\* slot is removed only once its flow has ended (remove_flow_slot).
OneActiveFlow ==
  \A s \in Slots : slot[s].active => flows[slot[s].assoc][slot[s].target] = s

\* A mapped slot always has somebody who will fill it or remove it: a running
\* worker, or before there is one a task that holds it.  Otherwise its target
\* would be dead and its permit lost as long as the association lives.
NoOrphan ==
  \A a \in Assocs, tgt \in Targets :
    LET s == flows[a][tgt] IN
    s # None =>
      \/ slot[s].worker \notin {"none", "done"}
      \/ /\ slot[s].worker = "none"
         /\ \E t \in Tasks :
              /\ task[t].slot = s
              /\ task[t].pc \in {"cell", "lookup", "open"}

\* A flow that failed gives up its address exactly once, whichever of the
\* worker and the tasks notice, in whatever order (active.swap, 817 and 898).
GivenUpOnce ==
  \A s \in Slots :
    /\ slot[s].spent <= 1
    /\ slot[s].worker = "unlink" /\ failed(s) /\ slot[s].spent = 0 =>
         \E t \in Tasks : task[t].slot = s /\ task[t].pc = "advance"

\* The limits hold for what really consumes resources: open flows including
\* the ones already removed from the map whose worker is still winding down,
\* and remembered addresses (MAX_UDP_FLOWS, MAX_FLOWS_PER_ASSOCIATION).
Bounded ==
  /\ Cardinality({s \in Slots : slot[s].worker \notin {"none", "done"}}) <= MaxFlows
  /\ \A a \in Assocs : /\ Cardinality(FlowsOf(a)) <= MaxPerAssoc
                        /\ Cardinality(Remembered(a)) <= MaxPerAssoc

\* Closing the control connection takes down every flow of the association
\* for good, also one that a late task opens after the close: no slot, worker
\* or permit stays behind (docs/performance.md 16, associate 624-626).
CloseReleases ==
  \A a \in Assocs :
    ~alive[a] ~> [](\A s \in Slots : slot[s] # Blank => slot[s].assoc # a)

\* Every packet task ends and returns its permit, though it waits for other
\* tasks in get_or_init and goes round its loop (handle_udp_packet).
PacketEnds ==
  \A t \in Tasks : (task[t].pc # "idle") ~> (task[t].pc = "idle")

\* docs/usage.md 70, docs/performance.md 16: a request or a reply renews the
\* flow, so a flow is ended by its deadline only when it has been idle for
\* the whole timeout.
EndsOnlyWhenIdle ==
  [][\A s \in Slots :
       WorkerSwap(s) /\ slot[s].active /\ slot[s].why = "expired" =>
         slot[s].age >= Timeout]_vars

\* docs/performance.md 18: after a flow that got no reply or failed, the next
\* datagram starts from the following address; so no flow is started at the
\* address of a predecessor that has just been ended for failing.
NextStartsElsewhere ==
  [][\A t \in Tasks, s \in Slots, n \in 2 .. MaxAddresses :
       /\ LookedUp(t, n)
       /\ slot[s].worker = "advance"
       /\ slot[s].assoc = task[t].assoc /\ slot[s].target = task[t].target
       /\ slot[s].count = n
       => task'[t].start # slot[s].index]_vars
=============================================================================
