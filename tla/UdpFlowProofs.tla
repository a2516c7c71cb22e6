---------------------------- MODULE UdpFlowProofs ----------------------------
(***************************************************************************)
(* Proofs about UdpFlow for any number of associations, targets, packet    *)
(* tasks and addresses, and any limits.                                    *)
(***************************************************************************)
EXTENDS UdpFlow, FiniteSetTheorems, TLAPS

\* A task that works on a datagram knows its association and target, and may
\* send once more until it has sent.
GoodTasks ==
  {k \in TaskRecords :
     /\ k.pc \in Holding <=> k.slot # None
     /\ k.pc # "idle" => k.assoc \in Assocs /\ k.target \in Targets
     /\ k.pc \notin {"send", "advance", "unlink"} => k.attempts < MaxAddresses}

\* A slot in use belongs to a target of an association; another has no worker.
GoodSlots ==
  {r \in SlotRecords : IF r.cell = "blank" THEN r.worker = "none"
                       ELSE r.assoc \in Assocs /\ r.target \in Targets}

Typed ==
  /\ alive \in [Assocs -> BOOLEAN] /\ stopped \in [Assocs -> BOOLEAN]
  /\ flows \in [Assocs -> [Targets -> Slots \cup {None}]]
  /\ preferred \in [Assocs -> [Targets -> Indexes \cup {None}]]
  /\ slot \in [Slots -> GoodSlots]
  /\ task \in [Tasks -> GoodTasks]

\* A slot that somebody holds is in use, so that writing to it never takes a
\* slot that has no permit.
HeldInUse == \A s \in Slots : Held(s, flows, slot, task) => slot[s].cell # "blank"

\* The limits, for everything that has a permit.
Limits ==
  /\ Cardinality(InUse) <= MaxFlows
  /\ \A a \in Assocs : /\ Cardinality(FlowsOf(a)) <= MaxPerAssoc
                        /\ Cardinality(Remembered(a)) <= MaxPerAssoc

Inv == Typed /\ HeldInUse /\ Limits

------------------------------------------------------------------------------
\* What `%` returns for an index and a number of addresses.
LEMMA IndexLemma ==
  ASSUME NEW n \in 1 .. MaxAddresses, NEW k \in Nat
  PROVE  k % n \in Indexes
  BY LimitsAssumption DEF Indexes

\* The sets whose sizes are limited are finite.
LEMMA FiniteLemma ==
  /\ IsFiniteSet(InUse)
  /\ \A a \in Assocs : IsFiniteSet(FlowsOf(a)) /\ IsFiniteSet(Remembered(a))
<1>1. InUse \subseteq Slots /\ \A a \in Assocs : /\ FlowsOf(a) \subseteq Targets
                                                /\ Remembered(a) \subseteq Targets
  BY DEF InUse, FlowsOf, Remembered
<1> QED
  BY <1>1, FiniteAssumption, FS_Subset

\* remember_udp_address keeps within the limit: at the limit it takes the
\* place of another target.
LEMMA RememberLemma ==
  ASSUME Typed, Limits, NEW a \in Assocs, NEW tgt \in Targets, NEW i \in Indexes,
         remember_udp_address(a, tgt, i)
  PROVE  /\ preferred' \in [Assocs -> [Targets -> Indexes \cup {None}]]
         /\ \A b \in Assocs : Cardinality(Remembered(b)') <= MaxPerAssoc
<1>0. /\ preferred \in [Assocs -> [Targets -> Indexes \cup {None}]]
      /\ i # None /\ None \notin Indexes
  BY NoneAssumption, LimitsAssumption DEF Typed, Indexes
<1>1. IsFiniteSet(Remembered(a)) /\ Cardinality(Remembered(a)) \in Nat
  BY FiniteLemma, FS_CardinalityType
<1>2. CASE Cardinality(Remembered(a)) >= MaxPerAssoc /\ preferred[a][tgt] = None
  <2>1. PICK old \in Remembered(a) :
          preferred' = [preferred EXCEPT ![a][old] = None, ![a][tgt] = i]
    BY <1>2 DEF remember_udp_address
  <2>2. old \in Targets /\ old # tgt /\ tgt \notin Remembered(a)
    BY <1>2, <2>1 DEF Remembered
  <2>3. preferred' \in [Assocs -> [Targets -> Indexes \cup {None}]]
    BY <1>0, <2>1, <2>2
  <2>4. \A b \in Assocs \ {a} : Remembered(b)' = Remembered(b)
    BY <1>0, <2>1, <2>2 DEF Remembered
  <2>5. Remembered(a)' = (Remembered(a) \ {old}) \cup {tgt}
    BY <1>0, <2>1, <2>2 DEF Remembered
  <2>6. Cardinality(Remembered(a)') = Cardinality(Remembered(a))
    <3>1. /\ IsFiniteSet(Remembered(a) \ {old})
          /\ Cardinality(Remembered(a) \ {old}) = Cardinality(Remembered(a)) - 1
      BY <1>1, <2>1, FS_RemoveElement
    <3>2. Cardinality((Remembered(a) \ {old}) \cup {tgt})
            = Cardinality(Remembered(a) \ {old}) + 1
      BY <2>2, <3>1, FS_AddElement
    <3> QED
      BY <1>1, <2>5, <3>1, <3>2
  <2> QED
    BY <2>3, <2>4, <2>6 DEF Limits
<1>3. CASE ~(Cardinality(Remembered(a)) >= MaxPerAssoc /\ preferred[a][tgt] = None)
  <2>1. preferred' = [preferred EXCEPT ![a][tgt] = i]
    BY <1>3 DEF remember_udp_address
  <2>2. preferred' \in [Assocs -> [Targets -> Indexes \cup {None}]]
    BY <1>0, <2>1
  <2>3. \A b \in Assocs \ {a} : Remembered(b)' = Remembered(b)
    BY <1>0, <2>1 DEF Remembered
  <2>4. Remembered(a)' = Remembered(a) \cup {tgt}
    BY <1>0, <2>1 DEF Remembered
  <2>5. CASE tgt \in Remembered(a)
    <3>1. Remembered(a)' = Remembered(a)
      BY <2>4, <2>5
    <3> QED
      BY <2>2, <2>3, <3>1 DEF Limits
  <2>6. CASE tgt \notin Remembered(a)
    <3>1. Cardinality(Remembered(a)) < MaxPerAssoc
      BY <1>1, <1>3, <2>6, LimitsAssumption DEF Remembered
    <3>2. Cardinality(Remembered(a)') = Cardinality(Remembered(a)) + 1
      BY <1>1, <2>4, <2>6, FS_AddElement
    <3>3. Cardinality(Remembered(a)') <= MaxPerAssoc
      BY <1>1, <3>1, <3>2, LimitsAssumption
    <3> QED
      BY <2>2, <2>3, <3>3 DEF Limits
  <2> QED
    BY <2>5, <2>6
<1> QED
  BY <1>2, <1>3

\* A step that takes no slot, maps no target and remembers no address keeps
\* the limits.
LEMMA ShrinkLemma ==
  ASSUME Limits, InUse' \subseteq InUse,
         \A a \in Assocs : FlowsOf(a)' \subseteq FlowsOf(a),
         \A a \in Assocs : Cardinality(Remembered(a)') <= MaxPerAssoc
  PROVE  Limits'
<1>1. Cardinality(InUse') <= MaxFlows
  <2>1. Cardinality(InUse') <= Cardinality(InUse)
    BY FiniteLemma, FS_Subset
  <2>2. Cardinality(InUse') \in Nat /\ Cardinality(InUse) \in Nat
    BY FiniteLemma, FS_Subset, FS_CardinalityType
  <2> QED
    BY <2>1, <2>2, LimitsAssumption DEF Limits
<1>2. ASSUME NEW a \in Assocs PROVE Cardinality(FlowsOf(a)') <= MaxPerAssoc
  <2>1. Cardinality(FlowsOf(a)') <= Cardinality(FlowsOf(a))
    BY FiniteLemma, FS_Subset
  <2>2. Cardinality(FlowsOf(a)') \in Nat /\ Cardinality(FlowsOf(a)) \in Nat
    BY FiniteLemma, FS_Subset, FS_CardinalityType
  <2> QED
    BY <2>1, <2>2, LimitsAssumption DEF Limits
<1> QED
  BY <1>1, <1>2 DEF Limits

------------------------------------------------------------------------------
\* What is proved of the types is what TypeOK says, and more.
LEMMA TypedLemma == Typed => TypeOK
  BY DEF Typed, TypeOK, GoodTasks, GoodSlots

\* The state when the association has been registered.
LEMMA InitInv == Init => Inv
<1> SUFFICES ASSUME Init PROVE Inv
  OBVIOUS
<1>1. Blank \in GoodSlots
  BY LimitsAssumption DEF GoodSlots, SlotRecords, Blank, Indexes, WorkerPcs
<1>2. Idle \in GoodTasks
  BY LimitsAssumption DEF GoodTasks, TaskRecords, Idle, Indexes, TaskPcs, Holding
<1>3. Typed
  BY <1>1, <1>2 DEF Init, Typed
<1>4. HeldInUse
  BY NoneAssumption DEF Init, HeldInUse, Held, Blank, Idle
<1>5. Limits
  <2>1. InUse = {} /\ \A a \in Assocs : FlowsOf(a) = {} /\ Remembered(a) = {}
    BY DEF Init, InUse, FlowsOf, Remembered
  <2> QED
    BY <2>1, FS_EmptySet, LimitsAssumption DEF Limits
<1> QED
  BY <1>3, <1>4, <1>5 DEF Inv

\* A task that goes on without touching the shared state: it may let go of its
\* slot, or take the one its target is mapped to.
LEMMA ReadingStep ==
  ASSUME Inv, NEW t \in Tasks, NEW k \in GoodTasks,
         task' = [task EXCEPT ![t] = k],
         UNCHANGED <<alive, stopped, flows, preferred, slot>>,
         \/ k.slot \in {None, task[t].slot}
         \/ \E a \in Assocs, tgt \in Targets : k.slot = flows[a][tgt]
  PROVE  Inv'
<1>1. Typed'
  BY DEF Inv, Typed
<1>2. HeldInUse'
  <2>1. \A s \in Slots : Held(s, flows, slot, task') => Held(s, flows, slot, task)
    BY NoneAssumption DEF Held, Inv, Typed
  <2> QED
    BY <2>1 DEF HeldInUse, Inv
<1>3. Limits'
  BY DEF Limits, InUse, FlowsOf, Remembered, Inv
<1> QED
  BY <1>1, <1>2, <1>3 DEF Inv

\* What most steps do to the flows, the slots and the tasks: they map nothing,
\* write only to slots in use and take no slot.
Modest(fl, sl, tk) ==
  /\ fl \in [Assocs -> [Targets -> Slots \cup {None}]]
  /\ sl \in [Slots -> GoodSlots]
  /\ tk \in [Tasks -> GoodTasks]
  /\ \A a \in Assocs, tgt \in Targets : fl[a][tgt] \in {None, flows[a][tgt]}
  /\ \A s \in Slots : sl[s] # slot[s] => slot[s].cell # "blank" /\ sl[s].cell # "blank"
  /\ \A t \in Tasks : tk[t].slot \in {None, task[t].slot}

\* Who holds a slot after such a step held it before, and it is in use.
LEMMA ModestHeld ==
  ASSUME Inv, NEW fl, NEW sl, NEW tk, Modest(fl, sl, tk), NEW s \in Slots,
         Held(s, fl, sl, tk)
  PROVE  sl[s].cell # "blank"
<1>1. CASE sl[s] # slot[s]
  BY <1>1 DEF Modest
<1>2. CASE sl[s] = slot[s]
  <2>1. Held(s, flows, slot, task)
    BY <1>2, NoneAssumption DEF Held, Modest
  <2> QED
    BY <1>2, <2>1 DEF Inv, HeldInUse
<1> QED
  BY <1>1, <1>2

\* Such a step keeps the invariant, if it keeps the remembered addresses.
LEMMA WritingStep ==
  ASSUME Inv, Modest(flows', slot', task'),
         alive' \in [Assocs -> BOOLEAN], stopped' \in [Assocs -> BOOLEAN],
         preferred' \in [Assocs -> [Targets -> Indexes \cup {None}]],
         \A a \in Assocs : Cardinality(Remembered(a)') <= MaxPerAssoc
  PROVE  Inv'
<1>1. Typed'
  BY DEF Modest, Typed
<1>2. HeldInUse'
  BY ModestHeld DEF HeldInUse
<1>3. InUse' \subseteq InUse
  BY DEF InUse, Modest, Blank
<1>4. \A a \in Assocs : FlowsOf(a)' \subseteq FlowsOf(a)
  BY DEF FlowsOf, Modest
<1>5. Limits'
  BY <1>3, <1>4, ShrinkLemma DEF Inv
<1> QED
  BY <1>1, <1>2, <1>5 DEF Inv

\* The same when the slots that nobody holds any more are given back.
LEMMA SettlingStep ==
  ASSUME Inv, NEW fl, NEW sl, NEW tk, Modest(fl, sl, tk), Settle(fl, sl, tk),
         UNCHANGED <<alive, stopped, preferred>>
  PROVE  Inv'
<1>1. Blank \in GoodSlots
  BY LimitsAssumption DEF GoodSlots, SlotRecords, Blank, Indexes, WorkerPcs
<1>2. Typed'
  BY <1>1 DEF Modest, Settle, Typed, Inv
<1>3. ASSUME NEW s \in Slots, Held(s, fl, slot', tk) PROVE slot'[s].cell # "blank"
  <2>1. Held(s, fl, sl, tk)
    BY <1>3 DEF Held, Settle, Blank
  <2> QED
    BY <2>1, ModestHeld DEF Settle
<1>4. HeldInUse'
  BY <1>3 DEF HeldInUse, Settle
<1>5. InUse' \subseteq InUse
  <2> SUFFICES ASSUME NEW s \in Slots, slot'[s] # Blank PROVE slot[s] # Blank
    BY DEF InUse
  <2>1. slot'[s] = sl[s]
    BY DEF Settle
  <2> QED
    BY <2>1 DEF Modest, Blank
<1>6. \A a \in Assocs : FlowsOf(a)' \subseteq FlowsOf(a)
  BY DEF FlowsOf, Modest, Settle
<1>7. \A a \in Assocs : Cardinality(Remembered(a)') <= MaxPerAssoc
  BY DEF Inv, Limits, Remembered
<1>8. Limits'
  BY <1>5, <1>6, <1>7, ShrinkLemma DEF Inv
<1> QED
  BY <1>2, <1>4, <1>8 DEF Inv

\* A task that works with a slot, and what it knows.
LEMMA HoldingLemma ==
  ASSUME Inv, NEW t \in Tasks, task[t].pc \in Holding
  PROVE  /\ task[t] \in GoodTasks
         /\ task[t].assoc \in Assocs /\ task[t].target \in Targets
         /\ task[t].slot \in Slots
         /\ slot[task[t].slot] \in GoodSlots
         /\ slot[task[t].slot].cell # "blank"
<1>1. task[t] \in GoodTasks
  BY DEF Inv, Typed
<1>2. /\ task[t].slot \in Slots
      /\ task[t].assoc \in Assocs /\ task[t].target \in Targets
  BY <1>1 DEF GoodTasks, TaskRecords, Holding
<1>3. Held(task[t].slot, flows, slot, task)
  BY DEF Held
<1> QED
  BY <1>1, <1>2, <1>3 DEF Inv, Typed, HeldInUse

\* A slot with a worker.
LEMMA WorkerLemma ==
  ASSUME Inv, NEW s \in Slots, slot[s].worker # "none"
  PROVE  /\ slot[s] \in GoodSlots /\ slot[s].cell # "blank"
         /\ slot[s].assoc \in Assocs /\ slot[s].target \in Targets
<1>1. slot[s] \in GoodSlots
  BY DEF Inv, Typed
<1> QED
  BY <1>1 DEF GoodSlots

\* remove_flow_slot only removes.
LEMMA RemoveLemma ==
  ASSUME Typed, NEW a \in Assocs, NEW tgt \in Targets, NEW s
  PROVE  /\ remove_flow_slot(a, tgt, s) \in [Assocs -> [Targets -> Slots \cup {None}]]
         /\ \A b \in Assocs, g \in Targets :
              remove_flow_slot(a, tgt, s)[b][g] \in {None, flows[b][g]}
  BY DEF Typed, remove_flow_slot

\* advance_udp_address keeps the remembered addresses within their limit.
LEMMA AdvanceLemma ==
  ASSUME Inv, NEW s \in Slots, slot[s].cell # "blank", advance_udp_address(s)
  PROVE  /\ preferred' \in [Assocs -> [Targets -> Indexes \cup {None}]]
         /\ \A a \in Assocs : Cardinality(Remembered(a)') <= MaxPerAssoc
<1>1. /\ slot[s].assoc \in Assocs /\ slot[s].target \in Targets
      /\ slot[s].count \in 0 .. MaxAddresses /\ slot[s].index \in Indexes
  BY DEF Inv, Typed, GoodSlots, SlotRecords
<1>2. CASE slot[s].count > 1
  <2>1. slot[s].count \in 1 .. MaxAddresses /\ slot[s].index + 1 \in Nat
    BY <1>1, <1>2, LimitsAssumption DEF Indexes
  <2>2. (slot[s].index + 1) % slot[s].count \in Indexes
    BY <2>1, IndexLemma
  <2>3. remember_udp_address(slot[s].assoc, slot[s].target,
                             (slot[s].index + 1) % slot[s].count)
    BY <1>2 DEF advance_udp_address
  <2> QED
    BY <1>1, <2>2, <2>3, RememberLemma DEF Inv
<1>3. CASE ~(slot[s].count > 1)
  <2>1. UNCHANGED preferred
    BY <1>3 DEF advance_udp_address
  <2> QED
    BY <2>1 DEF Inv, Typed, Limits, Remembered
<1> QED
  BY <1>2, <1>3

------------------------------------------------------------------------------
\* The steps of a packet task that only read.
LEMMA TaskReads ==
  ASSUME Inv, NEW t \in Tasks,
         \/ \E a \in Assocs, tgt \in Targets : Spawn(t, a, tgt)
         \/ JoinSlot(t) \/ DropAtLimit(t) \/ SeeActive(t)
         \/ \E n \in 1 .. MaxAddresses : LookedUp(t, n)
  PROVE  Inv'
<1>0. task[t] \in GoodTasks /\ task \in [Tasks -> GoodTasks]
  BY DEF Inv, Typed
<1>1. Idle \in GoodTasks
  BY LimitsAssumption DEF GoodTasks, TaskRecords, Idle, Indexes, TaskPcs, Holding
<1>2. ASSUME NEW a \in Assocs, NEW tgt \in Targets, Spawn(t, a, tgt) PROVE Inv'
  <2> DEFINE k == [Idle EXCEPT !.pc = "slot", !.assoc = a, !.target = tgt]
  <2>1. k \in GoodTasks /\ k.slot = None
    BY <1>1, LimitsAssumption DEF GoodTasks, TaskRecords, Idle, TaskPcs, Holding, Indexes
  <2>2. task' = [task EXCEPT ![t] = k]
    BY <1>2 DEF Spawn
  <2> HIDE DEF k
  <2> QED
    BY <1>2, <2>1, <2>2, ReadingStep DEF Spawn
<1>3. CASE JoinSlot(t)
  <2> DEFINE s == flows[task[t].assoc][task[t].target]
             k == [task[t] EXCEPT !.slot = s, !.pc = "cell"]
  <2>1. task[t].assoc \in Assocs /\ task[t].target \in Targets /\ s \in Slots /\ s # None
    BY <1>0, <1>3, NoneAssumption DEF JoinSlot, GoodTasks, Inv, Typed
  <2>2. k \in GoodTasks /\ k.slot = s
    BY <1>0, <1>3, <2>1 DEF JoinSlot, GoodTasks, TaskRecords, TaskPcs, Holding
  <2>3. task' = [task EXCEPT ![t] = k]
    BY <1>0, <1>3 DEF JoinSlot
  <2>4. \E a \in Assocs, tgt \in Targets : k.slot = flows[a][tgt]
    BY <2>1, <2>2
  <2>5. UNCHANGED <<alive, stopped, flows, preferred, slot>>
    BY <1>3 DEF JoinSlot
  <2> HIDE DEF k
  <2> QED
    BY <2>2, <2>3, <2>4, <2>5, ReadingStep
<1>4. CASE DropAtLimit(t)
  <2>1. Idle.slot = None
    BY DEF Idle
  <2> QED
    BY <1>1, <1>4, <2>1, ReadingStep DEF DropAtLimit, Return
<1>5. CASE SeeActive(t)
  <2> DEFINE k == [task[t] EXCEPT !.pc = "alive"]
  <2>1. k \in GoodTasks /\ k.slot = task[t].slot
    BY <1>0, <1>5 DEF SeeActive, GoodTasks, TaskRecords, TaskPcs, Holding
  <2>2. task' = [task EXCEPT ![t] = k]
    BY <1>0, <1>5 DEF SeeActive, GoTo
  <2> HIDE DEF k
  <2> QED
    BY <1>5, <2>1, <2>2, ReadingStep DEF SeeActive
<1>6. ASSUME NEW n \in 1 .. MaxAddresses, LookedUp(t, n) PROVE Inv'
  <2> DEFINE p == preferred[task[t].assoc][task[t].target]
             i == (IF p = None THEN 0 ELSE p) % n
             k == [task[t] EXCEPT !.start = i, !.count = n, !.pc = "open"]
  <2>1. /\ task[t].assoc \in Assocs /\ task[t].target \in Targets
        /\ task[t].pc = "lookup"
    BY <1>0, <1>6 DEF LookedUp, GoodTasks
  <2>2. (IF p = None THEN 0 ELSE p) \in Nat
    BY <2>1, LimitsAssumption DEF Inv, Typed, Indexes
  <2>3. i \in Indexes
    BY <2>2, IndexLemma
  <2>4. task' = [task EXCEPT ![t] = k]
    BY <1>0, <1>6 DEF LookedUp
  <2> HIDE DEF i
  <2>5. n \in 0 .. MaxAddresses
    BY LimitsAssumption
  <2>6. k \in GoodTasks /\ k.slot = task[t].slot
    BY <1>0, <2>1, <2>3, <2>5 DEF GoodTasks, TaskRecords, TaskPcs, Holding
  <2> HIDE DEF k
  <2> QED
    BY <1>6, <2>4, <2>6, ReadingStep, ZenonT(40) DEF LookedUp
<1> QED
  BY <1>2, <1>3, <1>4, <1>5, <1>6

\* A step that writes to one slot in use and to one task is modest.
LEMMA UpdateLemma ==
  ASSUME Inv, NEW fl \in [Assocs -> [Targets -> Slots \cup {None}]],
         \A a \in Assocs, tgt \in Targets : fl[a][tgt] \in {None, flows[a][tgt]},
         NEW u \in Slots, NEW r \in GoodSlots,
         slot[u].cell # "blank", r.cell # "blank",
         NEW t \in Tasks, NEW k \in GoodTasks, k.slot \in {None, task[t].slot}
  PROVE  Modest(fl, [slot EXCEPT ![u] = r], [task EXCEPT ![t] = k])
  BY DEF Inv, Typed, Modest

\* A step that writes to one slot only.
LEMMA WorkerUpdate ==
  ASSUME Inv, NEW u \in Slots, NEW r \in GoodSlots, slot[u].worker # "none",
         r.cell # "blank", slot' = [slot EXCEPT ![u] = r],
         UNCHANGED <<alive, stopped, flows, task>>,
         preferred' \in [Assocs -> [Targets -> Indexes \cup {None}]],
         \A a \in Assocs : Cardinality(Remembered(a)') <= MaxPerAssoc
  PROVE  Inv'
<1>1. slot[u].cell # "blank"
  BY WorkerLemma
<1>2. Modest(flows', slot', task')
  BY <1>1 DEF Inv, Typed, Modest
<1> QED
  BY <1>2, WritingStep DEF Inv, Typed

\* A step that writes to a slot and to the task that holds it.
LEMMA TaskUpdate ==
  ASSUME Inv, NEW t \in Tasks, task[t].pc \in Holding, NEW k \in GoodTasks,
         k.slot = task[t].slot, task' = [task EXCEPT ![t] = k],
         NEW r \in GoodSlots, r.cell # "blank",
         slot' = [slot EXCEPT ![task[t].slot] = r],
         UNCHANGED <<alive, stopped, flows>>,
         preferred' \in [Assocs -> [Targets -> Indexes \cup {None}]],
         \A a \in Assocs : Cardinality(Remembered(a)') <= MaxPerAssoc
  PROVE  Inv'
<1>1. task[t].slot \in Slots /\ slot[task[t].slot].cell # "blank"
  BY HoldingLemma
<1>2. flows \in [Assocs -> [Targets -> Slots \cup {None}]]
  BY DEF Inv, Typed
<1>3. Modest(flows, slot', task')
  BY <1>1, <1>2, UpdateLemma
<1>4. Modest(flows', slot', task')
  BY <1>3
<1> QED
  BY <1>4, WritingStep DEF Inv, Typed

\* The addresses stay within their limit if they stay as they are.
LEMMA KeptLemma ==
  ASSUME Inv, UNCHANGED preferred
  PROVE  /\ preferred' \in [Assocs -> [Targets -> Indexes \cup {None}]]
         /\ \A a \in Assocs : Cardinality(Remembered(a)') <= MaxPerAssoc
  BY DEF Inv, Typed, Limits, Remembered

\* A new flow is opened below both limits: it is the one step that takes a slot.
LEMMA NewSlotStep ==
  ASSUME Inv, NEW t \in Tasks, NEW s \in Slots, NewSlotFor(t, s)
  PROVE  Inv'
<1> DEFINE a == task[t].assoc
           tgt == task[t].target
           k == [task[t] EXCEPT !.slot = s, !.pc = "cell"]
           r == NewSlot(a, tgt)
<1>1. task[t] \in GoodTasks /\ task[t].pc = "slot" /\ s # None
  BY NoneAssumption DEF Inv, Typed, NewSlotFor
<1>2. a \in Assocs /\ tgt \in Targets
  BY <1>1 DEF GoodTasks
<1>3. k \in GoodTasks /\ k.slot = s
  BY <1>1 DEF GoodTasks, TaskRecords, TaskPcs, Holding
<1>4. r \in GoodSlots /\ r.cell = "empty" /\ r.worker = "none"
  <2>1. r = [Blank EXCEPT !.cell = "empty", !.assoc = a, !.target = tgt]
    BY DEF NewSlot
  <2>2. Blank \in SlotRecords /\ Blank.worker = "none"
    BY LimitsAssumption DEF SlotRecords, Blank, Indexes, WorkerPcs
  <2> HIDE DEF r, a, tgt
  <2> QED
    BY <1>2, <2>1, <2>2 DEF GoodSlots, SlotRecords
<1>5. task' = [task EXCEPT ![t] = k]
  BY DEF NewSlotFor, Inv, Typed
<1>6. /\ slot' = [slot EXCEPT ![s] = r]
      /\ flows' = [flows EXCEPT ![a][tgt] = s]
      /\ UNCHANGED <<alive, stopped, preferred>>
      /\ slot[s] = Blank /\ ~AtLimit(a) /\ flows[a][tgt] = None
  BY DEF NewSlotFor
<1> HIDE DEF k, r, a, tgt
<1>7. Typed'
  BY <1>2, <1>3, <1>4, <1>5, <1>6 DEF Inv, Typed
<1>8. HeldInUse'
  <2> SUFFICES ASSUME NEW u \in Slots, Held(u, flows', slot', task')
               PROVE  slot'[u].cell # "blank"
    BY DEF HeldInUse
  <2>1. CASE u = s
    BY <1>4, <1>6, <2>1 DEF Inv, Typed
  <2>2. CASE u # s
    <3>1. slot'[u] = slot[u]
      BY <1>6, <2>2 DEF Inv, Typed
    <3>2. Held(u, flows, slot, task)
      BY <1>2, <1>3, <1>5, <1>6, <2>2, <3>1 DEF Held, Inv, Typed
    <3> QED
      BY <3>1, <3>2 DEF Inv, HeldInUse
  <2> QED
    BY <2>1, <2>2
<1>9. Cardinality(InUse') <= MaxFlows
  <2>1. InUse' = InUse \cup {s} /\ s \notin InUse
    BY <1>4, <1>6 DEF InUse, Inv, Typed, Blank
  <2>2. Cardinality(InUse) \in Nat /\ Cardinality(InUse) < MaxFlows
    BY <1>6, FiniteLemma, FS_CardinalityType, LimitsAssumption DEF AtLimit
  <2>3. Cardinality(InUse') = Cardinality(InUse) + 1
    BY <2>1, FiniteLemma, FS_AddElement
  <2> QED
    BY <2>2, <2>3, LimitsAssumption
<1>10. ASSUME NEW b \in Assocs PROVE Cardinality(FlowsOf(b)') <= MaxPerAssoc
  <2>1. CASE b # a
    <3>1. FlowsOf(b)' = FlowsOf(b)
      BY <1>2, <1>6, <2>1 DEF FlowsOf, Inv, Typed
    <3> QED
      BY <3>1 DEF Inv, Limits
  <2>2. CASE b = a
    <3>1. FlowsOf(b)' = FlowsOf(b) \cup {tgt} /\ tgt \notin FlowsOf(b)
      BY <1>1, <1>2, <1>6, <2>2 DEF FlowsOf, Inv, Typed
    <3>2. Cardinality(FlowsOf(b)) \in Nat /\ Cardinality(FlowsOf(b)) < MaxPerAssoc
      BY <1>6, <2>2, FiniteLemma, FS_CardinalityType, LimitsAssumption DEF AtLimit
    <3>3. Cardinality(FlowsOf(b)') = Cardinality(FlowsOf(b)) + 1
      BY <3>1, FiniteLemma, FS_AddElement
    <3> QED
      BY <3>2, <3>3, LimitsAssumption
  <2> QED
    BY <2>1, <2>2
<1>11. Limits'
  BY <1>6, <1>9, <1>10, KeptLemma DEF Limits
<1> QED
  BY <1>7, <1>8, <1>11 DEF Inv

\* The steps of a packet task that fill, renew or end the flow of its slot.
LEMMA TaskWrites ==
  ASSUME Inv, NEW t \in Tasks,
         \/ StartInit(t) \/ InitFails(t) \/ Publish(t) \/ Touch(t) \/ SendFails(t)
  PROVE  Inv'
<1>0. task[t] \in GoodTasks /\ task \in [Tasks -> GoodTasks]
  BY DEF Inv, Typed
<1>1. task[t].pc \in Holding => /\ task[t].slot \in Slots
                                /\ slot[task[t].slot] \in GoodSlots
                                /\ slot[task[t].slot].cell # "blank"
  BY HoldingLemma
<1>2. CASE StartInit(t)
  <2> DEFINE k == [task[t] EXCEPT !.pc = "lookup"]
             r == [slot[task[t].slot] EXCEPT !.cell = "initializing"]
  <2>1. task[t].pc = "cell"
    BY <1>2 DEF StartInit
  <2>2. k \in GoodTasks /\ k.slot = task[t].slot
    BY <1>0, <2>1, LimitsAssumption DEF GoodTasks, TaskRecords, TaskPcs, Holding
  <2>3. r \in GoodSlots /\ r.cell # "blank"
    BY <1>1, <2>1, LimitsAssumption DEF GoodSlots, SlotRecords, WorkerPcs, Holding, TaskPcs
  <2>4. /\ task' = [task EXCEPT ![t] = k]
        /\ slot' = [slot EXCEPT ![task[t].slot] = r]
        /\ UNCHANGED <<alive, stopped, flows, preferred>>
    BY <1>0, <1>1, <1>2, <2>1 DEF StartInit, GoTo, Holding, TaskPcs, Inv, Typed
  <2> HIDE DEF k, r
  <2> QED
    BY <2>1, <2>2, <2>3, <2>4, KeptLemma, TaskUpdate DEF Holding, TaskPcs
<1>3. CASE InitFails(t)
  <2> DEFINE k == [task[t] EXCEPT !.pc = "cell"]
             r == [slot[task[t].slot] EXCEPT !.cell = "nothing"]
  <2>1. task[t].pc \in {"lookup", "open"}
    BY <1>3 DEF InitFails
  <2>2. k \in GoodTasks /\ k.slot = task[t].slot
    BY <1>0, <2>1, LimitsAssumption DEF GoodTasks, TaskRecords, TaskPcs, Holding
  <2>3. r \in GoodSlots /\ r.cell # "blank"
    BY <1>1, <2>1, LimitsAssumption DEF GoodSlots, SlotRecords, WorkerPcs, Holding, TaskPcs
  <2>4. /\ task' = [task EXCEPT ![t] = k]
        /\ slot' = [slot EXCEPT ![task[t].slot] = r]
        /\ UNCHANGED <<alive, stopped, flows, preferred>>
    BY <1>0, <1>1, <1>3, <2>1 DEF InitFails, GoTo, Holding, TaskPcs, Inv, Typed
  <2> HIDE DEF k, r
  <2> QED
    BY <2>1, <2>2, <2>3, <2>4, KeptLemma, TaskUpdate DEF Holding, TaskPcs
<1>4. CASE Publish(t)
  <2> DEFINE k == [task[t] EXCEPT !.pc = "cell"]
             r == [slot[task[t].slot] EXCEPT !.cell = "flow"]
  <2>1. task[t].pc = "publish"
    BY <1>4 DEF Publish
  <2>2. k \in GoodTasks /\ k.slot = task[t].slot
    BY <1>0, <2>1, LimitsAssumption DEF GoodTasks, TaskRecords, TaskPcs, Holding
  <2>3. r \in GoodSlots /\ r.cell # "blank"
    BY <1>1, <2>1, LimitsAssumption DEF GoodSlots, SlotRecords, WorkerPcs, Holding, TaskPcs
  <2>4. /\ task' = [task EXCEPT ![t] = k]
        /\ slot' = [slot EXCEPT ![task[t].slot] = r]
        /\ UNCHANGED <<alive, stopped, flows, preferred>>
    BY <1>0, <1>1, <1>4, <2>1 DEF Publish, GoTo, Holding, TaskPcs, Inv, Typed
  <2> HIDE DEF k, r
  <2> QED
    BY <2>1, <2>2, <2>3, <2>4, KeptLemma, TaskUpdate DEF Holding, TaskPcs
<1>5. CASE Touch(t)
  <2> DEFINE k == [task[t] EXCEPT !.attempts = @ + 1, !.pc = "send"]
             r == [slot[task[t].slot] EXCEPT !.age = 0]
  <2>1. task[t].pc = "touch"
    BY <1>5 DEF Touch
  <2>2. k \in GoodTasks /\ k.slot = task[t].slot
    <3>1. task[t].attempts + 1 \in 0 .. MaxAddresses
      BY <1>0, <2>1, LimitsAssumption DEF GoodTasks, TaskRecords
    <3> QED
      BY <1>0, <2>1, <3>1 DEF GoodTasks, TaskRecords, TaskPcs, Holding
  <2>3. r \in GoodSlots /\ r.cell # "blank"
    BY <1>1, <2>1, LimitsAssumption DEF GoodSlots, SlotRecords, WorkerPcs, Holding, TaskPcs
  <2>4. /\ task' = [task EXCEPT ![t] = k]
        /\ slot' = [slot EXCEPT ![task[t].slot] = r]
        /\ UNCHANGED <<alive, stopped, flows, preferred>>
    BY <1>0, <1>1, <1>5, <2>1 DEF Touch, GoTo, Holding, TaskPcs, Inv, Typed
  <2> HIDE DEF k, r
  <2> QED
    BY <2>1, <2>2, <2>3, <2>4, KeptLemma, TaskUpdate DEF Holding, TaskPcs
<1>6. CASE SendFails(t)
  <2> DEFINE pc == IF slot[task[t].slot].active THEN "advance" ELSE "unlink"
             k == [task[t] EXCEPT !.pc = pc]
             r == [slot[task[t].slot] EXCEPT !.active = FALSE,
                    !.stopped = @ \/ ~slot[task[t].slot].active]
  <2>1. task[t].pc = "send"
    BY <1>6 DEF SendFails
  <2>2. k \in GoodTasks /\ k.slot = task[t].slot
    <3>1. pc \in {"advance", "unlink"}
      OBVIOUS
    <3> HIDE DEF pc
    <3> QED
      BY <1>0, <2>1, <3>1 DEF GoodTasks, TaskRecords, TaskPcs, Holding
  <2>3. r \in GoodSlots /\ r.cell # "blank"
    BY <1>1, <2>1, LimitsAssumption DEF GoodSlots, SlotRecords, WorkerPcs, Holding, TaskPcs
  <2>4. /\ task' = [task EXCEPT ![t] = k]
        /\ slot' = [slot EXCEPT ![task[t].slot] = r]
        /\ UNCHANGED <<alive, stopped, flows, preferred>>
    BY <1>0, <1>1, <1>6, <2>1 DEF SendFails, GoTo, Holding, TaskPcs, Inv, Typed
  <2> HIDE DEF k, r
  <2> QED
    BY <2>1, <2>2, <2>3, <2>4, KeptLemma, TaskUpdate DEF Holding, TaskPcs
<1> QED
  BY <1>2, <1>3, <1>4, <1>5, <1>6

\* The steps that also remember an address.
LEMMA TaskRemembers ==
  ASSUME Inv, NEW t \in Tasks,
         TaskAdvance(t) \/ \E offset \in Indexes : Open(t, offset)
  PROVE  Inv'
<1>0. task[t] \in GoodTasks /\ task \in [Tasks -> GoodTasks]
  BY DEF Inv, Typed
<1>1. task[t].pc \in Holding => /\ task[t].slot \in Slots
                                /\ slot[task[t].slot] \in GoodSlots
                                /\ slot[task[t].slot].cell # "blank"
                                /\ task[t].assoc \in Assocs /\ task[t].target \in Targets
  BY HoldingLemma
<1>2. CASE TaskAdvance(t)
  <2> DEFINE k == [task[t] EXCEPT !.pc = "unlink"]
             r == [slot[task[t].slot] EXCEPT !.spent = @ + 1, !.stopped = TRUE]
  <2>1. task[t].pc = "advance"
    BY <1>2 DEF TaskAdvance
  <2>2. k \in GoodTasks /\ k.slot = task[t].slot
    BY <1>0, <2>1 DEF GoodTasks, TaskRecords, TaskPcs, Holding
  <2>3. r \in GoodSlots /\ r.cell # "blank"
    <3>1. slot[task[t].slot].spent + 1 \in Nat
      BY <1>1, <2>1 DEF GoodSlots, SlotRecords, Holding, TaskPcs
    <3> QED
      BY <1>1, <2>1, <3>1 DEF GoodSlots, SlotRecords, Holding, TaskPcs
  <2>4. /\ task' = [task EXCEPT ![t] = k]
        /\ slot' = [slot EXCEPT ![task[t].slot] = r]
        /\ UNCHANGED <<alive, stopped, flows>>
    BY <1>0, <1>1, <1>2, <2>1 DEF TaskAdvance, GoTo, Holding, TaskPcs, Inv, Typed
  <2>5. /\ preferred' \in [Assocs -> [Targets -> Indexes \cup {None}]]
        /\ \A a \in Assocs : Cardinality(Remembered(a)') <= MaxPerAssoc
    <3>1. advance_udp_address(task[t].slot)
      BY <1>2 DEF TaskAdvance
    <3> QED
      BY <1>1, <2>1, <3>1, AdvanceLemma DEF Holding, TaskPcs
  <2> HIDE DEF k, r
  <2> QED
    BY <2>1, <2>2, <2>3, <2>4, <2>5, TaskUpdate DEF Holding, TaskPcs
<1>3. ASSUME NEW offset \in Indexes, Open(t, offset) PROVE Inv'
  <2> DEFINE i == (task[t].start + offset) % task[t].count
             k == [task[t] EXCEPT !.pc = "publish", !.count = 0, !.start = 0]
             r == [slot[task[t].slot] EXCEPT !.active = TRUE, !.age = 0, !.index = i,
                                             !.count = task[t].count, !.worker = "loop"]
  <2>1. task[t].pc = "open" /\ offset < task[t].count
    BY <1>3 DEF Open
  <2>2. k \in GoodTasks /\ k.slot = task[t].slot
    <3>1. 0 \in 0 .. MaxAddresses /\ 0 \in Indexes
      BY LimitsAssumption DEF Indexes
    <3> QED
      BY <1>0, <2>1, <3>1 DEF GoodTasks, TaskRecords, TaskPcs, Holding
  <2>3. task[t].count \in 1 .. MaxAddresses /\ task[t].start + offset \in Nat
    BY <1>0, <2>1, LimitsAssumption DEF GoodTasks, TaskRecords, Indexes
  <2>4. i \in Indexes
    BY <2>3, IndexLemma
  <2>5. /\ task' = [task EXCEPT ![t] = k]
        /\ slot' = [slot EXCEPT ![task[t].slot] = r]
        /\ UNCHANGED <<alive, stopped, flows>>
    <3>1. task' = [task EXCEPT ![t] = k]
      BY <1>0, <1>3 DEF Open
    <3>2. slot \in [Slots -> GoodSlots] /\ task[t].slot \in Slots
      BY <1>1, <2>1 DEF Holding, TaskPcs, Inv, Typed
    <3>3. slot' = [slot EXCEPT ![task[t].slot] = r]
      BY <1>3, <3>2 DEF Open
    <3> QED
      BY <1>3, <3>1, <3>3 DEF Open
  <2>6. /\ preferred' \in [Assocs -> [Targets -> Indexes \cup {None}]]
        /\ \A a \in Assocs : Cardinality(Remembered(a)') <= MaxPerAssoc
    <3>1. CASE task[t].count > 1
      <4>1. remember_udp_address(task[t].assoc, task[t].target, i)
        BY <1>3, <3>1 DEF Open
      <4> HIDE DEF i
      <4> QED
        BY <1>1, <2>1, <2>4, <4>1, RememberLemma DEF Inv, Holding, TaskPcs
    <3>2. CASE ~(task[t].count > 1)
      BY <1>3, <3>2, KeptLemma DEF Open
    <3> QED
      BY <3>1, <3>2
  <2>7. r \in GoodSlots /\ r.cell # "blank"
    <3>1. task[t].count \in 0 .. MaxAddresses /\ 0 \in 0 .. Timeout
      BY <2>3, LimitsAssumption
    <3> HIDE DEF i
    <3> QED
      BY <1>1, <2>1, <2>4, <3>1 DEF GoodSlots, SlotRecords, WorkerPcs, Holding, TaskPcs
  <2> HIDE DEF k, r
  <2> QED
    BY <2>1, <2>2, <2>5, <2>6, <2>7, TaskUpdate DEF Holding, TaskPcs
<1> QED
  BY <1>2, <1>3

\* The steps with which a task lets go of its slot.
LEMMA TaskSettles ==
  ASSUME Inv, NEW t \in Tasks,
         \/ DiscardNothing(t) \/ DiscardStale(t) \/ CheckAlive(t) \/ Sent(t)
         \/ TaskUnlink(t)
  PROVE  Inv'
<1> DEFINE u == task[t].slot
           fl == remove_flow_slot(task[t].assoc, task[t].target, u)
<1>0. task[t] \in GoodTasks /\ task \in [Tasks -> GoodTasks]
  BY DEF Inv, Typed
<1>1. /\ task[t].pc \in Holding
      /\ UNCHANGED <<alive, stopped, preferred>>
  BY DEF DiscardNothing, DiscardStale, CheckAlive, Sent, TaskUnlink, Holding, TaskPcs
<1>2. /\ u \in Slots /\ slot[u] \in GoodSlots /\ slot[u].cell # "blank"
      /\ task[t].assoc \in Assocs /\ task[t].target \in Targets
  BY <1>1, HoldingLemma
<1>3. slot = [slot EXCEPT ![u] = slot[u]] /\ slot \in [Slots -> GoodSlots]
  BY <1>2 DEF Inv, Typed
<1>4. /\ fl \in [Assocs -> [Targets -> Slots \cup {None}]]
      /\ \A b \in Assocs, g \in Targets : fl[b][g] \in {None, flows[b][g]}
  BY <1>2, RemoveLemma DEF Inv
<1>5. /\ flows \in [Assocs -> [Targets -> Slots \cup {None}]]
      /\ \A b \in Assocs, g \in Targets : flows[b][g] \in {None, flows[b][g]}
  BY DEF Inv, Typed
<1>6. Idle \in GoodTasks /\ Idle.slot = None
  BY LimitsAssumption DEF GoodTasks, TaskRecords, Idle, Indexes, TaskPcs, Holding
<1>7. ASSUME task[t].attempts < MaxAddresses, NEW n \in 0 .. MaxStaleRetries
      PROVE  LET k == [task[t] EXCEPT !.pc = "slot", !.slot = None, !.retries = n]
             IN  k \in GoodTasks /\ k.slot = None
  BY <1>0, <1>1, <1>2, <1>7 DEF GoodTasks, TaskRecords, TaskPcs, Holding
<1> HIDE DEF u, fl
<1>8. ASSUME NEW k \in GoodTasks, k.slot \in {None, task[t].slot},
             Settle(fl, slot, [task EXCEPT ![t] = k])
      PROVE  Inv'
  <2>1. Modest(fl, [slot EXCEPT ![u] = slot[u]], [task EXCEPT ![t] = k])
    BY <1>2, <1>4, <1>8, UpdateLemma
  <2>2. Modest(fl, slot, [task EXCEPT ![t] = k])
    BY <1>3, <2>1
  <2> QED
    BY <1>1, <1>8, <2>2, SettlingStep
<1>9. CASE DiscardNothing(t)
  BY <1>6, <1>8, <1>9 DEF DiscardNothing, Return, fl, u
<1>10. CASE DiscardStale(t)
  <2>1. CASE task[t].retries + 1 > MaxStaleRetries
    BY <1>6, <1>8, <1>10, <2>1 DEF DiscardStale, Return, fl, u
  <2>2. CASE ~(task[t].retries + 1 > MaxStaleRetries)
    <3> DEFINE k == [task[t] EXCEPT !.pc = "slot", !.slot = None,
                                    !.retries = task[t].retries + 1]
    <3>1. task[t].retries + 1 \in 0 .. MaxStaleRetries
      BY <1>0, <2>2, LimitsAssumption DEF GoodTasks, TaskRecords
    <3>2. task[t].attempts < MaxAddresses
      BY <1>0, <1>10 DEF DiscardStale, GoodTasks
    <3>3. k \in GoodTasks /\ k.slot = None
      BY <1>7, <3>1, <3>2
    <3>4. [Again(t) EXCEPT ![t].retries = task[t].retries + 1] = [task EXCEPT ![t] = k]
      BY <1>0 DEF Again
    <3>5. Settle(fl, slot, [Again(t) EXCEPT ![t].retries = task[t].retries + 1])
      BY <1>10, <2>2 DEF DiscardStale, fl, u
    <3> HIDE DEF k
    <3> QED
      BY <1>8, <3>3, <3>4, <3>5
  <2> QED
    BY <2>1, <2>2
<1>11. CASE TaskUnlink(t)
  <2>1. CASE task[t].attempts >= slot[u].count
    BY <1>6, <1>8, <1>11, <2>1 DEF TaskUnlink, Return, fl, u
  <2>2. CASE ~(task[t].attempts >= slot[u].count)
    <3> DEFINE k == [task[t] EXCEPT !.pc = "slot", !.slot = None,
                                    !.retries = task[t].retries]
    <3>1. task[t].retries \in 0 .. MaxStaleRetries
      BY <1>0 DEF GoodTasks, TaskRecords
    <3>2. task[t].attempts < MaxAddresses
      BY <1>0, <1>2, <2>2, LimitsAssumption DEF GoodTasks, TaskRecords, GoodSlots, SlotRecords
    <3>3. k \in GoodTasks /\ k.slot = None
      BY <1>7, <3>1, <3>2
    <3>4. Again(t) = [task EXCEPT ![t] = k]
      BY <1>0 DEF Again, GoodTasks, TaskRecords
    <3>5. Settle(fl, slot, Again(t))
      BY <1>11, <2>2 DEF TaskUnlink, fl, u
    <3> HIDE DEF k
    <3> QED
      BY <1>8, <3>3, <3>4, <3>5
  <2> QED
    BY <2>1, <2>2
<1>12. CASE CheckAlive(t)
  <2> DEFINE k == IF alive[task[t].assoc] THEN [task[t] EXCEPT !.pc = "touch"] ELSE Idle
  <2>1. task[t].pc = "alive"
    BY <1>12 DEF CheckAlive
  <2>2. k \in GoodTasks /\ k.slot \in {None, task[t].slot}
    <3>1. /\ [task[t] EXCEPT !.pc = "touch"] \in GoodTasks
          /\ [task[t] EXCEPT !.pc = "touch"].slot = task[t].slot
      BY <1>0, <2>1 DEF GoodTasks, TaskRecords, TaskPcs, Holding
    <3> QED
      BY <1>6, <3>1
  <2>3. Settle(flows, slot, [task EXCEPT ![t] = k])
    BY <1>0, <1>12 DEF CheckAlive, GoTo, Return
  <2> HIDE DEF k
  <2>4. Modest(flows, [slot EXCEPT ![u] = slot[u]], [task EXCEPT ![t] = k])
    BY <1>2, <1>5, <2>2, UpdateLemma
  <2>5. Modest(flows, slot, [task EXCEPT ![t] = k])
    BY <1>3, <2>4
  <2> QED
    BY <1>1, <2>3, <2>5, SettlingStep
<1>13. CASE Sent(t)
  <2> DEFINE r == [slot[u] EXCEPT !.age = 0]
  <2>1. r \in GoodSlots /\ r.cell # "blank"
    BY <1>2, LimitsAssumption DEF GoodSlots, SlotRecords
  <2>2. Settle(flows, [slot EXCEPT ![u] = r], [task EXCEPT ![t] = Idle])
    BY <1>2, <1>3, <1>13 DEF Sent, Return, u
  <2> HIDE DEF r
  <2>3. Modest(flows, [slot EXCEPT ![u] = r], [task EXCEPT ![t] = Idle])
    BY <1>2, <1>5, <1>6, <2>1, UpdateLemma
  <2> QED
    BY <1>1, <2>2, <2>3, SettlingStep
<1> QED
  BY <1>9, <1>10, <1>11, <1>12, <1>13

------------------------------------------------------------------------------
\* The steps of a worker up to the removal of its slot.
LEMMA WorkerSteps ==
  ASSUME Inv, NEW s \in Slots,
         \/ WorkerLoop(s) \/ WorkerDeadline(s) \/ WorkerCancelled(s)
         \/ Receive(s) \/ ReceiveFails(s) \/ WorkerSwap(s) \/ WorkerAdvance(s)
  PROVE  Inv'
<1>0. slot[s].worker # "none" /\ UNCHANGED <<alive, stopped, flows, task>>
  BY DEF WorkerLoop, WorkerDeadline, WorkerCancelled, Receive, ReceiveFails, WorkerSwap,
         WorkerAdvance
<1>1. /\ slot[s] \in GoodSlots /\ slot[s].cell # "blank"
      /\ slot \in [Slots -> GoodSlots] /\ 0 \in 0 .. Timeout
  BY <1>0, WorkerLemma, LimitsAssumption DEF Inv, Typed
<1>2. ASSUME NEW r \in GoodSlots, r.cell # "blank", slot' = [slot EXCEPT ![s] = r],
             UNCHANGED preferred
      PROVE  Inv'
  BY <1>0, <1>2, KeptLemma, WorkerUpdate
<1>3. ASSUME NEW w \in WorkerPcs, slot' = Worker(s, w), UNCHANGED preferred PROVE Inv'
  <2> DEFINE r == [slot[s] EXCEPT !.worker = w]
  <2>1. r \in GoodSlots /\ r.cell # "blank"
    BY <1>1 DEF GoodSlots, SlotRecords
  <2>2. slot' = [slot EXCEPT ![s] = r]
    BY <1>1, <1>3 DEF Worker
  <2> HIDE DEF r
  <2> QED
    BY <1>2, <1>3, <2>1, <2>2
<1>4. ASSUME NEW y \in {"closed", "expired", "error"}, slot' = Leave(s, y),
             UNCHANGED preferred
      PROVE  Inv'
  <2> DEFINE r == [slot[s] EXCEPT !.worker = "swap", !.why = y]
  <2>1. r \in GoodSlots /\ r.cell # "blank"
    BY <1>1 DEF GoodSlots, SlotRecords, WorkerPcs
  <2>2. slot' = [slot EXCEPT ![s] = r]
    BY <1>1, <1>4 DEF Leave
  <2> HIDE DEF r
  <2> QED
    BY <1>2, <1>4, <2>1, <2>2
<1>5. CASE WorkerLoop(s)
  BY <1>3, <1>4, <1>5 DEF WorkerLoop, WorkerPcs
<1>6. CASE WorkerDeadline(s)
  BY <1>3, <1>4, <1>6 DEF WorkerDeadline, WorkerPcs
<1>7. CASE WorkerCancelled(s)
  BY <1>4, <1>7 DEF WorkerCancelled
<1>8. CASE ReceiveFails(s)
  BY <1>4, <1>8 DEF ReceiveFails
<1>9. CASE Receive(s)
  <2>1. CASE alive[slot[s].assoc]
    <3> DEFINE r == [slot[s] EXCEPT !.worker = "loop", !.received = TRUE, !.age = 0]
    <3>1. r \in GoodSlots /\ r.cell # "blank"
      BY <1>1 DEF GoodSlots, SlotRecords, WorkerPcs
    <3>2. slot' = [slot EXCEPT ![s] = r]
      BY <1>1, <1>9, <2>1 DEF Receive, Worker
    <3> HIDE DEF r
    <3> QED
      BY <1>2, <1>9, <3>1, <3>2 DEF Receive
  <2>2. CASE ~alive[slot[s].assoc]
    BY <1>4, <1>9, <2>2 DEF Receive
  <2> QED
    BY <2>1, <2>2
<1>10. CASE WorkerSwap(s)
  <2> DEFINE w == IF slot[s].active /\ failed(s) THEN "advance" ELSE "unlink"
             r == [slot[s] EXCEPT !.worker = w, !.active = FALSE]
  <2>1. w \in WorkerPcs
    BY DEF WorkerPcs
  <2>2. slot' = [slot EXCEPT ![s] = r]
    BY <1>1, <1>10 DEF WorkerSwap, Worker
  <2>3. r \in GoodSlots /\ r.cell # "blank"
    <3> HIDE DEF w
    <3> QED
      BY <1>1, <2>1 DEF GoodSlots, SlotRecords
  <2> HIDE DEF r
  <2> QED
    BY <1>2, <1>10, <2>2, <2>3 DEF WorkerSwap
<1>11. CASE WorkerAdvance(s)
  <2> DEFINE r == [slot[s] EXCEPT !.worker = "unlink", !.spent = @ + 1]
  <2>1. r \in GoodSlots /\ r.cell # "blank"
    <3>1. slot[s].spent + 1 \in Nat
      BY <1>1 DEF GoodSlots, SlotRecords
    <3> QED
      BY <1>1, <3>1 DEF GoodSlots, SlotRecords, WorkerPcs
  <2>2. slot' = [slot EXCEPT ![s] = r]
    BY <1>1, <1>11 DEF WorkerAdvance, Worker
  <2>3. advance_udp_address(s)
    BY <1>11 DEF WorkerAdvance
  <2> HIDE DEF r
  <2> QED
    BY <1>0, <1>1, <2>1, <2>2, <2>3, AdvanceLemma, WorkerUpdate
<1> QED
  BY <1>5, <1>6, <1>7, <1>8, <1>9, <1>10, <1>11

\* The worker removes its slot and is gone.
LEMMA WorkerEnds ==
  ASSUME Inv, NEW s \in Slots, WorkerUnlink(s)
  PROVE  Inv'
<1> DEFINE fl == remove_flow_slot(slot[s].assoc, slot[s].target, s)
           r  == [slot[s] EXCEPT !.worker = "done", !.age = 0, !.why = "none",
                                 !.received = FALSE]
<1>1. /\ slot[s] \in GoodSlots /\ slot[s].cell # "blank"
      /\ slot[s].assoc \in Assocs /\ slot[s].target \in Targets
      /\ slot \in [Slots -> GoodSlots] /\ 0 \in 0 .. Timeout
  BY WorkerLemma, LimitsAssumption DEF Inv, Typed, WorkerUnlink
<1>2. /\ fl \in [Assocs -> [Targets -> Slots \cup {None}]]
      /\ \A b \in Assocs, g \in Targets : fl[b][g] \in {None, flows[b][g]}
  BY <1>1, RemoveLemma DEF Inv
<1>3. r \in GoodSlots /\ r.cell # "blank"
  BY <1>1 DEF GoodSlots, SlotRecords, WorkerPcs
<1>4. /\ Settle(fl, [slot EXCEPT ![s] = r], task)
      /\ UNCHANGED <<alive, stopped, preferred>>
  BY <1>1 DEF WorkerUnlink, Worker
<1> HIDE DEF fl, r
<1>5. Modest(fl, [slot EXCEPT ![s] = r], task)
  BY <1>1, <1>2, <1>3 DEF Modest, Inv, Typed
<1> QED
  BY <1>4, <1>5, SettlingStep

\* The control connection and the clock.
LEMMA OtherSteps ==
  ASSUME Inv, Tick \/ \E a \in Assocs : CloseFlag(a) \/ CloseToken(a)
  PROVE  Inv'
<1>1. CASE \E a \in Assocs : CloseFlag(a) \/ CloseToken(a)
  <2>1. UNCHANGED <<flows, preferred, slot, task>>
    BY <1>1 DEF CloseFlag, CloseToken
  <2>2. alive' \in [Assocs -> BOOLEAN] /\ stopped' \in [Assocs -> BOOLEAN]
    BY <1>1 DEF CloseFlag, CloseToken, Inv, Typed
  <2>3. Modest(flows', slot', task')
    BY <2>1 DEF Modest, Inv, Typed
  <2> QED
    BY <2>1, <2>2, <2>3, KeptLemma, WritingStep
<1>2. CASE Tick
  <2>1. UNCHANGED <<alive, stopped, flows, preferred, task>>
    BY <1>2 DEF Tick
  <2>2. ASSUME NEW s \in Slots, slot'[s] # slot[s]
        PROVE  slot[s].cell # "blank" /\ slot'[s] \in GoodSlots /\ slot'[s].cell # "blank"
    <3>1. /\ slot[s].worker # "none" /\ slot[s].age < Timeout
          /\ slot'[s] = [slot[s] EXCEPT !.age = @ + 1]
      BY <1>2, <2>2 DEF Tick
    <3>2. slot[s] \in GoodSlots /\ slot[s].cell # "blank"
      BY <3>1, WorkerLemma
    <3>3. slot[s].age + 1 \in 0 .. Timeout
      BY <3>1, <3>2, LimitsAssumption DEF GoodSlots, SlotRecords
    <3> QED
      BY <3>1, <3>2, <3>3 DEF GoodSlots, SlotRecords
  <2>3. slot' \in [Slots -> GoodSlots]
    <3>1. DOMAIN slot' = Slots /\ slot' = [s \in Slots |-> slot'[s]]
      BY <1>2 DEF Tick
    <3> QED
      BY <2>2, <3>1 DEF Inv, Typed
  <2>4. Modest(flows', slot', task')
    BY <2>1, <2>2, <2>3 DEF Modest, Inv, Typed
  <2> QED
    BY <2>1, <2>4, KeptLemma, WritingStep DEF Inv, Typed
<1> QED
  BY <1>1, <1>2

\* Every step of the tasks, the workers, the control connections and the clock.
LEMMA NextInv == Inv /\ [Next]_vars => Inv'
<1> SUFFICES ASSUME Inv, [Next]_vars PROVE Inv'
  OBVIOUS
<1>1. ASSUME NEW t \in Tasks,
             TaskStep(t) \/ \E a \in Assocs, tgt \in Targets : Spawn(t, a, tgt)
      PROVE  Inv'
  BY <1>1, NewSlotStep, TaskReads, TaskWrites, TaskRemembers, TaskSettles DEF TaskStep
<1>2. ASSUME NEW s \in Slots, WorkerStep(s) \/ Receive(s) \/ ReceiveFails(s) PROVE Inv'
  BY <1>2, WorkerSteps, WorkerEnds DEF WorkerStep
<1>3. CASE Quiet \/ UNCHANGED vars
  BY <1>3 DEF Quiet, vars, Inv, Typed, HeldInUse, Held, Limits, InUse, FlowsOf, Remembered
<1> QED
  BY <1>1, <1>2, <1>3, OtherSteps DEF Next

------------------------------------------------------------------------------
\* Every reachable state has the type of the module: tasks hold a slot exactly
\* while they work with one, and their retries are bounded by the number of
\* addresses and by MaxStaleRetries (handle_udp_packet).
THEOREM TypeCorrect == Spec => []TypeOK
<1>1. Inv => TypeOK
  BY TypedLemma DEF Inv
<1> QED
  BY <1>1, InitInv, NextInv, PTL DEF Spec

\* Open flows, the ones that wind down included, mapped flows and remembered
\* addresses stay within MAX_UDP_FLOWS and MAX_FLOWS_PER_ASSOCIATION, for any
\* number of tasks, targets and addresses.
THEOREM LimitsHold == Spec => []Bounded
<1>1. Inv => Bounded
  <2> SUFFICES ASSUME Inv PROVE Bounded
    OBVIOUS
  <2> DEFINE W == {s \in Slots : slot[s].worker \notin {"none", "done"}}
  <2>1. W \subseteq InUse
    BY DEF InUse, Blank
  <2>2. IsFiniteSet(W) /\ Cardinality(W) <= Cardinality(InUse)
    BY <2>1, FiniteLemma, FS_Subset
  <2>3. Cardinality(W) \in Nat /\ Cardinality(InUse) \in Nat
    BY <2>2, FiniteLemma, FS_CardinalityType
  <2>4. Cardinality(W) <= MaxFlows
    BY <2>2, <2>3, LimitsAssumption DEF Inv, Limits
  <2> QED
    BY <2>4 DEF Inv, Limits, Bounded
<1> QED
  BY <1>1, InitInv, NextInv, PTL DEF Spec

------------------------------------------------------------------------------
(* The races between packet tasks and workers: a target has one active     *)
(* flow, no slot is orphaned, and a flow that failed gives up its address  *)
(* once.                                                                   *)
\* Where the worker has not looked at `active` for the last time.
Ahead == {"loop", "deadline", "wait", "swap"}
\* Where a task initialises the cell of its slot, and where it will fill it or
\* remove it.
Filling   == {"lookup", "open", "publish"}
Attending == {"cell", "lookup", "open"}

\* A slot by itself: a flow has a worker from the moment it is opened, it is
\* active until somebody ends it, and whoever ends it gives up its address.
SoundSlot(r) ==
  /\ r.cell \in {"blank", "empty", "nothing"} => r.worker = "none"
  /\ r.cell = "flow" => r.worker # "none"
  /\ r.worker = "none" => ~r.active /\ r.spent = 0
  /\ r.active => r.worker \in Ahead
  /\ r.active \/ r.worker = "advance" => r.spent = 0
  /\ r.spent \in {0, 1}

\* What a task knows of the slot it holds.
Fits(k, r) ==
  /\ r.assoc = k.assoc /\ r.target = k.target
  /\ k.pc \in {"lookup", "open"} => r.cell = "initializing" /\ r.worker = "none"
  /\ k.pc = "publish" => r.cell = "initializing" /\ r.worker # "none"
  /\ k.pc \in {"alive", "touch", "send", "advance", "unlink"} => r.cell = "flow"
  /\ k.pc \in {"advance", "unlink"} => ~r.active
  /\ k.pc = "advance" => r.spent = 0 /\ r.worker # "advance"

\* A slot that has to stay in the map: its flow is active, or still to come.
Wanted(r) ==
  \/ r.active
  \/ r.cell \in {"empty", "initializing"} /\ r.worker = "none"

\* The flow was ended for a failure, or will be, and its address was not given
\* up yet.
Due(r) ==
  /\ ~r.active /\ r.spent = 0
  /\ \/ r.worker \in Ahead
     \/ /\ r.worker = "unlink"
        /\ r.why = "error" \/ (r.why = "expired" /\ ~r.received)

AllSound(sl) == \A s \in Slots : SoundSlot(sl[s])
AllFit(sl, tk) ==
  \A t \in Tasks : tk[t].slot # None => Fits(tk[t], sl[tk[t].slot])
\* One task at a time fills a slot, and one gives up its address.
Alone(tk) ==
  \A t, u \in Tasks :
    t # u /\ tk[t].slot = tk[u].slot /\ tk[t].slot # None =>
      /\ ~(tk[t].pc \in Filling /\ tk[u].pc \in Filling)
      /\ ~(tk[t].pc = "advance" /\ tk[u].pc = "advance")
MapsOwn(fl, sl) ==
  \A a \in Assocs, tgt \in Targets :
    LET s == fl[a][tgt] IN
    s # None => sl[s].assoc = a /\ sl[s].target = tgt /\ sl[s].worker # "done"
KeepsWanted(fl, sl) ==
  \A s \in Slots : Wanted(sl[s]) => fl[sl[s].assoc][sl[s].target] = s
Attended(fl, sl, tk) ==
  \A a \in Assocs, tgt \in Targets :
    LET s == fl[a][tgt] IN
    s # None /\ sl[s].worker = "none" =>
      \E t \in Tasks : tk[t].slot = s /\ tk[t].pc \in Attending
Owed(sl, tk) ==
  \A s \in Slots :
    Due(sl[s]) => \E t \in Tasks : tk[t].slot = s /\ tk[t].pc = "advance"

Race(fl, sl, tk) ==
  /\ AllSound(sl) /\ AllFit(sl, tk) /\ Alone(tk)
  /\ MapsOwn(fl, sl) /\ KeepsWanted(fl, sl)
  /\ Attended(fl, sl, tk) /\ Owed(sl, tk)

RaceInv == Race(flows, slot, task)

FlowMaps == [Assocs -> [Targets -> Slots \cup {None}]]

------------------------------------------------------------------------------
\* A step that changes one slot, and the tasks that hold it.
LEMMA ChangeLemma ==
  ASSUME NEW fl \in FlowMaps, NEW sl \in [Slots -> GoodSlots],
         NEW tk \in [Tasks -> GoodTasks], Race(fl, sl, tk),
         NEW s \in Slots, NEW r \in GoodSlots, NEW tk2 \in [Tasks -> GoodTasks],
         SoundSlot(r), r.assoc = sl[s].assoc, r.target = sl[s].target,
         r.worker = "done" => \A a \in Assocs, tgt \in Targets : fl[a][tgt] # s,
         Wanted(r) => Wanted(sl[s]),
         \A u \in Tasks : tk[u].slot # s => tk2[u] = tk[u],
         \A u \in Tasks : tk2[u].slot \in {None, tk[u].slot},
         \A u \in Tasks : tk2[u].slot = s => Fits(tk2[u], r),
         Alone(tk2),
         r.worker = "none" =>
           \/ \A a \in Assocs, tgt \in Targets : fl[a][tgt] # s
           \/ \E u \in Tasks : tk2[u].slot = s /\ tk2[u].pc \in Attending,
         Due(r) => \E u \in Tasks : tk2[u].slot = s /\ tk2[u].pc = "advance"
  PROVE  Race(fl, [sl EXCEPT ![s] = r], tk2)
<1> DEFINE sl2 == [sl EXCEPT ![s] = r]
<1>1. sl2[s] = r /\ \A u \in Slots \ {s} : sl2[u] = sl[u]
  OBVIOUS
<1> HIDE DEF sl2
<1>0. None \notin Slots
  BY NoneAssumption
<1>2. AllSound(sl2)
  BY <1>1 DEF Race, AllSound
<1>3. AllFit(sl2, tk2)
  <2> SUFFICES ASSUME NEW u \in Tasks, tk2[u].slot # None
               PROVE  Fits(tk2[u], sl2[tk2[u].slot])
    BY DEF AllFit
  <2>1. CASE tk2[u].slot = s
    BY <1>1, <2>1
  <2>2. CASE tk2[u].slot # s
    <3>1. tk2[u] = tk[u] /\ tk[u].slot \in Slots
      BY <2>2 DEF GoodTasks, TaskRecords
    <3>2. sl2[tk2[u].slot] = sl[tk[u].slot]
      BY <1>1, <2>2, <3>1
    <3>3. Fits(tk[u], sl[tk[u].slot])
      BY <3>1, <1>0 DEF Race, AllFit
    <3> QED
      BY <3>1, <3>2, <3>3
  <2> QED
    BY <2>1, <2>2
<1>4. MapsOwn(fl, sl2)
  BY <1>1 DEF Race, MapsOwn, FlowMaps
<1>5. KeepsWanted(fl, sl2)
  BY <1>1 DEF Race, KeepsWanted
<1>6. Attended(fl, sl2, tk2)
  <2> SUFFICES ASSUME NEW a \in Assocs, NEW tgt \in Targets, fl[a][tgt] # None,
                      sl2[fl[a][tgt]].worker = "none"
               PROVE  \E u \in Tasks : tk2[u].slot = fl[a][tgt] /\ tk2[u].pc \in Attending
    BY DEF Attended
  <2>1. fl[a][tgt] \in Slots
    BY DEF FlowMaps
  <2>2. CASE fl[a][tgt] = s
    BY <1>1, <2>2
  <2>3. CASE fl[a][tgt] # s
    <3>1. PICK u \in Tasks : tk[u].slot = fl[a][tgt] /\ tk[u].pc \in Attending
      BY <1>1, <2>1, <2>3 DEF Race, Attended
    <3> QED
      BY <2>3, <3>1
  <2> QED
    BY <2>2, <2>3
<1>7. Owed(sl2, tk2)
  <2> SUFFICES ASSUME NEW u \in Slots, Due(sl2[u])
               PROVE  \E t \in Tasks : tk2[t].slot = u /\ tk2[t].pc = "advance"
    BY DEF Owed
  <2>1. CASE u = s
    BY <1>1, <2>1
  <2>2. CASE u # s
    <3>1. PICK t \in Tasks : tk[t].slot = u /\ tk[t].pc = "advance"
      BY <1>1, <2>2 DEF Race, Owed
    <3> QED
      BY <2>2, <3>1
  <2> QED
    BY <2>1, <2>2
<1>8. Race(fl, sl2, tk2)
  BY <1>2, <1>3, <1>4, <1>5, <1>6, <1>7 DEF Race
<1> QED
  BY <1>8 DEF sl2

\* remove_flow_slot of a slot that need not stay.
LEMMA UnmapLemma ==
  ASSUME NEW fl \in FlowMaps, NEW sl, NEW tk, Race(fl, sl, tk),
         NEW s \in Slots, ~Wanted(sl[s]), NEW fl2 \in FlowMaps,
         \A a \in Assocs, tgt \in Targets :
           \/ fl2[a][tgt] = fl[a][tgt]
           \/ fl2[a][tgt] = None /\ fl[a][tgt] = s,
         \A u \in Slots : Wanted(sl[u]) => sl[u].assoc \in Assocs /\ sl[u].target \in Targets
  PROVE  Race(fl2, sl, tk)
<1>1. MapsOwn(fl2, sl)
  BY DEF Race, MapsOwn
<1>2. KeepsWanted(fl2, sl)
  BY NoneAssumption DEF Race, KeepsWanted
<1>3. Attended(fl2, sl, tk)
  BY DEF Race, Attended
<1> QED
  BY <1>1, <1>2, <1>3 DEF Race

\* Slots that nobody holds are given back: the last Arc is dropped.
LEMMA SettleLemma ==
  ASSUME NEW fl \in FlowMaps, NEW sl \in [Slots -> GoodSlots],
         NEW tk \in [Tasks -> GoodTasks], Race(fl, sl, tk), Settle(fl, sl, tk)
  PROVE  RaceInv'
<1>1. /\ flows' = fl /\ task' = tk
      /\ \A s \in Slots : slot'[s] = IF Held(s, fl, sl, tk) THEN sl[s] ELSE Blank
  BY DEF Settle
<1>2. SoundSlot(Blank) /\ ~Wanted(Blank) /\ ~Due(Blank)
  BY DEF SoundSlot, Wanted, Due, Blank, Ahead
<1>3. \A t \in Tasks : tk[t].slot # None => /\ tk[t].slot \in Slots
                                           /\ slot'[tk[t].slot] = sl[tk[t].slot]
  BY <1>1 DEF Held, GoodTasks, TaskRecords
<1>4. \A a \in Assocs, tgt \in Targets :
        fl[a][tgt] # None => slot'[fl[a][tgt]] = sl[fl[a][tgt]]
  BY <1>1 DEF Held, FlowMaps
<1>5. \A s \in Slots : slot'[s] = sl[s] \/ slot'[s] = Blank
  BY <1>1
<1>6. AllSound(slot')
  BY <1>2, <1>5 DEF Race, AllSound
<1>7. AllFit(slot', tk)
  BY <1>3 DEF Race, AllFit
<1>8. MapsOwn(fl, slot')
  BY <1>4 DEF Race, MapsOwn
<1>9. KeepsWanted(fl, slot')
  BY <1>2, <1>5 DEF Race, KeepsWanted
<1>10. Attended(fl, slot', tk)
  BY <1>4 DEF Race, Attended
<1>11. Owed(slot', tk)
  BY <1>2, <1>5 DEF Race, Owed
<1> QED
  BY <1>1, <1>6, <1>7, <1>8, <1>9, <1>10, <1>11 DEF RaceInv, Race

\* A task lets go of its slot: it does not owe an address, and the slot is not
\* waiting for it.
LEMMA LetGoLemma ==
  ASSUME NEW fl, NEW sl, NEW tk \in [Tasks -> GoodTasks], Race(fl, sl, tk),
         NEW t \in Tasks, NEW k \in GoodTasks, k.slot = None, tk[t].pc # "advance",
         tk[t].pc \in Attending =>
           \A a \in Assocs, tgt \in Targets :
             fl[a][tgt] = tk[t].slot => sl[tk[t].slot].worker # "none"
  PROVE  Race(fl, sl, [tk EXCEPT ![t] = k])
<1> DEFINE tk2 == [tk EXCEPT ![t] = k]
<1>1. tk2[t].slot = None /\ \A u \in Tasks \ {t} : tk2[u] = tk[u]
  OBVIOUS
<1> HIDE DEF tk2
<1>2. AllFit(sl, tk2)
  BY <1>1 DEF Race, AllFit
<1>3. Alone(tk2)
  BY <1>1 DEF Race, Alone
<1>4. Attended(fl, sl, tk2)
  <2> SUFFICES ASSUME NEW a \in Assocs, NEW tgt \in Targets, fl[a][tgt] # None,
                      sl[fl[a][tgt]].worker = "none"
               PROVE  \E u \in Tasks : tk2[u].slot = fl[a][tgt] /\ tk2[u].pc \in Attending
    BY DEF Attended
  <2>1. PICK u \in Tasks : tk[u].slot = fl[a][tgt] /\ tk[u].pc \in Attending
    BY DEF Race, Attended
  <2>2. u # t
    BY <2>1
  <2> QED
    BY <1>1, <2>1, <2>2
<1>5. Owed(sl, tk2)
  <2> SUFFICES ASSUME NEW s \in Slots, Due(sl[s])
               PROVE  \E u \in Tasks : tk2[u].slot = s /\ tk2[u].pc = "advance"
    BY DEF Owed
  <2>1. PICK u \in Tasks : tk[u].slot = s /\ tk[u].pc = "advance"
    BY DEF Race, Owed
  <2> QED
    BY <1>1, <2>1
<1>6. Race(fl, sl, tk2)
  BY <1>2, <1>3, <1>4, <1>5 DEF Race
<1> QED
  BY <1>6 DEF tk2

\* A task without a slot goes on, or takes one that it fits.
LEMMA TakeUpLemma ==
  ASSUME NEW fl, NEW sl, NEW tk \in [Tasks -> GoodTasks], Race(fl, sl, tk),
         NEW t \in Tasks, NEW k \in GoodTasks, tk[t].slot = None,
         k.slot # None => k.pc = "cell" /\ Fits(k, sl[k.slot])
  PROVE  Race(fl, sl, [tk EXCEPT ![t] = k])
<1> DEFINE tk2 == [tk EXCEPT ![t] = k]
<1>1. tk2[t] = k /\ \A u \in Tasks \ {t} : tk2[u] = tk[u]
  OBVIOUS
<1> HIDE DEF tk2
<1>2. AllFit(sl, tk2)
  BY <1>1 DEF Race, AllFit
<1>3. Alone(tk2)
  BY <1>1 DEF Race, Alone, Filling
<1>4. Attended(fl, sl, tk2)
  <2> SUFFICES ASSUME NEW a \in Assocs, NEW tgt \in Targets, fl[a][tgt] # None,
                      sl[fl[a][tgt]].worker = "none"
               PROVE  \E u \in Tasks : tk2[u].slot = fl[a][tgt] /\ tk2[u].pc \in Attending
    BY DEF Attended
  <2>1. PICK u \in Tasks : tk[u].slot = fl[a][tgt] /\ tk[u].pc \in Attending
    BY DEF Race, Attended
  <2> QED
    BY <1>1, <2>1
<1>5. Owed(sl, tk2)
  <2> SUFFICES ASSUME NEW s \in Slots, Due(sl[s])
               PROVE  \E u \in Tasks : tk2[u].slot = s /\ tk2[u].pc = "advance"
    BY DEF Owed
  <2>1. PICK u \in Tasks : tk[u].slot = s /\ tk[u].pc = "advance"
    BY DEF Race, Owed
  <2> QED
    BY <1>1, <2>1, NoneAssumption
<1>6. Race(fl, sl, tk2)
  BY <1>2, <1>3, <1>4, <1>5 DEF Race
<1> QED
  BY <1>6 DEF tk2

\* A task that holds a slot changes it, or goes on with it.
LEMMA HolderLemma ==
  ASSUME Inv, RaceInv, NEW t \in Tasks, task[t].pc \in Holding,
         NEW k \in GoodTasks, NEW r \in GoodSlots,
         LET s == task[t].slot IN
         /\ k.slot = s
         /\ r.assoc = slot[s].assoc /\ r.target = slot[s].target
         /\ r.worker = "done" => slot[s].worker = "done"
         /\ SoundSlot(r) /\ Fits(k, r)
         /\ Wanted(r) => Wanted(slot[s])
         /\ \A u \in Tasks \ {t} : task[u].slot = s =>
              /\ Fits(task[u], r)
              /\ k.pc \in Filling => task[u].pc \notin Filling
              /\ k.pc = "advance" => task[u].pc # "advance"
         /\ r.worker = "none" => k.pc \in Attending
         /\ Due(r) => k.pc = "advance" \/ (Due(slot[s]) /\ task[t].pc # "advance")
  PROVE  Race(flows, [slot EXCEPT ![task[t].slot] = r], [task EXCEPT ![t] = k])
<1> DEFINE s == task[t].slot
           tk2 == [task EXCEPT ![t] = k]
<1>1. /\ s \in Slots /\ slot \in [Slots -> GoodSlots] /\ task \in [Tasks -> GoodTasks]
      /\ flows \in FlowMaps
  BY HoldingLemma DEF Inv, Typed, FlowMaps
<1>2. tk2 \in [Tasks -> GoodTasks] /\ tk2[t] = k /\ \A u \in Tasks \ {t} : tk2[u] = task[u]
  BY <1>1
<1> HIDE DEF tk2
<1>3. r.worker = "done" => \A a \in Assocs, tgt \in Targets : flows[a][tgt] # s
  BY <1>1, NoneAssumption DEF RaceInv, Race, MapsOwn
<1>4. /\ \A u \in Tasks : task[u].slot # s => tk2[u] = task[u]
      /\ \A u \in Tasks : tk2[u].slot \in {None, task[u].slot}
      /\ \A u \in Tasks : tk2[u].slot = s => Fits(tk2[u], r)
  BY <1>2
<1>5. Alone(tk2)
  <2> SUFFICES ASSUME NEW u \in Tasks, NEW v \in Tasks, u # v,
                      tk2[u].slot = tk2[v].slot, tk2[u].slot # None
               PROVE  /\ ~(tk2[u].pc \in Filling /\ tk2[v].pc \in Filling)
                      /\ ~(tk2[u].pc = "advance" /\ tk2[v].pc = "advance")
    BY DEF Alone
  <2>1. CASE u = t \/ v = t
    BY <1>2, <2>1
  <2>2. CASE u # t /\ v # t
    BY <1>2, <2>2 DEF RaceInv, Race, Alone
  <2> QED
    BY <2>1, <2>2
<1>6. r.worker = "none" => \E u \in Tasks : tk2[u].slot = s /\ tk2[u].pc \in Attending
  BY <1>2
<1>7. Due(r) => \E u \in Tasks : tk2[u].slot = s /\ tk2[u].pc = "advance"
  <2>1. CASE k.pc = "advance"
    BY <1>2, <2>1
  <2>2. CASE Due(slot[s]) /\ task[t].pc # "advance"
    <3>1. PICK u \in Tasks : task[u].slot = s /\ task[u].pc = "advance"
      BY <1>1, <2>2 DEF RaceInv, Race, Owed
    <3> QED
      BY <1>2, <2>2, <3>1
  <2> QED
    BY <2>1, <2>2
<1>8. Wanted(r) => Wanted(slot[s])
  OBVIOUS
<1>9. SoundSlot(r) /\ r.assoc = slot[s].assoc /\ r.target = slot[s].target
  OBVIOUS
<1> HIDE DEF s
<1>10. Race(flows, [slot EXCEPT ![s] = r], tk2)
  BY <1>1, <1>2, <1>3, <1>4, <1>5, <1>6, <1>7, <1>8, <1>9, ChangeLemma DEF RaceInv
<1> QED
  BY <1>10 DEF s, tk2

\* A worker changes its slot and stays.
LEMMA WorkerRace ==
  ASSUME Inv, RaceInv, NEW s \in Slots, slot[s].worker # "none", NEW r \in GoodSlots,
         r.worker \notin {"none", "done"}, r.cell = slot[s].cell,
         r.assoc = slot[s].assoc, r.target = slot[s].target,
         r.active => slot[s].active, SoundSlot(r), Due(r) => Due(slot[s]),
         \A u \in Tasks : task[u].slot = s /\ task[u].pc = "advance" =>
           r.spent = 0 /\ r.worker # "advance"
  PROVE  Race(flows, [slot EXCEPT ![s] = r], task)
<1>1. /\ slot \in [Slots -> GoodSlots] /\ task \in [Tasks -> GoodTasks]
      /\ flows \in FlowMaps
  BY DEF Inv, Typed, FlowMaps
<1>2. \A u \in Tasks : task[u].slot = s => Fits(task[u], r)
  BY NoneAssumption DEF RaceInv, Race, AllFit, Fits
<1>3. Wanted(r) => Wanted(slot[s])
  BY DEF Wanted
<1>4. Due(r) => \E u \in Tasks : task[u].slot = s /\ task[u].pc = "advance"
  BY DEF RaceInv, Race, Owed
<1>5. Alone(task)
  BY DEF RaceInv, Race
<1> QED
  BY <1>1, <1>2, <1>3, <1>4, <1>5, ChangeLemma DEF RaceInv

------------------------------------------------------------------------------
\* The steps of a task that holds no slot yet.
LEMMA RaceTakesUp ==
  ASSUME Inv, RaceInv, NEW t \in Tasks,
         \/ \E a \in Assocs, tgt \in Targets : Spawn(t, a, tgt)
         \/ JoinSlot(t) \/ DropAtLimit(t)
  PROVE  RaceInv'
<1>0. task[t] \in GoodTasks /\ task \in [Tasks -> GoodTasks]
  BY DEF Inv, Typed
<1>1. Idle \in GoodTasks /\ Idle.slot = None
  BY LimitsAssumption DEF GoodTasks, TaskRecords, Idle, Indexes, TaskPcs, Holding
<1>2. ASSUME NEW k \in GoodTasks, task[t].slot = None, task' = [task EXCEPT ![t] = k],
             UNCHANGED <<flows, slot>>,
             k.slot # None => k.pc = "cell" /\ Fits(k, slot[k.slot])
      PROVE  RaceInv'
  BY <1>0, <1>2, TakeUpLemma DEF RaceInv
<1>3. ASSUME NEW a \in Assocs, NEW tgt \in Targets, Spawn(t, a, tgt) PROVE RaceInv'
  <2> DEFINE k == [Idle EXCEPT !.pc = "slot", !.assoc = a, !.target = tgt]
  <2>1. k \in GoodTasks /\ k.slot = None
    BY <1>1, LimitsAssumption DEF GoodTasks, TaskRecords, Idle, TaskPcs, Holding, Indexes
  <2>2. task' = [task EXCEPT ![t] = k] /\ UNCHANGED <<flows, slot>> /\ task[t].slot = None
    BY <1>1, <1>3 DEF Spawn
  <2> HIDE DEF k
  <2> QED
    BY <1>2, <2>1, <2>2
<1>4. CASE JoinSlot(t)
  <2> DEFINE s == flows[task[t].assoc][task[t].target]
             k == [task[t] EXCEPT !.slot = s, !.pc = "cell"]
  <2>1. /\ task[t].assoc \in Assocs /\ task[t].target \in Targets
        /\ s \in Slots /\ s # None /\ task[t].slot = None
    BY <1>0, <1>4, NoneAssumption DEF JoinSlot, GoodTasks, Inv, Typed, Holding
  <2>2. k \in GoodTasks /\ k.slot = s /\ k.pc = "cell"
    BY <1>0, <1>4, <2>1 DEF JoinSlot, GoodTasks, TaskRecords, TaskPcs, Holding
  <2>3. task' = [task EXCEPT ![t] = k] /\ UNCHANGED <<flows, slot>>
    BY <1>0, <1>4 DEF JoinSlot
  <2>4. slot[s].assoc = task[t].assoc /\ slot[s].target = task[t].target
    BY <2>1 DEF RaceInv, Race, MapsOwn
  <2>5. Fits(k, slot[s])
    BY <1>0, <2>2, <2>4 DEF Fits, GoodTasks, TaskRecords
  <2> HIDE DEF k, s
  <2> QED
    BY <1>2, <2>1, <2>2, <2>3, <2>5
<1>5. CASE DropAtLimit(t)
  <2>1. task[t].slot = None
    BY <1>0, <1>5 DEF DropAtLimit, GoodTasks, Holding
  <2> QED
    BY <1>1, <1>2, <1>5, <2>1 DEF DropAtLimit, Return
<1> QED
  BY <1>3, <1>4, <1>5

\* What a task that holds a slot knows of it and of the others that hold it.
LEMMA HolderKnows ==
  ASSUME Inv, RaceInv, NEW t \in Tasks, task[t].pc \in Holding
  PROVE  LET s == task[t].slot IN
         /\ s \in Slots /\ slot[s] \in GoodSlots /\ task[t] \in GoodTasks
         /\ SoundSlot(slot[s]) /\ Fits(task[t], slot[s])
         /\ \A u \in Tasks \ {t} : task[u].slot = s =>
              /\ Fits(task[u], slot[s])
              /\ task[t].pc \in Filling => task[u].pc \notin Filling
              /\ task[t].pc = "advance" => task[u].pc # "advance"
<1> DEFINE s == task[t].slot
<1>1. s \in Slots /\ slot[s] \in GoodSlots /\ task[t] \in GoodTasks /\ s # None
  BY HoldingLemma, NoneAssumption
<1>2. SoundSlot(slot[s]) /\ Fits(task[t], slot[s])
  BY <1>1 DEF RaceInv, Race, AllSound, AllFit
<1>3. ASSUME NEW u \in Tasks \ {t}, task[u].slot = s
      PROVE  /\ Fits(task[u], slot[s])
             /\ task[t].pc \in Filling => task[u].pc \notin Filling
             /\ task[t].pc = "advance" => task[u].pc # "advance"
  BY <1>1, <1>3 DEF RaceInv, Race, AllFit, Alone
<1> QED
  BY <1>1, <1>2, <1>3

\* The same as HolderLemma, for a step of the system.
LEMMA HolderStep ==
  ASSUME Inv, Inv', RaceInv, NEW t \in Tasks, task[t].pc \in Holding, NEW k, NEW r,
         task' = [task EXCEPT ![t] = k], slot' = [slot EXCEPT ![task[t].slot] = r],
         UNCHANGED flows,
         LET s == task[t].slot IN
         /\ k.slot = s
         /\ r.assoc = slot[s].assoc /\ r.target = slot[s].target
         /\ r.worker = "done" => slot[s].worker = "done"
         /\ SoundSlot(r) /\ Fits(k, r)
         /\ Wanted(r) => Wanted(slot[s])
         /\ \A u \in Tasks \ {t} : task[u].slot = s =>
              /\ Fits(task[u], r)
              /\ k.pc \in Filling => task[u].pc \notin Filling
              /\ k.pc = "advance" => task[u].pc # "advance"
         /\ r.worker = "none" => k.pc \in Attending
         /\ Due(r) => k.pc = "advance" \/ (Due(slot[s]) /\ task[t].pc # "advance")
  PROVE  RaceInv'
<1>1. /\ task \in [Tasks -> GoodTasks] /\ task' \in [Tasks -> GoodTasks]
      /\ slot \in [Slots -> GoodSlots] /\ slot' \in [Slots -> GoodSlots]
      /\ task[t].slot \in Slots
  BY HoldingLemma DEF Inv, Typed
<1>2. k = task'[t] /\ r = slot'[task[t].slot]
  BY <1>1
<1>3. k \in GoodTasks /\ r \in GoodSlots
  BY <1>1, <1>2
<1>4. Race(flows, [slot EXCEPT ![task[t].slot] = r], [task EXCEPT ![t] = k])
  BY <1>3, HolderLemma
<1> QED
  BY <1>4 DEF RaceInv

\* The steps of a task that fills its slot.
LEMMA RaceFills ==
  ASSUME Inv, Inv', RaceInv, NEW t \in Tasks,
         \/ StartInit(t) \/ InitFails(t) \/ Publish(t)
         \/ \E n \in 1 .. MaxAddresses : LookedUp(t, n)
         \/ \E offset \in Indexes : Open(t, offset)
  PROVE  RaceInv'
<1> DEFINE s == task[t].slot
<1>0. /\ task[t].pc \in Holding
      /\ task \in [Tasks -> GoodTasks] /\ slot \in [Slots -> GoodSlots] /\ UNCHANGED flows
  BY DEF StartInit, InitFails, Publish, LookedUp, Open, Holding, TaskPcs, Inv, Typed
<1>1. /\ s \in Slots /\ slot[s] \in SlotRecords /\ task[t] \in TaskRecords
      /\ SoundSlot(slot[s]) /\ Fits(task[t], slot[s])
      /\ \A u \in Tasks \ {t} : task[u].slot = s =>
           /\ Fits(task[u], slot[s])
           /\ task[t].pc \in Filling => task[u].pc \notin Filling
  BY <1>0, HolderKnows DEF GoodTasks, GoodSlots
<1> HIDE DEF s
<1>2. CASE StartInit(t)
  <2> DEFINE k == [task[t] EXCEPT !.pc = "lookup"]
             r == [slot[s] EXCEPT !.cell = "initializing"]
  <2>1. task' = [task EXCEPT ![t] = k] /\ slot' = [slot EXCEPT ![s] = r]
    BY <1>0, <1>1, <1>2 DEF StartInit, GoTo, s
  <2>2. /\ k.slot = s /\ k.assoc = task[t].assoc /\ k.target = task[t].target
        /\ k.pc = "lookup" /\ slot[s].cell = "empty" /\ r.cell = "initializing"
        /\ r.worker = slot[s].worker /\ r.active = slot[s].active
        /\ r.spent = slot[s].spent /\ r.assoc = slot[s].assoc
        /\ r.target = slot[s].target
    BY <1>1, <1>2 DEF StartInit, TaskRecords, SlotRecords, s
  <2> HIDE DEF k, r
  <2>3. slot[s].worker = "none"
    BY <1>1, <2>2 DEF SoundSlot
  <2>4. SoundSlot(r) /\ Fits(k, r) /\ Wanted(slot[s]) /\ ~Due(r)
    BY <1>1, <2>2, <2>3 DEF SoundSlot, Fits, Wanted, Due, Ahead
  <2>5. ASSUME NEW u \in Tasks \ {t}, task[u].slot = s
        PROVE  Fits(task[u], r) /\ task[u].pc \notin Filling
    BY <1>1, <2>2, <2>3, <2>5 DEF Fits, Filling
  <2> QED
    BY <1>0, <2>1, <2>2, <2>3, <2>4, <2>5, HolderStep DEF s, Attending
<1>3. CASE InitFails(t)
  <2> DEFINE k == [task[t] EXCEPT !.pc = "cell"]
             r == [slot[s] EXCEPT !.cell = "nothing"]
  <2>1. task' = [task EXCEPT ![t] = k] /\ slot' = [slot EXCEPT ![s] = r]
    BY <1>0, <1>1, <1>3 DEF InitFails, GoTo, s
  <2>2. /\ k.slot = s /\ k.assoc = task[t].assoc /\ k.target = task[t].target
        /\ k.pc = "cell" /\ task[t].pc \in {"lookup", "open"} /\ r.cell = "nothing"
        /\ r.worker = slot[s].worker /\ r.active = slot[s].active
        /\ r.spent = slot[s].spent /\ r.assoc = slot[s].assoc
        /\ r.target = slot[s].target
    BY <1>1, <1>3 DEF InitFails, TaskRecords, SlotRecords, s
  <2> HIDE DEF k, r
  <2>3. slot[s].worker = "none" /\ slot[s].cell = "initializing"
    BY <1>1, <2>2 DEF Fits
  <2>4. SoundSlot(r) /\ Fits(k, r) /\ ~Wanted(r) /\ ~Due(r)
    BY <1>1, <2>2, <2>3 DEF SoundSlot, Fits, Wanted, Due, Ahead
  <2>5. ASSUME NEW u \in Tasks \ {t}, task[u].slot = s
        PROVE  Fits(task[u], r)
    BY <1>1, <2>2, <2>3, <2>5 DEF Fits, Filling
  <2> QED
    BY <1>0, <2>1, <2>2, <2>3, <2>4, <2>5, HolderStep DEF s, Attending, Filling
<1>4. CASE Publish(t)
  <2> DEFINE k == [task[t] EXCEPT !.pc = "cell"]
             r == [slot[s] EXCEPT !.cell = "flow"]
  <2>1. task' = [task EXCEPT ![t] = k] /\ slot' = [slot EXCEPT ![s] = r]
    BY <1>0, <1>1, <1>4 DEF Publish, GoTo, s
  <2>2. /\ k.slot = s /\ k.assoc = task[t].assoc /\ k.target = task[t].target
        /\ k.pc = "cell" /\ task[t].pc = "publish" /\ r.cell = "flow"
        /\ r.worker = slot[s].worker /\ r.active = slot[s].active
        /\ r.spent = slot[s].spent /\ r.assoc = slot[s].assoc
        /\ r.target = slot[s].target
        /\ r.why = slot[s].why /\ r.received = slot[s].received
    BY <1>1, <1>4 DEF Publish, TaskRecords, SlotRecords, s
  <2> HIDE DEF k, r
  <2>3. slot[s].worker # "none" /\ slot[s].cell = "initializing"
    BY <1>1, <2>2 DEF Fits
  <2>4. /\ SoundSlot(r) /\ Fits(k, r)
        /\ Wanted(r) => Wanted(slot[s])
        /\ Due(r) => Due(slot[s])
    BY <1>1, <2>2, <2>3 DEF SoundSlot, Fits, Wanted, Due, Ahead
  <2>5. ASSUME NEW u \in Tasks \ {t}, task[u].slot = s
        PROVE  Fits(task[u], r)
    BY <1>1, <2>2, <2>3, <2>5 DEF Fits, Filling
  <2> QED
    BY <1>0, <2>1, <2>2, <2>3, <2>4, <2>5, HolderStep, ZenonT(40) DEF s, Filling
<1>5. ASSUME NEW n \in 1 .. MaxAddresses, LookedUp(t, n) PROVE RaceInv'
  <2> DEFINE p == preferred[task[t].assoc][task[t].target]
             i == (IF p = None THEN 0 ELSE p) % n
             k == [task[t] EXCEPT !.start = i, !.count = n, !.pc = "open"]
             r == slot[s]
  <2>1. task' = [task EXCEPT ![t] = k] /\ slot' = [slot EXCEPT ![s] = r]
    BY <1>0, <1>1, <1>5 DEF LookedUp, s
  <2> HIDE DEF i
  <2>2. /\ k.slot = s /\ k.assoc = task[t].assoc /\ k.target = task[t].target
        /\ k.pc = "open" /\ task[t].pc = "lookup"
    BY <1>1, <1>5 DEF LookedUp, TaskRecords, s
  <2> HIDE DEF k
  <2>3. Fits(k, r)
    BY <1>1, <2>2 DEF Fits
  <2> QED
    BY <1>0, <1>1, <2>1, <2>2, <2>3, HolderStep DEF s, Filling, Attending
<1>6. ASSUME NEW offset \in Indexes, Open(t, offset) PROVE RaceInv'
  <2> DEFINE i == (task[t].start + offset) % task[t].count
             k == [task[t] EXCEPT !.pc = "publish", !.count = 0, !.start = 0]
             r == [slot[s] EXCEPT !.active = TRUE, !.age = 0, !.index = i,
                                  !.count = task[t].count, !.worker = "loop"]
  <2>1. task' = [task EXCEPT ![t] = k] /\ slot' = [slot EXCEPT ![s] = r]
    BY <1>0, <1>1, <1>6, ZenonT(40) DEF Open, s
  <2> HIDE DEF i
  <2>2. /\ k.slot = s /\ k.assoc = task[t].assoc /\ k.target = task[t].target
        /\ k.pc = "publish" /\ task[t].pc = "open" /\ r.cell = slot[s].cell
        /\ r.worker = "loop" /\ r.active /\ r.spent = slot[s].spent
        /\ r.assoc = slot[s].assoc /\ r.target = slot[s].target
    BY <1>1, <1>6 DEF Open, TaskRecords, SlotRecords, s
  <2> HIDE DEF k, r
  <2>3. slot[s].worker = "none" /\ slot[s].cell = "initializing"
    BY <1>1, <2>2 DEF Fits
  <2>4. SoundSlot(r) /\ Fits(k, r) /\ Wanted(slot[s]) /\ ~Due(r)
    BY <1>1, <2>2, <2>3 DEF SoundSlot, Fits, Wanted, Due, Ahead
  <2>5. ASSUME NEW u \in Tasks \ {t}, task[u].slot = s
        PROVE  Fits(task[u], r) /\ task[u].pc \notin Filling
    BY <1>1, <2>2, <2>3, <2>5 DEF Fits, Filling
  <2> QED
    BY <1>0, <2>1, <2>2, <2>4, <2>5, HolderStep DEF s
<1> QED
  BY <1>2, <1>3, <1>4, <1>5, <1>6

\* The steps of a task that uses the flow of its slot, or ends it.
LEMMA RaceUses ==
  ASSUME Inv, Inv', RaceInv, NEW t \in Tasks,
         SeeActive(t) \/ Touch(t) \/ SendFails(t) \/ TaskAdvance(t)
  PROVE  RaceInv'
<1> DEFINE s == task[t].slot
<1>0. /\ task[t].pc \in {"cell", "touch", "send", "advance"} /\ task[t].pc \in Holding
      /\ task \in [Tasks -> GoodTasks] /\ slot \in [Slots -> GoodSlots] /\ UNCHANGED flows
  BY DEF SeeActive, Touch, SendFails, TaskAdvance, Holding, TaskPcs, Inv, Typed
<1>1. /\ s \in Slots /\ slot[s] \in SlotRecords /\ task[t] \in TaskRecords
      /\ SoundSlot(slot[s]) /\ Fits(task[t], slot[s])
      /\ \A u \in Tasks \ {t} : task[u].slot = s =>
           /\ Fits(task[u], slot[s])
           /\ task[t].pc = "advance" => task[u].pc # "advance"
  BY <1>0, HolderKnows DEF GoodTasks, GoodSlots
<1> HIDE DEF s
<1>2. CASE SeeActive(t)
  <2> DEFINE k == [task[t] EXCEPT !.pc = "alive"]
             r == slot[s]
  <2>1. task' = [task EXCEPT ![t] = k] /\ slot' = [slot EXCEPT ![s] = r]
    BY <1>0, <1>1, <1>2 DEF SeeActive, GoTo, s
  <2>2. /\ k.slot = s /\ k.assoc = task[t].assoc /\ k.target = task[t].target
        /\ k.pc = "alive" /\ task[t].pc = "cell" /\ slot[s].cell = "flow"
    BY <1>1, <1>2 DEF SeeActive, TaskRecords, s
  <2> HIDE DEF k
  <2>3. Fits(k, r) /\ r.worker # "none"
    BY <1>1, <2>2 DEF Fits, SoundSlot
  <2> QED
    BY <1>0, <1>1, <2>1, <2>2, <2>3, HolderStep DEF s, Filling
<1>3. CASE Touch(t)
  <2> DEFINE k == [task[t] EXCEPT !.attempts = @ + 1, !.pc = "send"]
             r == [slot[s] EXCEPT !.age = 0]
  <2>1. task' = [task EXCEPT ![t] = k] /\ slot' = [slot EXCEPT ![s] = r]
    BY <1>0, <1>1, <1>3 DEF Touch, s
  <2>2. /\ k.slot = s /\ k.assoc = task[t].assoc /\ k.target = task[t].target
        /\ k.pc = "send" /\ task[t].pc = "touch" /\ r.cell = slot[s].cell
        /\ r.worker = slot[s].worker /\ r.active = slot[s].active
        /\ r.spent = slot[s].spent /\ r.assoc = slot[s].assoc
        /\ r.target = slot[s].target
        /\ r.why = slot[s].why /\ r.received = slot[s].received
    BY <1>1, <1>3 DEF Touch, TaskRecords, SlotRecords, s
  <2> HIDE DEF k, r
  <2>3. /\ SoundSlot(r) /\ Fits(k, r) /\ r.worker # "none"
        /\ Wanted(r) => Wanted(slot[s])
        /\ Due(r) => Due(slot[s])
    BY <1>1, <2>2 DEF SoundSlot, Fits, Wanted, Due
  <2>4. ASSUME NEW u \in Tasks \ {t}, task[u].slot = s PROVE Fits(task[u], r)
    BY <1>1, <2>2, <2>4 DEF Fits
  <2> QED
    BY <1>0, <2>1, <2>2, <2>3, <2>4, HolderStep, ZenonT(40) DEF s, Filling
<1>4. CASE SendFails(t)
  <2> DEFINE pc == IF slot[s].active THEN "advance" ELSE "unlink"
             k == [task[t] EXCEPT !.pc = pc]
             r == [slot[s] EXCEPT !.active = FALSE, !.stopped = @ \/ ~slot[s].active]
  <2>1. task' = [task EXCEPT ![t] = k] /\ slot' = [slot EXCEPT ![s] = r]
    BY <1>0, <1>1, <1>4 DEF SendFails, GoTo, s
  <2>2. /\ k.slot = s /\ k.assoc = task[t].assoc /\ k.target = task[t].target
        /\ k.pc = pc /\ task[t].pc = "send" /\ r.cell = slot[s].cell
        /\ r.worker = slot[s].worker /\ ~r.active
        /\ r.spent = slot[s].spent /\ r.assoc = slot[s].assoc
        /\ r.target = slot[s].target
        /\ r.why = slot[s].why /\ r.received = slot[s].received
    BY <1>1, <1>4 DEF SendFails, TaskRecords, SlotRecords, s
  <2> HIDE DEF k, r
  <2>3. slot[s].cell = "flow" /\ slot[s].worker # "none"
    BY <1>1, <2>2 DEF Fits, SoundSlot
  <2>4. /\ SoundSlot(r) /\ Fits(k, r) /\ ~Wanted(r)
        /\ Due(r) => pc = "advance" \/ Due(slot[s])
    BY <1>1, <2>2, <2>3 DEF SoundSlot, Fits, Wanted, Due, Ahead
  <2>5. ASSUME NEW u \in Tasks \ {t}, task[u].slot = s
        PROVE  Fits(task[u], r) /\ (pc = "advance" => task[u].pc # "advance")
    BY <1>1, <2>2, <2>5 DEF Fits
  <2> HIDE DEF pc
  <2>6. k.pc \notin Filling /\ (Due(r) => k.pc = "advance" \/ Due(slot[s]))
    BY <2>2, <2>4 DEF pc, Filling
  <2>7. ASSUME NEW u \in Tasks \ {t}, task[u].slot = s
        PROVE  Fits(task[u], r) /\ (k.pc = "advance" => task[u].pc # "advance")
    BY <2>2, <2>5, <2>7
  <2>8. /\ k.slot = s /\ r.worker = slot[s].worker /\ r.worker # "none"
        /\ r.assoc = slot[s].assoc /\ r.target = slot[s].target
        /\ task[t].pc = "send"
    BY <2>2, <2>3
  <2> QED
    BY <1>0, <2>1, <2>4, <2>6, <2>7, <2>8, HolderStep, ZenonT(40) DEF s
<1>5. CASE TaskAdvance(t)
  <2> DEFINE k == [task[t] EXCEPT !.pc = "unlink"]
             r == [slot[s] EXCEPT !.spent = @ + 1, !.stopped = TRUE]
  <2>1. task' = [task EXCEPT ![t] = k] /\ slot' = [slot EXCEPT ![s] = r]
    BY <1>0, <1>1, <1>5 DEF TaskAdvance, GoTo, s
  <2>2. /\ k.slot = s /\ k.assoc = task[t].assoc /\ k.target = task[t].target
        /\ k.pc = "unlink" /\ task[t].pc = "advance" /\ r.cell = slot[s].cell
        /\ r.worker = slot[s].worker /\ r.active = slot[s].active
        /\ r.spent = slot[s].spent + 1 /\ r.assoc = slot[s].assoc
        /\ r.target = slot[s].target
    BY <1>1, <1>5 DEF TaskAdvance, TaskRecords, SlotRecords, s
  <2> HIDE DEF k, r
  <2>3. /\ slot[s].cell = "flow" /\ slot[s].worker \notin {"none", "advance"}
        /\ ~slot[s].active /\ slot[s].spent = 0
    BY <1>1, <2>2 DEF Fits, SoundSlot
  <2>4. SoundSlot(r) /\ Fits(k, r) /\ ~Wanted(r) /\ ~Due(r)
    BY <1>1, <2>2, <2>3 DEF SoundSlot, Fits, Wanted, Due
  <2>5. ASSUME NEW u \in Tasks \ {t}, task[u].slot = s PROVE Fits(task[u], r)
    BY <1>1, <2>2, <2>5 DEF Fits
  <2> QED
    BY <1>0, <2>1, <2>2, <2>3, <2>4, <2>5, HolderStep, ZenonT(40) DEF s, Filling
<1> QED
  BY <1>2, <1>3, <1>4, <1>5

\* A slot that has to stay belongs to a target.
LEMMA WantedLemma ==
  ASSUME NEW sl \in [Slots -> GoodSlots], AllSound(sl), NEW s \in Slots, Wanted(sl[s])
  PROVE  sl[s].assoc \in Assocs /\ sl[s].target \in Targets
<1>1. sl[s].cell # "blank"
  BY DEF AllSound, SoundSlot, Wanted
<1> QED
  BY <1>1 DEF GoodSlots

\* A new slot: nobody holds it but the map and the task.
LEMMA RaceNewSlot ==
  ASSUME Inv, RaceInv, NEW t \in Tasks, NEW s \in Slots, NewSlotFor(t, s)
  PROVE  RaceInv'
<1> DEFINE a == task[t].assoc
           tgt == task[t].target
           k == [task[t] EXCEPT !.slot = s, !.pc = "cell"]
           r == NewSlot(a, tgt)
<1>1. /\ task \in [Tasks -> GoodTasks] /\ slot \in [Slots -> GoodSlots]
      /\ flows \in FlowMaps /\ task[t] \in TaskRecords /\ task[t].pc = "slot"
      /\ task[t].slot = None /\ a \in Assocs /\ tgt \in Targets
  BY DEF Inv, Typed, NewSlotFor, GoodTasks, Holding, FlowMaps
<1>2. /\ r.cell = "empty" /\ r.worker = "none" /\ ~r.active /\ r.spent = 0
      /\ r.assoc = a /\ r.target = tgt
      /\ k.slot = s /\ k.pc = "cell" /\ k.assoc = a /\ k.target = tgt
  BY <1>1 DEF NewSlot, Blank, TaskRecords
<1>3. task' = [task EXCEPT ![t] = k]
  BY <1>1 DEF NewSlotFor
<1>4. /\ slot' = [slot EXCEPT ![s] = r] /\ slot[s] = Blank
      /\ flows' = [flows EXCEPT ![a][tgt] = s] /\ flows[a][tgt] = None
  BY DEF NewSlotFor
<1> HIDE DEF a, tgt, k, r
<1>5. s # None /\ ~Held(s, flows, slot, task)
  BY <1>4, NoneAssumption DEF Inv, HeldInUse, Blank
<1>6. /\ \A b \in Assocs, g \in Targets : flows[b][g] # s
      /\ \A u \in Tasks : task[u].slot # s
  BY <1>5 DEF Held
<1>7. /\ task'[t] = k /\ \A u \in Tasks \ {t} : task'[u] = task[u]
      /\ slot'[s] = r /\ \A u \in Slots \ {s} : slot'[u] = slot[u]
      /\ flows'[a][tgt] = s
      /\ \A b \in Assocs, g \in Targets :
           (b = a /\ g = tgt) \/ flows'[b][g] = flows[b][g]
  BY <1>1, <1>3, <1>4 DEF FlowMaps
<1>8. AllSound(slot')
  BY <1>2, <1>7 DEF RaceInv, Race, AllSound, SoundSlot
<1>9. AllFit(slot', task')
  <2>1. Fits(k, r)
    BY <1>2 DEF Fits
  <2>2. \A u \in Tasks \ {t} : task[u].slot # None => slot'[task[u].slot] = slot[task[u].slot]
    BY <1>1, <1>6, <1>7 DEF GoodTasks, TaskRecords
  <2> QED
    BY <1>2, <1>7, <2>1, <2>2 DEF RaceInv, Race, AllFit
<1>10. Alone(task')
  BY <1>2, <1>6, <1>7 DEF RaceInv, Race, Alone, Filling
<1>11. MapsOwn(flows', slot')
  <2> SUFFICES ASSUME NEW b \in Assocs, NEW g \in Targets, flows'[b][g] # None
               PROVE  LET u == flows'[b][g] IN
                      slot'[u].assoc = b /\ slot'[u].target = g /\ slot'[u].worker # "done"
    BY DEF MapsOwn
  <2>1. CASE b = a /\ g = tgt
    BY <1>2, <1>7, <2>1
  <2>2. CASE ~(b = a /\ g = tgt)
    <3>1. flows'[b][g] = flows[b][g] /\ flows[b][g] \in Slots \ {s}
      BY <1>1, <1>6, <1>7, <2>2 DEF FlowMaps
    <3> QED
      BY <1>7, <3>1 DEF RaceInv, Race, MapsOwn
  <2> QED
    BY <2>1, <2>2
<1>12. KeepsWanted(flows', slot')
  <2> SUFFICES ASSUME NEW u \in Slots, Wanted(slot'[u])
               PROVE  flows'[slot'[u].assoc][slot'[u].target] = u
    BY DEF KeepsWanted
  <2>1. CASE u = s
    BY <1>2, <1>7, <2>1
  <2>2. CASE u # s
    <3>1. slot'[u] = slot[u] /\ slot[u].assoc \in Assocs /\ slot[u].target \in Targets
      BY <1>1, <1>7, <2>2, WantedLemma DEF RaceInv, Race
    <3>2. flows[slot[u].assoc][slot[u].target] = u
      BY <3>1 DEF RaceInv, Race, KeepsWanted
    <3> QED
      BY <1>4, <1>7, <3>1, <3>2, NoneAssumption
  <2> QED
    BY <2>1, <2>2
<1>13. Attended(flows', slot', task')
  <2> SUFFICES ASSUME NEW b \in Assocs, NEW g \in Targets, flows'[b][g] # None,
                      slot'[flows'[b][g]].worker = "none"
               PROVE  \E u \in Tasks :
                        task'[u].slot = flows'[b][g] /\ task'[u].pc \in Attending
    BY DEF Attended
  <2>1. CASE b = a /\ g = tgt
    BY <1>2, <1>7, <2>1 DEF Attending
  <2>2. CASE ~(b = a /\ g = tgt)
    <3>1. flows'[b][g] = flows[b][g] /\ flows[b][g] \in Slots \ {s}
      BY <1>1, <1>6, <1>7, <2>2 DEF FlowMaps
    <3>2. PICK u \in Tasks : task[u].slot = flows[b][g] /\ task[u].pc \in Attending
      BY <1>7, <3>1 DEF RaceInv, Race, Attended
    <3>3. u # t
      BY <1>1, <3>2 DEF Attending
    <3> QED
      BY <1>7, <3>1, <3>2, <3>3
  <2> QED
    BY <2>1, <2>2
<1>14. Owed(slot', task')
  <2> SUFFICES ASSUME NEW u \in Slots, Due(slot'[u])
               PROVE  \E v \in Tasks : task'[v].slot = u /\ task'[v].pc = "advance"
    BY DEF Owed
  <2>1. u # s
    BY <1>2, <1>7 DEF Due, Ahead
  <2>2. PICK v \in Tasks : task[v].slot = u /\ task[v].pc = "advance"
    BY <1>7, <2>1 DEF RaceInv, Race, Owed
  <2>3. v # t
    BY <1>1, <2>2
  <2> QED
    BY <1>7, <2>2, <2>3
<1> QED
  BY <1>8, <1>9, <1>10, <1>11, <1>12, <1>13, <1>14 DEF RaceInv, Race

\* remove_flow_slot of the slot that a task or a worker has done with.
LEMMA RemovedLemma ==
  ASSUME Inv, RaceInv, NEW s \in Slots, ~Wanted(slot[s]),
         slot[s].assoc \in Assocs, slot[s].target \in Targets
  PROVE  LET fl == remove_flow_slot(slot[s].assoc, slot[s].target, s) IN
         /\ fl \in FlowMaps /\ Race(fl, slot, task)
         /\ \A a \in Assocs, tgt \in Targets : fl[a][tgt] # s
<1> DEFINE fl == remove_flow_slot(slot[s].assoc, slot[s].target, s)
<1>1. flows \in FlowMaps /\ slot \in [Slots -> GoodSlots] /\ s # None
  BY NoneAssumption DEF Inv, Typed, FlowMaps
<1>2. /\ fl \in FlowMaps
      /\ \A a \in Assocs, tgt \in Targets :
           \/ fl[a][tgt] = flows[a][tgt]
           \/ fl[a][tgt] = None /\ flows[a][tgt] = s
  BY <1>1 DEF remove_flow_slot, FlowMaps
<1>3. \A a \in Assocs, tgt \in Targets : fl[a][tgt] # s
  <2> SUFFICES ASSUME NEW a \in Assocs, NEW tgt \in Targets, fl[a][tgt] = s
               PROVE  FALSE
    OBVIOUS
  <2>1. flows[a][tgt] = s
    BY <1>1, <1>2
  <2>2. slot[s].assoc = a /\ slot[s].target = tgt
    BY <1>1, <2>1 DEF RaceInv, Race, MapsOwn
  <2>3. fl = [flows EXCEPT ![a][tgt] = None]
    BY <2>1, <2>2 DEF remove_flow_slot
  <2> QED
    BY <1>1, <2>3 DEF FlowMaps
<1>4. \A u \in Slots : Wanted(slot[u]) => slot[u].assoc \in Assocs /\ slot[u].target \in Targets
  BY <1>1, WantedLemma DEF RaceInv, Race
<1> HIDE DEF fl
<1>5. Race(fl, slot, task)
  BY <1>1, <1>2, <1>4, UnmapLemma DEF RaceInv
<1> QED
  BY <1>2, <1>3, <1>5 DEF fl

\* The steps with which a task lets go of its slot.
LEMMA RaceLetsGo ==
  ASSUME Inv, RaceInv, NEW t \in Tasks,
         \/ DiscardNothing(t) \/ DiscardStale(t) \/ CheckAlive(t) \/ Sent(t)
         \/ TaskUnlink(t)
  PROVE  RaceInv'
<1> DEFINE s == task[t].slot
           fl == remove_flow_slot(task[t].assoc, task[t].target, s)
<1>0. /\ task[t].pc \in {"cell", "alive", "send", "unlink"} /\ task[t].pc \in Holding
      /\ task \in [Tasks -> GoodTasks] /\ slot \in [Slots -> GoodSlots]
      /\ flows \in FlowMaps
  BY DEF DiscardNothing, DiscardStale, CheckAlive, Sent, TaskUnlink, Holding, TaskPcs,
         Inv, Typed, FlowMaps
<1>1. /\ s \in Slots /\ slot[s] \in GoodSlots /\ slot[s] \in SlotRecords
      /\ task[t] \in GoodTasks /\ task[t] \in TaskRecords
      /\ SoundSlot(slot[s]) /\ Fits(task[t], slot[s])
      /\ \A u \in Tasks \ {t} : task[u].slot = s => Fits(task[u], slot[s])
      /\ task[t].assoc = slot[s].assoc /\ task[t].target = slot[s].target
      /\ task[t].assoc \in Assocs /\ task[t].target \in Targets
  BY <1>0, HolderKnows, HoldingLemma DEF GoodTasks, GoodSlots, Fits
<1>2. Idle \in GoodTasks /\ Idle.slot = None
  BY LimitsAssumption DEF GoodTasks, TaskRecords, Idle, Indexes, TaskPcs, Holding
<1>3. ~Wanted(slot[s]) =>
        /\ fl \in FlowMaps /\ Race(fl, slot, task)
        /\ \A a \in Assocs, tgt \in Targets : fl[a][tgt] # s
  BY <1>1, RemovedLemma
<1> HIDE DEF s, fl
<1>4. ASSUME ~Wanted(slot[s]), NEW k \in GoodTasks, k.slot = None,
             Settle(fl, slot, [task EXCEPT ![t] = k])
      PROVE  RaceInv'
  <2>1. Race(fl, slot, [task EXCEPT ![t] = k])
    BY <1>0, <1>3, <1>4, LetGoLemma DEF s
  <2>2. [task EXCEPT ![t] = k] \in [Tasks -> GoodTasks]
    BY <1>0
  <2> QED
    BY <1>0, <1>3, <1>4, <2>1, <2>2, SettleLemma
<1>5. ASSUME NEW n \in 0 .. MaxStaleRetries, task[t].attempts < MaxAddresses
      PROVE  LET k == [task[t] EXCEPT !.pc = "slot", !.slot = None, !.retries = n]
             IN  k \in GoodTasks /\ k.slot = None
  BY <1>0, <1>1, <1>5 DEF GoodTasks, TaskRecords, TaskPcs, Holding
<1>6. CASE DiscardNothing(t)
  <2>1. ~Wanted(slot[s])
    BY <1>1, <1>6 DEF DiscardNothing, Wanted, SoundSlot, s
  <2> QED
    BY <1>2, <1>4, <1>6, <2>1 DEF DiscardNothing, Return, fl, s
<1>7. CASE DiscardStale(t)
  <2>1. ~Wanted(slot[s])
    BY <1>7 DEF DiscardStale, Wanted, s
  <2>2. CASE task[t].retries + 1 > MaxStaleRetries
    BY <1>2, <1>4, <1>7, <2>1, <2>2 DEF DiscardStale, Return, fl, s
  <2>3. CASE ~(task[t].retries + 1 > MaxStaleRetries)
    <3> DEFINE k == [task[t] EXCEPT !.pc = "slot", !.slot = None,
                                    !.retries = task[t].retries + 1]
    <3>1. task[t].retries + 1 \in 0 .. MaxStaleRetries
      BY <1>1, <2>3, LimitsAssumption DEF TaskRecords
    <3>2. task[t].attempts < MaxAddresses
      BY <1>1, <1>7 DEF DiscardStale, GoodTasks
    <3>3. k \in GoodTasks /\ k.slot = None
      BY <1>5, <3>1, <3>2
    <3>4. [Again(t) EXCEPT ![t].retries = task[t].retries + 1] = [task EXCEPT ![t] = k]
      BY <1>0 DEF Again
    <3>5. Settle(fl, slot, [Again(t) EXCEPT ![t].retries = task[t].retries + 1])
      BY <1>7, <2>3 DEF DiscardStale, fl, s
    <3> HIDE DEF k
    <3> QED
      BY <1>4, <2>1, <3>3, <3>4, <3>5
  <2> QED
    BY <2>2, <2>3
<1>8. CASE TaskUnlink(t)
  <2>1. ~Wanted(slot[s])
    BY <1>1, <1>8 DEF TaskUnlink, Wanted, Fits
  <2>2. CASE task[t].attempts >= slot[s].count
    BY <1>2, <1>4, <1>8, <2>1, <2>2 DEF TaskUnlink, Return, fl, s
  <2>3. CASE ~(task[t].attempts >= slot[s].count)
    <3> DEFINE k == [task[t] EXCEPT !.pc = "slot", !.slot = None,
                                    !.retries = task[t].retries]
    <3>1. task[t].retries \in 0 .. MaxStaleRetries
      BY <1>1 DEF TaskRecords
    <3>2. task[t].attempts < MaxAddresses
      BY <1>1, <2>3, LimitsAssumption DEF TaskRecords, SlotRecords
    <3>3. k \in GoodTasks /\ k.slot = None
      BY <1>5, <3>1, <3>2
    <3>4. Again(t) = [task EXCEPT ![t] = k]
      BY <1>0 DEF Again, GoodTasks, TaskRecords
    <3>5. Settle(fl, slot, Again(t))
      BY <1>8, <2>3 DEF TaskUnlink, fl, s
    <3> HIDE DEF k
    <3> QED
      BY <1>4, <2>1, <3>3, <3>4, <3>5
  <2> QED
    BY <2>2, <2>3
<1>9. CASE CheckAlive(t)
  <2>1. CASE alive[task[t].assoc]
    <3> DEFINE k == [task[t] EXCEPT !.pc = "touch"]
    <3>1. /\ k \in GoodTasks /\ k.slot = s /\ k.pc = "touch" /\ task[t].pc = "alive"
          /\ k.assoc = task[t].assoc /\ k.target = task[t].target
      BY <1>0, <1>1, <1>9 DEF CheckAlive, GoodTasks, TaskRecords, TaskPcs, Holding, s
    <3>2. Settle(flows, slot, [task EXCEPT ![t] = k])
      BY <1>0, <1>9, <2>1 DEF CheckAlive, GoTo
    <3> HIDE DEF k
    <3>3. Fits(k, slot[s]) /\ slot[s].worker # "none"
      BY <1>1, <3>1 DEF Fits, SoundSlot
    <3>4. Race(flows, [slot EXCEPT ![s] = slot[s]], [task EXCEPT ![t] = k])
      BY <1>0, <1>1, <3>1, <3>3, HolderLemma DEF s, Filling
    <3>5. Race(flows, slot, [task EXCEPT ![t] = k])
      BY <1>0, <3>4
    <3>6. [task EXCEPT ![t] = k] \in [Tasks -> GoodTasks]
      BY <1>0, <3>1
    <3> QED
      BY <1>0, <3>2, <3>5, <3>6, SettleLemma
  <2>2. CASE ~alive[task[t].assoc]
    <3>1. Settle(flows, slot, [task EXCEPT ![t] = Idle]) /\ task[t].pc = "alive"
      BY <1>9, <2>2 DEF CheckAlive, Return
    <3>2. Race(flows, slot, [task EXCEPT ![t] = Idle])
      BY <1>0, <1>2, <3>1, LetGoLemma DEF RaceInv, Attending
    <3>3. [task EXCEPT ![t] = Idle] \in [Tasks -> GoodTasks]
      BY <1>0, <1>2
    <3> QED
      BY <1>0, <3>1, <3>2, <3>3, SettleLemma
  <2> QED
    BY <2>1, <2>2
<1>10. CASE Sent(t)
  <2> DEFINE r == [slot[s] EXCEPT !.age = 0]
             sl == [slot EXCEPT ![s] = r]
  <2>1. /\ r \in GoodSlots /\ r.cell = slot[s].cell
        /\ r.worker = slot[s].worker /\ r.active = slot[s].active
        /\ r.spent = slot[s].spent /\ r.assoc = slot[s].assoc
        /\ r.target = slot[s].target
        /\ r.why = slot[s].why /\ r.received = slot[s].received
    BY <1>1, LimitsAssumption DEF GoodSlots, SlotRecords
  <2>2. task[t].pc = "send" /\ Settle(flows, sl, [task EXCEPT ![t] = Idle])
    BY <1>0, <1>1, <1>10 DEF Sent, Return, s
  <2> HIDE DEF r
  <2>3. /\ SoundSlot(r) /\ Fits(task[t], r) /\ r.worker # "none"
        /\ Wanted(r) => Wanted(slot[s])
        /\ Due(r) => Due(slot[s])
    BY <1>1, <2>1, <2>2 DEF SoundSlot, Fits, Wanted, Due
  <2>4. ASSUME NEW u \in Tasks \ {t}, task[u].slot = s PROVE Fits(task[u], r)
    BY <1>1, <2>1, <2>4 DEF Fits
  <2>5. Race(flows, sl, [task EXCEPT ![t] = task[t]])
    BY <1>0, <1>1, <2>1, <2>2, <2>3, <2>4, HolderLemma DEF s, Filling
  <2>6. sl \in [Slots -> GoodSlots] /\ [task EXCEPT ![t] = task[t]] = task
    BY <1>0, <1>1, <2>1
  <2> HIDE DEF sl
  <2>7. Race(flows, sl, task)
    BY <2>5, <2>6
  <2>8. Race(flows, sl, [task EXCEPT ![t] = Idle])
    BY <1>0, <1>2, <2>2, <2>7, LetGoLemma DEF Attending
  <2>9. [task EXCEPT ![t] = Idle] \in [Tasks -> GoodTasks]
    BY <1>0, <1>2
  <2> QED
    BY <1>0, <2>2, <2>6, <2>8, <2>9, SettleLemma
<1> QED
  BY <1>6, <1>7, <1>8, <1>9, <1>10

------------------------------------------------------------------------------
\* The same as WorkerRace, for a step of the system.
LEMMA WorkerRaceStep ==
  ASSUME Inv, Inv', RaceInv, NEW s \in Slots, slot[s].worker # "none", NEW r,
         slot' = [slot EXCEPT ![s] = r], UNCHANGED <<flows, task>>,
         r.worker \notin {"none", "done"}, r.cell = slot[s].cell,
         r.assoc = slot[s].assoc, r.target = slot[s].target,
         r.active => slot[s].active, SoundSlot(r), Due(r) => Due(slot[s]),
         \A u \in Tasks : task[u].slot = s /\ task[u].pc = "advance" =>
           r.spent = 0 /\ r.worker # "advance"
  PROVE  RaceInv'
<1>1. slot \in [Slots -> GoodSlots] /\ slot' \in [Slots -> GoodSlots]
  BY DEF Inv, Typed
<1>2. r \in GoodSlots
  BY <1>1
<1>3. Race(flows, [slot EXCEPT ![s] = r], task)
  BY <1>2, WorkerRace
<1> QED
  BY <1>3 DEF RaceInv

\* The steps of a worker up to the removal of its slot.
LEMMA RaceWorks ==
  ASSUME Inv, Inv', RaceInv, NEW s \in Slots,
         \/ WorkerLoop(s) \/ WorkerDeadline(s) \/ WorkerCancelled(s)
         \/ Receive(s) \/ ReceiveFails(s) \/ WorkerSwap(s) \/ WorkerAdvance(s)
  PROVE  RaceInv'
<1>0. slot[s].worker # "none" /\ UNCHANGED <<flows, task>>
  BY DEF WorkerLoop, WorkerDeadline, WorkerCancelled, Receive, ReceiveFails, WorkerSwap,
         WorkerAdvance
<1>1. /\ slot[s] \in SlotRecords /\ slot \in [Slots -> GoodSlots] /\ SoundSlot(slot[s])
      /\ \A u \in Tasks : task[u].slot = s => Fits(task[u], slot[s])
  BY NoneAssumption DEF Inv, Typed, GoodSlots, RaceInv, Race, AllSound, AllFit
<1>2. ASSUME NEW r, slot' = [slot EXCEPT ![s] = r], r.cell = slot[s].cell,
             r.assoc = slot[s].assoc, r.target = slot[s].target,
             r.active = slot[s].active, r.spent = slot[s].spent,
             slot[s].worker \in Ahead, r.worker \in Ahead
      PROVE  RaceInv'
  <2>1. SoundSlot(r) /\ (Due(r) => Due(slot[s]))
    BY <1>1, <1>2 DEF SoundSlot, Due, Ahead
  <2>2. \A u \in Tasks : task[u].slot = s /\ task[u].pc = "advance" => r.spent = 0
    BY <1>1, <1>2 DEF Fits
  <2> QED
    BY <1>0, <1>2, <2>1, <2>2, WorkerRaceStep DEF Ahead
<1>3. ASSUME slot[s].worker \in Ahead, NEW w \in Ahead, slot' = Worker(s, w) PROVE RaceInv'
  <2> DEFINE r == [slot[s] EXCEPT !.worker = w]
  <2>1. slot' = [slot EXCEPT ![s] = r]
    BY <1>1, <1>3 DEF Worker
  <2>2. /\ r.worker = w /\ r.active = slot[s].active /\ r.cell = slot[s].cell
        /\ r.spent = slot[s].spent /\ r.assoc = slot[s].assoc /\ r.target = slot[s].target
    BY <1>1 DEF SlotRecords
  <2> HIDE DEF r
  <2> QED
    BY <1>2, <1>3, <2>1, <2>2
<1>4. ASSUME slot[s].worker \in Ahead, NEW y, slot' = Leave(s, y) PROVE RaceInv'
  <2> DEFINE r == [slot[s] EXCEPT !.worker = "swap", !.why = y]
  <2>1. slot' = [slot EXCEPT ![s] = r]
    BY <1>1, <1>4 DEF Leave
  <2>2. /\ r.worker = "swap" /\ r.active = slot[s].active /\ r.cell = slot[s].cell
        /\ r.spent = slot[s].spent /\ r.assoc = slot[s].assoc /\ r.target = slot[s].target
    BY <1>1 DEF SlotRecords
  <2> HIDE DEF r
  <2> QED
    BY <1>2, <1>4, <2>1, <2>2 DEF Ahead
<1>5. CASE WorkerLoop(s)
  BY <1>3, <1>4, <1>5 DEF WorkerLoop, Ahead
<1>6. CASE WorkerDeadline(s)
  BY <1>3, <1>4, <1>6 DEF WorkerDeadline, Ahead
<1>7. CASE WorkerCancelled(s)
  BY <1>4, <1>7 DEF WorkerCancelled, Ahead
<1>8. CASE ReceiveFails(s)
  BY <1>4, <1>8 DEF ReceiveFails, Ahead
<1>9. CASE Receive(s)
  <2>1. CASE alive[slot[s].assoc]
    <3> DEFINE r == [slot[s] EXCEPT !.worker = "loop", !.received = TRUE, !.age = 0]
    <3>1. slot' = [slot EXCEPT ![s] = r] /\ slot[s].worker = "wait"
      BY <1>1, <1>9, <2>1 DEF Receive, Worker
    <3>2. /\ r.worker = "loop" /\ r.active = slot[s].active /\ r.cell = slot[s].cell
          /\ r.spent = slot[s].spent /\ r.assoc = slot[s].assoc
          /\ r.target = slot[s].target
      BY <1>1 DEF SlotRecords
    <3> HIDE DEF r
    <3> QED
      BY <1>2, <3>1, <3>2 DEF Ahead
  <2>2. CASE ~alive[slot[s].assoc]
    BY <1>4, <1>9, <2>2 DEF Receive, Ahead
  <2> QED
    BY <2>1, <2>2
<1>10. CASE WorkerSwap(s)
  <2> DEFINE w == IF slot[s].active /\ failed(s) THEN "advance" ELSE "unlink"
             r == [slot[s] EXCEPT !.worker = w, !.active = FALSE]
  <2>1. slot' = [slot EXCEPT ![s] = r] /\ slot[s].worker = "swap"
    BY <1>1, <1>10 DEF WorkerSwap, Worker
  <2>2. /\ r.worker = w /\ ~r.active /\ r.cell = slot[s].cell
        /\ r.spent = slot[s].spent /\ r.assoc = slot[s].assoc /\ r.target = slot[s].target
        /\ r.why = slot[s].why /\ r.received = slot[s].received
    BY <1>1 DEF SlotRecords
  <2> HIDE DEF r
  <2>3. SoundSlot(r) /\ (Due(r) => Due(slot[s]))
    BY <1>1, <2>1, <2>2 DEF SoundSlot, Due, Ahead, failed
  <2>4. \A u \in Tasks : task[u].slot = s /\ task[u].pc = "advance" =>
          r.spent = 0 /\ r.worker # "advance"
    BY <1>1, <2>2 DEF Fits
  <2>5. r.worker \notin {"none", "done"}
    BY <2>2
  <2> HIDE DEF w
  <2> QED
    BY <1>0, <2>1, <2>2, <2>3, <2>4, <2>5, WorkerRaceStep
<1>11. CASE WorkerAdvance(s)
  <2> DEFINE r == [slot[s] EXCEPT !.worker = "unlink", !.spent = @ + 1]
  <2>1. slot' = [slot EXCEPT ![s] = r] /\ slot[s].worker = "advance"
    BY <1>1, <1>11 DEF WorkerAdvance, Worker
  <2>2. /\ r.worker = "unlink" /\ r.active = slot[s].active /\ r.cell = slot[s].cell
        /\ r.spent = slot[s].spent + 1 /\ r.assoc = slot[s].assoc
        /\ r.target = slot[s].target
    BY <1>1 DEF SlotRecords
  <2> HIDE DEF r
  <2>3. SoundSlot(r) /\ ~Due(r)
    BY <1>1, <2>1, <2>2 DEF SoundSlot, Due, Ahead
  <2>4. \A u \in Tasks : ~(task[u].slot = s /\ task[u].pc = "advance")
    BY <1>1, <2>1 DEF Fits
  <2> QED
    BY <1>0, <2>1, <2>2, <2>3, <2>4, WorkerRaceStep
<1> QED
  BY <1>5, <1>6, <1>7, <1>8, <1>9, <1>10, <1>11

\* The worker removes its slot, if it is still the mapped one, and is gone.
LEMMA RaceEnds ==
  ASSUME Inv, RaceInv, NEW s \in Slots, WorkerUnlink(s)
  PROVE  RaceInv'
<1> DEFINE fl == remove_flow_slot(slot[s].assoc, slot[s].target, s)
           r  == [slot[s] EXCEPT !.worker = "done", !.age = 0, !.why = "none",
                                 !.received = FALSE]
           sl == [slot EXCEPT ![s] = r]
<1>1. /\ slot[s] \in GoodSlots /\ slot[s] \in SlotRecords /\ slot[s].cell # "blank"
      /\ slot[s].worker = "unlink"
      /\ slot[s].assoc \in Assocs /\ slot[s].target \in Targets
      /\ slot \in [Slots -> GoodSlots] /\ task \in [Tasks -> GoodTasks]
      /\ 0 \in 0 .. Timeout
  BY WorkerLemma, LimitsAssumption DEF Inv, Typed, WorkerUnlink, GoodSlots
<1>2. /\ SoundSlot(slot[s])
      /\ \A u \in Tasks : task[u].slot = s => Fits(task[u], slot[s])
  BY NoneAssumption DEF RaceInv, Race, AllSound, AllFit
<1>3. /\ r \in GoodSlots
      /\ r.worker = "done" /\ r.active = slot[s].active /\ r.cell = slot[s].cell
      /\ r.spent = slot[s].spent /\ r.assoc = slot[s].assoc /\ r.target = slot[s].target
  BY <1>1 DEF GoodSlots, SlotRecords, WorkerPcs
<1>4. Settle(fl, sl, task)
  BY <1>1 DEF WorkerUnlink, Worker
<1>5. ~Wanted(slot[s])
  BY <1>1, <1>2 DEF Wanted, SoundSlot, Ahead
<1>6. /\ fl \in FlowMaps /\ Race(fl, slot, task)
      /\ \A a \in Assocs, tgt \in Targets : fl[a][tgt] # s
  BY <1>1, <1>5, RemovedLemma
<1> HIDE DEF fl, r
<1>7. SoundSlot(r) /\ ~Wanted(r) /\ ~Due(r)
  BY <1>1, <1>2, <1>3 DEF SoundSlot, Wanted, Due, Ahead
<1>8. \A u \in Tasks : task[u].slot = s => Fits(task[u], r)
  BY <1>1, <1>2, <1>3 DEF Fits
<1>9. Race(fl, sl, task)
  BY <1>1, <1>3, <1>6, <1>7, <1>8, ChangeLemma DEF Race
<1>10. sl \in [Slots -> GoodSlots]
  BY <1>1, <1>3
<1> HIDE DEF sl
<1> QED
  BY <1>1, <1>4, <1>6, <1>9, <1>10, SettleLemma

\* The clock changes ages only, and a close changes no flow.
LEMMA RaceOthers ==
  ASSUME Inv, RaceInv,
         \/ Tick \/ Quiet \/ UNCHANGED vars
         \/ \E a \in Assocs : CloseFlag(a) \/ CloseToken(a)
  PROVE  RaceInv'
<1>1. UNCHANGED <<flows, task>>
  BY DEF Tick, Quiet, vars, CloseFlag, CloseToken
<1>2. CASE UNCHANGED slot
  BY <1>1, <1>2 DEF RaceInv
<1>3. CASE Tick
  <2>1. ASSUME NEW s \in Slots
        PROVE  /\ slot'[s].worker = slot[s].worker /\ slot'[s].active = slot[s].active
               /\ slot'[s].cell = slot[s].cell /\ slot'[s].spent = slot[s].spent
               /\ slot'[s].assoc = slot[s].assoc /\ slot'[s].target = slot[s].target
               /\ slot'[s].why = slot[s].why /\ slot'[s].received = slot[s].received
    <3>1. slot'[s] = slot[s] \/ slot'[s] = [slot[s] EXCEPT !.age = @ + 1]
      BY <1>3 DEF Tick
    <3>2. slot[s] \in SlotRecords
      BY DEF Inv, Typed, GoodSlots
    <3> QED
      BY <3>1, <3>2 DEF SlotRecords
  <2>2. ASSUME NEW s \in Slots
        PROVE  /\ SoundSlot(slot[s]) => SoundSlot(slot'[s])
               /\ Wanted(slot'[s]) => Wanted(slot[s])
               /\ Due(slot'[s]) => Due(slot[s])
               /\ \A t \in Tasks : Fits(task[t], slot[s]) => Fits(task[t], slot'[s])
    BY <2>1 DEF SoundSlot, Wanted, Due, Fits
  <2>3. \A t \in Tasks : task[t].slot # None => task[t].slot \in Slots
    BY DEF Inv, Typed, GoodTasks, TaskRecords
  <2>4. \A a \in Assocs, tgt \in Targets : flows[a][tgt] # None => flows[a][tgt] \in Slots
    BY DEF Inv, Typed
  <2>5. AllSound(slot') /\ AllFit(slot', task)
    BY <2>2, <2>3 DEF RaceInv, Race, AllSound, AllFit
  <2>6. MapsOwn(flows, slot')
    BY <2>1, <2>4 DEF RaceInv, Race, MapsOwn
  <2>7. KeepsWanted(flows, slot')
    BY <2>1, <2>2 DEF RaceInv, Race, KeepsWanted
  <2>8. Attended(flows, slot', task)
    BY <2>1, <2>4 DEF RaceInv, Race, Attended
  <2>9. Owed(slot', task)
    BY <2>2 DEF RaceInv, Race, Owed
  <2> QED
    BY <1>1, <2>5, <2>6, <2>7, <2>8, <2>9 DEF RaceInv, Race
<1> QED
  BY <1>2, <1>3 DEF Quiet, vars, CloseFlag, CloseToken

\* The state when the association has been registered.
LEMMA RaceInit == Init => RaceInv
<1> SUFFICES ASSUME Init PROVE RaceInv
  OBVIOUS
<1>1. SoundSlot(Blank) /\ ~Wanted(Blank) /\ ~Due(Blank)
  BY DEF SoundSlot, Wanted, Due, Blank, Ahead
<1>2. Idle.slot = None
  BY DEF Idle
<1> QED
  BY <1>1, <1>2 DEF Init, RaceInv, Race, AllSound, AllFit, Alone, MapsOwn, KeepsWanted,
                    Attended, Owed

\* Every step of the tasks, the workers, the control connections and the clock.
LEMMA RaceNext == Inv /\ RaceInv /\ [Next]_vars => RaceInv'
<1> SUFFICES ASSUME Inv, RaceInv, [Next]_vars PROVE RaceInv'
  OBVIOUS
<1>0. Inv'
  BY NextInv
<1>1. ASSUME NEW t \in Tasks,
             TaskStep(t) \/ \E a \in Assocs, tgt \in Targets : Spawn(t, a, tgt)
      PROVE  RaceInv'
  BY <1>0, <1>1, RaceTakesUp, RaceNewSlot, RaceFills, RaceUses, RaceLetsGo DEF TaskStep
<1>2. ASSUME NEW s \in Slots, WorkerStep(s) \/ Receive(s) \/ ReceiveFails(s)
      PROVE  RaceInv'
  BY <1>0, <1>2, RaceWorks, RaceEnds DEF WorkerStep
<1> QED
  BY <1>1, <1>2, RaceOthers DEF Next

------------------------------------------------------------------------------
\* What holds in every reachable state.
LEMMA RaceAlways == Spec => [](Inv /\ RaceInv)
  BY InitInv, NextInv, RaceInit, RaceNext, PTL DEF Spec

\* A target has one active flow, the mapped one, however tasks that retry, the
\* worker that ends a flow and its late unlink interleave (remove_flow_slot,
\* the swaps of `active`).
THEOREM OneFlowPerTarget == Spec => []OneActiveFlow
<1>1. Inv /\ RaceInv => OneActiveFlow
  BY DEF RaceInv, Race, KeepsWanted, Wanted, OneActiveFlow
<1> QED
  BY <1>1, RaceAlways, PTL

\* A slot in the map is never forgotten: its worker has not ended, or a task is
\* filling it, so no target stays dead and no permit is lost (get_or_init and
\* every exit of handle_udp_packet and receive_remote).
THEOREM NothingOrphaned == Spec => []NoOrphan
<1>1. Inv /\ RaceInv => NoOrphan
  <2> SUFFICES ASSUME RaceInv, NEW a \in Assocs, NEW tgt \in Targets,
                      flows[a][tgt] # None,
                      slot[flows[a][tgt]].worker \in {"none", "done"}
               PROVE  /\ slot[flows[a][tgt]].worker = "none"
                      /\ \E t \in Tasks : /\ task[t].slot = flows[a][tgt]
                                          /\ task[t].pc \in {"cell", "lookup", "open"}
    BY DEF NoOrphan
  <2>1. slot[flows[a][tgt]].worker = "none"
    BY DEF RaceInv, Race, MapsOwn
  <2> QED
    BY <2>1 DEF RaceInv, Race, Attended, Attending
<1> QED
  BY <1>1, RaceAlways, PTL

\* The address of a flow that failed is given up once, by the one of the worker
\* and the tasks whose swap found the flow active (817, 898).
THEOREM AddressGivenUpOnce == Spec => []GivenUpOnce
<1>1. Inv /\ RaceInv => GivenUpOnce
  <2> SUFFICES ASSUME RaceInv, NEW s \in Slots
               PROVE  /\ slot[s].spent <= 1
                      /\ slot[s].worker = "unlink" /\ failed(s) /\ slot[s].spent = 0 =>
                           \E t \in Tasks : task[t].slot = s /\ task[t].pc = "advance"
    BY DEF GivenUpOnce
  <2>1. SoundSlot(slot[s])
    BY DEF RaceInv, Race, AllSound
  <2>2. slot[s].spent <= 1
    BY <2>1 DEF SoundSlot
  <2>3. ASSUME slot[s].worker = "unlink", failed(s), slot[s].spent = 0
        PROVE  Due(slot[s])
    BY <2>1, <2>3 DEF SoundSlot, Ahead, Due, failed
  <2> QED
    BY <2>2, <2>3 DEF RaceInv, Race, Owed
<1> QED
  BY <1>1, RaceAlways, PTL
=============================================================================
