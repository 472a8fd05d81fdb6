-------------------------- MODULE EventPollerProofs --------------------------
(***************************************************************************)
(* Proofs about EventPoller, for every event type, batch size and bound.   *)
(***************************************************************************)
EXTENDS EventPoller, TLAPS

-----------------------------------------------------------------------------
(* The inductive invariant. *)

\* The offset in memory, the event in hand and the end of the batch are in
\* this order, and all that lies before the event in hand was handled.
Ordered == memOffset <= cursor /\ cursor <= batchEnd
HandledBefore == 1 .. dbOffset \subseteq delivered /\ 1 .. cursor \subseteq delivered

IInv == TypeOK /\ Ordered /\ HandledBefore

\* The initial state satisfies it.
LEMMA InitIInv == Init => IInv
  BY BoundAssumption DEF Init, PollInit, IInv, TypeOK, Phases, Ordered, HandledBefore

\* The log grows at its end, by however many events: that moves no offset.
LEMMA LogGrowsIInv ==
  ASSUME IInv, log' \in Seq(Event), Len(log') >= Len(log), UNCHANGED pollVars
  PROVE  IInv'
  <1>1. Len(log) \in Nat /\ Len(log') \in Nat
    BY DEF IInv, TypeOK
  <1>2. UNCHANGED <<dbOffset, phase, memOffset, cursor, batchEnd, delivered, crashes>>
    BY DEF pollVars, taskVars
  <1> QED
    BY <1>1, <1>2 DEF IInv, TypeOK, Ordered, HandledBefore

LEMMA PublishIInv == ASSUME IInv, NEW e \in Event, Publish(e) PROVE IInv'
  <1>1. Len(log') >= Len(log) /\ log' \in Seq(Event)
    BY DEF IInv, TypeOK, Publish
  <1> QED
    BY <1>1, LogGrowsIInv DEF Publish

\* No step of the task breaks it.
LEMMA StartIInv == ASSUME IInv, Start, UNCHANGED log PROVE IInv'
  <1>1. PICK offset \in {dbOffset, 0} :
          memOffset' = offset /\ cursor' = offset /\ batchEnd' = offset
    BY DEF Start
  <1>2. phase' = "sleeping" /\ UNCHANGED <<log, dbOffset, delivered, crashes>>
    BY DEF Start
  <1> QED
    BY <1>1, <1>2 DEF IInv, TypeOK, Phases, Ordered, HandledBefore

LEMMA FetchIInv == ASSUME IInv, Fetch, UNCHANGED log PROVE IInv'
  <1>1. batchEnd' \in memOffset .. Len(log)
    BY BatchLimitAssumption DEF IInv, TypeOK, Fetch
  <1>2. cursor' = memOffset /\ 1 .. cursor' \subseteq 1 .. cursor
    BY DEF IInv, TypeOK, Ordered, Fetch
  <1> QED
    BY <1>1, <1>2 DEF IInv, TypeOK, Phases, Ordered, HandledBefore, Fetch

LEMMA HandleNextIInv == ASSUME IInv, HandleNext, UNCHANGED log PROVE IInv'
  <1>1. cursor + 1 \in 1 .. batchEnd
    BY DEF IInv, TypeOK, Ordered, HandleNext, Handling
  <1>2. 1 .. (cursor + 1) \subseteq delivered \cup {cursor + 1}
    BY DEF IInv, TypeOK, HandledBefore
  <1> QED
    BY <1>1, <1>2 DEF IInv, TypeOK, Ordered, HandledBefore, HandleNext

LEMMA FinishBatchIInv == ASSUME IInv, FinishBatch, UNCHANGED log PROVE IInv'
  BY DEF IInv, TypeOK, Phases, Ordered, HandledBefore, FinishBatch

LEMMA SaveIInv == ASSUME IInv, SaveOffset \/ SaveFails, UNCHANGED log PROVE IInv'
  <1>1. 1 .. memOffset \subseteq 1 .. cursor
    BY DEF IInv, TypeOK, Ordered
  <1> QED
    BY <1>1 DEF IInv, TypeOK, Phases, Ordered, HandledBefore, SaveOffset, SaveFails

LEMMA CrashIInv == ASSUME IInv, Crash, UNCHANGED log PROVE IInv'
  BY DEF IInv, TypeOK, Phases, Ordered, HandledBefore, Crash

LEMMA StepIInv == IInv /\ [Next]_vars => IInv'
  <1> SUFFICES ASSUME IInv, [Next]_vars PROVE IInv'
    OBVIOUS
  <1>1. CASE \E e \in Event : Publish(e)
    BY <1>1, PublishIInv
  <1>2. CASE Idle /\ UNCHANGED log
    BY <1>2, StartIInv, FetchIInv, FinishBatchIInv, SaveIInv DEF Idle
  <1>3. CASE HandleNext /\ UNCHANGED log
    BY <1>3, HandleNextIInv
  <1>4. CASE Crash /\ UNCHANGED log
    BY <1>4, CrashIInv
  <1>5. CASE UNCHANGED vars
    BY <1>5 DEF IInv, TypeOK, Ordered, HandledBefore, vars, pollVars, taskVars
  <1> QED
    BY <1>1, <1>2, <1>3, <1>4, <1>5 DEF Next

\* Every reachable state satisfies the inductive invariant.
THEOREM Invariance == Spec => []IInv
  <1> QED
    BY InitIInv, StepIInv, PTL DEF Spec

-----------------------------------------------------------------------------
(* Safety. *)

\* Every offset the task holds is a position of the canister's log
\* (event.rs polling_loop, poll_once).
THEOREM TypeCorrectness == Spec => []TypeOK
  <1>1. IInv => TypeOK
    BY DEF IInv
  <1> QED
    BY <1>1, Invariance, PTL

\* No status change is passed over, whatever crashes and failed offset reads
\* and writes occur (event.rs polling_loop, poll_once).
THEOREM NothingSkipped == Spec => []NoEventSkipped
  <1>1. IInv => NoEventSkipped
    BY DEF IInv, TypeOK, Ordered, HandledBefore, NoEventSkipped
  <1> QED
    BY <1>1, Invariance, PTL

\* While the task runs, the stored offset is not ahead of the one in memory.
StoredBehind == phase # "down" => dbOffset <= memOffset

\* If the offset can be read at every start, the stored offset never goes back
\* (event.rs polling_loop: set_event_offset overwrites it unconditionally).
THEOREM OffsetMonotone ==
  ASSUME LoadMayFail = FALSE
  PROVE  Spec => OffsetNeverRegresses
  <1>1. Init => StoredBehind
    BY DEF Init, PollInit, StoredBehind
  <1>2. IInv /\ StoredBehind /\ [Next]_vars => StoredBehind'
    BY DEF IInv, TypeOK, Ordered, StoredBehind, Next, Publish, Idle, Start, Fetch,
       HandleNext, Handling, FinishBatch, SaveOffset, SaveFails, Crash, vars,
       pollVars, taskVars
  <1>3. IInv /\ StoredBehind /\ [Next]_vars => [dbOffset' >= dbOffset]_vars
    BY DEF IInv, TypeOK, StoredBehind, Next, Publish, Idle, Start, Fetch,
       HandleNext, FinishBatch, SaveOffset, SaveFails, Crash, vars, pollVars
  <1> QED
    BY <1>1, <1>2, <1>3, Invariance, PTL DEF Spec, OffsetNeverRegresses

-----------------------------------------------------------------------------
(* The task implements EventDelivery. *)

LEMMA InitDelivery == Init => Delivery!Init
  BY DEF Init, PollInit, Delivery!Init

LEMMA StepDelivery == IInv /\ [Next]_vars => [Delivery!Next]_(Delivery!vars)
  <1> SUFFICES ASSUME IInv, [Next]_vars
               PROVE  Delivery!Next \/ UNCHANGED Delivery!vars
    OBVIOUS
  <1> USE DEF Delivery!Next, Delivery!vars
  <1>1. ASSUME NEW e \in Event, Publish(e) PROVE Delivery!Next
    <2>1. /\ log' \in Seq(Event) /\ Len(log') >= Len(log)
          /\ \A i \in 1 .. Len(log) : log'[i] = log[i]
      BY <1>1 DEF Publish, IInv, TypeOK
    <2> QED
      BY <1>1, <2>1 DEF Publish, Delivery!Publish, pollVars
  <1>2. CASE (Start \/ Fetch \/ FinishBatch \/ SaveFails \/ Crash) /\ UNCHANGED log
    BY <1>2 DEF Start, Fetch, FinishBatch, SaveFails, Crash
  <1>3. CASE SaveOffset /\ UNCHANGED log
    <2>1. memOffset \in 0 .. Len(log) /\ 1 .. memOffset \subseteq delivered
      BY DEF IInv, TypeOK, Ordered, HandledBefore
    <2>2. Delivery!Acknowledge(memOffset)
      BY <1>3, <2>1 DEF SaveOffset, Delivery!Acknowledge
    <2> QED
      BY <2>1, <2>2
  <1>4. CASE HandleNext /\ UNCHANGED log
    <2>1. cursor + 1 \in 1 .. Len(log) /\ 1 .. ((cursor + 1) - 1) \subseteq delivered
      BY <1>4 DEF IInv, TypeOK, HandledBefore, HandleNext, Handling
    <2>2. Delivery!Deliver(cursor + 1)
      BY <1>4, <2>1 DEF HandleNext, Delivery!Deliver
    <2> QED
      BY <2>1, <2>2
  <1>5. CASE UNCHANGED vars
    BY <1>5 DEF vars, pollVars
  <1> QED
    BY <1>1, <1>2, <1>3, <1>4, <1>5 DEF Next, Idle

\* In-order delivery, none passed over, repetitions only of what was handled:
\* the task implements the abstract delivery contract (event.rs polling_loop).
THEOREM ImplementsDelivery == Spec => DeliverySpec
  <1> QED
    BY InitDelivery, StepDelivery, Invariance, PTL
    DEF Spec, DeliverySpec, Delivery!Spec
=============================================================================
