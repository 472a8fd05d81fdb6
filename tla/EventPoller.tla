----------------------------- MODULE EventPoller -----------------------------
(***************************************************************************)
(* The background task that reads the BNS canister's event log             *)
(* (service/event.rs, polling_loop and poll_once).  It loads the offset of *)
(* the last consumed event from PostgreSQL, then repeats: sleep, fetch a   *)
(* batch, handle its events one by one, move the offset in memory and      *)
(* store it.  A crash loses the offset in memory and the rest of a batch.  *)
(***************************************************************************)
EXTENDS Integers, Sequences

CONSTANTS
  Event,                \* the values a canister event can take
  BatchLimit,           \* events asked of the canister in one call (10)
  LoadMayFail,          \* may reading the offset at start-up fail?
  SaveMayFail,          \* may writing the offset after a batch fail?
  MaxEvents,            \* bound: events the canister publishes
  MaxCrashes            \* bound: crashes of the server

ASSUME BatchLimitAssumption == BatchLimit \in Nat \ {0}
ASSUME FailureAssumption == LoadMayFail \in BOOLEAN /\ SaveMayFail \in BOOLEAN
ASSUME BoundAssumption == MaxEvents \in Nat /\ MaxCrashes \in Nat

VARIABLES
  log,                  \* the canister's append-only event log
  dbOffset,             \* events consumed, as stored in PostgreSQL
  phase,                \* where the polling task stands
  memOffset,            \* last_event_offset of polling_loop
  cursor,               \* new_offset of poll_once
  batchEnd,             \* end of the batch get_events returned
  delivered,            \* history: positions handled at least once
  crashes               \* crashes so far, for the bound

taskVars == <<phase, memOffset, cursor, batchEnd>>
pollVars == <<dbOffset, taskVars, delivered, crashes>>
vars == <<log, pollVars>>

Phases == {"down", "sleeping", "handling", "saving"}

\* Types: every offset is a position of the log (polling_loop, poll_once).
TypeOK ==
  /\ log \in Seq(Event)
  /\ dbOffset \in 0 .. Len(log)
  /\ phase \in Phases
  /\ memOffset \in 0 .. Len(log)
  /\ cursor \in 0 .. Len(log)
  /\ batchEnd \in 0 .. Len(log)
  /\ delivered \subseteq 1 .. Len(log)
  /\ crashes \in Nat

PollInit ==
  /\ dbOffset = 0
  /\ phase = "down"
  /\ memOffset = 0
  /\ cursor = 0
  /\ batchEnd = 0
  /\ delivered = {}
  /\ crashes = 0

Init == log = <<>> /\ PollInit

-----------------------------------------------------------------------------
\* The canister appends an event to its log.
Publish(e) ==
  /\ Len(log) < MaxEvents
  /\ log' = Append(log, e)
  /\ UNCHANGED pollVars

\* Mutants of Start: the stored offset is ignored; the task starts with what
\* is new.
StartFromEnd ==
  /\ phase = "down"
  /\ memOffset' = Len(log)
  /\ cursor' = Len(log)
  /\ batchEnd' = Len(log)
  /\ phase' = "sleeping"
  /\ UNCHANGED <<dbOffset, delivered, crashes>>

StartFromZero ==
  /\ phase = "down"
  /\ memOffset' = 0
  /\ cursor' = 0
  /\ batchEnd' = 0
  /\ phase' = "sleeping"
  /\ UNCHANGED <<dbOffset, delivered, crashes>>

\* Start-up: the task takes the stored offset, or 0 if it cannot be read.
Start ==
  /\ phase = "down"
  /\ \E offset \in {dbOffset} \cup (IF LoadMayFail THEN {0} ELSE {}) :
       /\ memOffset' = offset
       /\ cursor' = offset
       /\ batchEnd' = offset
  /\ phase' = "sleeping"
  /\ UNCHANGED <<dbOffset, delivered, crashes>>

\* Mutants of Fetch: the offset is stored before the batch is handled; the
\* batch is taken for full; its first event is stepped over.
FetchSavesFirst ==
  /\ phase = "sleeping"
  /\ memOffset < Len(log)
  /\ cursor' = memOffset
  /\ batchEnd' = IF memOffset + BatchLimit < Len(log)
                 THEN memOffset + BatchLimit ELSE Len(log)
  /\ dbOffset' = batchEnd'
  /\ phase' = "handling"
  /\ UNCHANGED <<memOffset, delivered, crashes>>

FetchTakenForFull ==
  /\ phase = "sleeping"
  /\ memOffset < Len(log)
  /\ cursor' = memOffset
  /\ batchEnd' = memOffset + BatchLimit
  /\ phase' = "handling"
  /\ UNCHANGED <<dbOffset, memOffset, delivered, crashes>>

FetchOffByOne ==
  /\ phase = "sleeping"
  /\ memOffset < Len(log)
  /\ cursor' = memOffset + 1
  /\ batchEnd' = IF memOffset + BatchLimit < Len(log)
                 THEN memOffset + BatchLimit ELSE Len(log)
  /\ phase' = "handling"
  /\ UNCHANGED <<dbOffset, memOffset, delivered, crashes>>

\* get_events returns the next events, at most BatchLimit of them.  A failed
\* call and an empty answer leave the task asleep with its offset unchanged.
Fetch ==
  /\ phase = "sleeping"
  /\ memOffset < Len(log)
  /\ cursor' = memOffset
  /\ batchEnd' = IF memOffset + BatchLimit < Len(log)
                 THEN memOffset + BatchLimit ELSE Len(log)
  /\ phase' = "handling"
  /\ UNCHANGED <<dbOffset, memOffset, delivered, crashes>>

\* The event being handled, and whether there is one.
Handling == phase = "handling" /\ cursor < batchEnd
Current == log[cursor + 1]

\* handle_status_change returned for the current event.
HandleNext ==
  /\ Handling
  /\ cursor' = cursor + 1
  /\ delivered' = delivered \cup {cursor + 1}
  /\ UNCHANGED <<dbOffset, phase, memOffset, batchEnd, crashes>>

\* Mutant of FinishBatch: the offset in memory stays behind.
FinishBatchForgets ==
  /\ phase = "handling"
  /\ cursor = batchEnd
  /\ phase' = "saving"
  /\ UNCHANGED <<dbOffset, memOffset, cursor, batchEnd, delivered, crashes>>

\* poll_once returns; the offset in memory moves to the end of the batch.
FinishBatch ==
  /\ phase = "handling"
  /\ cursor = batchEnd
  /\ memOffset' = cursor
  /\ phase' = "saving"
  /\ UNCHANGED <<dbOffset, cursor, batchEnd, delivered, crashes>>

\* set_event_offset overwrites the stored offset.
SaveOffset ==
  /\ phase = "saving"
  /\ dbOffset' = memOffset
  /\ phase' = "sleeping"
  /\ UNCHANGED <<memOffset, cursor, batchEnd, delivered, crashes>>

\* set_event_offset fails; the error is logged and the loop goes on.
SaveFails ==
  /\ SaveMayFail
  /\ phase = "saving"
  /\ phase' = "sleeping"
  /\ UNCHANGED <<dbOffset, memOffset, cursor, batchEnd, delivered, crashes>>

\* The server stops, wherever the task stands.
Crash ==
  /\ phase # "down"
  /\ crashes < MaxCrashes
  /\ crashes' = crashes + 1
  /\ phase' = "down"
  /\ memOffset' = 0
  /\ cursor' = 0
  /\ batchEnd' = 0
  /\ UNCHANGED <<dbOffset, delivered>>

\* The steps of the task that do not touch an event.
Idle == Start \/ Fetch \/ FinishBatch \/ SaveOffset \/ SaveFails

Next ==
  \/ \E e \in Event : Publish(e)
  \/ Idle /\ UNCHANGED log
  \/ HandleNext /\ UNCHANGED log
  \/ Crash /\ UNCHANGED log

Spec == Init /\ [][Next]_vars

\* The task is a loop that never returns (event.rs:60), and a stopped server
\* is started again; nothing obliges the canister to publish.
Fairness == WF_vars(Idle /\ UNCHANGED log) /\ WF_vars(HandleNext /\ UNCHANGED log)
FairSpec == Spec /\ Fairness

-----------------------------------------------------------------------------
\* No offset, stored or in memory, is ahead of an event that was never handled:
\* whatever the crashes, failed loads and failed saves, and wherever a later
\* incarnation of the task resumes, no status change of the canister is lost
\* (event.rs polling_loop stores the offset only after poll_once handled the
\* whole batch).
NoEventSkipped ==
  /\ 1 .. dbOffset \subseteq delivered
  /\ 1 .. memOffset \subseteq delivered

\* If the offset can always be read at start-up, the stored offset never goes
\* back: set_event_offset overwrites it without a comparison, so this rests on
\* the offset in memory never falling behind (event.rs:60-93).
OffsetNeverRegresses == [][dbOffset' >= dbOffset]_vars

\* Every published event is eventually handled, also when batches are cut
\* short by crashes and the offset cannot be stored (event.rs polling_loop).
EveryEventHandled ==
  \A i \in 1 .. MaxEvents : (Len(log) >= i) ~> (i \in delivered)

\* The task implements the delivery contract: in order, none passed over, a
\* repetition only of what was handled before.
Delivery == INSTANCE EventDelivery WITH acked <- dbOffset
DeliverySpec == Delivery!Spec
=============================================================================
