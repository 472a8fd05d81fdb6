---------------------------- MODULE EventDelivery ----------------------------
(***************************************************************************)
(* What the server's event feed promises to the code that consumes it:     *)
(* the canister's events arrive in log order, an event is never passed     *)
(* over, and an event may arrive again after a restart.  The position      *)
(* acknowledged in the database never covers an event that has not         *)
(* arrived.  EventPoller implements this specification.                    *)
(***************************************************************************)
EXTENDS Naturals, Sequences

CONSTANT Event          \* the values a canister event can take

VARIABLES
  log,                  \* the canister's append-only event log
  delivered,            \* the positions of the log handed over at least once
  acked                 \* the position recorded as consumed

vars == <<log, delivered, acked>>

Init ==
  /\ log = <<>>
  /\ delivered = {}
  /\ acked = 0

\* The canister appends events, one or, when it rejects a transaction and what
\* was built on it, several.
Publish ==
  /\ log' \in Seq(Event)
  /\ Len(log') >= Len(log)
  /\ \A i \in 1 .. Len(log) : log'[i] = log[i]
  /\ UNCHANGED <<delivered, acked>>

\* The event at position i arrives, or arrives once more; every earlier
\* event has arrived before.
Deliver(i) ==
  /\ i \in 1 .. Len(log)
  /\ 1 .. (i - 1) \subseteq delivered
  /\ delivered' = delivered \cup {i}
  /\ UNCHANGED <<log, acked>>

\* Everything up to position k is recorded as consumed.
Acknowledge(k) ==
  /\ k \in 0 .. Len(log)
  /\ 1 .. k \subseteq delivered
  /\ acked' = k
  /\ UNCHANGED <<log, delivered>>

Next ==
  \/ Publish
  \/ \E i \in 1 .. Len(log) : Deliver(i)
  \/ \E k \in 0 .. Len(log) : Acknowledge(k)

Spec == Init /\ [][Next]_vars
=============================================================================
