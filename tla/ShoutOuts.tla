----------------------------- MODULE ShoutOuts ------------------------------
(***************************************************************************)
(* Shout outs: a seller pays for an advertisement with a transaction that  *)
(* the server broadcasts, and shows it from the table shout_outs            *)
(* (service/shout_out.rs).  polling_loop, which nothing starts at present   *)
(* (main.rs never calls start_confirming), marks those whose transaction    *)
(* is mined.  What a transaction pays and to whom is left out: one that is   *)
(* submitted passes the checks or does not.                                 *)
(***************************************************************************)
EXTENDS Integers, FiniteSets, SequencesExt

CONSTANTS
  AdTxs,                \* the transactions that pay for shout outs
  Paying,               \* tasks of shout_out requests
  Batch,                \* 100, of get_pending_shout_out
  ShoutFaults,          \* may a statement or a reply be lost, or the server stop?
  MaxPaid               \* bound: requests

ASSUME ShoutAssumption ==
  /\ Batch \in Nat \ {0} /\ MaxPaid \in Nat /\ ShoutFaults \in BOOLEAN

VARIABLES
  network,              \* what the Bitcoin node knows of each transaction
  status,               \* table shout_outs: status, or "none" for no row
  newest,               \* the rows' tx_ids by created_at, the latest first
  pay,                  \* where each request stands
  poll,                 \* polling_loop: the rows fetched, the one found mined
  paid,                 \* requests so far, for the bound
  unpublished           \* history: transactions a fault kept from the table

shoutVars == <<network, status, newest, pay, poll, paid, unpublished>>

NotPaying == [at |-> "idle", tx |-> "none"]
NotPolling == [todo |-> <<>>, mined |-> FALSE]
OnChain == {"mempool", "mined"}

ShoutTypeOK ==
  /\ network \in [AdTxs -> OnChain \cup {"unknown"}]
  /\ status \in [AdTxs -> {"none", "pending", "confirmed"}]
  /\ newest \in Seq(AdTxs) /\ Range(newest) = {t \in AdTxs : status[t] # "none"}
  /\ pay \in [Paying -> {NotPaying} \cup [at : {"broadcast", "insert"}, tx : AdTxs]]
  /\ poll \in [todo : Seq(AdTxs), mined : BOOLEAN]
  /\ paid \in 0 .. MaxPaid /\ unpublished \subseteq AdTxs

ShoutInit ==
  /\ network = [t \in AdTxs |-> "unknown"]
  /\ status = [t \in AdTxs |-> "none"]
  /\ newest = <<>>
  /\ pay = [p \in Paying |-> NotPaying]
  /\ poll = NotPolling
  /\ paid = 0 /\ unpublished = {}

PayEnds(p) == pay' = [pay EXCEPT ![p] = NotPaying]

-----------------------------------------------------------------------------
\* A request that passes the checks: signed inputs, 10,000 sats to the platform,
\* a listing of the caller's.  A client may send it again.
Submit(p, t) ==
  /\ pay[p].at = "idle"
  /\ paid < MaxPaid
  /\ paid' = paid + 1
  /\ pay' = [pay EXCEPT ![p] = [at |-> "broadcast", tx |-> t]]
  /\ UNCHANGED <<network, status, newest, poll, unpublished>>

\* broadcast_psbt: the node takes a transaction that is not mined yet, or refuses;
\* its answer may be lost.
Broadcast(p) ==
  LET t == pay[p].tx IN
    /\ pay[p].at = "broadcast"
    /\ \/ /\ network[t] # "mined"
          /\ network' = [network EXCEPT ![t] = "mempool"]
          /\ \/ pay' = [pay EXCEPT ![p].at = "insert"] /\ UNCHANGED unpublished
             \/ ShoutFaults /\ PayEnds(p) /\ unpublished' = unpublished \cup {t}
       \/ PayEnds(p) /\ UNCHANGED <<network, unpublished>>
    /\ UNCHANGED <<status, newest, poll, paid>>

\* Mutant of InsertShout: a row that is there is set to pending.
UpsertShout(p) ==
  LET t == pay[p].tx IN
    /\ pay[p].at = "insert"
    /\ PayEnds(p)
    /\ \/ /\ status' = [status EXCEPT ![t] = "pending"]
          /\ newest' = <<t>> \o Remove(newest, t)
          /\ UNCHANGED unpublished
       \/ ShoutFaults /\ unpublished' = unpublished \cup {t} /\ UNCHANGED <<status, newest>>
    /\ UNCHANGED <<network, poll, paid>>

\* Mutant of InsertShout: a transaction that is mined by now is not entered.
InsertUnlessMined(p) ==
  LET t == pay[p].tx IN
    /\ pay[p].at = "insert"
    /\ PayEnds(p)
    /\ IF status[t] = "none" /\ network[t] # "mined"
       THEN /\ status' = [status EXCEPT ![t] = "pending"]
            /\ newest' = <<t>> \o newest
       ELSE UNCHANGED <<status, newest>>
    /\ UNCHANGED <<network, poll, paid, unpublished>>

\* insert_shout_out: the primary key refuses a second row; the statement may fail.
InsertShout(p) ==
  LET t == pay[p].tx IN
    /\ pay[p].at = "insert"
    /\ PayEnds(p)
    /\ \/ /\ status[t] = "none"
          /\ status' = [status EXCEPT ![t] = "pending"]
          /\ newest' = <<t>> \o newest
          /\ UNCHANGED unpublished
       \/ status[t] # "none" /\ UNCHANGED <<status, newest, unpublished>>
       \/ /\ ShoutFaults /\ status[t] = "none"
          /\ unpublished' = unpublished \cup {t}
          /\ UNCHANGED <<status, newest>>
    /\ UNCHANGED <<network, poll, paid>>

\* The server stops and starts again.
ShoutCrash ==
  /\ ShoutFaults
  /\ pay' = [p \in Paying |-> NotPaying]
  /\ poll' = NotPolling
  /\ unpublished' = unpublished \cup
       {pay[p].tx : p \in {q \in Paying : pay[q].at = "insert"}}
  /\ UNCHANGED <<network, status, newest, paid>>

-----------------------------------------------------------------------------
(* The network, which mines a transaction or drops it. *)

Mine(t) ==
  /\ network[t] = "mempool"
  /\ network' = [network EXCEPT ![t] = "mined"]
  /\ UNCHANGED <<status, newest, pay, poll, paid, unpublished>>

Evict(t) ==
  /\ network[t] = "mempool"
  /\ network' = [network EXCEPT ![t] = "unknown"]
  /\ UNCHANGED <<status, newest, pay, poll, paid, unpublished>>

-----------------------------------------------------------------------------
(* polling_loop. *)

\* get_pending_shout_out: the newest rows that are pending, at most Batch of them;
\* `at` is where in newest they are.
FetchPending ==
  LET pending == {i \in DOMAIN newest : status[newest[i]] = "pending"} IN
    /\ poll = NotPolling
    /\ \E k \in 0 .. Batch : \E at \in [1 .. k -> pending] :
         /\ \A i, j \in 1 .. k : i < j => at[i] < at[j]
         /\ \A p \in pending \ Range(at) : k = Batch /\ \A i \in 1 .. k : at[i] < p
         /\ poll' = [NotPolling EXCEPT !.todo = [i \in 1 .. k |-> newest[at[i]]]]
    /\ UNCHANGED <<network, status, newest, pay, paid, unpublished>>

\* Mutant of CheckConfirmations: the node knows the transaction.
CheckKnown ==
  /\ poll.todo # <<>> /\ ~ poll.mined
  /\ poll' = IF network[Head(poll.todo)] \in OnChain THEN [poll EXCEPT !.mined = TRUE]
             ELSE [poll EXCEPT !.todo = Tail(@)]
  /\ UNCHANGED <<network, status, newest, pay, paid, unpublished>>

\* get_transaction_confirmations: none for one in the mempool or unknown.
CheckConfirmations ==
  /\ poll.todo # <<>> /\ ~ poll.mined
  /\ poll' = IF network[Head(poll.todo)] = "mined" THEN [poll EXCEPT !.mined = TRUE]
             ELSE [poll EXCEPT !.todo = Tail(@)]
  /\ UNCHANGED <<network, status, newest, pay, paid, unpublished>>

\* confirm_shout_out; a failure is ignored.
ConfirmShout ==
  /\ poll.mined
  /\ poll' = [todo |-> Tail(poll.todo), mined |-> FALSE]
  /\ \/ status' = [status EXCEPT ![Head(poll.todo)] = "confirmed"]
     \/ ShoutFaults /\ UNCHANGED status
  /\ UNCHANGED <<network, newest, pay, paid, unpublished>>

ShoutNext ==
  \/ \E p \in Paying, t \in AdTxs : Submit(p, t)
  \/ \E p \in Paying : Broadcast(p) \/ InsertShout(p)
  \/ ShoutCrash
  \/ \E t \in AdTxs : Mine(t) \/ Evict(t)
  \/ FetchPending \/ CheckConfirmations \/ ConfirmShout

ShoutSpec == ShoutInit /\ [][ShoutNext]_shoutVars

-----------------------------------------------------------------------------
\* A shout out whose payment the network took is in the table, or its request is
\* about to insert it, unless a fault came between the two (shout_out.rs:71-83:
\* no record of the intent is kept): no retry, second request or eviction of the
\* transaction loses it.
PaidIsPublished ==
  \A t \in AdTxs \ unpublished : network[t] \in OnChain =>
    \/ status[t] # "none"
    \/ \E p \in Paying : pay[p] = [at |-> "insert", tx |-> t]

\* A confirmed shout out's transaction is mined: the loop's rows, its query and
\* its update are three steps, with evictions in between (shout_out.rs:87-111).
ConfirmedIsMined ==
  \A t \in AdTxs : status[t] = "confirmed" => network[t] = "mined"

\* A status never goes back: no retry of a request and no row fetched earlier
\* undoes a confirmation (postgres.rs:707-718, 731-740).
StatusNeverBack ==
  [][\A t \in AdTxs :
       /\ status[t] # "none" => status'[t] # "none"
       /\ status[t] = "confirmed" => status'[t] = "confirmed"]_shoutVars
=============================================================================
