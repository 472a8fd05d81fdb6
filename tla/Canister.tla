------------------------------ MODULE Canister ------------------------------
(***************************************************************************)
(* The BNS canister and the Bitcoin transactions it executes, as the       *)
(* server sees them: it invokes actions, relists names and reads a log of  *)
(* status changes (infra/canister.rs, infra/bns_canister.rs).  Its code is *)
(* not in this repository.  What is assumed of it is what Bitcoin imposes: *)
(* an action spends the outpoint that holds the name's inscription, so it  *)
(* is executed only if that outpoint is still unspent; rejecting an        *)
(* unconfirmed action undoes it and every action that was built on it.     *)
(***************************************************************************)
EXTENDS Integers, SequencesExt

CONSTANTS
  Names,                \* the names traded
  Users,                \* wallet addresses
  FirstOwner,           \* FirstOwner[n]: the address that holds n initially
  Progress              \* status changes the canister reports, rejection apart

VARIABLES
  chain,                \* chain[n]: the executed actions on n, oldest first
  log                   \* the status changes published so far

canisterVars == <<chain, log>>

Genesis == 0            \* stands for the transaction that etched a name
TxId == Nat

Statuses == {"Pending", "Finalized", "Confirmed", "Rejected"}
StatusEvent == [tx : TxId, status : Statuses]

\* One executed action: who holds the name now, through which transaction,
\* and whether it is in the pool for sale.
Entry == [tx : TxId, owner : Users, listed : BOOLEAN, price : Nat]

Current(n) == Last(chain[n])
Executed(n) == {chain[n][i].tx : i \in 1 .. Len(chain[n])} \ {Genesis}
Published(t, s) == \E i \in 1 .. Len(log) : log[i] = [tx |-> t, status |-> s]
Settled(t) == t = Genesis \/ Published(t, "Confirmed") \/ Published(t, "Finalized")

CanisterInit ==
  /\ chain = [n \in Names |-> <<[tx |-> Genesis, owner |-> FirstOwner[n],
                                 listed |-> FALSE, price |-> 0]>>]
  /\ log = <<>>

\* The input of a signed transaction is the unspent output that holds the
\* inscription: the pool's if the name is for sale, the owner's otherwise.
Spendable(psbt) ==
  LET e == Current(psbt.name) IN
    /\ e.tx = psbt.input
    /\ e.listed = (psbt.action # "List")
    /\ psbt.action = "List" => e.owner = psbt.who

\* invoke executes an action.
Execute(psbt, t) ==
  LET e == [tx |-> t, owner |-> psbt.who,
            listed |-> psbt.action \in {"List", "BuyAndRelist"},
            price |-> psbt.price]
  IN
    /\ Spendable(psbt)
    /\ chain' = [chain EXCEPT ![psbt.name] = Append(@, e)]
    /\ log' = Append(log, [tx |-> t, status |-> "Pending"])

\* relist_name replaces the price of whatever is for sale under the name; the
\* call says nothing of who asked for it.
Relist(n, price) ==
  /\ Current(n).listed
  /\ chain' = [chain EXCEPT ![n] = Append(Front(@), [Last(@) EXCEPT !.price = price])]
  /\ UNCHANGED log

\* A status change other than a rejection; the actions a transaction was built
\* on are settled before it is.
Report(n, i, s) ==
  /\ s \in Progress
  /\ i \in 2 .. Len(chain[n])
  /\ ~ Published(chain[n][i].tx, s)
  /\ Settled(chain[n][i - 1].tx)
  /\ log' = Append(log, [tx |-> chain[n][i].tx, status |-> s])
  /\ UNCHANGED chain

\* An unconfirmed action is rejected, with all that was built on it; the
\* rejections are published in the order the actions were executed.
Reject(n, i) ==
  /\ i \in 2 .. Len(chain[n])
  /\ ~ Settled(chain[n][i].tx)
  /\ log' = log \o [k \in 1 .. Len(chain[n]) - i + 1 |->
                      [tx |-> chain[n][i + k - 1].tx, status |-> "Rejected"]]
  /\ chain' = [chain EXCEPT ![n] = SubSeq(@, 1, i - 1)]

\* What an ord indexer answers: the holder and the outpoint of the inscription
\* as of the last settled transaction.
OrdEntry(n) ==
  chain[n][CHOOSE i \in 1 .. Len(chain[n]) :
             /\ Settled(chain[n][i].tx)
             /\ \A j \in i + 1 .. Len(chain[n]) : ~ Settled(chain[n][j].tx)]
=============================================================================
