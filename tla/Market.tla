------------------------------- MODULE Market -------------------------------
(***************************************************************************)
(* What the marketplace promises its users, as long as nothing fails: the  *)
(* deals on a name are made one after the other, by those who may make     *)
(* them and once only; who withdraws a name or buys it deals on the offer  *)
(* that is shown; and every deal is shown later, except one: a name that   *)
(* is offered again before its withdrawal is shown may never appear.       *)
(* Trading implements this specification.                                  *)
(***************************************************************************)
CONSTANTS
  Names, Users,
  FirstOwner,           \* the holder of each name before any deal
  Txs,                  \* the transactions that can be signed
  Etching,              \* stands for the one that etched a name
  NoOffer               \* null

VARIABLES
  held,                 \* the last deal made on each name, and who holds it since
  pending,              \* the deals on each name that are yet to be shown
  shown,                \* the offer of each name on the market, or NoOffer
  done                  \* the transactions whose deals were made

marketVars == <<held, pending, shown, done>>

Deal(kind, u, listed, t) == [kind |-> kind, owner |-> u, listed |-> listed, tx |-> t]

\* What the market is to show of a name after a deal.
Offer(d) == IF d.listed THEN [seller |-> d.owner, tx |-> d.tx] ELSE NoOffer

MarketInit ==
  /\ held = [n \in Names |-> Deal("etched", FirstOwner[n], FALSE, Etching)]
  /\ pending = [n \in Names |-> {}]
  /\ shown = [n \in Names |-> NoOffer]
  /\ done = {}

\* A deal is made with a new transaction, and waits to be shown.
Make(n, kind, u, listed, t) ==
  /\ t \notin done
  /\ done' = done \cup {t}
  /\ held' = [held EXCEPT ![n] = Deal(kind, u, listed, t)]
  /\ pending' = [pending EXCEPT ![n] = @ \cup {Deal(kind, u, listed, t)}]
  /\ UNCHANGED shown

\* The holder offers a name, maybe before its withdrawal is shown.
List(n, t) == ~ held[n].listed /\ Make(n, "list", held[n].owner, TRUE, t)

\* Whoever withdraws a name or buys it sees the offer as it is.
Visible(n) == held[n].listed /\ shown[n] = Offer(held[n])

\* The offer is withdrawn by who made it.
Delist(n, t) == Visible(n) /\ Make(n, "delist", held[n].owner, FALSE, t)

\* A user buys the name, to offer it again or not.
Buy(n, u, relist, t) == Visible(n) /\ Make(n, "buy", u, relist, t)

\* A deal is shown; a new offer only if no other stands in its place.
Show(n, d) ==
  /\ d \in pending[n]
  /\ pending' = [pending EXCEPT ![n] = @ \ {d}]
  /\ \/ d.kind = "list" /\ shown[n] # NoOffer /\ UNCHANGED shown
     \/ /\ d.kind = "list" => shown[n] = NoOffer
        /\ shown' = [shown EXCEPT ![n] = Offer(d)]
  /\ UNCHANGED <<held, done>>

MarketNext ==
  \E n \in Names :
    \/ \E d \in pending[n] : Show(n, d)
    \/ \E t \in Txs : \/ List(n, t) \/ Delist(n, t)
                      \/ \E u \in Users, relist \in BOOLEAN : Buy(n, u, relist, t)

MarketSpec == MarketInit /\ [][MarketNext]_marketVars
=============================================================================
