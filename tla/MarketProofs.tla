---------------------------- MODULE MarketProofs -----------------------------
(***************************************************************************)
(* Proofs about the market of Trading: that the listings table and the     *)
(* rankings follow what the canister executes, for all names, users and    *)
(* prices and any number of tasks.                                         *)
(***************************************************************************)
EXTENDS RecordProofs, SequenceTheorems

-----------------------------------------------------------------------------
(* What a step does when nothing fails, crashes or is rejected.             *)

\* Nothing goes wrong but that clients send signed transactions again.
Calm == Faults \subseteq {"resubmit"}

\* Nothing was rejected.
NoneRejected ==
  /\ rollback = NoRecord
  /\ \A i \in 1 .. Len(log) : log[i].status # "Rejected"

market == <<listings, chain, log, psbts>>

\* A trade request is taken, for a transaction that was signed.
Taken(h) ==
  /\ pc[h] = "idle" /\ pc'[h] = "validated" /\ Others(h)
  /\ UNCHANGED <<listings, chain, log, newListings, bestDeals, rollback>>
  /\ psbts' = psbts \/ Len(psbts') <= MaxTxs
  /\ \E p \in Psbt, t \in 1 .. Len(psbts') :
       /\ Len(psbts') \in Nat /\ Len(psbts') >= Len(psbts)
       /\ \A i \in 1 .. Len(psbts) : psbts'[i] = psbts[i]
       /\ psbts'[t] = p
       /\ p.action \in Actions \ {"Relist"}
       /\ p.action # "List" => SpendsListing(p)
       /\ p.action = "Delist" => listings[p.name].seller = p.who
       /\ job'[h].tx = t /\ job'[h].name = p.name /\ job'[h].who = p.who
       /\ job'[h].action = p.action
       /\ p.action \in {"List", "BuyAndRelist"} => job'[h].price = p.price

Ran(h) ==
  /\ pc[h] = "recorded" /\ pc'[h] = "accepted" /\ job'[h] = job[h] /\ Others(h)
  /\ Chain!Execute(psbts[job[h].tx], job[h].tx)
  /\ UNCHANGED <<listings, psbts, newListings, bestDeals, rollback>>

Applied(h) ==
  /\ pc[h] = "accepted" /\ pc'[h] = "applied" /\ job'[h] = job[h] /\ Others(h)
  /\ listings' = ListingsAfter(job[h])
  /\ UNCHANGED <<chain, log, psbts, newListings, bestDeals, rollback>>

Repriced(h) ==
  /\ pc[h] = "relistRead" /\ pc'[h] = "relistDone" /\ job'[h] = job[h] /\ Others(h)
  /\ Chain!Relist(job[h].name, job[h].price)
  /\ UNCHANGED <<listings, log, psbts, newListings, bestDeals, rollback>>

RowRepriced(h) ==
  /\ pc[h] = "relistRecorded" /\ pc'[h] = "relistPriced" /\ job'[h] = job[h] /\ Others(h)
  /\ listings' = IF Listed(job[h].name)
                 THEN [listings EXCEPT ![job[h].name] =
                         [listings[job[h].name] EXCEPT !.price = job[h].price]]
                 ELSE listings
  /\ UNCHANGED <<chain, log, psbts, newListings, bestDeals, rollback>>

\* The task ranks what it wrote and answers.
Ranked(h) ==
  /\ pc[h] \in {"applied", "relistPriced"} /\ pc'[h] = "idle" /\ Others(h)
  /\ ApplyRankings(h) \/ RelistRank(h)
  /\ UNCHANGED <<market, rollback>>

\* The task moves on without touching the market or the rankings.
Moves(h) ==
  /\ Others(h)
  /\ \/ pc[h] = "validated" /\ pc'[h] = "recorded" /\ job'[h] = job[h]
     \/ pc[h] = "recorded" /\ pc'[h] = "refused" /\ job'[h] = job[h]
     \/ pc[h] = "relistDone" /\ pc'[h] = "relistRecorded" /\ job'[h].name = job[h].name
        /\ job'[h].price = job[h].price /\ job'[h].who = job[h].who
     \/ pc[h] \in {"validated", "refused", "relistRead"} /\ pc'[h] = "idle"
     \/ "Relist" \in Actions /\ pc[h] = "idle" /\ pc'[h] = "relistRead"
  /\ UNCHANGED <<market, newListings, bestDeals, rollback>>

\* The tasks stay; the canister may report a status, the server may start.
Rests ==
  /\ UNCHANGED <<pc, job, listings, chain, psbts, rollback>>
  /\ Accepted' = Accepted
  /\ \/ UNCHANGED <<newListings, bestDeals>>
     \/ /\ newListings' = {n \in Names : Listed(n)}
        /\ bestDeals' =
             [n \in Names |-> IF Listed(n) THEN listings[n].price ELSE NoPrice]
  /\ NoneRejected'

TaskKind(h) ==
  \/ Taken(h) \/ Ran(h) \/ Applied(h) \/ Repriced(h) \/ RowRepriced(h)
  \/ Ranked(h) \/ Moves(h)

LEMMA CalmFacts ==
  ASSUME Calm
  PROVE  /\ ~ MayFail /\ "crash" \notin Faults /\ "reject" \notin Faults
         /\ "lostReply" \notin Faults
  BY DEF Calm, MayFail

LEMMA ValidateKind ==
  ASSUME IInv, Calm, NEW h \in Handlers, NEW u \in Users, NEW n \in Names,
         NEW a \in Actions \ {"Relist"}, Validate(h, u, n, a)
  PROVE  Taken(h)
  <1>1. /\ pc[h] = "idle" /\ pc' = [pc EXCEPT ![h] = "validated"]
        /\ UNCHANGED <<listings, chain, log, newListings, bestDeals, rollback>>
    BY DEF Validate, MayRequest, tables, rankings
  <1>2. PICK p \in Signable(u, n, a) : \E base \in BasePrices(p) :
          /\ Valid(p, base)
          /\ \/ /\ psbts' = Append(psbts, p)
                /\ job' = [job EXCEPT ![h] = NewRecord(p, base, Len(psbts) + 1)]
             \/ /\ \E t \in 1 .. Len(psbts) :
                     psbts[t] = p /\ job' = [job EXCEPT ![h] = NewRecord(p, base, t)]
                /\ UNCHANGED psbts
    BY DEF Validate
  <1>3. PICK base \in BasePrices(p) :
          /\ Valid(p, base)
          /\ \/ /\ psbts' = Append(psbts, p)
                /\ job' = [job EXCEPT ![h] = NewRecord(p, base, Len(psbts) + 1)]
             \/ /\ \E t \in 1 .. Len(psbts) :
                     psbts[t] = p /\ job' = [job EXCEPT ![h] = NewRecord(p, base, t)]
                /\ UNCHANGED psbts
    BY <1>2
  <1>4. p \in Psbt /\ p.name = n /\ p.who = u /\ p.action = a
    BY SignedType
  <1>5. psbts \in Seq(Psbt) /\ Len(psbts) \in Nat
    BY Parts DEF ClientsOK
  <1>6. PICK t \in 1 .. Len(psbts') :
          /\ job' = [job EXCEPT ![h] = NewRecord(p, base, t)]
          /\ Len(psbts') \in Nat /\ Len(psbts') >= Len(psbts)
          /\ \A i \in 1 .. Len(psbts) : psbts'[i] = psbts[i]
          /\ psbts'[t] = p
    <2>1. CASE /\ psbts' = Append(psbts, p)
               /\ job' = [job EXCEPT ![h] = NewRecord(p, base, Len(psbts) + 1)]
      <3>1. /\ Len(psbts') = Len(psbts) + 1 /\ psbts'[Len(psbts) + 1] = p
            /\ \A i \in 1 .. Len(psbts) : psbts'[i] = psbts[i]
        BY <2>1, <1>4, <1>5
      <3>2. /\ Len(psbts) + 1 \in 1 .. Len(psbts') /\ Len(psbts') \in Nat
            /\ Len(psbts') >= Len(psbts)
        BY <3>1, <1>5
      <3> QED
        BY <2>1, <3>1, <3>2
    <2>2. CASE /\ \E t \in 1 .. Len(psbts) :
                    psbts[t] = p /\ job' = [job EXCEPT ![h] = NewRecord(p, base, t)]
               /\ UNCHANGED psbts
      <3>1. PICK t \in 1 .. Len(psbts) :
              psbts[t] = p /\ job' = [job EXCEPT ![h] = NewRecord(p, base, t)]
        BY <2>2
      <3>2. /\ t \in 1 .. Len(psbts') /\ psbts'[t] = p
            /\ Len(psbts') \in Nat /\ Len(psbts') >= Len(psbts)
            /\ \A i \in 1 .. Len(psbts) : psbts'[i] = psbts[i]
        BY <2>2, <3>1, <1>5
      <3> QED
        BY <3>1, <3>2
    <2> QED
      BY <1>3, <2>1, <2>2
  <1>7. /\ pc'[h] = "validated" /\ job'[h] = NewRecord(p, base, t) /\ Others(h)
    BY <1>1, <1>6, Parts DEF TasksOK, Others
  <1>8. p.action # "List" => SpendsListing(p)
    BY <1>3 DEF Valid, ValidDelist, ValidBuyAndRelist, ValidBuyAndDelist
  <1>9. /\ job'[h].tx = t /\ job'[h].name = p.name /\ job'[h].who = p.who
        /\ job'[h].action = p.action
        /\ p.action \in {"List", "BuyAndRelist"} => job'[h].price = p.price
    BY <1>7 DEF NewRecord
  <1>10. p.action = "Delist" => listings[p.name].seller = p.who
    BY <1>3 DEF Valid, ValidDelist
  <1>11. psbts' = psbts \/ Len(psbts') <= MaxTxs
    <2>1. \/ psbts' = psbts
          \/ Len(psbts) < MaxTxs /\ \E q \in Signable(u, n, a) : psbts' = Append(psbts, q)
      BY DEF Validate
    <2>2. ASSUME Len(psbts) < MaxTxs, NEW q \in Signable(u, n, a), psbts' = Append(psbts, q)
          PROVE  Len(psbts') <= MaxTxs
      <3>1. q \in Psbt
        BY SignedType
      <3>2. Len(psbts') = Len(psbts) + 1
        BY <2>2, <3>1, <1>5, AppendProperties
      <3> QED
        BY <2>2, <3>2, <1>5, TradingAssumption
    <2> QED
      BY <2>1, <2>2
  <1> QED
    BY <1>1, <1>4, <1>6, <1>7, <1>8, <1>9, <1>10, <1>11 DEF Taken

LEMMA RelistReadKind ==
  ASSUME IInv, Calm, NEW h \in Handlers, NEW u \in Users, NEW n \in Names,
         "Relist" \in Actions, RelistRead(h, u, n)
  PROVE  Moves(h)
  <1>1. /\ pc[h] = "idle" /\ pc' = [pc EXCEPT ![h] = "relistRead"]
        /\ UNCHANGED <<market, newListings, bestDeals, rollback>>
    BY DEF RelistRead, MayRequest, tables, rankings, market
  <1>2. PICK p \in Prices :
          job' = [job EXCEPT ![h] =
            [at |-> clock + 1, name |-> n, who |-> u, action |-> "Relist",
             tx |-> NoTx, status |-> "Finalized", seller |-> u,
             prev |-> listings[n].price, price |-> p]]
    BY DEF RelistRead
  <1>3. /\ pc'[h] = "relistRead" /\ Others(h)
        /\ job'[h].who = u /\ job'[h].name = n
    BY <1>1, <1>2, Parts DEF TasksOK, Others
  <1> QED
    BY <1>1, <1>3 DEF Moves

LEMMA TradeKind ==
  ASSUME IInv, Calm, NEW h \in Handlers,
         \/ AddRecord(h) \/ Invoke(h) \/ DeleteRecord(h)
         \/ ApplyListing(h) \/ ApplyRankings(h)
  PROVE  TaskKind(h)
  <1> USE CalmFacts
  <1>1. CASE AddRecord(h)
    <2>1. /\ pc[h] = "validated" /\ UNCHANGED <<market, newListings, bestDeals, rollback>>
          /\ Goto(h, "recorded")
      BY <1>1 DEF AddRecord, At, clients, rankings, market
    <2> QED
      BY <2>1, Moved DEF Stages, Moves, TaskKind
  <1>2. CASE Invoke(h)
    <2>1. /\ pc[h] = "recorded" /\ UNCHANGED <<listings, psbts, newListings, bestDeals, rollback>>
      BY <1>2 DEF Invoke, At, clients, rankings, tables
    <2>2. CASE Chain!Execute(psbts[job[h].tx], job[h].tx) /\ Goto(h, "accepted")
      BY <2>1, <2>2, Moved DEF Stages, Ran, TaskKind
    <2>3. CASE UNCHANGED <<chain, log>> /\ Goto(h, "refused")
      BY <2>1, <2>3, Moved DEF Stages, Moves, TaskKind, market
    <2> QED
      BY <1>2, <2>2, <2>3 DEF Invoke
  <1>3. CASE DeleteRecord(h)
    BY <1>3, Answered DEF DeleteRecord, At, clients, rankings, market, Moves, TaskKind
  <1>4. CASE ApplyListing(h)
    <2>1. /\ pc[h] = "accepted" /\ listings' = ListingsAfter(job[h])
          /\ UNCHANGED <<chain, log, psbts, newListings, bestDeals, rollback>>
          /\ Goto(h, "applied")
      BY <1>4 DEF ApplyListing, At, clients, Outcomes
    <2> QED
      BY <2>1, Moved DEF Stages, Applied, TaskKind
  <1>5. CASE ApplyRankings(h)
    BY <1>5, Answered DEF ApplyRankings, At, clients, market, Ranked, TaskKind
  <1> QED
    BY <1>1, <1>2, <1>3, <1>4, <1>5

LEMMA RelistKind ==
  ASSUME IInv, Calm, NEW h \in Handlers,
         RelistCall(h) \/ RelistRecord(h) \/ RelistPrice(h) \/ RelistRank(h)
  PROVE  TaskKind(h)
  <1> USE CalmFacts
  <1>1. CASE RelistCall(h)
    <2>1. /\ pc[h] = "relistRead" /\ UNCHANGED <<listings, psbts, newListings, bestDeals, rollback>>
      BY <1>1 DEF RelistCall, At, clients, rankings, tables
    <2>2. CASE Chain!Relist(job[h].name, job[h].price) /\ Goto(h, "relistDone")
      BY <2>1, <2>2, Moved DEF Stages, Repriced, TaskKind, Chain!Relist
    <2>3. CASE UNCHANGED <<chain, log>> /\ Answer(h)
      BY <2>1, <2>3, Answered DEF Moves, TaskKind, market
    <2> QED
      BY <1>1, <2>2, <2>3 DEF RelistCall
  <1>2. CASE RelistRecord(h)
    <2>1. /\ pc[h] = "relistDone" /\ UNCHANGED <<market, newListings, bestDeals, rollback>>
          /\ Goto(h, "relistRecorded")
      BY <1>2 DEF RelistRecord, At, rankings, market
    <2> QED
      BY <2>1, Moved DEF Stages, Moves, TaskKind
  <1>3. CASE RelistPrice(h)
    <2>1. /\ pc[h] = "relistRecorded" /\ Goto(h, "relistPriced")
          /\ UNCHANGED <<chain, log, psbts, newListings, bestDeals, rollback>>
          /\ listings' = IF Listed(job[h].name)
                 THEN [listings EXCEPT ![job[h].name] =
                         [listings[job[h].name] EXCEPT !.price = job[h].price]]
                 ELSE listings
      BY <1>3 DEF RelistPrice, At, rankings, clients, Outcomes, Updated
    <2> QED
      BY <2>1, Moved DEF Stages, RowRepriced, TaskKind
  <1>4. CASE RelistRank(h)
    BY <1>4, Answered DEF RelistRank, At, clients, tables, market, Ranked, TaskKind
  <1> QED
    BY <1>1, <1>2, <1>3, <1>4

\* The poller, the canister and the start of the server.
LEMMA RestKind ==
  ASSUME IInv, IInv', Calm, NoneRejected,
         PollerStep \/ CanisterReports \/ Restart \/ UNCHANGED vars
  PROVE  Rests
  <1>1. CASE UNCHANGED log
    <2>1. ~ PollRejected /\ ~ RollbackListing /\ ~ RollbackRankings
      <3>1. ASSUME PollRejected PROVE FALSE
        <4>1. /\ Poller!Handling /\ Poller!Current.status = "Rejected"
              /\ cursor + 1 \in 1 .. Len(log)
          BY <3>1, Places DEF PollRejected, Poller!Handling
        <4> QED
          BY <4>1 DEF Poller!Current, NoneRejected
      <3> QED
        BY <3>1 DEF RollbackListing, RollbackRankings, NoneRejected
    <2>2. UNCHANGED <<pc, job, listings, chain, psbts, rollback>>
      BY <2>1 DEF PollerStep, PollStatus, PollIdle, CanisterReports, Restart, vars,
         tables, tasks, clients, Chain!Report
    <2>3. \/ UNCHANGED <<newListings, bestDeals>>
          \/ /\ newListings' = {n \in Names : Listed(n)}
             /\ bestDeals' =
                  [n \in Names |-> IF Listed(n) THEN listings[n].price ELSE NoPrice]
      BY <2>1 DEF PollerStep, PollStatus, PollIdle, CanisterReports, Restart, vars, rankings
    <2> QED
      BY <1>1, <2>2, <2>3, LogSame DEF Rests, NoneRejected
  <1>2. CASE CanisterReports
    <2>1. UNCHANGED <<tables, rankings, tasks, rollback, clients, pollVars>>
      BY <1>2 DEF CanisterReports
    <2>2. PICK n \in Names, s \in Progress : \E i \in 2 .. Len(chain[n]) :
            Chain!Report(n, i, s)
      BY <1>2 DEF CanisterReports
    <2>3. PICK i \in 2 .. Len(chain[n]) : Chain!Report(n, i, s)
      BY <2>2
    <2>4. chain' = chain /\ s # "Rejected"
          /\ log' = Append(log, [tx |-> chain[n][i].tx, status |-> s])
      BY <2>3, TradingAssumption DEF Chain!Report
    <2>5. Accepted' = Accepted
      BY <2>1, <2>3, Parts, ReportStep
    <2>6. NoneRejected'
      <3>1. log \in Seq(Chain!StatusEvent) /\ Len(log) \in Nat
        BY Places, Parts DEF PP!IInv, PP!TypeOK
      <3>2. /\ Len(log') = Len(log) + 1
            /\ \A j \in 1 .. Len(log) : log'[j] = log[j]
            /\ log'[Len(log) + 1] = [tx |-> chain[n][i].tx, status |-> s]
        BY <2>4, <3>1
      <3>3. ASSUME NEW j \in 1 .. Len(log') PROVE log'[j].status # "Rejected"
        <4>1. j \in 1 .. Len(log) \/ j = Len(log) + 1
          BY <3>1, <3>2
        <4> QED
          BY <4>1, <3>2, <2>4 DEF NoneRejected
      <3> QED
        BY <3>3, <2>1 DEF NoneRejected
    <2> QED
      BY <2>1, <2>4, <2>5, <2>6 DEF Rests, tables, rankings, tasks, clients
  <1> QED
    BY <1>1, <1>2 DEF PollerStep, PollStatus, PollRejected, RollbackListing,
       RollbackRankings, PollIdle, Restart, vars

LEMMA StepKind ==
  ASSUME IInv, IInv', Calm, NoneRejected, [Next]_vars
  PROVE  (\E h \in Handlers : TaskKind(h)) \/ Rests
  <1>1. ASSUME NEW h \in Handlers, Request(h) \/ HandlerStep(h) PROVE TaskKind(h)
    BY <1>1, ValidateKind, RelistReadKind, TradeKind, RelistKind
       DEF Request, HandlerStep, TaskKind
  <1>2. ~ CanisterRejects /\ ~ Crash
    BY CalmFacts DEF CanisterRejects, Crash
  <1> QED
    BY <1>1, <1>2, RestKind DEF Next

-----------------------------------------------------------------------------
(* The invariant: what the canister did, what the table shows, and what the  *)
(* tasks that stand between the two promise.                                 *)

\* The last action executed on a name.
Top(n) == chain[n][Len(chain[n])]

Waiting(h) == pc[h] \in {"validated", "recorded"}
Accepting(h) == pc[h] = "accepted"
Dealing(h) == pc[h] \in {"validated", "recorded", "accepted", "applied"}
Input(h) == psbts[job[h].tx].input

\* A withdrawal or a purchase that is executed and about to end its row.
Spending(h) == Accepting(h) /\ job[h].action # "List"

\* The row of a name has this outpoint.
RowIs(n, t) == Listed(n) /\ listings[n].tx = t

\* A trade request holds what its user signed.
JobsSigned ==
  \A h \in Handlers : Dealing(h) =>
    LET p == psbts[job[h].tx] IN
      /\ job[h].tx \in 1 .. Len(psbts)
      /\ job[h].name = p.name /\ job[h].who = p.who /\ job[h].action = p.action
      /\ p.action # "Relist"
      /\ p.action \in {"List", "BuyAndRelist"} => job[h].price = p.price

\* What a trade other than a listing is about to spend was executed, and is still
\* the outpoint of the row if it is the canister's.
InputShown(h, n) ==
  /\ Input(h) \in Accepted
  /\ Top(n).tx = Input(h) => RowIs(n, Input(h))

InputsShown ==
  \A h \in Handlers : Waiting(h) /\ job[h].action # "List" =>
    InputShown(h, job[h].name)

\* What an executed transaction has spent is no longer there to be spent.
Spent ==
  \A t \in Accepted :
    /\ t \in 1 .. Len(psbts)
    /\ psbts[t].input \in Accepted \cup {NoTx}
    /\ psbts[t].input # Top(psbts[t].name).tx

TopsKnown == \A n \in Names : Top(n).tx \in Accepted \cup {NoTx}

\* The table does not show the trades whose tasks are about to write them.
RowsApplied ==
  \A h \in Handlers : Accepting(h) =>
    /\ \A n \in Names : Listed(n) => listings[n].tx # job[h].tx
    /\ \A g \in Handlers \ {h} : Accepting(g) => job[g].tx # job[h].tx

\* A row shows the canister's sale of its name, or a task is about to end it.
RowShown(n) ==
  IF listings[n].tx = Top(n).tx
  THEN Top(n).listed /\ listings[n].seller = Top(n).owner
  ELSE \E h \in Handlers :
         Spending(h) /\ job[h].name = n /\ Input(h) = listings[n].tx

Shows == \A n \in Names : Listed(n) => RowShown(n)

\* A task that is about to write a row will write what the canister did, unless
\* it is a withdrawal and the canister has listed the name again since; and one
\* that is about to end a row finds it there, and no other task is.
AheadOf(h, n) ==
  /\ job[h].action \in {"List", "BuyAndRelist"} => Top(n).tx = job[h].tx
  /\ Top(n).tx = job[h].tx =>
       /\ Top(n).owner = job[h].who
       /\ Top(n).listed <=> job[h].action \in {"List", "BuyAndRelist"}
  /\ job[h].action # "List" =>
       /\ RowIs(n, Input(h))
       /\ \A g \in Handlers \ {h} : Spending(g) => job[g].name # n

Ahead == \A h \in Handlers : Accepting(h) => AheadOf(h, job[h].name)

MarketInv ==
  /\ NoneRejected /\ JobsSigned /\ InputsShown
  /\ Spent /\ TopsKnown /\ RowsApplied /\ Shows /\ Ahead

\* A name at whose canister state nothing changes but a price.
SameTop(n) ==
  /\ Top(n)'.tx = Top(n).tx /\ Top(n)'.owner = Top(n).owner
  /\ Top(n)'.listed = Top(n).listed

\* A name at whose row nothing changes but the price.
SameRow(n) ==
  /\ Listed(n)' <=> Listed(n)
  /\ Listed(n) =>
       listings'[n].seller = listings[n].seller /\ listings'[n].tx = listings[n].tx

LEMMA CurrentIsTop ==
  ASSUME NEW n
  PROVE  Chain!Current(n) = Top(n) /\ Chain!Current(n)' = Top(n)'
  BY DEF Chain!Current, Chain!Last, Top

\* What the canister makes of a name's chain.
LEMMA ChainType ==
  ASSUME IInv, NEW n \in Names
  PROVE  /\ chain \in [Names -> Seq(CP!Entry)] /\ chain[n] \in Seq(CP!Entry)
         /\ Len(chain[n]) \in Nat /\ Len(chain[n]) >= 1
         /\ Top(n) \in CP!Entry
  <1>1. /\ chain \in [Names -> Seq(CP!Entry)] /\ Len(chain[n]) >= 1
    BY Parts DEF CP!ChainOK
  <1>2. chain[n] \in Seq(CP!Entry) /\ Len(chain[n]) \in Nat
    BY <1>1
  <1>3. Top(n) \in CP!Entry
    BY <1>1, <1>2 DEF Top
  <1> QED
    BY <1>1, <1>2, <1>3

\* An execution becomes the last action on its name.
LEMMA Executed ==
  ASSUME IInv, NEW p \in Psbt, NEW t \in Nat, Chain!Execute(p, t)
  PROVE  /\ Top(p.name).tx = p.input
         /\ Top(p.name).listed = (p.action # "List")
         /\ p.action = "List" => Top(p.name).owner = p.who
         /\ Top(p.name)'.tx = t /\ Top(p.name)'.owner = p.who
         /\ Top(p.name)'.price = p.price
         /\ Top(p.name)'.listed = (p.action \in {"List", "BuyAndRelist"})
         /\ \A m \in Names \ {p.name} : Top(m)' = Top(m)
         /\ NoneRejected /\ UNCHANGED rollback => NoneRejected'
  <1> DEFINE n == p.name
             e == [tx |-> t, owner |-> p.who,
                   listed |-> p.action \in {"List", "BuyAndRelist"},
                   price |-> p.price]
  <1>1. n \in Names /\ p.who \in Users /\ p.price \in Nat
    BY DEF Psbt
  <1>2. e \in CP!Entry
    BY <1>1 DEF CP!Entry, CP!TxId
  <1>3. /\ chain' = [chain EXCEPT ![n] = Append(chain[n], e)]
        /\ log' = Append(log, [tx |-> t, status |-> "Pending"])
    BY DEF Chain!Execute
  <1>4. /\ Top(n).tx = p.input
        /\ Top(n).listed = (p.action # "List")
        /\ p.action = "List" => Top(n).owner = p.who
    BY CurrentIsTop DEF Chain!Execute, Chain!Spendable
  <1>5. /\ e.tx = t /\ e.owner = p.who /\ e.price = p.price
        /\ e.listed = (p.action \in {"List", "BuyAndRelist"})
    OBVIOUS
  <1> HIDE DEF e
  <1>6. /\ Len(Append(chain[n], e)) = Len(chain[n]) + 1
        /\ Append(chain[n], e)[Len(chain[n]) + 1] = e
    BY <1>1, <1>2, ChainType, AppendProperties
  <1>7. Top(n)' = e
    BY <1>1, <1>3, <1>6, ChainType DEF Top
  <1>8. \A m \in Names \ {n} : Top(m)' = Top(m)
    BY <1>1, <1>3, ChainType DEF Top
  <1>9. ASSUME NoneRejected, UNCHANGED rollback PROVE NoneRejected'
    <2>1. log \in Seq(Chain!StatusEvent) /\ Len(log) \in Nat
      BY Places, Parts DEF PP!IInv, PP!TypeOK
    <2>2. /\ Len(log') = Len(log) + 1
          /\ \A j \in 1 .. Len(log) : log'[j] = log[j]
          /\ log'[Len(log) + 1] = [tx |-> t, status |-> "Pending"]
      BY <1>3, <2>1
    <2>3. ASSUME NEW j \in 1 .. Len(log') PROVE log'[j].status # "Rejected"
      <3>1. j \in 1 .. Len(log) \/ j = Len(log) + 1
        BY <2>1, <2>2
      <3> QED
        BY <3>1, <2>2, <1>9 DEF NoneRejected
    <2> QED
      BY <2>3, <1>9 DEF NoneRejected
  <1> QED
    BY <1>4, <1>5, <1>7, <1>8, <1>9

\* A price change changes the price of the last action and nothing else.
LEMMA Relisted ==
  ASSUME IInv, NEW n \in Names, NEW price \in Nat, Chain!Relist(n, price)
  PROVE  /\ Top(n).listed
         /\ Top(n)'.tx = Top(n).tx /\ Top(n)'.owner = Top(n).owner
         /\ Top(n)'.listed = Top(n).listed /\ Top(n)'.price = price
         /\ \A m \in Names \ {n} : Top(m)' = Top(m)
         /\ Accepted' = Accepted
  <1> DEFINE e == [Top(n) EXCEPT !.price = price]
             front == SubSeq(chain[n], 1, Len(chain[n]) - 1)
  <1>1. chain' = [chain EXCEPT ![n] = Append(front, e)] /\ log' = log
    BY DEF Chain!Relist, Chain!Front, Chain!Last, Top
  <1>2. /\ e \in CP!Entry /\ e.tx = Top(n).tx /\ e.owner = Top(n).owner
        /\ e.listed = Top(n).listed /\ e.price = price
    BY ChainType DEF CP!Entry
  <1>3. front \in Seq(CP!Entry) /\ Len(front) = Len(chain[n]) - 1
    BY ChainType, SubSeqProperties
  <1> HIDE DEF e, front
  <1>4. /\ Len(Append(front, e)) = Len(chain[n])
        /\ Append(front, e)[Len(chain[n])] = e
    BY <1>2, <1>3, ChainType, AppendProperties
  <1>5. Top(n)' = e
    BY <1>1, <1>4, ChainType DEF Top
  <1>6. \A m \in Names \ {n} : Top(m)' = Top(m)
    BY <1>1, ChainType DEF Top
  <1>7. Top(n).listed
    BY CurrentIsTop DEF Chain!Relist
  <1> QED
    BY <1>1, <1>2, <1>5, <1>6, <1>7, LogSame

-----------------------------------------------------------------------------
(* Every step keeps it. *)

\* The transaction of a trade is a well formed one.
LEMMA SignedJob ==
  ASSUME IInv, JobsSigned, NEW h \in Handlers, Dealing(h)
  PROVE  /\ job[h] \in TradeRecord /\ job[h].tx \in 1 .. Len(psbts)
         /\ psbts[job[h].tx] \in Psbt /\ job[h].name \in Names
         /\ job[h].name = psbts[job[h].tx].name /\ job[h].who = psbts[job[h].tx].who
         /\ job[h].action = psbts[job[h].tx].action
         /\ job[h].action \in {"List", "Delist", "BuyAndRelist", "BuyAndDelist"}
         /\ job[h].tx \in Nat
  <1>1. job[h] \in TradeRecord
    BY JobIs, Parts DEF Dealing
  <1>2. /\ job[h].tx \in 1 .. Len(psbts)
        /\ job[h].name = psbts[job[h].tx].name /\ job[h].who = psbts[job[h].tx].who
        /\ job[h].action = psbts[job[h].tx].action
        /\ psbts[job[h].tx].action # "Relist"
    BY DEF JobsSigned
  <1>3. psbts \in Seq(Psbt)
    BY Parts DEF ClientsOK
  <1>4. psbts[job[h].tx] \in Psbt
    BY <1>2, <1>3
  <1>5. job[h].name \in Names /\ job[h].action \in AllActions /\ job[h].tx \in Nat
    BY <1>1 DEF TradeRecord
  <1> QED
    BY <1>1, <1>2, <1>4, <1>5 DEF AllActions, Buys

\* The parts of the invariant that speak of one task or one name.
LEMMA Said ==
  ASSUME IInv, MarketInv
  PROVE  /\ \A h \in Handlers : \A n : n = job[h].name =>
              /\ Waiting(h) /\ job[h].action # "List" => InputShown(h, n)
              /\ Accepting(h) => AheadOf(h, n)
         /\ \A n \in Names : Listed(n) => RowShown(n)
         /\ \A h \in Handlers : Waiting(h) \/ Accepting(h) =>
              Dealing(h) /\ job[h].name \in Names
         /\ \A h \in Handlers : Accepting(h) => job[h].tx \in Accepted
         /\ \A n \in Names : Listed(n) => listings[n].tx \in Accepted
  <1>1. \A h \in Handlers : Waiting(h) \/ Accepting(h) => Dealing(h)
    BY DEF Waiting, Accepting, Dealing
  <1>2. \A h \in Handlers : Dealing(h) => job[h].name \in Names
    BY SignedJob DEF MarketInv
  <1>3. \A h \in Handlers : Accepting(h) => job[h].tx \in Accepted
    BY Parts DEF Founded, Accepting
  <1>4. \A n \in Names : Listed(n) => listings[n].tx \in Accepted
    BY Parts DEF ShownExecuted
  <1> QED
    BY <1>1, <1>2, <1>3, <1>4 DEF MarketInv, InputsShown, Ahead, Shows

\* The part about tasks that are ahead, and the one about requests, where the
\* name's canister state and row stay.
LEMMA AheadKept ==
  ASSUME NEW g \in Handlers, NEW n, AheadOf(g, n), job'[g] = job[g], Input(g)' = Input(g),
         SameTop(n), RowIs(n, Input(g)) => RowIs(n, Input(g))',
         \A k \in Handlers :
           Spending(k)' => (Spending(k) /\ job'[k] = job[k]) \/ job'[k].name # n
  PROVE  AheadOf(g, n)'
  BY DEF AheadOf, SameTop

LEMMA AheadPrime ==
  ASSUME \A g \in Handlers : Accepting(g)' => \E n : n = job'[g].name /\ AheadOf(g, n)'
  PROVE  Ahead'
  <1>1. ASSUME NEW g \in Handlers, Accepting(g)' PROVE AheadOf(g, job[g].name)'
    <2>1. PICK n : n = job'[g].name /\ AheadOf(g, n)'
      BY <1>1
    <2> QED
      BY <2>1 DEF AheadOf, RowIs, Top, Listed
  <1> QED
    BY <1>1 DEF Ahead

LEMMA InputsPrime ==
  ASSUME \A g \in Handlers : Waiting(g)' /\ job'[g].action # "List" =>
           \E n : n = job'[g].name /\ InputShown(g, n)'
  PROVE  InputsShown'
  <1>1. ASSUME NEW g \in Handlers, Waiting(g)', job'[g].action # "List"
        PROVE  InputShown(g, job[g].name)'
    <2>1. PICK n : n = job'[g].name /\ InputShown(g, n)'
      BY <1>1
    <2> QED
      BY <2>1 DEF InputShown, RowIs, Top, Listed
  <1> QED
    BY <1>1 DEF InputsShown

\* A step that changes nothing of the market but prices, executes nothing, and
\* after which every task that deals has dealt before and holds the same.
LEMMA MarketStays ==
  ASSUME IInv, MarketInv, psbts' = psbts, Accepted' = Accepted, NoneRejected',
         \A n \in Names : SameTop(n) /\ SameRow(n),
         \A h \in Handlers :
           /\ Accepting(h)' <=> Accepting(h)
           /\ Waiting(h)' => Waiting(h)
           /\ Dealing(h)' => Dealing(h) /\ job'[h] = job[h]
  PROVE  MarketInv'
  <1>0. \A h \in Handlers :
          /\ Waiting(h)' \/ Accepting(h)' => Dealing(h)'
          /\ Dealing(h)' => Input(h)' = Input(h)
    BY DEF Waiting, Accepting, Dealing, Input
  <1>1. JobsSigned'
    BY DEF MarketInv, JobsSigned
  <1>2. InputsShown'
    <2>1. ASSUME NEW g \in Handlers, Waiting(g)', job'[g].action # "List"
          PROVE  \E n : n = job'[g].name /\ InputShown(g, n)'
      <3>1. PICK n : n = job'[g].name
        OBVIOUS
      <3>2. Waiting(g) /\ job'[g] = job[g] /\ n = job[g].name /\ Input(g)' = Input(g)
        BY <2>1, <3>1, <1>0
      <3>3. InputShown(g, n) /\ n \in Names
        BY <2>1, <3>2, Said
      <3>4. InputShown(g, n)'
        BY <3>2, <3>3 DEF InputShown, RowIs, SameTop, SameRow
      <3> QED
        BY <3>1, <3>4
    <2> QED
      BY <2>1, InputsPrime
  <1>3. Spent'
    <2>1. SUFFICES ASSUME NEW s \in Accepted
                   PROVE  psbts[s].input # Top(psbts[s].name)'.tx
      BY DEF MarketInv, Spent
    <2>2. PICK m : m = psbts[s].name /\ m = psbts'[s].name
      OBVIOUS
    <2>3. s \in 1 .. Len(psbts) /\ psbts \in Seq(Psbt)
      BY Parts DEF MarketInv, Spent, ClientsOK
    <2>4. psbts[s] \in Psbt
      BY <2>3
    <2>5. m \in Names
      BY <2>2, <2>4 DEF Psbt
    <2>6. psbts[s].input # Top(m).tx
      BY <2>2 DEF MarketInv, Spent
    <2> QED
      BY <2>2, <2>5, <2>6 DEF Top, SameTop
  <1>4. TopsKnown'
    BY DEF MarketInv, TopsKnown, SameTop
  <1>5. RowsApplied'
    BY <1>0 DEF MarketInv, RowsApplied, SameRow
  <1>6. Shows'
    <2>1. SUFFICES ASSUME NEW n \in Names, Listed(n)' PROVE RowShown(n)'
      BY DEF Shows
    <2>2. Listed(n) /\ RowShown(n)
      BY <2>1, Said DEF SameRow
    <2>3. \A h \in Handlers : Spending(h) => Spending(h)' /\ job'[h] = job[h]
                                             /\ Input(h)' = Input(h)
      BY <1>0 DEF Spending
    <2> QED
      BY <2>2, <2>3 DEF RowShown, SameTop, SameRow
  <1>7. Ahead'
    <2>1. ASSUME NEW g \in Handlers, Accepting(g)'
          PROVE  \E n : n = job'[g].name /\ AheadOf(g, n)'
      <3>1. PICK n : n = job'[g].name
        OBVIOUS
      <3>2. Accepting(g) /\ job'[g] = job[g] /\ n = job[g].name /\ Input(g)' = Input(g)
        BY <2>1, <3>1, <1>0
      <3>3. AheadOf(g, n) /\ n \in Names
        BY <3>2, Said
      <3>4. RowIs(n, Input(g)) => RowIs(n, Input(g))'
        BY <3>2, <3>3 DEF RowIs, SameRow
      <3>5. \A k \in Handlers : Spending(k)' => Spending(k) /\ job'[k] = job[k]
        BY <1>0 DEF Spending
      <3>6. AheadOf(g, n)'
        BY <3>2, <3>3, <3>4, <3>5, AheadKept
      <3> QED
        BY <3>1, <3>6
    <2> QED
      BY <2>1, AheadPrime
  <1> QED
    BY <1>1, <1>2, <1>3, <1>4, <1>5, <1>6, <1>7 DEF MarketInv

LEMMA MovesKeep ==
  ASSUME IInv, MarketInv, NEW h \in Handlers, Moves(h) \/ Ranked(h)
  PROVE  MarketInv'
  <1>1. /\ Others(h) /\ UNCHANGED <<listings, chain, psbts, log, rollback>>
        /\ ~ Accepting(h) /\ ~ Accepting(h)'
        /\ Dealing(h)' => Dealing(h) /\ job'[h] = job[h]
        /\ Waiting(h)' => Waiting(h)
    BY DEF Moves, Ranked, market, Accepting, Dealing, Waiting
  <1>2. Accepted' = Accepted /\ NoneRejected'
    BY <1>1, LogSame DEF MarketInv, NoneRejected
  <1>3. \A g \in Handlers : /\ Accepting(g)' <=> Accepting(g)
                            /\ Waiting(g)' => Waiting(g)
                            /\ Dealing(g)' => Dealing(g) /\ job'[g] = job[g]
    BY <1>1 DEF Others, Accepting, Waiting, Dealing
  <1>4. \A n \in Names : SameTop(n) /\ SameRow(n)
    BY <1>1 DEF SameTop, SameRow, Top, Listed
  <1> QED
    BY <1>1, <1>2, <1>3, <1>4, MarketStays

LEMMA RestsKeep ==
  ASSUME IInv, MarketInv, Rests
  PROVE  MarketInv'
  <1>1. \A n \in Names : SameTop(n) /\ SameRow(n)
    BY DEF Rests, SameTop, SameRow, Top, Listed
  <1> QED
    BY <1>1, MarketStays DEF Rests, Accepting, Waiting, Dealing

\* A request is taken: what it spends is what the table shows.
LEMMA TakenKeeps ==
  ASSUME IInv, MarketInv, NEW h \in Handlers, Taken(h)
  PROVE  MarketInv'
  <1>1. /\ pc[h] = "idle" /\ pc'[h] = "validated" /\ Others(h)
        /\ UNCHANGED <<listings, chain, log, rollback>>
    BY DEF Taken
  <1>2. PICK p \in Psbt, t \in 1 .. Len(psbts') :
       /\ Len(psbts') \in Nat /\ Len(psbts') >= Len(psbts)
       /\ \A i \in 1 .. Len(psbts) : psbts'[i] = psbts[i]
       /\ psbts'[t] = p
       /\ p.action \in Actions \ {"Relist"}
       /\ p.action # "List" => SpendsListing(p)
       /\ job'[h].tx = t /\ job'[h].name = p.name /\ job'[h].who = p.who
       /\ job'[h].action = p.action
       /\ p.action \in {"List", "BuyAndRelist"} => job'[h].price = p.price
    BY DEF Taken
  <1>3. Len(psbts) \in Nat
    BY Parts DEF ClientsOK
  <1>4. \A i \in 1 .. Len(psbts) : i \in 1 .. Len(psbts') /\ psbts'[i] = psbts[i]
    BY <1>2, <1>3
  <1>5. Accepted' = Accepted /\ NoneRejected'
    BY <1>1, LogSame DEF MarketInv, NoneRejected
  <1>6. JobsSigned'
    <2>1. SUFFICES ASSUME NEW g \in Handlers, Dealing(g)'
                   PROVE  LET q == psbts'[job'[g].tx] IN
                     /\ job'[g].tx \in 1 .. Len(psbts')
                     /\ job'[g].name = q.name /\ job'[g].who = q.who
                     /\ job'[g].action = q.action
                     /\ q.action # "Relist"
                     /\ q.action \in {"List", "BuyAndRelist"} => job'[g].price = q.price
      BY DEF JobsSigned
    <2>2. CASE g = h
      BY <2>2, <1>2
    <2>3. CASE g # h
      BY <2>1, <2>3, <1>1, <1>4 DEF MarketInv, JobsSigned, Dealing, Others
    <2> QED
      BY <2>2, <2>3
  <1>7. /\ ~ Accepting(h) /\ ~ Accepting(h)'
        /\ \A g \in Handlers \ {h} : /\ Accepting(g)' <=> Accepting(g)
                                     /\ Waiting(g)' => Waiting(g)
                                     /\ Waiting(g)' \/ Accepting(g)' => Dealing(g)
                                     /\ job'[g] = job[g]
    BY <1>1 DEF Others, Accepting, Waiting, Dealing
  <1>8. \A g \in Handlers \ {h} : Dealing(g) => Input(g)' = Input(g)
    BY <1>4, <1>7 DEF Input, MarketInv, JobsSigned
  <1>9. \A n : SameTop(n) /\ (Listed(n)' <=> Listed(n))
    BY <1>1 DEF SameTop, Top, Listed
  <1>10. InputsShown'
    <2>1. ASSUME NEW g \in Handlers, Waiting(g)', job'[g].action # "List"
          PROVE  \E n : n = job'[g].name /\ InputShown(g, n)'
      <3>1. PICK n : n = job'[g].name
        OBVIOUS
      <3>2. CASE g = h
        <4>1. SpendsListing(p) /\ n = p.name /\ n \in Names /\ Input(g)' = p.input
          BY <2>1, <3>1, <3>2, <1>2 DEF Psbt, Input
        <4>2. Listed(n) /\ listings[n].tx = p.input
          BY <4>1 DEF SpendsListing
        <4>3. p.input \in Accepted
          BY <4>1, <4>2, Said
        <4>4. InputShown(g, n)'
          BY <4>1, <4>2, <4>3, <1>1, <1>5 DEF InputShown, RowIs, Listed
        <4> QED
          BY <3>1, <4>4
      <3>3. CASE g # h
        <4>1. Waiting(g) /\ job'[g] = job[g] /\ Input(g)' = Input(g)
          BY <2>1, <3>3, <1>7, <1>8
        <4>2. InputShown(g, n)
          BY <2>1, <3>1, <4>1, Said
        <4>3. InputShown(g, n)'
          BY <4>1, <4>2, <1>1, <1>5, <1>9 DEF InputShown, RowIs, SameTop
        <4> QED
          BY <3>1, <4>3
      <3> QED
        BY <3>2, <3>3
    <2> QED
      BY <2>1, InputsPrime
  <1>11. Spent' /\ TopsKnown'
    BY <1>1, <1>4, <1>5 DEF MarketInv, Spent, TopsKnown, Top
  <1>12. RowsApplied'
    BY <1>1, <1>7 DEF MarketInv, RowsApplied, Listed
  <1>13. \A g \in Handlers : (Spending(g)' <=> Spending(g))
                             /\ (Spending(g) => job'[g] = job[g] /\ Input(g)' = Input(g))
    BY <1>7, <1>8 DEF Spending
  <1>14. Shows'
    <2>1. SUFFICES ASSUME NEW n \in Names, Listed(n)' PROVE RowShown(n)'
      BY DEF Shows
    <2>2. RowShown(n)
      BY <2>1, <1>9, Said
    <2> QED
      BY <2>2, <1>1, <1>9, <1>13 DEF RowShown, SameTop
  <1>15. Ahead'
    <2>1. ASSUME NEW g \in Handlers, Accepting(g)'
          PROVE  \E n : n = job'[g].name /\ AheadOf(g, n)'
      <3>1. PICK n : n = job'[g].name
        OBVIOUS
      <3>2. Accepting(g) /\ job'[g] = job[g] /\ Input(g)' = Input(g)
        BY <2>1, <1>7, <1>8
      <3>3. AheadOf(g, n)
        BY <3>1, <3>2, Said
      <3>4. RowIs(n, Input(g)) => RowIs(n, Input(g))'
        BY <3>2, <1>1, <1>9 DEF RowIs
      <3>5. AheadOf(g, n)'
        BY <3>2, <3>3, <3>4, <1>9, <1>13, AheadKept
      <3> QED
        BY <3>1, <3>5
    <2> QED
      BY <2>1, AheadPrime
  <1> QED
    BY <1>5, <1>6, <1>10, <1>11, <1>12, <1>14, <1>15 DEF MarketInv

\* A trade is executed: whoever withdraws or buys does so on the row that is
\* there, whose task is no other's, and whoever lists may have the name's
\* withdrawal ahead, which is not applied.
LEMMA RanDoes ==
  ASSUME IInv, MarketInv, NEW h \in Handlers, Ran(h),
         NEW t, NEW p, NEW n, t = job[h].tx /\ p = psbts[t] /\ n = job[h].name
  PROVE  /\ pc[h] = "recorded" /\ pc'[h] = "accepted" /\ job'[h] = job[h] /\ Others(h)
         /\ UNCHANGED <<listings, psbts, rollback>>
         /\ Waiting(h) /\ Dealing(h)
         /\ t \in 1 .. Len(psbts) /\ p \in Psbt /\ t \in Nat /\ n \in Names
         /\ n = p.name /\ job[h].who = p.who /\ job[h].action = p.action
         /\ job[h].action \in {"List", "Delist", "BuyAndRelist", "BuyAndDelist"}
         /\ Top(n).tx = p.input
         /\ Top(n).listed = (p.action # "List")
         /\ p.action = "List" => Top(n).owner = p.who
         /\ Top(n)'.tx = t /\ Top(n)'.owner = p.who
         /\ Top(n)'.price = p.price
         /\ Top(n)'.listed = (p.action \in {"List", "BuyAndRelist"})
         /\ \A m \in Names \ {n} : Top(m)' = Top(m)
         /\ NoneRejected'
         /\ Accepted' = Accepted \cup {t} /\ t \notin Accepted
         /\ p.action # "List" => RowIs(n, p.input) /\ listings[n].seller = Top(n).owner
         /\ \A g \in Handlers : Accepting(g) /\ job[g].name = n =>
              p.action = "List" /\ job[g].action \notin {"List", "BuyAndRelist"}
  <1>0. t = job[h].tx /\ p = psbts[t] /\ n = job[h].name
    OBVIOUS
  <1>1. /\ pc[h] = "recorded" /\ pc'[h] = "accepted" /\ job'[h] = job[h] /\ Others(h)
        /\ UNCHANGED <<listings, psbts, rollback>>
        /\ Waiting(h) /\ Dealing(h)
    BY DEF Ran, Waiting, Dealing
  <1>2. /\ t \in 1 .. Len(psbts) /\ p \in Psbt /\ t \in Nat /\ n \in Names
        /\ n = p.name /\ job[h].who = p.who /\ job[h].action = p.action
        /\ job[h].action \in {"List", "Delist", "BuyAndRelist", "BuyAndDelist"}
    BY <1>0, <1>1, SignedJob DEF MarketInv
  <1>3. Chain!Execute(p, t)
    BY <1>0 DEF Ran
  <1>4. /\ Top(n).tx = p.input
        /\ Top(n).listed = (p.action # "List")
        /\ p.action = "List" => Top(n).owner = p.who
        /\ Top(n)'.tx = t /\ Top(n)'.owner = p.who
        /\ Top(n)'.price = p.price
        /\ Top(n)'.listed = (p.action \in {"List", "BuyAndRelist"})
        /\ \A m \in Names \ {n} : Top(m)' = Top(m)
        /\ NoneRejected'
    BY <1>1, <1>2, <1>3, Executed DEF MarketInv
  <1>5. Accepted' = Accepted \cup {t}
    <2>1. CP!Execute(p, t)
      BY <1>3 DEF Chain!Execute, CP!Execute, Chain!Spendable, CP!Spendable,
           Chain!Current, CP!Current, Chain!Last, CP!Last
    <2>2. p.name \in Names /\ p.who \in Users /\ p.price \in Nat
      BY <1>2 DEF Psbt
    <2>3. CP!Logged' = CP!Logged \cup {t}
      BY <1>2, <2>1, <2>2, Parts, CP!ExecuteOK
    <2> QED
      BY <2>3, AcceptedLogged
  \* What was executed before has been spent, so this is new.
  <1>6. t \notin Accepted
    BY <1>0, <1>2, <1>4 DEF MarketInv, Spent
  \* A withdrawal or a purchase is of the row's outpoint, which is the canister's.
  <1>7. ASSUME p.action # "List"
        PROVE  RowIs(n, p.input) /\ listings[n].seller = Top(n).owner
    <2>1. InputShown(h, n) /\ Input(h) = p.input
      BY <1>0, <1>1, <1>2, <1>7, Said DEF Input
    <2>2. RowIs(n, p.input)
      BY <2>1, <1>4 DEF InputShown
    <2>3. RowShown(n)
      BY <2>2, <1>2, Said DEF RowIs
    <2> QED
      BY <2>2, <2>3, <1>4 DEF RowShown, RowIs
  \* Another trade of the name can be ahead only if it is a withdrawal.
  <1>8. ASSUME NEW g \in Handlers, Accepting(g), job[g].name = n
        PROVE  p.action = "List" /\ job[g].action \notin {"List", "BuyAndRelist"}
    <2>1. AheadOf(g, n)
      BY <1>8, Said
    <2>2. ASSUME p.action # "List" PROVE listings[n].tx = Top(n).tx /\ Listed(n)
      BY <2>2, <1>4, <1>7 DEF RowIs
    <2>3. ASSUME job[g].action \in {"List", "BuyAndRelist"} PROVE FALSE
      <3>1. Top(n).tx = job[g].tx /\ Top(n).listed
        BY <2>1, <2>3 DEF AheadOf
      <3>2. p.action # "List"
        BY <3>1, <1>4
      <3> QED
        BY <2>2, <3>1, <3>2, <1>2, <1>8 DEF MarketInv, RowsApplied
    <2>4. ASSUME p.action # "List" PROVE FALSE
      <3>1. RowIs(n, Input(g))
        BY <2>1, <2>3 DEF AheadOf
      <3>2. Input(g) = Top(n).tx
        BY <2>2, <2>4, <3>1 DEF RowIs
      <3>3. Dealing(g) /\ job[g].tx \in Accepted
        BY <1>8, Said
      <3>4. n = psbts[job[g].tx].name
        BY <3>3, <1>8, SignedJob DEF MarketInv
      <3> QED
        BY <3>2, <3>3, <3>4 DEF MarketInv, Spent, Input
    <2> QED
      BY <2>3, <2>4
  <1> QED
    BY <1>1, <1>2, <1>4, <1>5, <1>6, <1>7, <1>8

LEMMA RanKeeps ==
  ASSUME IInv, MarketInv, NEW h \in Handlers, Ran(h)
  PROVE  MarketInv'
  <1>0. PICK t, p, n : t = job[h].tx /\ p = psbts[t] /\ n = job[h].name
    OBVIOUS
  <1>1. /\ pc[h] = "recorded" /\ pc'[h] = "accepted" /\ job'[h] = job[h] /\ Others(h)
        /\ UNCHANGED <<listings, psbts, rollback>>
        /\ Waiting(h) /\ Dealing(h)
    BY <1>0, RanDoes
  <1>2. /\ t \in 1 .. Len(psbts) /\ p \in Psbt /\ t \in Nat /\ n \in Names
        /\ n = p.name /\ job[h].who = p.who /\ job[h].action = p.action
        /\ job[h].action \in {"List", "Delist", "BuyAndRelist", "BuyAndDelist"}
    BY <1>0, RanDoes
  <1>4. /\ Top(n).tx = p.input
        /\ Top(n).listed = (p.action # "List")
        /\ p.action = "List" => Top(n).owner = p.who
        /\ Top(n)'.tx = t /\ Top(n)'.owner = p.who
        /\ Top(n)'.price = p.price
        /\ Top(n)'.listed = (p.action \in {"List", "BuyAndRelist"})
        /\ \A m \in Names \ {n} : Top(m)' = Top(m)
        /\ NoneRejected'
    BY <1>0, RanDoes
  <1>5. Accepted' = Accepted \cup {t}
    BY <1>0, RanDoes
  <1>6. t \notin Accepted
    BY <1>0, RanDoes
  <1>7. \A g \in Handlers : Accepting(g) /\ job[g].name = n =>
          p.action = "List" /\ job[g].action \notin {"List", "BuyAndRelist"}
    BY <1>0, RanDoes
  <1>8. p.action # "List" => RowIs(n, p.input)
    BY <1>0, RanDoes
  <1>9. \A g \in Handlers : /\ job'[g] = job[g] /\ Input(g)' = Input(g)
                            /\ Accepting(g)' <=> Accepting(g) \/ g = h
                            /\ Waiting(g)' => Waiting(g) /\ g # h
                            /\ Dealing(g)' <=> Dealing(g)
    BY <1>1 DEF Others, Accepting, Waiting, Dealing, Input
  <1>10. JobsSigned'
    BY <1>1, <1>9 DEF MarketInv, JobsSigned
  <1>11. \A m : /\ Listed(m)' <=> Listed(m)
                /\ \A s : RowIs(m, s)' <=> RowIs(m, s)
    BY <1>1 DEF Listed, RowIs
  <1>12. InputsShown'
    <2>1. ASSUME NEW g \in Handlers, Waiting(g)', job'[g].action # "List"
          PROVE  \E m : m = job'[g].name /\ InputShown(g, m)'
      <3>1. PICK m : m = job'[g].name /\ m = job[g].name
        BY <1>9
      <3>2. InputShown(g, m) /\ m \in Names /\ Input(g)' = Input(g)
        BY <2>1, <3>1, <1>9, Said
      <3>3. Top(m)'.tx = Input(g) => Top(m)' = Top(m)
        BY <3>2, <1>4, <1>6 DEF InputShown
      <3>4. InputShown(g, m)'
        BY <3>2, <3>3, <1>1, <1>5 DEF InputShown, RowIs, Listed
      <3> QED
        BY <3>1, <3>4
    <2> QED
      BY <2>1, InputsPrime
  <1>13. TopsKnown'
    <2>1. ASSUME NEW m \in Names PROVE Top(m)'.tx \in Accepted' \cup {NoTx}
      BY <1>4, <1>5, <1>2 DEF MarketInv, TopsKnown
    <2> QED
      BY <2>1 DEF TopsKnown
  <1>14. Spent'
    <2>1. p.input \in Accepted \cup {NoTx} /\ t # NoTx
      BY <1>2, <1>4 DEF MarketInv, TopsKnown, NoTx
    <2>2. ASSUME NEW s \in Accepted, NEW m \in Names, m = psbts[s].name
          PROVE  psbts[s].input # Top(m)'.tx
      <3>1. psbts[s].input # Top(m).tx /\ psbts[s].input \in Accepted \cup {NoTx}
        BY <2>2 DEF MarketInv, Spent
      <3>2. Top(m)' = Top(m) \/ Top(m)'.tx = t
        BY <1>4
      <3> QED
        BY <2>1, <3>1, <3>2, <1>6
    <2>3. ASSUME NEW s \in Accepted PROVE psbts[s].name \in Names
      <3>1. s \in 1 .. Len(psbts) /\ psbts \in Seq(Psbt)
        BY Parts DEF MarketInv, Spent, ClientsOK
      <3>2. psbts[s] \in Psbt
        BY <3>1
      <3> QED
        BY <3>2 DEF Psbt
    <2>4. p.input # Top(n)'.tx
      BY <2>1, <1>4, <1>6
    <2>5. SUFFICES ASSUME NEW s \in Accepted \cup {t}
                   PROVE  /\ s \in 1 .. Len(psbts)
                          /\ psbts[s].input \in Accepted \cup {t} \cup {NoTx}
                          /\ psbts[s].input # Top(psbts[s].name)'.tx
      BY <1>1, <1>5 DEF Spent
    <2>6. PICK m : m = psbts[s].name /\ m = psbts'[s].name
      BY <1>1
    <2>7. psbts[s].input # Top(m)'.tx
      BY <2>2, <2>3, <2>4, <2>6, <1>0, <1>2
    <2>8. s \in 1 .. Len(psbts) /\ psbts[s].input \in Accepted \cup {t} \cup {NoTx}
      BY <2>1, <1>0, <1>2 DEF MarketInv, Spent
    <2> QED
      BY <2>6, <2>7, <2>8 DEF Top
  <1>15. RowsApplied'
    <2>1. \A m \in Names : Listed(m) => listings[m].tx # t
      BY <1>6, Said
    <2>2. \A g \in Handlers : Accepting(g) => job[g].tx # t
      BY <1>6, Said
    <2> QED
      BY <2>1, <2>2, <1>0, <1>1, <1>9, <1>11 DEF MarketInv, RowsApplied
  <1>16. Shows'
    <2>1. SUFFICES ASSUME NEW m \in Names, Listed(m)' PROVE RowShown(m)'
      BY DEF Shows
    <2>2. Listed(m) /\ RowShown(m) /\ listings'[m] = listings[m] /\ listings[m].tx \in Accepted
      BY <2>1, <1>1, <1>11, Said
    <2>3. \A g \in Handlers : Spending(g) => Spending(g)'
      BY <1>9 DEF Spending
    <2>4. CASE m # n
      <3>1. Top(m)' = Top(m)
        BY <2>4, <1>4
      <3> QED
        BY <2>2, <2>3, <3>1, <1>9 DEF RowShown
    <2>5. CASE m = n
      <3>1. listings'[m].tx # Top(m)'.tx
        BY <2>2, <2>5, <1>4, <1>6
      <3>2. CASE p.action = "List"
        <4>1. ~ Top(m).listed
          BY <2>5, <3>2, <1>4
        <4>2. PICK g \in Handlers :
                Spending(g) /\ job[g].name = m /\ Input(g) = listings[m].tx
          BY <2>2, <4>1 DEF RowShown
        <4> QED
          BY <2>2, <2>3, <3>1, <4>2, <1>9 DEF RowShown
      <3>3. CASE p.action # "List"
        <4>1. listings[m].tx = p.input /\ Input(h)' = p.input
          BY <2>5, <3>3, <1>0, <1>8, <1>9 DEF RowIs, Input
        <4>2. Spending(h)' /\ job'[h].name = m
          BY <2>5, <3>3, <1>0, <1>2, <1>9 DEF Spending
        <4> QED
          BY <2>2, <3>1, <4>1, <4>2 DEF RowShown
      <3> QED
        BY <3>2, <3>3
    <2> QED
      BY <2>4, <2>5
  <1>17. Ahead'
    <2>1. ASSUME NEW g \in Handlers, Accepting(g)'
          PROVE  \E m : m = job'[g].name /\ AheadOf(g, m)'
      <3>1. PICK m : m = job'[g].name /\ m = job[g].name
        BY <1>9
      <3>2. CASE g = h
        <4>1. m = n /\ Input(g)' = p.input
          BY <3>1, <3>2, <1>0, <1>9 DEF Input
        <4>2. p.action # "List" => RowIs(n, Input(g))'
          BY <4>1, <1>1, <1>8 DEF RowIs, Listed
        <4>3. ASSUME NEW k \in Handlers \ {g}, Spending(k)', p.action # "List"
              PROVE  job'[k].name # n
          BY <3>2, <4>3, <1>7, <1>9 DEF Spending
        <4>4. AheadOf(g, n)'
          BY <3>2, <4>2, <4>3, <1>0, <1>2, <1>4, <1>9 DEF AheadOf
        <4> QED
          BY <3>1, <4>1, <4>4
      <3>3. CASE g # h
        <4>1. Accepting(g) /\ AheadOf(g, m) /\ m \in Names /\ job[g].tx \in Accepted
          BY <2>1, <3>1, <3>3, <1>9, Said
        <4>2. RowIs(m, Input(g)) => RowIs(m, Input(g))'
          BY <1>1, <1>9 DEF RowIs, Listed
        <4>3. CASE m # n
          <5>1. SameTop(m)
            BY <4>1, <4>3, <1>4 DEF SameTop
          <5>2. \A k \in Handlers :
                  Spending(k)' => (Spending(k) /\ job'[k] = job[k]) \/ job'[k].name # m
            BY <4>3, <1>0, <1>9 DEF Spending
          <5>3. AheadOf(g, m)'
            BY <4>1, <4>2, <5>1, <5>2, <1>9, AheadKept
          <5> QED
            BY <3>1, <5>3
        <4>4. CASE m = n
          <5>1. p.action = "List" /\ job[g].action \notin {"List", "BuyAndRelist"}
            BY <3>1, <4>1, <4>4, <1>7
          <5>2. Top(m)'.tx # job[g].tx
            BY <4>1, <4>4, <1>4, <1>6
          <5>3. \A k \in Handlers : Spending(k)' => Spending(k)
            BY <5>1, <1>2, <1>9 DEF Spending
          <5>4. AheadOf(g, m)'
            BY <4>1, <4>2, <5>1, <5>2, <5>3, <1>9 DEF AheadOf
          <5> QED
            BY <3>1, <5>4
        <4> QED
          BY <4>3, <4>4
      <3> QED
        BY <3>2, <3>3
    <2> QED
      BY <2>1, AheadPrime
  <1> QED
    BY <1>4, <1>10, <1>12, <1>13, <1>14, <1>15, <1>16, <1>17 DEF MarketInv

\* What the task that is ahead makes of its name's row: a listing's INSERT may
\* meet a row that is about to be ended.
LEMMA RowAfter ==
  ASSUME IInv, MarketInv, NEW h \in Handlers, Applied(h), NEW n, n = job[h].name
  PROVE  /\ n \in Names
         /\ \A m \in Names \ {n} : listings'[m] = listings[m]
         /\ job[h].action = "List" /\ Listed(n) => listings' = listings
         /\ job[h].action = "BuyAndRelist" \/ (job[h].action = "List" /\ ~ Listed(n)) =>
              listings'[n] = [seller |-> job[h].who, price |-> job[h].price, tx |-> job[h].tx]
         /\ job[h].action \notin {"List", "BuyAndRelist"} => listings'[n] = NoListing
         /\ Listed(n)' <=> job[h].action \in {"List", "BuyAndRelist"}
  <1>0. PICK row : row = [seller |-> job[h].who, price |-> job[h].price, tx |-> job[h].tx]
    OBVIOUS
  <1>1. Accepting(h) /\ listings' = ListingsAfter(job[h])
    BY DEF Applied, Accepting
  <1>2. /\ job[h] \in TradeRecord /\ n \in Names
        /\ job[h].action \in {"List", "Delist", "BuyAndRelist", "BuyAndDelist"}
    BY <1>1, SignedJob DEF MarketInv, Accepting, Dealing
  <1>3. row \in Listing /\ row.tx = job[h].tx
    BY <1>0, <1>2 DEF TradeRecord, Listing
  <1>4. listings \in [Names -> Listing \cup {NoListing}] /\ row # NoListing
    BY <1>3, NullAssumption, Parts DEF TablesOK
  <1>5. AheadOf(h, n)
    BY <1>1, Said
  <1>6. \A m \in Names : ~ (Listed(m) /\ listings[m].tx = job[h].tx)
    BY <1>1 DEF MarketInv, RowsApplied
  <1>7. CASE job[h].action = "List" /\ Listed(n)
    <2>1. Inserted(n, row) = listings
      BY <1>7 DEF Inserted
    <2>2. ListingsAfter(job[h]) = Inserted(n, row)
      BY <1>0, <1>7 DEF ListingsAfter
    <2> QED
      BY <2>1, <2>2, <1>1, <1>2, <1>7 DEF Listed
  <1>8. CASE job[h].action = "BuyAndRelist" \/ (job[h].action = "List" /\ ~ Listed(n))
    <2>1. job[h].action = "BuyAndRelist" => Listed(n)
      BY <1>5 DEF AheadOf, RowIs
    <2>2. listings' = [listings EXCEPT ![n] = row]
      BY <2>1, <1>0, <1>1, <1>3, <1>6, <1>8 DEF ListingsAfter, Inserted, Updated
    <2> QED
      BY <2>2, <1>0, <1>2, <1>4, <1>8 DEF Listed
  <1>9. CASE job[h].action \notin {"List", "BuyAndRelist"}
    <2>1. listings' = [listings EXCEPT ![n] = NoListing]
      BY <1>1, <1>9 DEF ListingsAfter, Removed
    <2> QED
      BY <2>1, <1>2, <1>4, <1>9 DEF Listed
  <1> QED
    BY <1>2, <1>7, <1>8, <1>9

LEMMA AppliedKeeps ==
  ASSUME IInv, MarketInv, NEW h \in Handlers, Applied(h)
  PROVE  MarketInv'
  <1>0. PICK n : n = job[h].name
    OBVIOUS
  <1>1. /\ UNCHANGED <<chain, log, psbts, rollback>> /\ Accepting(h)
        /\ pc'[h] = "applied" /\ pc[h] = "accepted" /\ job'[h] = job[h] /\ Others(h)
    BY DEF Applied, Accepting
  <1>2. /\ n \in Names
        /\ \A m \in Names \ {n} : listings'[m] = listings[m]
        /\ job[h].action = "List" /\ Listed(n) => listings' = listings
        /\ job[h].action = "BuyAndRelist" \/ (job[h].action = "List" /\ ~ Listed(n)) =>
             listings'[n] = [seller |-> job[h].who, price |-> job[h].price, tx |-> job[h].tx]
        /\ job[h].action \notin {"List", "BuyAndRelist"} => listings'[n] = NoListing
        /\ Listed(n)' <=> job[h].action \in {"List", "BuyAndRelist"}
    BY <1>0, RowAfter
  <1>3. \A g \in Handlers : /\ job'[g] = job[g] /\ Input(g)' = Input(g)
                            /\ Accepting(g)' <=> Accepting(g) /\ g # h
                            /\ Waiting(g)' <=> Waiting(g)
                            /\ Dealing(g)' <=> Dealing(g)
    BY <1>1 DEF Others, Accepting, Waiting, Dealing, Input
  <1>4. Accepted' = Accepted /\ NoneRejected'
    BY <1>1, LogSame DEF MarketInv, NoneRejected
  <1>5. JobsSigned'
    BY <1>1, <1>3 DEF MarketInv, JobsSigned
  <1>6. \A m : SameTop(m) /\ Top(m)' = Top(m)
    BY <1>1 DEF SameTop, Top
  <1>7. Spent' /\ TopsKnown'
    BY <1>1, <1>4 DEF MarketInv, Spent, TopsKnown, Top
  <1>8. /\ AheadOf(h, n) /\ Dealing(h) /\ job[h].tx \in Accepted
        /\ n = psbts[job[h].tx].name
        /\ psbts[job[h].tx].input # Top(n).tx
    <2>1. AheadOf(h, n) /\ Dealing(h) /\ job[h].tx \in Accepted
      BY <1>0, <1>1, Said
    <2>2. n = psbts[job[h].tx].name
      BY <2>1, <1>0, SignedJob DEF MarketInv
    <2> QED
      BY <2>1, <2>2 DEF MarketInv, Spent
  \* The row keeps its outpoint, takes that of the trade, or ends.
  <1>9. ASSUME Listed(n)'
        PROVE  \/ listings' = listings /\ job[h].action = "List"
               \/ /\ listings'[n].tx = job[h].tx /\ listings'[n].seller = job[h].who
                  /\ job[h].action \in {"List", "BuyAndRelist"}
    BY <1>2, <1>9
  <1>10. InputsShown'
    <2>1. ASSUME NEW g \in Handlers, Waiting(g)', job'[g].action # "List"
          PROVE  \E m : m = job'[g].name /\ InputShown(g, m)'
      <3>1. PICK m : m = job'[g].name /\ m = job[g].name
        BY <1>3
      <3>2. InputShown(g, m) /\ m \in Names
        BY <2>1, <3>1, <1>3, Said
      <3>3. ASSUME Top(m).tx = Input(g) PROVE listings'[m] = listings[m]
        <4>1. Listed(m) /\ listings[m].tx = Top(m).tx
          BY <3>2, <3>3 DEF InputShown, RowIs
        <4>2. CASE m = n
          <5>1. listings[n].tx # job[h].tx
            BY <4>1, <4>2, <1>1, <1>2 DEF MarketInv, RowsApplied
          <5>2. job[h].action # "BuyAndRelist"
            BY <4>1, <4>2, <5>1, <1>8 DEF AheadOf
          <5>3. ASSUME job[h].action # "List" PROVE FALSE
            <6>1. RowIs(n, Input(h))
              BY <5>3, <1>8 DEF AheadOf
            <6> QED
              BY <4>1, <4>2, <6>1, <1>8 DEF RowIs, Input
          <5> QED
            BY <4>1, <4>2, <5>3, <1>2
        <4> QED
          BY <3>2, <4>2, <1>2
      <3>4. InputShown(g, m)'
        BY <3>2, <3>3, <1>3, <1>4, <1>6 DEF InputShown, RowIs, Listed
      <3> QED
        BY <3>1, <3>4
    <2> QED
      BY <2>1, InputsPrime
  <1>11. RowsApplied'
    <2>1. SUFFICES ASSUME NEW g \in Handlers, Accepting(g)'
                   PROVE  /\ \A m \in Names : Listed(m)' => listings'[m].tx # job[g].tx
                          /\ \A k \in Handlers \ {g} : Accepting(k)' => job[k].tx # job[g].tx
      BY <1>3 DEF RowsApplied
    <2>2. g # h /\ Accepting(g) /\ job[h].tx # job[g].tx
      BY <2>1, <1>1, <1>3 DEF MarketInv, RowsApplied
    <2>3. ASSUME NEW m \in Names, Listed(m)' PROVE listings'[m].tx # job[g].tx
      <3>1. CASE m = n /\ listings' # listings
        <4>1. listings'[n].tx = job[h].tx
          BY <3>1, <2>3, <1>9
        <4> QED
          BY <3>1, <4>1, <2>2
      <3>2. CASE m # n \/ listings' = listings
        BY <3>2, <2>2, <2>3, <1>2 DEF MarketInv, RowsApplied, Listed
      <3> QED
        BY <3>1, <3>2
    <2> QED
      BY <2>2, <2>3, <1>3 DEF MarketInv, RowsApplied
  <1>12. Shows'
    <2>1. SUFFICES ASSUME NEW m \in Names, Listed(m)' PROVE RowShown(m)'
      BY DEF Shows
    <2>2. CASE listings'[m] = listings[m] /\ (m # n \/ job[h].action = "List")
      <3>1. RowShown(m)
        BY <2>1, <2>2, Said DEF Listed
      <3>2. \A g \in Handlers : Spending(g) /\ job[g].name = m => Spending(g)'
        BY <2>2, <1>0, <1>3 DEF Spending
      <3> QED
        BY <2>2, <3>1, <3>2, <1>3, <1>6 DEF RowShown
    <2>3. CASE /\ m = n /\ listings'[n].tx = job[h].tx /\ listings'[n].seller = job[h].who
               /\ job[h].action \in {"List", "BuyAndRelist"}
      BY <2>3, <1>6, <1>8 DEF RowShown, AheadOf
    <2> QED
      BY <2>1, <2>2, <2>3, <1>2, <1>9
  <1>13. Ahead'
    <2>1. ASSUME NEW g \in Handlers, Accepting(g)'
          PROVE  \E m : m = job'[g].name /\ AheadOf(g, m)'
      <3>1. PICK m : m = job'[g].name /\ m = job[g].name
        BY <1>3
      <3>2. Accepting(g) /\ g # h /\ AheadOf(g, m) /\ m \in Names
        BY <2>1, <3>1, <1>3, Said
      <3>3. ASSUME job[g].action # "List" PROVE listings'[m] = listings[m]
        <4>1. RowIs(m, Input(g)) /\ (Spending(h) => n # m)
          BY <3>2, <3>3, <1>0 DEF AheadOf
        <4>2. m = n => job[h].action = "List" /\ Listed(n)
          BY <4>1, <1>1 DEF RowIs, Spending
        <4> QED
          BY <3>2, <4>2, <1>2
      <3>4. \A k \in Handlers : Spending(k)' => Spending(k) /\ job'[k] = job[k]
        BY <1>3 DEF Spending
      <3>5. AheadOf(g, m)'
        BY <3>2, <3>3, <3>4, <1>3, <1>6 DEF AheadOf, RowIs, Listed
      <3> QED
        BY <3>1, <3>5
    <2> QED
      BY <2>1, AheadPrime
  <1> QED
    BY <1>4, <1>5, <1>7, <1>10, <1>11, <1>12, <1>13 DEF MarketInv

\* A price change moves no name, neither at the canister nor in the table.
LEMMA RepricingKeeps ==
  ASSUME IInv, MarketInv, NEW h \in Handlers, Repriced(h) \/ RowRepriced(h)
  PROVE  MarketInv'
  <1>1. /\ UNCHANGED <<psbts, rollback, log>> /\ job'[h] = job[h] /\ Others(h)
        /\ pc[h] \in {"relistRead", "relistRecorded"}
        /\ pc'[h] \in {"relistDone", "relistPriced"}
    BY DEF Repriced, RowRepriced, Chain!Relist
  <1>2. Accepted' = Accepted /\ NoneRejected'
    BY <1>1, LogSame DEF MarketInv, NoneRejected
  <1>3. \A g \in Handlers : /\ job'[g] = job[g]
                            /\ Accepting(g)' <=> Accepting(g)
                            /\ Waiting(g)' <=> Waiting(g)
                            /\ Dealing(g)' <=> Dealing(g)
    BY <1>1 DEF Others, Accepting, Waiting, Dealing
  <1>4. job[h] \in TradeRecord /\ job[h].name \in Names /\ job[h].price \in Nat
    <2>1. job[h] \in TradeRecord
      BY <1>1, JobIs, Parts
    <2> QED
      BY <2>1 DEF TradeRecord
  <1>5. \A m \in Names : SameTop(m)
    <2>1. CASE Repriced(h)
      BY <2>1, <1>4, Relisted DEF Repriced, SameTop
    <2>2. CASE RowRepriced(h)
      BY <2>2 DEF RowRepriced, Top, SameTop
    <2> QED
      BY <2>1, <2>2
  <1>6. \A m \in Names : SameRow(m)
    <2>1. CASE Repriced(h)
      BY <2>1 DEF Repriced, Listed, SameRow
    <2>2. CASE RowRepriced(h)
      <3>1. PICK n \in Names : n = job[h].name
        BY <1>4
      <3>2. PICK row : row = [listings[n] EXCEPT !.price = job[h].price]
        OBVIOUS
      <3>3. listings' = IF Listed(n) THEN [listings EXCEPT ![n] = row] ELSE listings
        BY <2>2, <3>1, <3>2 DEF RowRepriced
      <3>4. ASSUME Listed(n)
            PROVE  row # NoListing /\ row.seller = listings[n].seller /\ row.tx = listings[n].tx
        <4>1. listings[n] \in Listing
          BY <3>4, RowType, Parts DEF IInv
        <4>2. /\ row \in Listing /\ row.seller = listings[n].seller
              /\ row.tx = listings[n].tx
          BY <4>1, <3>2, <1>4 DEF Listing
        <4> QED
          BY <4>2, NullAssumption
      <3> QED
        BY <3>3, <3>4, Parts DEF TablesOK, Listed, SameRow
    <2> QED
      BY <2>1, <2>2
  <1> QED
    BY <1>1, <1>2, <1>3, <1>5, <1>6, MarketStays

LEMMA MarketInit == Init => MarketInv
  <1> SUFFICES ASSUME Init PROVE MarketInv
    OBVIOUS
  <1>1. /\ listings = [n \in Names |-> NoListing] /\ rollback = NoRecord
        /\ \A h \in Handlers : pc[h] = "idle"
        /\ log = <<>>
    BY DEF Init, Chain!CanisterInit
  <1>2. Accepted = {}
    BY <1>1 DEF Accepted
  <1>3. \A n \in Names : Top(n).tx = NoTx
    <2>1. SUFFICES ASSUME NEW n \in Names PROVE Top(n).tx = NoTx
      OBVIOUS
    <2>2. chain[n] = <<[tx |-> 0, owner |-> FirstOwner[n], listed |-> FALSE, price |-> 0]>>
      BY DEF Init, Chain!CanisterInit, Chain!Genesis
    <2> QED
      BY <2>2 DEF Top, NoTx
  <1>4. NoneRejected
    BY <1>1 DEF NoneRejected
  <1>5. JobsSigned /\ InputsShown /\ RowsApplied /\ Ahead
    BY <1>1 DEF JobsSigned, InputsShown, RowsApplied, Ahead, Dealing, Waiting, Accepting
  <1>6. Spent /\ TopsKnown /\ Shows
    BY <1>1, <1>2, <1>3 DEF Spent, TopsKnown, Shows, Listed
  <1> QED
    BY <1>4, <1>5, <1>6 DEF MarketInv

LEMMA MarketStep ==
  ASSUME Calm, IInv, IInv', MarketInv, [Next]_vars
  PROVE  MarketInv'
  <1>1. (\E h \in Handlers : TaskKind(h)) \/ Rests
    BY StepKind DEF MarketInv
  <1> QED
    BY <1>1, RestsKeep, TakenKeeps, RanKeeps, AppliedKeeps, RepricingKeeps, MovesKeep
       DEF TaskKind

\* What the invariant says of the listings table is what the property asks.
LEMMA MarketFollows ==
  ASSUME IInv, MarketInv PROVE RowsFollowCanister
  <1>1. SUFFICES ASSUME NEW n \in Names, Listed(n)
                 PROVE  \/ TableSale(listings, n) = CanisterSale(n)
                        \/ \E h \in Unapplied(n) : psbts[job[h].tx].input = listings[n].tx
    BY DEF RowsFollowCanister
  <1>2. CanisterSale(n) = IF Top(n).listed THEN Sale(Top(n).owner, Top(n).tx) ELSE NoListing
    BY CurrentIsTop DEF CanisterSale
  <1>3. RowShown(n)
    BY <1>1, Said
  <1>4. CASE listings[n].tx = Top(n).tx
    BY <1>1, <1>2, <1>3, <1>4 DEF RowShown, TableSale, Listed
  <1>5. CASE listings[n].tx # Top(n).tx
    BY <1>3, <1>5 DEF RowShown, Unapplied, Spending, Accepting, Input
  <1> QED
    BY <1>4, <1>5

\* A row of the listings table is the canister's sale of its name, or of one that
\* an executed trade has ended, whose task is about to write the row: for all
\* names, users and prices, any number of tasks and any interleaving of them, a
\* user's requests on one name, price changes and resubmissions included
\* (trading.rs: the outpoint check of the validators, invoke, then
\* handle_pending; postgres.rs: the primary key of the listings).
THEOREM FollowsCanister ==
  ASSUME Faults \subseteq {"resubmit"}
  PROVE  Spec => []RowsFollowCanister
  <1>0. Calm
    BY DEF Calm
  <1>1. Init => IInv /\ MarketInv
    BY InitIInv, MarketInit
  <1>2. (IInv /\ MarketInv) /\ [Next]_vars => (IInv /\ MarketInv)'
    BY <1>0, StepIInv, MarketStep
  <1>3. IInv /\ MarketInv => RowsFollowCanister
    BY MarketFollows
  <1> QED
    BY <1>1, <1>2, <1>3, PTL DEF Spec

-----------------------------------------------------------------------------
(* The prices.                                                              *)

\* A price change does not run beside another request.
Unraced == "Relist" \notin Actions \/ \A g, h \in Handlers : g = h

Repricing(h) == pc[h] \in {"relistDone", "relistRecorded"}

NoRelists ==
  "Relist" \notin Actions =>
    \A h \in Handlers :
      pc[h] \notin {"relistRead", "relistDone", "relistRecorded", "relistPriced"}

\* The row of the canister's sale shows its price, unless a task is about to
\* write it.
RowPrices ==
  \A n \in Names :
    /\ RowIs(n, Top(n).tx)
    /\ \A h \in Handlers : Repricing(h) => job[h].name # n
    => listings[n].price = Top(n).price

\* What the task will write is the canister's price.
AheadPrices ==
  \A h \in Handlers :
    \/ Accepting(h) /\ job[h].action \in {"List", "BuyAndRelist"}
    \/ Repricing(h)
    => Top(job[h].name).price = job[h].price

PriceInv == NoRelists /\ RowPrices /\ AheadPrices

LEMMA RestingPrices ==
  ASSUME IInv, MarketInv, PriceInv, Rests \/ \E h \in Handlers : Moves(h) \/ Ranked(h) \/ Taken(h)
  PROVE  PriceInv'
  <1>1. CASE Rests
    BY <1>1 DEF Rests, PriceInv, NoRelists, RowPrices, AheadPrices, Accepting, Repricing,
       RowIs, Top, Listed
  <1>2. ASSUME NEW h \in Handlers, Moves(h) \/ Ranked(h) \/ Taken(h)
        PROVE  PriceInv'
    <2>1. /\ UNCHANGED <<listings, chain>> /\ Others(h)
          /\ ~ Accepting(h) /\ ~ Accepting(h)'
          /\ Repricing(h) <=> pc[h] = "relistDone"
          /\ Repricing(h)' => Repricing(h) /\ job'[h].name = job[h].name
                              /\ job'[h].price = job[h].price
      BY <1>2 DEF Moves, Ranked, Taken, market, Accepting, Repricing
    <2>2. /\ Repricing(h) => Repricing(h)'
          /\ pc'[h] \in {"relistRead", "relistDone", "relistRecorded", "relistPriced"} =>
               "Relist" \in Actions
               \/ pc[h] \in {"relistRead", "relistDone", "relistRecorded", "relistPriced"}
      BY <1>2 DEF Moves, Ranked, Taken, Repricing
    <2>3. NoRelists'
      BY <2>1, <2>2 DEF PriceInv, NoRelists, Others
    <2>4. \A g \in Handlers : /\ Accepting(g)' <=> Accepting(g)
                              /\ Repricing(g)' <=> Repricing(g)
                              /\ Accepting(g) \/ Repricing(g) =>
                                   /\ job'[g].name = job[g].name
                                   /\ job'[g].price = job[g].price
                              /\ Accepting(g) => job'[g].action = job[g].action
      BY <2>1, <2>2 DEF Others, Accepting, Repricing
    <2>5. RowPrices'
      BY <2>1, <2>4 DEF PriceInv, RowPrices, RowIs, Top, Listed
    <2>6. AheadPrices'
      BY <2>1, <2>4 DEF PriceInv, AheadPrices, Top
    <2> QED
      BY <2>3, <2>5, <2>6 DEF PriceInv
  <1> QED
    BY <1>1, <1>2

\* A step of the canister or of the table on one name, by a task that promises
\* the new price until it has written it.
LEMMA PriceMoves ==
  ASSUME IInv, MarketInv, MarketInv', PriceInv, Unraced, NEW h \in Handlers, Others(h),
         NEW n \in Names, n = job[h].name, job'[h] = job[h],
         pc[h] \in {"recorded", "accepted", "relistRead", "relistRecorded"},
         pc'[h] \in {"accepted", "applied", "relistDone", "relistPriced"},
         pc[h] = "recorded" => pc'[h] = "accepted",
         pc[h] = "accepted" => pc'[h] = "applied",
         \A m \in Names \ {n} : Top(m)' = Top(m) /\ listings'[m] = listings[m],
         \/ Accepting(h)' /\ job[h].action \in {"List", "BuyAndRelist"}
         \/ Repricing(h)'
         => Top(n)'.price = job[h].price,
         ~ Repricing(h)' /\ RowIs(n, Top(n).tx)' => listings'[n].price = Top(n)'.price,
         \A g \in Handlers \ {h} :
           Accepting(g) /\ job[g].action \in {"List", "BuyAndRelist"} /\ job[g].name = n =>
             Top(n)'.price = Top(n).price
  PROVE  PriceInv'
  <1>1. NoRelists'
    BY DEF PriceInv, NoRelists, Others
  <1>2. \A g \in Handlers \ {h} :
          ~ Repricing(g) /\ ~ Repricing(g)' /\ (Accepting(g)' <=> Accepting(g)) /\ job'[g] = job[g]
    BY DEF Unraced, PriceInv, NoRelists, Repricing, Others, Accepting
  <1>3. RowPrices'
    <2>1. SUFFICES ASSUME NEW m \in Names, RowIs(m, Top(m).tx)',
                     \A g \in Handlers : Repricing(g)' => job'[g].name # m
                   PROVE  listings'[m].price = Top(m)'.price
      BY DEF RowPrices
    <2>2. CASE m = n
      BY <2>1, <2>2
    <2>3. CASE m # n
      <3>1. RowIs(m, Top(m).tx) /\ \A g \in Handlers : Repricing(g) => job[g].name # m
        BY <2>1, <2>3, <1>2 DEF RowIs, Listed
      <3> QED
        BY <3>1, <2>3 DEF PriceInv, RowPrices
    <2> QED
      BY <2>2, <2>3
  <1>4. AheadPrices'
    <2>1. SUFFICES ASSUME NEW g \in Handlers,
                     \/ Accepting(g)' /\ job'[g].action \in {"List", "BuyAndRelist"}
                     \/ Repricing(g)'
                   PROVE  Top(job[g].name)'.price = job'[g].price
      BY DEF AheadPrices
    <2>2. PICK m : m = job[g].name /\ m = job'[g].name
      BY <1>2
    <2>3. CASE g = h
      BY <2>1, <2>2, <2>3 DEF Top
    <2>4. CASE g # h
      <3>1. Accepting(g) /\ job'[g] = job[g] /\ job[g].action \in {"List", "BuyAndRelist"}
        BY <2>1, <2>4, <1>2
      <3>2. m \in Names
        BY <3>1, <2>2, SignedJob DEF MarketInv, Accepting, Dealing
      <3>3. Top(m).price = job[g].price
        BY <3>1, <2>2 DEF PriceInv, AheadPrices
      <3>4. Top(m)'.price = Top(m).price
        BY <3>1, <3>2, <2>2, <2>4
      <3> QED
        BY <3>1, <3>3, <3>4, <2>2 DEF Top
    <2> QED
      BY <2>3, <2>4
  <1> QED
    BY <1>1, <1>3, <1>4 DEF PriceInv

LEMMA MovingPrices ==
  ASSUME IInv, MarketInv, MarketInv', PriceInv, Unraced, NEW h \in Handlers,
         Ran(h) \/ Applied(h) \/ Repriced(h) \/ RowRepriced(h)
  PROVE  PriceInv'
  <1>1. /\ Others(h) /\ job'[h] = job[h]
        /\ pc[h] \in {"recorded", "accepted", "relistRead", "relistRecorded"}
        /\ pc'[h] \in {"accepted", "applied", "relistDone", "relistPriced"}
        /\ pc[h] = "recorded" => pc'[h] = "accepted"
        /\ pc[h] = "accepted" => pc'[h] = "applied"
    BY DEF Ran, Applied, Repriced, RowRepriced
  <1>2. /\ job[h] \in TradeRecord /\ job[h].name \in Names /\ job[h].price \in Nat
        /\ job[h].tx \in Nat
    <2>1. job[h] \in TradeRecord
      BY <1>1, JobIs, Parts
    <2> QED
      BY <2>1 DEF TradeRecord
  <1>3. PICK n \in Names : n = job[h].name
    BY <1>2
  <1>4. CASE Ran(h)
    <2>1. PICK p : p = psbts[job[h].tx]
      OBVIOUS
    <2>2. /\ Dealing(h) /\ Accepting(h)' /\ Chain!Execute(p, job[h].tx)
          /\ UNCHANGED listings
      BY <1>4, <2>1 DEF Ran, Dealing, Accepting
    <2>3. /\ p \in Psbt /\ p.name = n /\ job[h].action = p.action
          /\ p.action \in {"List", "BuyAndRelist"} => job[h].price = p.price
      BY <2>1, <2>2, <1>3, SignedJob DEF MarketInv, JobsSigned
    <2>4. Top(n)'.price = p.price /\ \A m \in Names \ {n} : Top(m)' = Top(m)
      BY <2>2, <2>3, <1>2, Executed
    <2>5. ~ Repricing(h)'
      BY <2>2 DEF Accepting, Repricing
    <2>6. /\ Top(n)'.tx = job[h].tx /\ job[h].tx \notin Accepted
          /\ \A g \in Handlers : Accepting(g) /\ job[g].name = n =>
               job[g].action \notin {"List", "BuyAndRelist"}
      BY <1>3, <1>4, <2>1, RanDoes
    <2>7. ~ RowIs(n, Top(n).tx)'
      BY <2>2, <2>6, Said DEF RowIs, Listed
    <2> QED
      BY <1>1, <1>3, <2>2, <2>3, <2>4, <2>5, <2>6, <2>7, PriceMoves
  <1>5. CASE Applied(h)
    <2>1. /\ Accepting(h) /\ ~ Accepting(h)' /\ ~ Repricing(h)' /\ UNCHANGED chain
      BY <1>5 DEF Applied, Accepting, Repricing
    <2>2. /\ \A m \in Names \ {n} : listings'[m] = listings[m]
          /\ Listed(n)' => \/ listings' = listings
                           \/ /\ listings'[n].price = job[h].price
                              /\ job[h].action \in {"List", "BuyAndRelist"}
      <3>1. /\ \A m \in Names \ {n} : listings'[m] = listings[m]
            /\ job[h].action = "List" /\ Listed(n) => listings' = listings
            /\ job[h].action = "BuyAndRelist" \/ (job[h].action = "List" /\ ~ Listed(n)) =>
                 listings'[n] = [seller |-> job[h].who, price |-> job[h].price, tx |-> job[h].tx]
            /\ Listed(n)' <=> job[h].action \in {"List", "BuyAndRelist"}
        BY <1>3, <1>5, RowAfter
      <3> QED
        BY <3>1
    <2>3. \A m \in Names : Top(m)' = Top(m)
      BY <2>1 DEF Top
    <2>4. \A g \in Handlers : ~ Repricing(g)
      BY <2>1 DEF Unraced, PriceInv, NoRelists, Repricing, Accepting
    <2>5. RowIs(n, Top(n).tx)' => listings'[n].price = Top(n)'.price
      <3>1. CASE listings' = listings
        BY <3>1, <2>3, <2>4 DEF PriceInv, RowPrices, RowIs, Listed
      <3>2. CASE /\ listings'[n].price = job[h].price
                 /\ job[h].action \in {"List", "BuyAndRelist"}
        BY <3>2, <2>1, <2>3, <1>3 DEF PriceInv, AheadPrices
      <3> QED
        BY <3>1, <3>2, <2>2 DEF RowIs
    <2> QED
      BY <1>1, <1>3, <2>1, <2>2, <2>3, <2>5, PriceMoves
  <1>6. CASE Repriced(h)
    <2>1. /\ Top(n)'.price = job[h].price /\ UNCHANGED listings
          /\ \A m \in Names \ {n} : Top(m)' = Top(m)
      BY <1>2, <1>3, <1>6, Relisted DEF Repriced
    <2>2. Repricing(h)' /\ ~ Accepting(h)'
      BY <1>6 DEF Repriced, Repricing, Accepting
    <2>3. \A g \in Handlers : g = h
      BY <1>6 DEF Unraced, PriceInv, NoRelists, Repriced
    <2> QED
      BY <1>1, <1>3, <2>1, <2>2, <2>3, PriceMoves
  <1>7. CASE RowRepriced(h)
    <2>1. /\ Repricing(h) /\ ~ Repricing(h)' /\ ~ Accepting(h)' /\ UNCHANGED chain
          /\ listings' = IF Listed(n)
                         THEN [listings EXCEPT ![n] =
                                 [listings[n] EXCEPT !.price = job[h].price]]
                         ELSE listings
      BY <1>3, <1>7 DEF RowRepriced, Repricing, Accepting
    <2>2. \A m \in Names : Top(m)' = Top(m)
      BY <2>1 DEF Top
    <2>3. \A m \in Names \ {n} : listings'[m] = listings[m]
      BY <2>1, Parts DEF TablesOK
    <2>4. ASSUME Listed(n)' PROVE listings'[n].price = job[h].price
      <3>1. Listed(n)
        BY <2>1, <2>4 DEF Listed
      <3>2. listings[n] \in Listing
        BY <3>1, RowType DEF IInv
      <3> QED
        BY <3>1, <3>2, <2>1, Parts DEF TablesOK, Listing
    <2>5. Listed(n)' => listings'[n].price = Top(n)'.price
      BY <2>1, <2>2, <2>4, <1>3 DEF PriceInv, AheadPrices
    <2> QED
      BY <1>1, <1>3, <2>1, <2>2, <2>3, <2>5, PriceMoves DEF RowIs
  <1> QED
    BY <1>4, <1>5, <1>6, <1>7

\* When all is quiet a row shows the price the canister sells at, after any
\* sequence of listings, resales and price changes, unless a price change runs
\* beside another request (trading.rs relist writes the canister first and the
\* table later).
THEOREM PricesFollow ==
  ASSUME Faults \subseteq {"resubmit"},
         "Relist" \notin Actions \/ \A g, h \in Handlers : g = h
  PROVE  Spec => []PricesFollowCanister
  <1>0. Calm /\ Unraced
    BY DEF Calm, Unraced
  <1>1. Init => IInv /\ MarketInv /\ PriceInv
    <2>1. Init => PriceInv
      BY DEF Init, PriceInv, NoRelists, RowPrices, AheadPrices, Accepting, Repricing, RowIs,
         Listed
    <2> QED
      BY <2>1, InitIInv, MarketInit
  <1>2. (IInv /\ MarketInv /\ PriceInv) /\ [Next]_vars => (IInv /\ MarketInv /\ PriceInv)'
    <2> SUFFICES ASSUME IInv, MarketInv, PriceInv, [Next]_vars
                 PROVE  IInv' /\ MarketInv' /\ PriceInv'
      OBVIOUS
    <2>1. IInv' /\ MarketInv'
      BY <1>0, StepIInv, MarketStep
    <2>2. (\E h \in Handlers : TaskKind(h)) \/ Rests
      BY <1>0, <2>1, StepKind DEF MarketInv
    <2>3. PriceInv'
      BY <1>0, <2>1, <2>2, RestingPrices, MovingPrices DEF TaskKind
    <2> QED
      BY <2>1, <2>3
  <1>3. IInv /\ MarketInv /\ PriceInv => PricesFollowCanister
    <2>1. SUFFICES ASSUME IInv, MarketInv, PriceInv, Quiet, NEW n \in Names, Listed(n)
                   PROVE  listings[n].price = Top(n).price
      BY CurrentIsTop DEF PricesFollowCanister
    <2>2. \A h \in Handlers : ~ Spending(h) /\ ~ Repricing(h)
      BY <2>1 DEF Quiet, Spending, Accepting, Repricing
    <2>3. listings[n].tx = Top(n).tx
      BY <2>1, <2>2, Said DEF RowShown
    <2> QED
      BY <2>1, <2>2, <2>3 DEF PriceInv, RowPrices, RowIs
  <1> QED
    BY <1>1, <1>2, <1>3, PTL DEF Spec

-----------------------------------------------------------------------------
(* The listing rankings.                                                    *)

\* A task that wrote the name's row has yet to rank it.
Ranking(h) == pc[h] \in {"applied", "relistPriced"}

RankOK(n) ==
  /\ n \in newListings => Listed(n)
  /\ bestDeals[n] = IF Listed(n) THEN listings[n].price ELSE NoPrice

RankInv ==
  /\ \A n \in Names : (\A h \in Handlers : Ranking(h) => job[h].name # n) => RankOK(n)
  /\ \A h \in Handlers : pc[h] = "applied" =>
       /\ Listed(job[h].name) <=> job[h].action \in {"List", "BuyAndRelist"}
       /\ job[h].action = "List" => listings[job[h].name].price = job[h].price
  /\ \A h \in Handlers : pc[h] = "relistPriced" =>
       /\ Listed(job[h].name) \/ RankOK(job[h].name)
       /\ job[h].name \in newListings => Listed(job[h].name)

\* One request at a time.
Serial == \A g, h \in Handlers : g = h

LEMMA RestingRanks ==
  ASSUME IInv, MarketInv, RankInv, Serial,
         Rests \/ \E h \in Handlers : Moves(h) \/ Taken(h) \/ Ran(h) \/ Repriced(h)
  PROVE  RankInv'
  <1>1. CASE Rests
    <2>1. CASE UNCHANGED <<newListings, bestDeals>>
      BY <1>1, <2>1 DEF Rests, RankInv, Ranking, RankOK, Listed
    <2>2. CASE /\ newListings' = {n \in Names : Listed(n)}
               /\ bestDeals' =
                    [n \in Names |-> IF Listed(n) THEN listings[n].price ELSE NoPrice]
      <3>1. \A n \in Names : RankOK(n)'
        BY <1>1, <2>2 DEF Rests, RankOK, Listed
      <3>2. ASSUME NEW h \in Handlers, pc[h] # "idle" PROVE job[h].name \in Names
        <4>1. job[h] \in TradeRecord
          BY <3>2, JobIs, Parts
        <4> QED
          BY <4>1 DEF TradeRecord
      <3>3. UNCHANGED <<pc, job, listings>>
        BY <1>1 DEF Rests
      <3>4. ASSUME NEW h \in Handlers, pc'[h] = "relistPriced"
            PROVE  (/\ Listed(job[h].name) \/ RankOK(job[h].name)
                    /\ job[h].name \in newListings => Listed(job[h].name))'
        BY <3>1, <3>2, <3>3, <3>4 DEF RankOK, Listed
      <3>5. ASSUME NEW h \in Handlers, pc'[h] = "applied"
            PROVE  (/\ Listed(job[h].name) <=> job[h].action \in {"List", "BuyAndRelist"}
                    /\ job[h].action = "List" => listings[job[h].name].price = job[h].price)'
        BY <3>3, <3>5 DEF RankInv, Listed
      <3> QED
        BY <3>1, <3>4, <3>5 DEF RankInv
    <2> QED
      BY <1>1, <2>1, <2>2 DEF Rests
  <1>2. ASSUME NEW h \in Handlers, Moves(h) \/ Taken(h) \/ Ran(h) \/ Repriced(h)
        PROVE  RankInv'
    <2>1. /\ UNCHANGED <<listings, newListings, bestDeals>>
          /\ ~ Ranking(h) /\ ~ Ranking(h)' /\ pc'[h] \notin {"applied", "relistPriced"}
      BY <1>2 DEF Moves, Taken, Ran, Repriced, Ranking, market
    <2>2. \A g \in Handlers : g = h
      BY DEF Serial
    <2> QED
      BY <2>1, <2>2 DEF RankInv, RankOK, Ranking, Listed
  <1> QED
    BY <1>1, <1>2

\* The row is written: its name waits to be ranked.
LEMMA WritingRanks ==
  ASSUME IInv, MarketInv, RankInv, Serial, NEW h \in Handlers, Applied(h)
  PROVE  RankInv'
  <1>0. PICK n : n = job[h].name /\ n = job'[h].name
    BY DEF Applied
  <1>1. /\ \A g \in Handlers : g = h
        /\ pc'[h] = "applied" /\ job'[h] = job[h] /\ ~ Ranking(h)
        /\ UNCHANGED <<newListings, bestDeals>>
    BY DEF Serial, Applied, Ranking
  <1>2. /\ n \in Names
        /\ \A m \in Names \ {n} : listings'[m] = listings[m]
        /\ job[h].action = "List" /\ ~ Listed(n) =>
             listings'[n] = [seller |-> job[h].who, price |-> job[h].price, tx |-> job[h].tx]
        /\ Listed(n)' <=> job[h].action \in {"List", "BuyAndRelist"}
    BY <1>0, RowAfter
  \* A listing meets no row: there is no other task that could be about to end it.
  <1>b. ASSUME job[h].action = "List", Listed(n) PROVE FALSE
    <2>1. Accepting(h)
      BY DEF Applied, Accepting
    <2>2. AheadOf(h, n) /\ RowShown(n)
      BY <2>1, <1>0, <1>2, <1>b, Said
    <2>3. listings[n].tx # Top(n).tx
      BY <2>1, <2>2, <1>2, <1>b DEF AheadOf, MarketInv, RowsApplied
    <2> QED
      BY <2>2, <2>3, <1>1, <1>b DEF RowShown, Spending
  <1>3. ASSUME NEW m \in Names \ {n} PROVE RankOK(m)'
    <2>1. RankOK(m)
      BY <1>1 DEF RankInv
    <2> QED
      BY <2>1, <1>1, <1>2 DEF RankOK, Listed
  <1>4. job[h].action = "List" => listings'[n].price = job[h].price
    BY <1>2, <1>b
  <1>5. \A m \in Names :
          (\A g \in Handlers : Ranking(g)' => job'[g].name # m) => RankOK(m)'
    BY <1>0, <1>1, <1>3 DEF Ranking
  <1> QED
    BY <1>0, <1>1, <1>2, <1>4, <1>5 DEF RankInv, Listed

\* The row's price is written: the name is ranked at the old one, if at all.
LEMMA RepricingRanks ==
  ASSUME IInv, MarketInv, RankInv, Serial, NEW h \in Handlers, RowRepriced(h)
  PROVE  RankInv'
  <1>0. PICK n : n = job[h].name /\ n = job'[h].name
    BY DEF RowRepriced
  <1>1. /\ \A g \in Handlers : g = h
        /\ pc[h] = "relistRecorded" /\ pc'[h] = "relistPriced" /\ job'[h] = job[h]
        /\ ~ Ranking(h)
        /\ UNCHANGED <<newListings, bestDeals>>
    BY DEF Serial, RowRepriced, Ranking
  <1>2. job[h] \in TradeRecord /\ n \in Names
    <2>1. job[h] \in TradeRecord
      BY <1>1, JobIs, Parts
    <2> QED
      BY <2>1, <1>0 DEF TradeRecord
  <1>3. PICK row : row = [listings[n] EXCEPT !.price = job[h].price]
    OBVIOUS
  <1>4. listings' = IF Listed(n) THEN [listings EXCEPT ![n] = row] ELSE listings
    BY <1>0, <1>3 DEF RowRepriced
  <1>5. Listed(n) => row # NoListing
    <2>1. SUFFICES ASSUME Listed(n) PROVE row \in Listing
      BY NullAssumption
    <2>2. listings[n] \in Listing /\ job[h].price \in Nat
      BY <2>1, <1>2, RowType DEF IInv, TradeRecord
    <2> QED
      BY <2>2, <1>3 DEF Listing
  <1>6. /\ \A m \in Names \ {n} : listings'[m] = listings[m]
        /\ Listed(n)' <=> Listed(n)
        /\ ~ Listed(n) => listings'[n] = listings[n]
    BY <1>2, <1>4, <1>5, Parts DEF TablesOK, Listed
  <1>7. \A m \in Names : RankOK(m)
    BY <1>1 DEF RankInv
  <1>8. /\ \A m \in Names \ {n} : RankOK(m)'
        /\ Listed(n)' \/ RankOK(n)'
        /\ n \in newListings' => Listed(n)'
    BY <1>1, <1>2, <1>6, <1>7 DEF RankOK, Listed
  <1>9. \A m \in Names :
          (\A g \in Handlers : Ranking(g)' => job'[g].name # m) => RankOK(m)'
    BY <1>0, <1>1, <1>8 DEF Ranking
  <1> QED
    BY <1>0, <1>1, <1>8, <1>9 DEF RankInv, RankOK, Listed

\* The task ranks the row as it is.
LEMMA RankingRanks ==
  ASSUME Calm, IInv, MarketInv, RankInv, Serial, NEW h \in Handlers, Ranked(h)
  PROVE  RankInv'
  <1>0. PICK n : n = job[h].name
    OBVIOUS
  <1>1. /\ \A g \in Handlers : g = h
        /\ pc[h] \in {"applied", "relistPriced"} /\ pc'[h] = "idle"
        /\ UNCHANGED listings
        /\ ApplyRankings(h) \/ RelistRank(h)
    BY DEF Serial, Ranked, market
  <1>2. n \in Names /\ bestDeals \in [Names -> Nat]
    <2>1. job[h] \in TradeRecord
      BY <1>1, JobIs, Parts
    <2> QED
      BY <2>1, <1>0, Parts DEF TradeRecord, RankingsOK
  <1>3. \A m \in Names \ {n} : RankOK(m)
    BY <1>0, <1>1 DEF RankInv
  <1>4. /\ \A m \in Names \ {n} : bestDeals'[m] = bestDeals[m]
        /\ newListings' \ {n} = newListings \ {n}
    BY <1>0, <1>1, <1>2 DEF ApplyRankings, RelistRank, RankAsNew, Unrank, RankDeal
  <1>5. RankOK(n)'
    <2>1. CASE ApplyRankings(h)
      <3>1. /\ Listed(n) <=> job[h].action \in {"List", "BuyAndRelist"}
            /\ job[h].action = "List" => listings[n].price = job[h].price
        BY <2>1, <1>0 DEF RankInv, ApplyRankings, At
      <3>2. CASE job[h].action = "List"
        BY <2>1, <3>1, <3>2, <1>0, <1>1, <1>2 DEF ApplyRankings, RankAsNew, RankOK, Listed
      <3>3. CASE job[h].action = "BuyAndRelist"
        BY <2>1, <3>1, <3>3, <1>0, <1>1, <1>2, CalmFacts DEF ApplyRankings, RankOK, Listed
      <3>4. CASE job[h].action \notin {"List", "BuyAndRelist"}
        BY <2>1, <3>1, <3>4, <1>0, <1>1, <1>2 DEF ApplyRankings, Unrank, RankOK, Listed
      <3> QED
        BY <3>2, <3>3, <3>4
    <2>2. CASE RelistRank(h)
      <3>1. /\ Listed(n) \/ RankOK(n)
            /\ n \in newListings => Listed(n)
        BY <2>2, <1>0 DEF RankInv, RelistRank, At
      <3> QED
        BY <2>2, <3>1, <1>0, <1>1, <1>2, CalmFacts DEF RelistRank, RankDeal, RankOK, Listed
    <2> QED
      BY <1>1, <2>1, <2>2
  <1>6. \A m \in Names : RankOK(m)'
    BY <1>1, <1>3, <1>4, <1>5 DEF RankOK, Listed
  <1> QED
    BY <1>1, <1>6 DEF RankInv

\* When no request is running, best_deals ranks exactly the names for sale, at
\* the price of their row, and new_listings no others, as long as requests do
\* not run beside each other (event.rs update_listing_rankings and
\* remove_listing_rankings, trading.rs relist, main.rs
\* rebuild_rankings_from_postgres).
THEOREM RanksFollow ==
  ASSUME Faults \subseteq {"resubmit"}, \A g, h \in Handlers : g = h
  PROVE  Spec => []RankingsFollowTable
  <1>0. Calm /\ Serial
    BY DEF Calm, Serial
  <1>1. Init => IInv /\ MarketInv /\ RankInv
    <2>1. Init => RankInv
      BY DEF Init, RankInv, Ranking, RankOK, Listed
    <2> QED
      BY <2>1, InitIInv, MarketInit
  <1>2. (IInv /\ MarketInv /\ RankInv) /\ [Next]_vars => (IInv /\ MarketInv /\ RankInv)'
    <2> SUFFICES ASSUME IInv, MarketInv, RankInv, [Next]_vars
                 PROVE  IInv' /\ MarketInv' /\ RankInv'
      OBVIOUS
    <2>1. IInv' /\ MarketInv'
      BY <1>0, StepIInv, MarketStep
    <2>2. (\E h \in Handlers : TaskKind(h)) \/ Rests
      BY <1>0, <2>1, StepKind DEF MarketInv
    <2>3. RankInv'
      BY <1>0, <2>2, RestingRanks, WritingRanks, RepricingRanks, RankingRanks DEF TaskKind
    <2> QED
      BY <2>1, <2>3
  <1>3. IInv /\ RankInv => RankingsFollowTable
    <2>1. IInv => newListings \subseteq Names
      BY Parts DEF RankingsOK
    <2> QED
      BY <2>1 DEF RankInv, RankOK, RankingsFollowTable, Ranking
  <1> QED
    BY <1>1, <1>2, <1>3, PTL DEF Spec

-----------------------------------------------------------------------------
(* The refinement of Market.                                                *)

\* Who asked to delist a name was the seller of what the transaction spends; and
\* no more transactions are signed than there can be.
DealInv ==
  /\ \A h \in Handlers :
       Waiting(h) /\ job[h].action = "Delist" /\ Top(job[h].name).tx = Input(h) =>
         Top(job[h].name).owner = job[h].who
  /\ Len(psbts) <= MaxTxs

\* What is signed stays signed.
Prefix ==
  \A i \in 1 .. Len(psbts) : i \in 1 .. Len(psbts') /\ psbts'[i] = psbts[i]

\* A step that takes no request: the tasks that wait for the canister waited
\* before, with what they hold.
LEMMA DealsWait ==
  ASSUME IInv, MarketInv, DealInv, psbts' = psbts,
         \A h \in Handlers : Waiting(h)' => Waiting(h) /\ job'[h] = job[h],
         \A n \in Names : SameTop(n)
  PROVE  DealInv'
  <1>1. ASSUME NEW h \in Handlers, Waiting(h)', job'[h].action = "Delist", NEW n, n = job'[h].name,
               Top(n)'.tx = Input(h)'
        PROVE  Top(n)'.owner = job'[h].who
    <2>1. Waiting(h) /\ job'[h] = job[h] /\ Dealing(h)
      BY <1>1 DEF Waiting, Dealing
    <2>2. n \in Names
      BY <1>1, <2>1, SignedJob DEF MarketInv
    <2>3. Input(h)' = Input(h)
      BY <2>1 DEF Input
    <2> QED
      BY <1>1, <2>1, <2>2, <2>3 DEF DealInv, SameTop
  <1>2. ASSUME NEW h \in Handlers,
               (Waiting(h) /\ job[h].action = "Delist" /\ Top(job[h].name).tx = Input(h))'
        PROVE  (Top(job[h].name).owner = job[h].who)'
    <2>1. PICK n : n = job'[h].name
      OBVIOUS
    <2> QED
      BY <1>1, <1>2, <2>1 DEF Top
  <1> QED
    BY <1>2 DEF DealInv

LEMMA DealTaken ==
  ASSUME IInv, MarketInv, DealInv, NEW h \in Handlers, Taken(h)
  PROVE  DealInv'
  <1>1. /\ pc[h] = "idle" /\ Others(h)
        /\ UNCHANGED <<listings, chain>>
        /\ psbts' = psbts \/ Len(psbts') <= MaxTxs
    BY DEF Taken
  <1>2. PICK p \in Psbt, t \in 1 .. Len(psbts') :
          /\ psbts'[t] = p
          /\ Len(psbts') \in Nat /\ Len(psbts') >= Len(psbts)
          /\ \A i \in 1 .. Len(psbts) : psbts'[i] = psbts[i]
          /\ p.action # "List" => SpendsListing(p)
          /\ p.action = "Delist" => listings[p.name].seller = p.who
          /\ job'[h].tx = t /\ job'[h].name = p.name /\ job'[h].who = p.who
          /\ job'[h].action = p.action
    BY DEF Taken
  <1>3. Len(psbts) \in Nat /\ Prefix
    BY <1>2, Parts DEF ClientsOK, Prefix
  <1>4. ASSUME job'[h].action = "Delist", Top(p.name).tx = p.input
        PROVE  Top(p.name).owner = p.who
    <2>1. /\ p.name \in Names /\ Listed(p.name) /\ listings[p.name].tx = p.input
          /\ listings[p.name].seller = p.who
      BY <1>2, <1>4 DEF SpendsListing, Psbt
    <2>2. RowShown(p.name)
      BY <2>1, Said
    <2> QED
      BY <2>1, <2>2, <1>4 DEF RowShown
  <1>5. ASSUME NEW g \in Handlers, NEW n, n = job'[g].name,
               Waiting(g)', job'[g].action = "Delist", Top(n).tx = Input(g)'
        PROVE  Top(n).owner = job'[g].who
    <2>1. CASE g = h
      BY <2>1, <1>2, <1>4, <1>5 DEF Input
    <2>2. CASE g # h
      <3>1. Waiting(g) /\ job'[g] = job[g] /\ Dealing(g)
        BY <1>1, <1>5, <2>2 DEF Others, Waiting, Dealing
      <3>2. Input(g)' = Input(g)
        BY <3>1, <1>3, SignedJob DEF MarketInv, Input, Prefix
      <3> QED
        BY <1>5, <3>1, <3>2 DEF DealInv
    <2> QED
      BY <2>1, <2>2
  <1>6. \A n : Top(n)' = Top(n)
    BY <1>1 DEF Top
  <1>7. ASSUME NEW g \in Handlers,
               (Waiting(g) /\ job[g].action = "Delist" /\ Top(job[g].name).tx = Input(g))'
        PROVE  (Top(job[g].name).owner = job[g].who)'
    <2>1. PICK n : n = job'[g].name
      OBVIOUS
    <2> QED
      BY <1>1, <1>5, <1>7, <2>1 DEF Top
  <1> QED
    BY <1>1, <1>7 DEF DealInv

LEMMA DealRan ==
  ASSUME IInv, MarketInv, DealInv, NEW h \in Handlers, Ran(h)
  PROVE  DealInv'
  <1>0. PICK t, p, n : t = job[h].tx /\ p = psbts[t] /\ n = job[h].name
    OBVIOUS
  <1>1. /\ pc'[h] = "accepted" /\ job'[h] = job[h] /\ Others(h) /\ psbts' = psbts
        /\ t \notin Accepted /\ Top(n)'.tx = t /\ n \in Names
        /\ \A m \in Names \ {n} : Top(m)' = Top(m)
    BY <1>0, RanDoes
  <1>2. ASSUME NEW g \in Handlers, NEW m, m = job'[g].name,
               Waiting(g)', job'[g].action = "Delist", Top(m)'.tx = Input(g)'
        PROVE  Top(m)'.owner = job'[g].who
    <2>1. g # h /\ Waiting(g) /\ job'[g] = job[g] /\ Dealing(g)
      BY <1>1, <1>2 DEF Others, Waiting, Dealing
    <2>2. Input(g)' = Input(g) /\ Input(g) \in Accepted
      BY <1>1, <1>2, <2>1, Said DEF InputShown, Input
    <2>3. m \in Names \ {n}
      BY <1>1, <1>2, <2>1, <2>2, SignedJob DEF MarketInv
    <2> QED
      BY <1>1, <1>2, <2>1, <2>2, <2>3 DEF DealInv
  <1>3. ASSUME NEW g \in Handlers,
               (Waiting(g) /\ job[g].action = "Delist" /\ Top(job[g].name).tx = Input(g))'
        PROVE  (Top(job[g].name).owner = job[g].who)'
    <2>1. PICK m : m = job'[g].name
      OBVIOUS
    <2> QED
      BY <1>2, <1>3, <2>1 DEF Top
  <1> QED
    BY <1>1, <1>3 DEF DealInv

\* The canister's state of a name, but for a price, changes in executions only.
LEMMA TopsSame ==
  ASSUME IInv, MarketInv, NEW h \in Handlers, TaskKind(h), ~ Ran(h)
  PROVE  /\ \A n \in Names : SameTop(n)
         /\ Accepted' = Accepted
  <1>1. CASE UNCHANGED <<chain, log>>
    BY <1>1, LogSame DEF SameTop, Top
  <1>2. CASE Repriced(h)
    <2>1. PICK n : n = job[h].name
      OBVIOUS
    <2>2. pc[h] = "relistRead" /\ Chain!Relist(n, job[h].price)
      BY <1>2, <2>1 DEF Repriced
    <2>3. n \in Names /\ job[h].price \in Nat
      BY <2>1, <2>2, JobIs, Parts DEF TradeRecord
    <2> QED
      BY <2>2, <2>3, Relisted DEF SameTop
  <1> QED
    BY <1>1, <1>2 DEF TaskKind, Taken, Applied, RowRepriced, Ranked, Moves, market

LEMMA DealStep ==
  ASSUME IInv, MarketInv, DealInv, Rests \/ \E h \in Handlers : TaskKind(h)
  PROVE  DealInv'
  <1>1. CASE Rests
    <2>1. \A n \in Names : SameTop(n)
      BY <1>1 DEF Rests, SameTop, Top
    <2> QED
      BY <1>1, <2>1, DealsWait DEF Rests, Waiting
  <1>2. ASSUME NEW h \in Handlers, TaskKind(h), ~ Taken(h), ~ Ran(h) PROVE DealInv'
    <2>1. \A n \in Names : SameTop(n)
      BY <1>2, TopsSame
    <2>2. psbts' = psbts /\ Others(h)
      BY <1>2 DEF TaskKind, Applied, Repriced, RowRepriced, Ranked, Moves, market
    <2>3. Waiting(h)' => Waiting(h) /\ job'[h] = job[h]
      BY <1>2 DEF TaskKind, Applied, Repriced, RowRepriced, Ranked, Moves, Waiting
    <2>4. \A g \in Handlers : Waiting(g)' => Waiting(g) /\ job'[g] = job[g]
      BY <2>2, <2>3 DEF Others, Waiting
    <2> QED
      BY <2>1, <2>2, <2>4, DealsWait
  <1> QED
    BY <1>1, <1>2, DealTaken, DealRan

LEMMA DealIs ==
  ASSUME NEW n
  PROVE  /\ LastDeal(n) = [kind |-> KindOf(Top(n).tx), owner |-> Top(n).owner,
                           listed |-> Top(n).listed, tx |-> Top(n).tx]
         /\ LastDeal(n)' = [kind |-> KindOf(Top(n).tx)', owner |-> Top(n)'.owner,
                            listed |-> Top(n)'.listed, tx |-> Top(n)'.tx]
  BY CurrentIsTop DEF LastDeal, KindOf

LEMMA SameDeal ==
  ASSUME IInv, MarketInv, Prefix, NEW n \in Names, SameTop(n)
  PROVE  LastDeal(n)' = LastDeal(n)
  <1>1. PICK t : t = Top(n).tx /\ t = Top(n)'.tx
    BY DEF SameTop
  <1>2. t = NoTx \/ t \in 1 .. Len(psbts)
    BY <1>1 DEF MarketInv, TopsKnown, Spent
  <1>3. KindOf(t)' = KindOf(t)
    BY <1>2 DEF KindOf, Prefix
  <1>4. KindOf(Top(n).tx)' = KindOf(Top(n).tx)
    BY <1>1, <1>3 DEF KindOf
  <1> QED
    BY <1>4, DealIs DEF SameTop

\* Of the deals that are not shown yet.
LEMMA DealKept ==
  ASSUME IInv, MarketInv, Prefix, NEW h \in Handlers, Dealing(h), job'[h] = job[h]
  PROVE  DealOf(job[h])' = DealOf(job[h])
  <1>1. PICK r : r = job[h] /\ r = job'[h]
    OBVIOUS
  <1>2. r.tx \in 1 .. Len(psbts)
    BY <1>1, SignedJob DEF MarketInv
  <1>3. KindOf(r.tx)' = KindOf(r.tx)
    BY <1>2 DEF KindOf, Prefix
  <1> QED
    BY <1>1, <1>3 DEF DealOf, KindOf

LEMMA UnshownKept ==
  ASSUME IInv, MarketInv, Prefix, NEW n, Unapplied(n)' = Unapplied(n),
         \A h \in Unapplied(n) : job'[h] = job[h]
  PROVE  Unshown(n)' = Unshown(n)
  <1>1. ASSUME NEW h \in Unapplied(n) PROVE DealOf(job[h])' = DealOf(job[h])
    <2>1. h \in Handlers /\ Dealing(h)
      BY <1>1 DEF Unapplied, Dealing
    <2> QED
      BY <2>1, DealKept
  <1> QED
    BY <1>1 DEF Unshown

\* A step that Market does not see.
LEMMA NotSeen ==
  ASSUME IInv, MarketInv, Prefix, \A n \in Names : SameTop(n), Accepted' = Accepted,
         \A n \in Names : TableSale(listings', n) = TableSale(listings, n),
         \A h \in Handlers : /\ Accepting(h)' <=> Accepting(h)
                             /\ Accepting(h) => job'[h] = job[h]
  PROVE  UNCHANGED Deals!marketVars
  <1>1. \A n \in Names : LastDeal(n)' = LastDeal(n)
    BY SameDeal
  <1>2. \A n \in Names : TableSale(listings, n)' = TableSale(listings, n)
    BY DEF TableSale
  <1>3. [n \in Names |-> LastDeal(n)]' = [n \in Names |-> LastDeal(n)]
    BY <1>1
  <1>4. [n \in Names |-> TableSale(listings, n)]' = [n \in Names |-> TableSale(listings, n)]
    BY <1>2
  <1>5. ASSUME NEW n \in Names PROVE Unshown(n)' = Unshown(n)
    <2>1. Unapplied(n)' = Unapplied(n) /\ \A h \in Unapplied(n) : job'[h] = job[h]
      BY DEF Unapplied, Accepting
    <2> QED
      BY <2>1, UnshownKept
  <1>6. [n \in Names |-> Unshown(n)]' = [n \in Names |-> Unshown(n)]
    BY <1>5
  <1> QED
    BY <1>3, <1>4, <1>6 DEF Deals!marketVars

\* An execution is a deal.
LEMMA RanIsDeal ==
  ASSUME IInv, MarketInv, DealInv, NEW h \in Handlers, Ran(h)
  PROVE  Deals!MarketNext
  <1>0. PICK t, p, n : t = job[h].tx /\ p = psbts[t] /\ n = job[h].name
    OBVIOUS
  <1>1. /\ job'[h] = job[h] /\ listings' = listings /\ psbts' = psbts /\ Waiting(h)
        /\ pc[h] = "recorded" /\ pc'[h] = "accepted" /\ Others(h) /\ Dealing(h)
        /\ t \in 1 .. Len(psbts) /\ p \in Psbt /\ t \in Nat /\ n \in Names
        /\ n = p.name /\ job[h].who = p.who /\ job[h].action = p.action
        /\ job[h].action \in {"List", "Delist", "BuyAndRelist", "BuyAndDelist"}
    BY <1>0, RanDoes
  <1>2. /\ Top(n).tx = p.input
        /\ Top(n).listed = (p.action # "List")
        /\ p.action = "List" => Top(n).owner = p.who
        /\ Top(n)'.tx = t /\ Top(n)'.owner = p.who
        /\ Top(n)'.listed = (p.action \in {"List", "BuyAndRelist"})
        /\ \A m \in Names \ {n} : Top(m)' = Top(m)
        /\ Accepted' = Accepted \cup {t} /\ t \notin Accepted
        /\ p.action # "List" => RowIs(n, p.input) /\ listings[n].seller = Top(n).owner
    BY <1>0, RanDoes
  <1>3. t \in 1 .. MaxTxs
    BY <1>1, TradingAssumption, Parts DEF DealInv, ClientsOK
  <1>4. p.action = "Delist" => Top(n).owner = p.who
    BY <1>0, <1>1, <1>2 DEF DealInv, Input
  <1>5. /\ LastDeal(n).listed = (p.action # "List")
        /\ p.action \in {"List", "Delist"} => LastDeal(n).owner = p.who
    BY <1>2, <1>4, DealIs
  <1>6. PICK k, l : /\ k = (CASE p.action = "List" -> "list" [] p.action = "Delist" -> "delist"
                               [] OTHER -> "buy")
                    /\ l = IF p.action \in {"List", "BuyAndRelist"} THEN TRUE ELSE FALSE
    OBVIOUS
  <1>k. KindOf(t)' = k
    BY <1>0, <1>1, <1>6 DEF KindOf, NoTx
  <1>l. /\ Top(n)'.listed = l
        /\ (job[h].action \in {"List", "BuyAndRelist"}) = l
    <2>1. (p.action \in {"List", "BuyAndRelist"}) = l
      <3>1. CASE p.action \in {"List", "BuyAndRelist"}
        <4>1. l = TRUE /\ (p.action \in {"List", "BuyAndRelist"}) = TRUE
          BY <3>1, <1>6, Zenon
        <4> QED
          BY <4>1, Zenon
      <3>2. CASE p.action \notin {"List", "BuyAndRelist"}
        <4>1. l = FALSE
          BY <3>2, <1>6
        <4>2. (p.action \in {"List", "BuyAndRelist"}) = FALSE
          BY <3>2
        <4> QED
          BY <4>1, <4>2, Zenon
      <3> QED
        BY <3>1, <3>2
    <2>2. Top(n)'.listed = (p.action \in {"List", "BuyAndRelist"}) /\ job[h].action = p.action
      BY <1>1, <1>2
    <2> QED
      BY <2>1, <2>2, Zenon
  <1>7. LastDeal(n)' = Deals!Deal(k, p.who, l, t)
    <2>1. KindOf(Top(n).tx)' = k
      BY <1>2, <1>k DEF KindOf
    <2> QED
      BY <1>2, <1>l, <2>1, DealIs DEF Deals!Deal
  <1>d. DealOf(job[h])' = Deals!Deal(k, p.who, l, t)
    <2>1. PICK r : r = job[h] /\ r = job'[h]
      BY <1>1
    <2>2. DealOf(r)' = Deals!Deal(k, p.who, l, t)
      <3>1. r.tx = t /\ r.who = p.who /\ (r.action \in {"List", "BuyAndRelist"}) = l
        BY <2>1, <1>0, <1>1, <1>l, Zenon
      <3>2. KindOf(r.tx)' = k
        BY <3>1, <1>k DEF KindOf
      <3> QED
        BY <3>1, <3>2 DEF DealOf, Deals!Deal
    <2> QED
      BY <2>1, <2>2 DEF DealOf, KindOf
  <1>p. Prefix
    BY <1>1 DEF Prefix
  <1>u. /\ Unapplied(n)' = Unapplied(n) \cup {h} /\ h \notin Unapplied(n)
        /\ \A m \in Names \ {n} : Unapplied(m)' = Unapplied(m)
        /\ \A m \in Names : \A g \in Unapplied(m) : job'[g] = job[g] /\ g \in Handlers /\ Dealing(g)
    BY <1>0, <1>1 DEF Unapplied, Others, Dealing
  <1>v. \A m \in Names \ {n} : Unshown(m)' = Unshown(m)
    BY <1>p, <1>u, UnshownKept
  <1>w. Unshown(n)' = Unshown(n) \cup {Deals!Deal(k, p.who, l, t)}
    <2>1. \A g \in Unapplied(n) : DealOf(job[g])' = DealOf(job[g])
      BY <1>1, <1>p, <1>u, DealKept
    <2> QED
      BY <2>1, <1>d, <1>u DEF Unshown
  <1>8. \A m \in Names \ {n} : LastDeal(m)' = LastDeal(m)
    BY <1>1, <1>2, SameDeal DEF SameTop, Prefix
  <1> PICK H, S, P, D :
                     /\ H = [m \in Names |-> LastDeal(m)]
                     /\ S = [m \in Names |-> TableSale(listings, m)]
                     /\ P = [m \in Names |-> Unshown(m)]
                     /\ D = Deals!Deal(k, p.who, l, t)
    OBVIOUS
  <1>9. [m \in Names |-> LastDeal(m)]' = [H EXCEPT ![n] = D]
    BY <1>1, <1>7, <1>8
  <1>10. [m \in Names |-> TableSale(listings, m)]' = S
    BY <1>1 DEF TableSale
  <1>11. [m \in Names |-> Unshown(m)]' = [P EXCEPT ![n] = P[n] \cup {D}]
    BY <1>1, <1>v, <1>w
  <1>12. H[n].listed = (p.action # "List")
         /\ (p.action \in {"List", "Delist"} => H[n].owner = p.who)
    BY <1>1, <1>5
  <1>13. Deals!Make(n, k, p.who, l, t)
    BY <1>2, <1>9, <1>10, <1>11 DEF Deals!Make
  <1>a. p.action # "List" => Deals!Visible(n)
    <2>1. ASSUME p.action # "List" PROVE H[n].listed /\ S[n] = Deals!Offer(H[n])
      <3>1. H[n].listed /\ H[n].owner = Top(n).owner /\ H[n].tx = Top(n).tx
        <4>1. H[n] = LastDeal(n) /\ H[n].listed = (p.action # "List")
          BY <1>1, <1>12
        <4>2. H[n].listed
          BY <2>1, <4>1
        <4> QED
          BY <4>1, <4>2, DealIs
      <3>2. S[n] = [seller |-> Top(n).owner, tx |-> Top(n).tx]
        BY <2>1, <1>1, <1>2 DEF TableSale, Sale, RowIs, Listed
      <3> QED
        BY <3>1, <3>2 DEF Deals!Offer
    <2> QED
      BY <2>1 DEF Deals!Visible
  <1>14. \/ Deals!List(n, t) \/ Deals!Delist(n, t)
         \/ \E u \in Users, relist \in BOOLEAN : Deals!Buy(n, u, relist, t)
    <2>1. CASE p.action = "List"
      BY <2>1, <1>6, <1>12, <1>13 DEF Deals!List
    <2>2. CASE p.action = "Delist"
      <3>1. p.action # "List" /\ p.action \notin {"List", "BuyAndRelist"}
        BY <2>2
      <3>k. k = "delist"
        BY <2>2, <3>1, <1>6
      <3>l. l = FALSE
        BY <3>1, <1>6
      <3>2. k = "delist" /\ l = FALSE
        BY <3>k, <3>l
      <3>3. Deals!Make(n, "delist", H[n].owner, FALSE, t)
        BY <2>2, <3>2, <1>12, <1>13
      <3> QED
        BY <3>1, <3>3, <1>a DEF Deals!Delist
    <2>3. CASE p.action \in {"BuyAndRelist", "BuyAndDelist"}
      <3>1. p.action # "List" /\ p.action # "Delist"
        BY <2>3
      <3>2. k = "buy" /\ l \in BOOLEAN /\ p.who \in Users
        BY <3>1, <1>1, <1>6 DEF Psbt
      <3>3. Deals!Buy(n, p.who, l, t)
        BY <3>1, <3>2, <1>a, <1>13 DEF Deals!Buy
      <3> QED
        BY <3>2, <3>3
    <2> QED
      BY <1>1, <2>1, <2>2, <2>3
  <1> QED
    BY <1>1, <1>3, <1>14 DEF Deals!MarketNext

\* The row's write shows the deal, or finds another offer in its place.
LEMMA AppliedShows ==
  ASSUME IInv, MarketInv, NEW h \in Handlers, Applied(h)
  PROVE  Deals!MarketNext
  <1>0. PICK n, d : n = job[h].name /\ d = DealOf(job[h])
    OBVIOUS
  <1>1. /\ n \in Names
        /\ \A m \in Names \ {n} : listings'[m] = listings[m]
        /\ job[h].action = "List" /\ Listed(n) => listings' = listings
        /\ job[h].action = "BuyAndRelist" \/ (job[h].action = "List" /\ ~ Listed(n)) =>
             listings'[n] = [seller |-> job[h].who, price |-> job[h].price, tx |-> job[h].tx]
        /\ job[h].action \notin {"List", "BuyAndRelist"} => listings'[n] = NoListing
        /\ Listed(n)' <=> job[h].action \in {"List", "BuyAndRelist"}
    BY <1>0, RowAfter
  <1>2. /\ UNCHANGED <<chain, log, psbts>> /\ Accepting(h) /\ Dealing(h) /\ Others(h)
        /\ ~ Accepting(h)' /\ job'[h] = job[h] /\ Prefix
    BY DEF Applied, Accepting, Dealing, Prefix
  <1>3. \A m \in Names : SameTop(m)
    BY <1>2 DEF SameTop, Top
  <1>4. \A m \in Names : LastDeal(m)' = LastDeal(m)
    BY <1>2, <1>3, SameDeal
  <1>5. Accepted' = Accepted
    BY <1>2, LogSame
  \* What is executed and not applied has transactions of its own.
  <1>6. /\ Unapplied(n)' = Unapplied(n) \ {h} /\ h \in Unapplied(n)
        /\ \A m \in Names \ {n} : Unapplied(m)' = Unapplied(m)
        /\ \A m \in Names : \A g \in Unapplied(m) : job'[g] = job[g] /\ g \in Handlers /\ Dealing(g)
        /\ \A g \in Unapplied(n) : g # h => job[g].tx # job[h].tx
    BY <1>0, <1>2 DEF Unapplied, Others, Accepting, Dealing, MarketInv, RowsApplied
  <1>7. \A m \in Names \ {n} : Unshown(m)' = Unshown(m)
    BY <1>2, <1>6, UnshownKept
  <1>8. Unshown(n)' = Unshown(n) \ {d} /\ d \in Unshown(n)
    <2>1. \A g \in Unapplied(n) : DealOf(job[g])' = DealOf(job[g])
      BY <1>1, <1>2, <1>6, DealKept
    <2>2. \A g \in Unapplied(n) : g # h => DealOf(job[g]) # d
      BY <1>0, <1>6 DEF DealOf
    <2> QED
      BY <2>1, <2>2, <1>0, <1>6 DEF Unshown
  <1>9. /\ job[h].action \in {"List", "Delist", "BuyAndRelist", "BuyAndDelist"}
        /\ job[h].action = psbts[job[h].tx].action /\ job[h].tx \in 1 .. Len(psbts)
    BY <1>2, SignedJob DEF MarketInv
  <1>10. /\ d.kind = "list" <=> job[h].action = "List"
         /\ d.owner = job[h].who /\ d.tx = job[h].tx
         /\ d.listed <=> job[h].action \in {"List", "BuyAndRelist"}
    <2>1. KindOf(job[h].tx) = "list" <=> job[h].action = "List"
      <3>1. job[h].tx # NoTx
        BY <1>9 DEF NoTx
      <3>2. CASE job[h].action = "List"
        BY <1>9, <3>1, <3>2 DEF KindOf
      <3>3. CASE job[h].action = "Delist"
        BY <1>9, <3>1, <3>3 DEF KindOf
      <3>4. CASE job[h].action \in {"BuyAndRelist", "BuyAndDelist"}
        BY <1>9, <3>1, <3>4 DEF KindOf
      <3> QED
        BY <1>9, <3>2, <3>3, <3>4
    <2>2. d.kind = KindOf(job[h].tx) /\ d.owner = job[h].who /\ d.tx = job[h].tx
      BY <1>0 DEF DealOf
    <2>3. d.listed = (job[h].action \in {"List", "BuyAndRelist"})
      BY <1>0 DEF DealOf
    <2> QED
      BY <2>1, <2>2, <2>3
  <1>11. [m \in Names |-> LastDeal(m)]' = [m \in Names |-> LastDeal(m)]
    BY <1>4
  <1> PICK S, P, o : /\ S = [m \in Names |-> TableSale(listings, m)]
                     /\ P = [m \in Names |-> Unshown(m)] /\ o = Deals!Offer(d)
    OBVIOUS
  <1>12. [m \in Names |-> Unshown(m)]' = [P EXCEPT ![n] = P[n] \ {d}] /\ d \in P[n]
    BY <1>1, <1>7, <1>8
  <1>13. S[n] = NoListing <=> ~ Listed(n)
    <2>1. ASSUME Listed(n) PROVE Sale(listings[n].seller, listings[n].tx) # NoListing
      <3>1. listings[n] \in Listing
        BY <2>1, <1>1, RowType DEF IInv
      <3>2. Sale(listings[n].seller, listings[n].tx) \in SaleType
        BY <3>1 DEF Sale, SaleType, Listing
      <3> QED
        BY <3>2, NoSaleAssumption
    <2> QED
      BY <2>1, <1>1 DEF TableSale, Listed
  <1>14. \/ d.kind = "list" /\ S[n] # NoListing
            /\ [m \in Names |-> TableSale(listings, m)]' = S
         \/ /\ d.kind = "list" => S[n] = NoListing
            /\ [m \in Names |-> TableSale(listings, m)]' = [S EXCEPT ![n] = o]
    <2>1. CASE job[h].action = "List" /\ Listed(n)
      BY <2>1, <1>1, <1>10, <1>13 DEF TableSale
    <2>2. CASE ~ (job[h].action = "List" /\ Listed(n))
      <3>1. TableSale(listings', n) = o
        BY <2>2, <1>1, <1>9, <1>10 DEF TableSale, Sale, Listed, Deals!Offer
      <3>2. [m \in Names |-> TableSale(listings, m)]' = [S EXCEPT ![n] = o]
        BY <3>1, <1>1 DEF TableSale
      <3> QED
        BY <2>2, <3>2, <1>10, <1>13
    <2> QED
      BY <2>1, <2>2
  <1>15. Deals!Show(n, d)
    BY <1>5, <1>11, <1>12, <1>14 DEF Deals!Show
  <1> QED
    BY <1>1, <1>12, <1>15 DEF Deals!MarketNext

\* Every other step is not seen.
LEMMA OthersNotSeen ==
  ASSUME IInv, MarketInv,
         Rests \/ \E h \in Handlers : TaskKind(h) /\ ~ Ran(h) /\ ~ Applied(h)
  PROVE  UNCHANGED Deals!marketVars
  <1>0. Len(psbts) \in Nat
    BY Parts DEF ClientsOK
  <1>1. CASE Rests
    <2>1. /\ \A n \in Names : SameTop(n)
          /\ \A n \in Names : TableSale(listings', n) = TableSale(listings, n)
          /\ Prefix /\ Accepted' = Accepted
          /\ \A h \in Handlers : (Accepting(h)' <=> Accepting(h)) /\ job'[h] = job[h]
      BY <1>1 DEF Rests, SameTop, Top, Prefix, Accepting
    <2> QED
      BY <2>1, NotSeen
  <1>2. ASSUME NEW h \in Handlers, TaskKind(h), ~ Ran(h), ~ Applied(h)
        PROVE  UNCHANGED Deals!marketVars
    <2>1. (\A n \in Names : SameTop(n)) /\ Accepted' = Accepted
      BY <1>2, TopsSame
    <2>2. Prefix
      <3>1. psbts' = psbts \/ Taken(h)
        BY <1>2 DEF TaskKind, Repriced, RowRepriced, Ranked, Moves, market
      <3> QED
        BY <1>0, <3>1 DEF Prefix, Taken
    <2>3. \A n \in Names : TableSale(listings', n) = TableSale(listings, n)
      <3>1. CASE RowRepriced(h)
        <4>1. PICK m : m = job[h].name
          OBVIOUS
        <4>2. PICK row : row = [listings[m] EXCEPT !.price = job[h].price]
          OBVIOUS
        <4>3. listings' = IF Listed(m) THEN [listings EXCEPT ![m] = row] ELSE listings
          BY <3>1, <4>1, <4>2 DEF RowRepriced
        <4>4. m \in Names /\ job[h].price \in Nat
          BY <3>1, <4>1, JobIs, Parts DEF RowRepriced, TradeRecord
        <4>5. ASSUME Listed(m)
              PROVE  row # NoListing /\ row.seller = listings[m].seller /\ row.tx = listings[m].tx
          <5>1. listings[m] \in Listing
            BY <4>4, <4>5, RowType, Parts DEF IInv
          <5>2. /\ row \in Listing /\ row.seller = listings[m].seller
                /\ row.tx = listings[m].tx
            BY <4>2, <4>4, <5>1 DEF Listing
          <5> QED
            BY <5>2, NullAssumption
        <4> QED
          BY <4>3, <4>4, <4>5, Parts DEF TablesOK, TableSale, Listed
      <3>2. CASE listings' = listings
        BY <3>2
      <3> QED
        BY <1>2, <3>1, <3>2 DEF TaskKind, Taken, Repriced, Ranked, Moves, market
    <2>4. ~ Accepting(h) /\ ~ Accepting(h)' /\ Others(h)
      BY <1>2 DEF TaskKind, Taken, Repriced, RowRepriced, Ranked, Moves, Accepting
    <2>5. \A g \in Handlers : /\ Accepting(g)' <=> Accepting(g)
                              /\ Accepting(g) => job'[g] = job[g]
      BY <2>4 DEF Others, Accepting
    <2> QED
      BY <2>1, <2>2, <2>3, <2>5, NotSeen
  <1> QED
    BY <1>1, <1>2

LEMMA DealsBegin ==
  ASSUME Init
  PROVE  DealInv /\ Deals!MarketInit
  <1>1. /\ listings = [n \in Names |-> NoListing] /\ psbts = <<>> /\ log = <<>>
        /\ \A h \in Handlers : pc[h] = "idle"
        /\ chain = [n \in Names |-> <<[tx |-> 0, owner |-> FirstOwner[n],
                                       listed |-> FALSE, price |-> 0]>>]
    BY DEF Init, Chain!CanisterInit, Chain!Genesis
  <1>2. DealInv
    BY <1>1, TradingAssumption DEF DealInv, Waiting
  <1>3. Accepted = {}
    BY <1>1 DEF Accepted
  <1>4. \A n \in Names : TableSale(listings, n) = NoListing
    BY <1>1 DEF TableSale
  <1>5. \A n \in Names : LastDeal(n) = Deals!Deal("etched", FirstOwner[n], FALSE, NoTx)
    <2>1. SUFFICES ASSUME NEW n \in Names
                   PROVE  LastDeal(n) = Deals!Deal("etched", FirstOwner[n], FALSE, NoTx)
      OBVIOUS
    <2>2. Top(n) = [tx |-> 0, owner |-> FirstOwner[n], listed |-> FALSE, price |-> 0]
      BY <1>1 DEF Top
    <2> QED
      BY <2>2, DealIs DEF KindOf, NoTx, Deals!Deal
  <1>6. \A n \in Names : Unshown(n) = {}
    BY <1>1 DEF Unshown, Unapplied
  <1> QED
    BY <1>2, <1>3, <1>4, <1>5, <1>6 DEF Deals!MarketInit

\* The market implements Market, for all names, users and prices, any number of
\* tasks and any interleaving of them, a user's requests on one name, price
\* changes and resubmissions included: a name is offered by its holder, withdrawn
\* by its seller only and bought on the offer that is shown, each signed
\* transaction makes one deal, and each deal is shown, but for a listing that
\* meets the row of a withdrawal that is not shown yet (trading.rs: the outpoint
\* and the seller are compared with the listing two awaits before invoke;
\* event.rs handle_pending).
THEOREM MarketImplemented ==
  ASSUME Faults \subseteq {"resubmit"}
  PROVE  Spec => ImplementsMarket
  <1>0. Calm
    BY DEF Calm
  <1>1. Init => IInv /\ MarketInv /\ DealInv /\ Deals!MarketInit
    BY InitIInv, MarketInit, DealsBegin
  <1>2. ASSUME IInv /\ MarketInv /\ DealInv, [Next]_vars
        PROVE  /\ (IInv /\ MarketInv /\ DealInv)'
               /\ [Deals!MarketNext]_(Deals!marketVars)
    <2>1. IInv' /\ MarketInv'
      BY <1>0, <1>2, StepIInv, MarketStep
    <2>2. Rests \/ \E h \in Handlers : TaskKind(h)
      BY <1>0, <1>2, <2>1, StepKind DEF MarketInv
    <2>3. DealInv'
      BY <1>2, <2>2, DealStep
    <2>4. Deals!MarketNext \/ UNCHANGED Deals!marketVars
      BY <1>2, <2>2, RanIsDeal, AppliedShows, OthersNotSeen
    <2> QED
      BY <2>1, <2>3, <2>4
  <1> QED
    BY <1>1, <1>2, PTL DEF Spec, ImplementsMarket, Deals!MarketSpec
-----------------------------------------------------------------------------
(* What fails under crashes or races, and holds without them.                *)

LEMMA QuietRows == ASSUME IInv, MarketInv PROVE OnlyListedNamesHaveRows
  <1>1. SUFFICES ASSUME Quiet, NEW n \in Names, Listed(n)
                 PROVE  Chain!Current(n).listed
    BY DEF OnlyListedNamesHaveRows
  <1>2. RowShown(n) /\ \A h \in Handlers : ~ Spending(h)
    BY <1>1, Said DEF Quiet, Spending, Accepting
  <1> QED
    BY <1>1, <1>2, CurrentIsTop DEF RowShown

\* When all is quiet only names the canister has for sale have a row, for any
\* number of tasks and any interleaving, price changes and resubmissions
\* included: the row that outlives its sale takes a crash, a failed call or
\* statement, or a rejection (domain/trading.rs: "only currently listed names";
\* trading.rs: handle_pending runs in the request's task alone).
THEOREM QuietRowsListed ==
  ASSUME Faults \subseteq {"resubmit"}
  PROVE  Spec => []OnlyListedNamesHaveRows
  <1>0. Calm
    BY DEF Calm
  <1>1. Init => IInv /\ MarketInv
    BY InitIInv, MarketInit
  <1>2. (IInv /\ MarketInv) /\ [Next]_vars => (IInv /\ MarketInv)'
    BY <1>0, StepIInv, MarketStep
  <1> QED
    BY <1>1, <1>2, QuietRows, PTL DEF Spec

\* The name whose seller a price change has read is still the seller's.
ReadersOwn ==
  \A h \in Handlers : pc[h] = "relistRead" =>
    job[h].name \in Names /\ Top(job[h].name).owner = job[h].who

\* The seller a price change reads is the canister's owner.
LEMMA ReadOwner ==
  ASSUME IInv, MarketInv, Serial, NEW h \in Handlers, NEW u \in Users, NEW n \in Names,
         RelistRead(h, u, n)
  PROVE  ReadersOwn'
  <1>1. /\ Listed(n) /\ listings[n].seller = u /\ pc[h] = "idle" /\ chain' = chain
        /\ \A g \in Handlers : g = h
    BY DEF RelistRead, MayRequest, Serial
  <1>2. PICK p \in Prices :
          job' = [job EXCEPT ![h] =
            [at |-> clock + 1, name |-> n, who |-> u, action |-> "Relist",
             tx |-> NoTx, status |-> "Finalized", seller |-> u,
             prev |-> listings[n].price, price |-> p]]
    BY DEF RelistRead
  <1>3. job'[h].name = n /\ job'[h].who = u
    BY <1>2, Parts DEF TasksOK
  <1>4. RowShown(n) /\ \A g \in Handlers : ~ Spending(g)
    BY <1>1, Said DEF Spending, Accepting
  <1>5. Top(n)'.owner = u
    BY <1>1, <1>4 DEF RowShown, Top
  <1>6. \A g \in Handlers : job'[g].name = n /\ job'[g].who = u
    BY <1>1, <1>3
  <1>7. \A g \in Handlers : Top(job[g].name)'.owner = u
    BY <1>5, <1>6 DEF Top
  <1> QED
    BY <1>1, <1>6, <1>7 DEF ReadersOwn

\* No other step brings a task to where a price change has read the seller.
LEMMA ReadersStep ==
  ASSUME Calm, IInv, IInv', MarketInv, Serial, ReadersOwn, [Next]_vars
  PROVE  ReadersOwn'
  <1>1. ASSUME NEW h \in Handlers, NEW u \in Users, NEW n \in Names, RelistRead(h, u, n)
        PROVE  ReadersOwn'
    BY <1>1, ReadOwner
  <1>2. CASE Rests
    BY <1>2 DEF Rests, ReadersOwn, Top
  <1>3. ASSUME NEW h \in Handlers, TaskKind(h), pc[h] # "idle" PROVE ReadersOwn'
    <2>1. pc'[h] # "relistRead"
      BY <1>3 DEF TaskKind, Taken, Ran, Applied, Repriced, RowRepriced, Ranked, Moves
    <2> QED
      BY <2>1 DEF ReadersOwn, Serial
  <1>4. ASSUME NEW h \in Handlers, Taken(h) PROVE ReadersOwn'
    BY <1>4 DEF Taken, ReadersOwn, Serial
  <1>5. ASSUME NEW h \in Handlers, Request(h) PROVE ReadersOwn'
    BY <1>1, <1>4, <1>5, ValidateKind DEF Request
  <1>6. ASSUME NEW h \in Handlers, HandlerStep(h) PROVE ReadersOwn'
    <2>1. TaskKind(h)
      BY <1>6, TradeKind, RelistKind DEF HandlerStep
    <2>2. pc[h] # "idle"
      BY <1>6 DEF HandlerStep, AddRecord, Invoke, DeleteRecord, ApplyListing,
         ApplyRankings, RelistCall, RelistRecord, RelistPrice, RelistRank, At
    <2> QED
      BY <1>3, <2>1, <2>2
  <1>7. ~ CanisterRejects /\ ~ Crash
    BY CalmFacts DEF CanisterRejects, Crash
  <1> QED
    BY <1>2, <1>5, <1>6, <1>7, RestKind DEF Next, MarketInv

\* A price change reaches the canister while the name still belongs to the
\* seller who asked for it, as long as requests do not run beside each other:
\* that the seller is read before the call harms only where a purchase can run
\* in between (trading.rs relist; API.md: "your existing listing").
THEOREM RelistsOwn ==
  ASSUME Faults \subseteq {"resubmit"}, \A g, h \in Handlers : g = h
  PROVE  Spec => RelistsOwnListing
  <1>0. Calm /\ Serial
    BY DEF Calm, Serial
  <1>1. Init => IInv /\ MarketInv /\ ReadersOwn
    <2>1. Init => ReadersOwn
      BY DEF Init, ReadersOwn
    <2> QED
      BY <2>1, InitIInv, MarketInit
  <1>2. (IInv /\ MarketInv /\ ReadersOwn) /\ [Next]_vars => (IInv /\ MarketInv /\ ReadersOwn)'
    BY <1>0, StepIInv, MarketStep, ReadersStep
  <1>3. ReadersOwn =>
          \A h \in Handlers : pc[h] = "relistRead" /\ pc'[h] = "relistDone" =>
            Chain!Current(job[h].name).owner = job[h].who
    BY CurrentIsTop DEF ReadersOwn
  <1> QED
    BY <1>1, <1>2, <1>3, PTL DEF Spec, RelistsOwnListing
=============================================================================
