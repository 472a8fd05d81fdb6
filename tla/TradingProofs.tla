---------------------------- MODULE TradingProofs ----------------------------
(***************************************************************************)
(* Proofs about Trading, for all names, users, prices, tasks and faults.   *)
(***************************************************************************)
EXTENDS Trading, TLAPS

CP == INSTANCE CanisterProofs
PP == INSTANCE EventPollerProofs
  WITH Event <- Chain!StatusEvent,
       LoadMayFail <- MayFail, SaveMayFail <- MayFail,
       MaxEvents <- 0

-----------------------------------------------------------------------------
(* The inductive invariant. *)

\* TypeOK in parts that the steps change one by one.
TablesOK ==
  /\ listings \in [Names -> Listing \cup {NoListing}]
  /\ history \subseteq TradeRecord
  /\ credited \subseteq Nat

RankingsOK ==
  /\ newListings \subseteq Names
  /\ bestDeals \in [Names -> Nat]
  /\ sales \subseteq Nat

TasksOK ==
  /\ pc \in [Handlers -> Stages]
  /\ job \in [Handlers -> TradeRecord \cup {NoRecord}]
  /\ \A h \in Handlers : job[h] = NoRecord <=> pc[h] = "idle"

RollbackOK ==
  rollback \in {NoRecord} \cup
    [record : TradeRecord, step : {"listing", "rankings"}]

ClientsOK == psbts \in Seq(Psbt) /\ clock \in Nat

LEMMA TypeParts ==
  TypeOK <=> TablesOK /\ RankingsOK /\ TasksOK /\ RollbackOK /\ ClientsOK
  BY DEF TypeOK, TablesOK, RankingsOK, TasksOK, RollbackOK, ClientsOK

\* A task that is about to call the canister holds a transaction someone signed.
Signed ==
  \A h \in Handlers :
    pc[h] \in {"validated", "recorded"} => job[h].tx \in 1 .. Len(psbts)

\* What is about to be shown, or to be rolled back, was executed.
Founded ==
  /\ \A h \in Handlers : pc[h] \in {"accepted", "applied"} => job[h].tx \in Accepted
  /\ rollback # NoRecord => rollback.record.tx \in Accepted

\* Rows and credits belong to executed trades; what they show of them is the subject
\* of RecordProofs.
ShownExecuted ==
  /\ \A n \in Names : Listed(n) => listings[n].tx \in Accepted
  /\ credited \subseteq Accepted

IInv ==
  /\ TypeOK
  /\ CP!ChainOK
  /\ PP!IInv
  /\ Signed
  /\ Founded
  /\ ShownExecuted

-----------------------------------------------------------------------------
(* The instances: the steps of Chain and Poller are those the lemmas of CP  *)
(* and PP are about.                                                        *)

LEMMA AcceptedLogged == Accepted = CP!Logged /\ Accepted' = CP!Logged'
  BY DEF Accepted, CP!Logged

LEMMA StatusEventSame == Chain!StatusEvent = CP!StatusEvent
  BY DEF Chain!StatusEvent, CP!StatusEvent, Chain!TxId, CP!TxId,
         Chain!Statuses, CP!Statuses

\* The poller of this system has constants the lemmas about it allow.
LEMMA PollerAssumptions ==
  PP!BatchLimitAssumption /\ PP!FailureAssumption /\ PP!BoundAssumption
  BY TradingAssumption
     DEF PP!BatchLimitAssumption, PP!FailureAssumption, PP!BoundAssumption, MayFail

\* Whatever the canister publishes, the poller keeps its place.
LEMMA PollerStays ==
  ASSUME CP!ChainOK', PP!IInv, Len(log') >= Len(log), UNCHANGED pollVars
  PROVE  PP!IInv'
  <1>1. log' \in Seq(Chain!StatusEvent)
    BY StatusEventSame DEF CP!ChainOK
  <1>2. UNCHANGED PP!pollVars
    BY DEF pollVars, PP!pollVars, PP!taskVars
  <1> QED
    BY <1>1, <1>2, PP!LogGrowsIInv, PollerAssumptions

LEMMA LogLength == ASSUME CP!ChainOK PROVE Len(log) \in Nat
  BY DEF CP!ChainOK

LEMMA ExecuteStep ==
  ASSUME CP!ChainOK, PP!IInv, NEW p \in Psbt, NEW t \in Nat,
         Chain!Execute(p, t), UNCHANGED pollVars
  PROVE  CP!ChainOK' /\ PP!IInv' /\ Accepted' = Accepted \cup {t}
  <1>1. CP!Execute(p, t)
    BY DEF Chain!Execute, CP!Execute, Chain!Spendable, CP!Spendable,
           Chain!Current, CP!Current, Chain!Last, CP!Last
  <1>2. p.name \in Names /\ p.who \in Users /\ p.price \in Nat
    BY DEF Psbt
  <1>3. CP!ChainOK' /\ Len(log') = Len(log) + 1 /\ CP!Logged' = CP!Logged \cup {t}
    BY <1>1, <1>2, CP!ExecuteOK
  <1>4. PP!IInv'
    BY <1>3, PollerStays, LogLength
  <1> QED
    BY <1>3, <1>4, AcceptedLogged

LEMMA RelistStep ==
  ASSUME CP!ChainOK, PP!IInv, NEW n \in Names, NEW price \in Nat,
         Chain!Relist(n, price), UNCHANGED pollVars
  PROVE  CP!ChainOK' /\ PP!IInv' /\ UNCHANGED log
  <1>1. CP!Relist(n, price)
    BY DEF Chain!Relist, CP!Relist, Chain!Current, CP!Current,
           Chain!Last, CP!Last, Chain!Front, CP!Front
  <1>2. CP!ChainOK' /\ UNCHANGED log
    BY <1>1, CP!RelistOK
  <1> QED
    BY <1>2, PollerStays, LogLength

LEMMA ReportStep ==
  ASSUME CP!ChainOK, PP!IInv, NEW n \in Names, NEW s,
         NEW i \in 2 .. Len(chain[n]), Chain!Report(n, i, s), UNCHANGED pollVars
  PROVE  CP!ChainOK' /\ PP!IInv' /\ Accepted' = Accepted
  <1>1. CP!Report(n, i, s)
    BY DEF Chain!Report, CP!Report, Chain!Published, CP!Published,
           Chain!Settled, CP!Settled, Chain!Genesis, CP!Genesis
  <1>2. Progress \subseteq CP!Statuses
    BY TradingAssumption DEF CP!Statuses
  <1>3. CP!ChainOK' /\ Len(log') = Len(log) + 1 /\ CP!Logged' = CP!Logged
    BY <1>1, <1>2, CP!ReportOK
  <1> QED
    BY <1>3, PollerStays, LogLength, AcceptedLogged

LEMMA RejectStep ==
  ASSUME CP!ChainOK, PP!IInv, NEW n \in Names,
         NEW i \in 2 .. Len(chain[n]), Chain!Reject(n, i), UNCHANGED pollVars
  PROVE  CP!ChainOK' /\ PP!IInv' /\ Accepted' = Accepted
  <1>1. CP!Reject(n, i)
    BY DEF Chain!Reject, CP!Reject, Chain!Published, CP!Published,
           Chain!Settled, CP!Settled, Chain!Genesis, CP!Genesis
  <1>2. CP!ChainOK' /\ Len(log') >= Len(log) /\ CP!Logged' = CP!Logged
    BY <1>1, CP!RejectOK
  <1> QED
    BY <1>2, PollerStays, AcceptedLogged

\* A step that leaves the canister and the poller alone.
LEMMA OutsideSame ==
  ASSUME CP!ChainOK, PP!IInv, UNCHANGED <<chain, log, pollVars>>
  PROVE  CP!ChainOK' /\ PP!IInv' /\ Accepted' = Accepted
  <1>1. CP!ChainOK' /\ Accepted' = Accepted
    BY DEF CP!ChainOK, CP!Logged, Accepted
  <1> QED
    BY <1>1, PollerStays, LogLength

\* A step of the poller.
LEMMA PollerMoves ==
  ASSUME CP!ChainOK, PP!IInv, UNCHANGED <<chain, log>>,
         \/ Poller!Start \/ Poller!Fetch \/ Poller!HandleNext
         \/ Poller!FinishBatch \/ Poller!SaveOffset \/ Poller!SaveFails
         \/ Poller!Crash
  PROVE  CP!ChainOK' /\ PP!IInv' /\ Accepted' = Accepted
  <1>1. CP!ChainOK' /\ Accepted' = Accepted
    BY DEF CP!ChainOK, CP!Logged, Accepted
  <1>2. \/ PP!Start \/ PP!Fetch \/ PP!HandleNext
        \/ PP!FinishBatch \/ PP!SaveOffset \/ PP!SaveFails \/ PP!Crash
    BY DEF Poller!Start, Poller!Fetch, Poller!HandleNext, Poller!Handling,
           Poller!FinishBatch, Poller!SaveOffset, Poller!SaveFails, Poller!Crash,
           PP!Start, PP!Fetch, PP!HandleNext, PP!Handling,
           PP!FinishBatch, PP!SaveOffset, PP!SaveFails, PP!Crash
  <1>3. UNCHANGED log
    OBVIOUS
  <1>4. PP!IInv'
    BY <1>2, <1>3, PP!StartIInv, PP!FetchIInv, PP!HandleNextIInv, PP!FinishBatchIInv,
       PP!SaveIInv, PP!CrashIInv, PollerAssumptions
  <1> QED
    BY <1>1, <1>4

\* The event in hand is one of the log.
LEMMA CurrentEvent ==
  ASSUME CP!ChainOK, PP!IInv, Poller!Handling
  PROVE  Poller!Current \in Chain!StatusEvent /\ Poller!Current.tx \in Accepted
  <1>1. cursor + 1 \in 1 .. Len(log) /\ log \in Seq(Chain!StatusEvent)
    BY DEF PP!IInv, PP!TypeOK, PP!Ordered, Poller!Handling
  <1>2. log[cursor + 1] \in Chain!StatusEvent
    BY <1>1
  <1> QED
    BY <1>1, <1>2 DEF Accepted, Poller!Current
-----------------------------------------------------------------------------
(* The tables: what the statements make of rows and records of the right    *)
(* type, and what the rows and credits they leave refer to.                 *)

\* A table of listings whose rows belong to executed transactions.
Sound(table) ==
  /\ table \in [Names -> Listing \cup {NoListing}]
  /\ \A n \in Names : table[n] # NoListing => table[n].tx \in Accepted

LEMMA ListingsSound ==
  ASSUME TypeOK, ShownExecuted PROVE Sound(listings)
  BY DEF TypeOK, ShownExecuted, Listed, Sound

\* Writing or deleting one row.
LEMMA RowWritten ==
  ASSUME Sound(listings), NEW n \in Names, NEW row \in Listing, row.tx \in Accepted
  PROVE  Sound(Inserted(n, row)) /\ Sound(Updated(n, row)) /\ Sound(Removed(n))
  <1>1. Sound([listings EXCEPT ![n] = row])
    BY DEF Sound
  <1>2. Sound(Removed(n))
    BY DEF Sound, Removed
  <1> QED
    BY <1>1, <1>2 DEF Inserted, Updated

\* The trade a handler applies, and the one the poller rolls back.
LEMMA ListingsAfterSound ==
  ASSUME Sound(listings), NEW r \in TradeRecord, r.tx \in Accepted
  PROVE  Sound(ListingsAfter(r)) /\ Sound(ListingsRolledBack(r))
  <1>1. r.name \in Names /\ r.who \in Users /\ r.seller \in Users
        /\ r.price \in Nat /\ r.prev \in Nat /\ r.tx \in Nat
    BY DEF TradeRecord
  <1>2. [seller |-> r.who, price |-> r.price, tx |-> r.tx] \in Listing
        /\ [seller |-> r.seller, price |-> r.prev, tx |-> r.tx] \in Listing
    BY <1>1 DEF Listing
  <1>3. ASSUME NEW row \in Listing, row.tx = r.tx
        PROVE  /\ Sound(Inserted(r.name, row)) /\ Sound(Updated(r.name, row))
               /\ Sound(Removed(r.name))
    BY <1>1, <1>3, RowWritten
  <1>4. Sound(ListingsAfter(r))
    BY <1>2, <1>3 DEF ListingsAfter
  <1>5. Sound(ListingsRolledBack(r))
    BY <1>2, <1>3 DEF ListingsRolledBack
  <1> QED
    BY <1>4, <1>5

\* The rows have sellers and prices of the right type.
LEMMA RowType ==
  ASSUME TypeOK, NEW n \in Names, Listed(n)
  PROVE  listings[n] \in Listing /\ listings[n].seller \in Users
         /\ listings[n].price \in Nat /\ listings[n].tx \in Nat
  <1>1. listings[n] \in Listing
    BY DEF TypeOK, Listed
  <1> QED
    BY <1>1 DEF Listing

\* A status update leaves records, and so does a deletion.
LEMMA StatusTypes ==
  ASSUME history \subseteq TradeRecord, NEW t, NEW s \in TradeStatus
  PROVE  WithStatus(t, s) \subseteq TradeRecord /\ WithoutTx(t) \subseteq TradeRecord
  <1>1. ASSUME NEW r \in history PROVE [r EXCEPT !.status = s] \in TradeRecord
    BY DEF TradeRecord
  <1> QED
    BY <1>1 DEF WithStatus, WithoutTx

\* The previous price of a name is a number of satoshis.
LEMMA PreviousPriceType ==
  ASSUME TypeOK, NEW n \in Names PROVE PreviousPrices(n) \subseteq Nat
  <1>1. EtchingFee[n] \in Nat
    BY TradingAssumption
  <1>2. EtchingFeePrice(EtchingFee[n]) \in Nat
    BY <1>1 DEF EtchingFeePrice, GlobalMinPrice, InitMaxPrice
  <1>3. ASSUME NEW r \in history PROVE r.price \in Nat
    BY DEF TypeOK, TradeRecord
  <1> QED
    BY <1>2, <1>3 DEF PreviousPrices, Latest
-----------------------------------------------------------------------------
(* The tasks: one task moves, and the others stay.                          *)

\* A task that runs holds a record.
LEMMA JobIs ==
  ASSUME TasksOK, NEW h \in Handlers, pc[h] # "idle"
  PROVE  job[h] \in TradeRecord
  BY DEF TasksOK

\* A task moves on with its record.
LEMMA GotoOK ==
  ASSUME TasksOK, NEW h \in Handlers, pc[h] # "idle",
         NEW s \in Stages, s # "idle", Goto(h, s)
  PROVE  /\ TasksOK'
         /\ \A g \in Handlers : job'[g] = job[g] /\ pc'[g] = IF g = h THEN s ELSE pc[g]
  BY DEF TasksOK, Goto

\* A task answers its request.
LEMMA AnswerOK ==
  ASSUME TasksOK, NEW h \in Handlers, Answer(h)
  PROVE  /\ TasksOK'
         /\ pc'[h] = "idle"
         /\ \A g \in Handlers \ {h} : job'[g] = job[g] /\ pc'[g] = pc[g]
  BY DEF TasksOK, Answer, Stages

\* A task starts with a record.
LEMMA StartsOK ==
  ASSUME TasksOK, NEW h \in Handlers, NEW r \in TradeRecord,
         NEW s \in Stages, s # "idle",
         pc' = [pc EXCEPT ![h] = s], job' = [job EXCEPT ![h] = r]
  PROVE  /\ TasksOK'
         /\ pc'[h] = s /\ job'[h] = r
         /\ \A g \in Handlers \ {h} : job'[g] = job[g] /\ pc'[g] = pc[g]
  BY NullAssumption DEF TasksOK

\* The promises about the other tasks hold on when one moves, if nothing is
\* taken back; the one that moves has to have its own.
LEMMA PromisesKept ==
  ASSUME ClientsOK, ClientsOK', Signed, Founded, NEW h \in Handlers,
         \A g \in Handlers \ {h} : job'[g] = job[g] /\ pc'[g] = pc[g],
         Len(psbts') >= Len(psbts), Accepted \subseteq Accepted',
         UNCHANGED rollback,
         pc'[h] \in {"validated", "recorded"} => job'[h].tx \in 1 .. Len(psbts'),
         pc'[h] \in {"accepted", "applied"} => job'[h].tx \in Accepted'
  PROVE  Signed' /\ Founded'
  <1>1. Len(psbts) \in Nat /\ Len(psbts') \in Nat
    BY DEF ClientsOK
  <1>2. \A t \in 1 .. Len(psbts) : t \in 1 .. Len(psbts')
    BY <1>1
  <1>3. Signed'
    BY <1>2 DEF Signed
  <1>4. Founded'
    BY DEF Founded
  <1> QED
    BY <1>3, <1>4

\* The same when no task moves and the rollback is what it was or over.
LEMMA PromisesStay ==
  ASSUME Signed, Founded, UNCHANGED <<tasks, clients>>, Accepted' = Accepted,
         rollback' # NoRecord => rollback'.record.tx \in Accepted
  PROVE  Signed' /\ Founded'
  BY DEF Signed, Founded, tasks, clients

-----------------------------------------------------------------------------
(* The invariant holds initially, and every step keeps it. *)

LEMMA InitIInv == Init => IInv
  <1> SUFFICES ASSUME Init PROVE IInv
    OBVIOUS
  <1>1. CP!ChainOK
    <2>1. /\ log = <<>>
          /\ chain = [n \in Names |-> <<[tx |-> 0, owner |-> FirstOwner[n],
                                         listed |-> FALSE, price |-> 0]>>]
      BY DEF Init, Chain!CanisterInit, Chain!Genesis
    <2>2. ASSUME NEW n \in Names
          PROVE  /\ chain[n] \in Seq(CP!Entry)
                 /\ Len(chain[n]) = 1
      <3>1. FirstOwner[n] \in Users
        BY TradingAssumption
      <3>2. [tx |-> 0, owner |-> FirstOwner[n], listed |-> FALSE, price |-> 0]
              \in CP!Entry
        BY <3>1 DEF CP!Entry, CP!TxId
      <3> QED
        BY <2>1, <3>2
    <2>3. log \in Seq(CP!StatusEvent)
      BY <2>1
    <2>4. chain \in [Names -> Seq(CP!Entry)]
      BY <2>1, <2>2
    <2>5. ASSUME NEW n \in Names
          PROVE  /\ Len(chain[n]) >= 1
                 /\ \A i \in 2 .. Len(chain[n]) : chain[n][i].tx \in CP!Logged
      <3>1. Len(chain[n]) = 1
        BY <2>2
      <3>2. Len(chain[n]) >= 1
        BY <3>1
      <3>3. ~ \E i \in 2 .. Len(chain[n]) : TRUE
        BY <3>1
      <3> QED
        BY <3>2, <3>3
    <2> QED
      BY <2>3, <2>4, <2>5 DEF CP!ChainOK
  <1>2. PP!IInv
    <2>1. Chain!StatusEvent = CP!StatusEvent /\ log = <<>>
      BY StatusEventSame DEF Init, Chain!CanisterInit
    <2>2. PP!Init
      BY <2>1 DEF Init, PP!Init, PP!PollInit, Poller!PollInit
    <2> QED
      BY <2>2, PP!InitIInv, PollerAssumptions
  <1>3. TypeOK
    BY DEF Init, TypeOK, Stages, NoPrice
  <1>4. Signed /\ Founded /\ ShownExecuted
    BY DEF Init, Signed, Founded, ShownExecuted, Listed
  <1> QED
    BY <1>1, <1>2, <1>3, <1>4 DEF IInv

\* The parts of the invariant, put together again.
LEMMA Parts ==
  IInv <=> /\ TablesOK /\ RankingsOK /\ TasksOK /\ RollbackOK /\ ClientsOK
           /\ CP!ChainOK /\ PP!IInv
           /\ Signed /\ Founded /\ ShownExecuted
  BY TypeParts DEF IInv

LEMMA PartsNext ==
  IInv' <=> /\ TablesOK' /\ RankingsOK' /\ TasksOK' /\ RollbackOK' /\ ClientsOK'
            /\ CP!ChainOK' /\ PP!IInv'
            /\ Signed' /\ Founded' /\ ShownExecuted'
  <1>1. TypeOK' <=> TablesOK' /\ RankingsOK' /\ TasksOK' /\ RollbackOK' /\ ClientsOK'
    BY DEF TypeOK, TablesOK, RankingsOK, TasksOK, RollbackOK, ClientsOK
  <1> QED
    BY <1>1 DEF IInv
\* A handler's record of a request has the right type.
LEMMA RecordType ==
  ASSUME TypeOK, NEW p \in Psbt, NEW base \in BasePrices(p), NEW t \in Nat
  PROVE  NewRecord(p, base, t) \in TradeRecord /\ NewRecord(p, base, t).tx = t
  <1>1. /\ p.name \in Names /\ p.who \in Users /\ p.action \in AllActions
        /\ p.price \in Nat
    BY DEF Psbt
  <1>2. p.action # "List" => Listed(p.name)
    BY DEF BasePrices
  <1>3. base \in Nat
    <2>1. CASE p.action = "List"
      BY <1>1, <2>1, PreviousPriceType DEF BasePrices
    <2>2. CASE p.action # "List"
      BY <1>1, <1>2, <2>2, RowType DEF BasePrices
    <2> QED
      BY <2>1, <2>2
  <1>4. (IF p.action = "List" THEN p.who ELSE listings[p.name].seller) \in Users
    BY <1>1, <1>2, RowType
  <1>5. (IF p.action \in {"List", "BuyAndRelist"} THEN p.price ELSE base) \in Nat
    BY <1>1, <1>3
  <1>6. clock + 1 \in Nat
    BY DEF TypeOK
  <1> QED
    BY <1>1, <1>3, <1>4, <1>5, <1>6 DEF NewRecord, TradeRecord, TradeStatus

\* A handler takes a request: its transaction is one that somebody signed.
LEMMA ValidateIInv ==
  ASSUME IInv, NEW h \in Handlers, NEW u \in Users, NEW n \in Names,
         NEW a \in Actions \ {"Relist"}, Validate(h, u, n, a)
  PROVE  IInv'
  <1>0. PICK p \in Signable(u, n, a) : \E base \in BasePrices(p) :
          \/ /\ psbts' = Append(psbts, p)
             /\ job' = [job EXCEPT ![h] = NewRecord(p, base, Len(psbts) + 1)]
          \/ /\ \E t \in 1 .. Len(psbts) :
                  psbts[t] = p /\ job' = [job EXCEPT ![h] = NewRecord(p, base, t)]
             /\ UNCHANGED psbts
    BY DEF Validate
  <1>1. PICK base \in BasePrices(p) :
          \/ /\ psbts' = Append(psbts, p)
             /\ job' = [job EXCEPT ![h] = NewRecord(p, base, Len(psbts) + 1)]
          \/ /\ \E t \in 1 .. Len(psbts) :
                  psbts[t] = p /\ job' = [job EXCEPT ![h] = NewRecord(p, base, t)]
             /\ UNCHANGED psbts
    BY <1>0
  <1>2. /\ pc' = [pc EXCEPT ![h] = "validated"] /\ clock' = clock + 1
        /\ UNCHANGED <<tables, rankings, rollback, chain, log, pollVars>>
    BY DEF Validate
  <1>3. psbts \in Seq(Psbt) /\ Len(psbts) \in Nat /\ clock \in Nat
    BY Parts DEF ClientsOK
  <1>4. p \in Psbt
    <2>1. 0 .. Len(psbts) \subseteq Nat /\ Prices \cup {0} \subseteq Nat
      BY <1>3, TradingAssumption
    <2>2. Signable(u, n, a) \subseteq
            [name : Names, who : Users, action : AllActions, input : 0 .. Len(psbts),
             pay : Prices \cup {0}, price : Prices \cup {0}]
      BY TradingAssumption DEF Signable
    <2> QED
      BY <2>1, <2>2 DEF Psbt
  <1>5. PICK t \in Nat :
          /\ job' = [job EXCEPT ![h] = NewRecord(p, base, t)]
          /\ psbts' \in Seq(Psbt) /\ Len(psbts') >= Len(psbts)
          /\ t \in 1 .. Len(psbts')
    <2>1. CASE /\ psbts' = Append(psbts, p)
               /\ job' = [job EXCEPT ![h] = NewRecord(p, base, Len(psbts) + 1)]
      <3>1. psbts' \in Seq(Psbt) /\ Len(psbts') = Len(psbts) + 1
        BY <2>1, <1>3, <1>4
      <3>2. Len(psbts) + 1 \in Nat /\ Len(psbts') >= Len(psbts)
            /\ Len(psbts) + 1 \in 1 .. Len(psbts')
        BY <3>1, <1>3
      <3> QED
        BY <2>1, <3>1, <3>2
    <2>2. CASE /\ \E t \in 1 .. Len(psbts) :
                    psbts[t] = p /\ job' = [job EXCEPT ![h] = NewRecord(p, base, t)]
               /\ UNCHANGED psbts
      <3>1. PICK t \in 1 .. Len(psbts) :
              psbts[t] = p /\ job' = [job EXCEPT ![h] = NewRecord(p, base, t)]
        BY <2>2
      <3>2. /\ t \in Nat /\ t \in 1 .. Len(psbts') /\ psbts' \in Seq(Psbt)
            /\ Len(psbts') >= Len(psbts)
        BY <2>2, <1>3
      <3> QED
        BY <3>1, <3>2
    <2> QED
      BY <1>1, <2>1, <2>2
  <1>6. NewRecord(p, base, t) \in TradeRecord /\ NewRecord(p, base, t).tx = t
    BY <1>4, RecordType DEF IInv
  <1>7. /\ TasksOK' /\ pc'[h] = "validated" /\ job'[h] = NewRecord(p, base, t)
        /\ \A g \in Handlers \ {h} : job'[g] = job[g] /\ pc'[g] = pc[g]
    BY <1>2, <1>5, <1>6, StartsOK, Parts DEF Stages
  <1>8. CP!ChainOK' /\ PP!IInv' /\ Accepted' = Accepted
    BY <1>2, OutsideSame, Parts
  <1>9. ClientsOK'
    BY <1>2, <1>3, <1>5 DEF ClientsOK
  <1>10. Signed' /\ Founded'
    BY <1>2, <1>5, <1>6, <1>7, <1>8, <1>9, PromisesKept, Parts
  <1>11. TablesOK' /\ RankingsOK' /\ RollbackOK' /\ ShownExecuted'
    BY <1>2, <1>8, Parts DEF TablesOK, RankingsOK, RollbackOK, ShownExecuted,
       Listed, tables, rankings
  <1> QED
    BY <1>7, <1>8, <1>9, <1>10, <1>11, PartsNext

\* The record is added, or the request ends.
LEMMA AddRecordIInv ==
  ASSUME IInv, NEW h \in Handlers, AddRecord(h) PROVE IInv'
  <1>1. /\ pc[h] = "validated"
        /\ UNCHANGED <<listings, credited, rankings, rollback, clients, chain, log,
                       pollVars>>
    BY DEF AddRecord, At
  <1>2. job[h] \in TradeRecord
    BY <1>1, JobIs, Parts
  <1>3. CP!ChainOK' /\ PP!IInv' /\ Accepted' = Accepted
    BY <1>1, OutsideSame, Parts
  <1>4. TasksOK' /\ Signed' /\ Founded' /\ history' \subseteq TradeRecord
    <2>0. UNCHANGED psbts /\ ClientsOK /\ ClientsOK' /\ Len(psbts') >= Len(psbts)
      BY <1>1, Parts DEF ClientsOK, clients
    <2>1. CASE history' = history \cup {job[h]} /\ Goto(h, "recorded")
      <3>1. /\ TasksOK'
            /\ \A g \in Handlers : job'[g] = job[g]
                 /\ pc'[g] = IF g = h THEN "recorded" ELSE pc[g]
        BY <1>1, <2>1, GotoOK, Parts DEF Stages
      <3>2. job'[h].tx \in 1 .. Len(psbts')
        BY <3>1, <2>0, <1>1, Parts DEF Signed
      <3>3. Signed' /\ Founded'
        BY <3>1, <3>2, <2>0, <1>1, <1>3, PromisesKept, Parts
      <3> QED
        BY <3>1, <3>3, <2>1, <1>2, Parts DEF TablesOK
    <2>2. CASE UNCHANGED history /\ Answer(h)
      <3>1. /\ TasksOK' /\ pc'[h] = "idle"
            /\ \A g \in Handlers \ {h} : job'[g] = job[g] /\ pc'[g] = pc[g]
        BY <2>2, AnswerOK, Parts
      <3>2. Signed' /\ Founded'
        BY <3>1, <2>0, <1>1, <1>3, PromisesKept, Parts
      <3> QED
        BY <3>1, <3>2, <2>2, Parts DEF TablesOK
    <2> QED
      BY <2>1, <2>2 DEF AddRecord
  <1>5. /\ TablesOK' /\ RankingsOK' /\ RollbackOK' /\ ClientsOK'
        /\ ShownExecuted'
    BY <1>1, <1>3, <1>4, Parts DEF TablesOK, RankingsOK, RollbackOK, ClientsOK,
       ShownExecuted, Listed, rankings, clients
  <1> QED
    BY <1>3, <1>4, <1>5, PartsNext
\* A step that writes no record and moves task h, or ends its request: what is
\* left to show is that the rows, the credits and the canister are in order.
LEMMA HandlerMoves ==
  ASSUME IInv, NEW h \in Handlers, pc[h] # "idle",
         \/ \E s \in Stages \ {"idle", "validated", "recorded"} :
              /\ Goto(h, s)
              /\ s \in {"accepted", "applied"} => job[h].tx \in Accepted'
         \/ Answer(h),
         CP!ChainOK', PP!IInv', Accepted \subseteq Accepted',
         UNCHANGED <<rollback, psbts>>,
         TablesOK', RankingsOK', clock' \in Nat, ShownExecuted'
  PROVE  IInv'
  <1>1. /\ ClientsOK /\ ClientsOK' /\ Len(psbts') >= Len(psbts) /\ RollbackOK'
    BY Parts DEF ClientsOK, RollbackOK
  <1>2. TasksOK' /\ Signed' /\ Founded'
    <2>1. ASSUME NEW s \in Stages \ {"idle", "validated", "recorded"}, Goto(h, s),
                 s \in {"accepted", "applied"} => job[h].tx \in Accepted'
          PROVE  TasksOK' /\ Signed' /\ Founded'
      <3>1. /\ TasksOK'
            /\ \A g \in Handlers : job'[g] = job[g]
                 /\ pc'[g] = IF g = h THEN s ELSE pc[g]
        BY <2>1, GotoOK, Parts
      <3> QED
        BY <3>1, <2>1, <1>1, PromisesKept, Parts
    <2>2. CASE Answer(h)
      <3>1. /\ TasksOK' /\ pc'[h] = "idle"
            /\ \A g \in Handlers \ {h} : job'[g] = job[g] /\ pc'[g] = pc[g]
        BY <2>2, AnswerOK, Parts
      <3> QED
        BY <3>1, <1>1, PromisesKept, Parts
    <2> QED
      BY <2>1, <2>2
  <1> QED
    BY <1>1, <1>2, PartsNext

\* Rows, credits and types that a step does not touch stay in order, also
\* when the canister has executed one trade more.
LEMMA ShowStays ==
  ASSUME ShownExecuted, UNCHANGED <<listings, credited>>,
         Accepted \subseteq Accepted'
  PROVE  ShownExecuted'
  BY DEF ShownExecuted, Listed

\* invoke: the canister executes the signed transaction, or refuses it.
LEMMA InvokeIInv ==
  ASSUME IInv, NEW h \in Handlers, Invoke(h) PROVE IInv'
  <1>1. /\ pc[h] = "recorded"
        /\ UNCHANGED <<tables, rankings, rollback, clients, pollVars>>
    BY DEF Invoke, At
  <1>2. TablesOK' /\ RankingsOK' /\ clock' \in Nat /\ UNCHANGED psbts
    BY <1>1, Parts DEF TablesOK, RankingsOK, ClientsOK, tables, rankings, clients
  <1>3. UNCHANGED <<listings, credited>> /\ ShownExecuted
    BY <1>1, Parts DEF tables
  <1>4. job[h].tx \in 1 .. Len(psbts) /\ psbts \in Seq(Psbt) /\ job[h].tx \in Nat
    BY <1>1, Parts DEF Signed, ClientsOK
  <1>5. psbts[job[h].tx] \in Psbt
    BY <1>4
  <1>6. ASSUME Chain!Execute(psbts[job[h].tx], job[h].tx)
        PROVE  /\ CP!ChainOK' /\ PP!IInv' /\ Accepted \subseteq Accepted'
               /\ job[h].tx \in Accepted'
    <2>1. CP!ChainOK' /\ PP!IInv' /\ Accepted' = Accepted \cup {job[h].tx}
      BY <1>1, <1>4, <1>5, <1>6, ExecuteStep, Parts
    <2> QED
      BY <2>1
  <1>7. ASSUME UNCHANGED <<chain, log>>
        PROVE  CP!ChainOK' /\ PP!IInv' /\ Accepted \subseteq Accepted'
    BY <1>1, <1>7, OutsideSame, Parts
  <1>8. /\ CP!ChainOK' /\ PP!IInv' /\ Accepted \subseteq Accepted'
        /\ \/ Goto(h, "accepted") /\ job[h].tx \in Accepted'
           \/ Goto(h, "refused")
    BY <1>6, <1>7 DEF Invoke
  <1>9. ShownExecuted'
    BY <1>3, <1>8, ShowStays
  <1> QED
    BY <1>1, <1>2, <1>8, <1>9, HandlerMoves DEF Stages

\* The record of a refused request is deleted, or the statement fails.
LEMMA DeleteRecordIInv ==
  ASSUME IInv, NEW h \in Handlers, DeleteRecord(h) PROVE IInv'
  <1>1. /\ pc[h] = "refused" /\ Answer(h)
        /\ history' \in Outcomes(WithoutTx(job[h].tx), history)
        /\ UNCHANGED <<listings, credited, rankings, rollback, clients, chain, log,
                       pollVars>>
    BY DEF DeleteRecord, At
  <1>2. CP!ChainOK' /\ PP!IInv' /\ Accepted \subseteq Accepted'
    BY <1>1, OutsideSame, Parts
  <1>3. history' \subseteq history
    BY <1>1 DEF Outcomes, WithoutTx
  <1>4. TablesOK' /\ RankingsOK' /\ clock' \in Nat /\ UNCHANGED psbts
    BY <1>1, <1>3, Parts DEF TablesOK, RankingsOK, ClientsOK, rankings, clients
  <1>5. ShownExecuted'
    BY <1>1, <1>2, ShowStays, Parts
  <1> QED
    BY <1>1, <1>2, <1>4, <1>5, HandlerMoves DEF Stages

\* handle_pending writes the row of an executed trade.
LEMMA ApplyListingIInv ==
  ASSUME IInv, NEW h \in Handlers, ApplyListing(h) PROVE IInv'
  <1>1. /\ pc[h] = "accepted" /\ Goto(h, "applied")
        /\ listings' \in Outcomes(ListingsAfter(job[h]), listings)
        /\ CountSale(job[h])
        /\ UNCHANGED <<history, credited, newListings, bestDeals, rollback, clients,
                       chain, log, pollVars>>
    BY DEF ApplyListing, At
  <1>2. CP!ChainOK' /\ PP!IInv' /\ Accepted' = Accepted
    BY <1>1, OutsideSame, Parts
  <1>3. job[h] \in TradeRecord /\ job[h].tx \in Accepted
    BY <1>1, JobIs, Parts DEF Founded
  <1>4. job[h].tx \in Nat
    BY <1>3 DEF TradeRecord
  <1>5. Sound(listings')
    BY <1>1, <1>3, ListingsSound, ListingsAfterSound, Parts, TypeParts DEF Outcomes
  <1>6. sales' \subseteq Nat
    BY <1>1, <1>4, Parts DEF CountSale, Outcomes, RankingsOK
  <1>7. TablesOK' /\ RankingsOK' /\ clock' \in Nat /\ UNCHANGED psbts
    BY <1>1, <1>5, <1>6, Parts DEF TablesOK, RankingsOK, ClientsOK, clients, Sound
  <1>8. ShownExecuted'
    BY <1>1, <1>2, <1>5, Parts DEF ShownExecuted, Listed, Sound
  <1> QED
    BY <1>1, <1>2, <1>3, <1>7, <1>8, HandlerMoves DEF Stages

\* The rankings follow, and the seller is credited with an executed trade.
LEMMA ApplyRankingsIInv ==
  ASSUME IInv, NEW h \in Handlers, ApplyRankings(h) PROVE IInv'
  <1> DEFINE r == job[h]
  <1>1. /\ pc[h] = "applied" /\ Answer(h) /\ CreditSeller(r)
        /\ \/ RankAsNew(r.name, r.price)
           \/ Unrank(r.name)
           \/ /\ Listed(r.name) /\ newListings' = newListings \ {r.name}
              /\ bestDeals' = [bestDeals EXCEPT ![r.name] = listings[r.name].price]
        /\ UNCHANGED <<listings, history, sales, rollback, clients, chain, log,
                       pollVars>>
    BY DEF ApplyRankings, At
  <1>2. CP!ChainOK' /\ PP!IInv' /\ Accepted' = Accepted
    BY <1>1, OutsideSame, Parts
  <1>3. r \in TradeRecord /\ r.tx \in Accepted
    BY <1>1, JobIs, Parts DEF Founded
  <1>4. r.name \in Names /\ r.price \in Nat /\ r.tx \in Nat
    BY <1>3 DEF TradeRecord
  <1>5. credited' \subseteq credited \cup {r.tx}
    BY <1>1 DEF CreditSeller, Outcomes
  <1>6. Listed(r.name) => listings[r.name].price \in Nat
    BY <1>4, RowType DEF IInv
  <1>7. RankingsOK'
    BY <1>1, <1>4, <1>6, Parts DEF RankingsOK, RankAsNew, Unrank, NoPrice
  <1>8. TablesOK' /\ clock' \in Nat /\ UNCHANGED psbts
    BY <1>1, <1>4, <1>5, Parts DEF TablesOK, ClientsOK, clients
  <1>9. ShownExecuted'
    BY <1>1, <1>2, <1>3, <1>5, Parts DEF ShownExecuted, Listed
  <1> QED
    BY <1>1, <1>2, <1>7, <1>8, <1>9, HandlerMoves
\* relist reads the listing and makes its record.
LEMMA RelistReadIInv ==
  ASSUME IInv, NEW h \in Handlers, NEW u \in Users, NEW n \in Names,
         RelistRead(h, u, n)
  PROVE  IInv'
  <1>1. PICK p \in Prices :
          job' = [job EXCEPT ![h] =
            [at |-> clock + 1, name |-> n, who |-> u, action |-> "Relist",
             tx |-> NoTx, status |-> "Finalized", seller |-> u,
             prev |-> listings[n].price, price |-> p]]
    BY DEF RelistRead
  <1> DEFINE r == [at |-> clock + 1, name |-> n, who |-> u, action |-> "Relist",
                   tx |-> NoTx, status |-> "Finalized", seller |-> u,
                   prev |-> listings[n].price, price |-> p]
  <1>2. /\ pc' = [pc EXCEPT ![h] = "relistRead"] /\ clock' = clock + 1 /\ Listed(n)
        /\ UNCHANGED <<tables, rankings, rollback, psbts, chain, log, pollVars>>
    BY DEF RelistRead
  <1>3. clock + 1 \in Nat /\ p \in Nat /\ listings[n].price \in Nat
    BY <1>2, RowType, TradingAssumption, Parts DEF ClientsOK, IInv
  <1>4. r \in TradeRecord
    BY <1>3 DEF TradeRecord, TradeStatus, AllActions, NoTx
  <1> HIDE DEF r
  <1>5. job' = [job EXCEPT ![h] = r]
    BY <1>1 DEF r
  <1>6. /\ TasksOK' /\ pc'[h] = "relistRead"
        /\ \A g \in Handlers \ {h} : job'[g] = job[g] /\ pc'[g] = pc[g]
    BY <1>2, <1>4, <1>5, StartsOK, Parts DEF Stages
  <1>7. CP!ChainOK' /\ PP!IInv' /\ Accepted' = Accepted
    BY <1>2, OutsideSame, Parts
  <1>8. ClientsOK /\ ClientsOK' /\ Len(psbts') >= Len(psbts)
    BY <1>2, <1>3, Parts DEF ClientsOK
  <1>9. Signed' /\ Founded'
    BY <1>2, <1>6, <1>7, <1>8, PromisesKept, Parts
  <1>10. TablesOK' /\ RankingsOK' /\ RollbackOK' /\ ShownExecuted'
    BY <1>2, <1>7, Parts DEF TablesOK, RankingsOK, RollbackOK, ShownExecuted,
       Listed, tables, rankings
  <1> QED
    BY <1>6, <1>7, <1>8, <1>9, <1>10, PartsNext

\* relist calls the canister.
LEMMA RelistCallIInv ==
  ASSUME IInv, NEW h \in Handlers, RelistCall(h) PROVE IInv'
  <1>1. /\ pc[h] = "relistRead"
        /\ Goto(h, "relistDone") \/ Answer(h)
        /\ Chain!Relist(job[h].name, job[h].price) \/ UNCHANGED <<chain, log>>
        /\ UNCHANGED <<tables, rankings, rollback, clients, pollVars>>
    BY DEF RelistCall, At
  <1>2. job[h].name \in Names /\ job[h].price \in Nat
    BY <1>1, JobIs, Parts DEF TradeRecord
  <1>3. CP!ChainOK' /\ PP!IInv' /\ Accepted \subseteq Accepted'
    <2>1. CASE Chain!Relist(job[h].name, job[h].price)
      <3>1. CP!ChainOK' /\ PP!IInv' /\ UNCHANGED log
        BY <2>1, <1>1, <1>2, RelistStep, Parts
      <3> QED
        BY <3>1 DEF Accepted
    <2>2. CASE UNCHANGED <<chain, log>>
      BY <2>2, <1>1, OutsideSame, Parts
    <2> QED
      BY <1>1, <2>1, <2>2
  <1>4. TablesOK' /\ RankingsOK' /\ clock' \in Nat /\ UNCHANGED psbts
    BY <1>1, Parts DEF TablesOK, RankingsOK, ClientsOK, tables, rankings, clients
  <1>5. UNCHANGED <<listings, credited>> /\ ShownExecuted
    BY <1>1, Parts DEF tables
  <1>6. ShownExecuted'
    BY <1>3, <1>5, ShowStays
  <1> QED
    BY <1>1, <1>3, <1>4, <1>6, HandlerMoves DEF Stages

\* relist adds its record, made anew.
LEMMA RelistRecordIInv ==
  ASSUME IInv, NEW h \in Handlers, RelistRecord(h) PROVE IInv'
  <1> DEFINE r == [job[h] EXCEPT !.at = clock + 1]
  <1>1. /\ pc[h] = "relistDone" /\ Goto(h, "relistRecorded")
        /\ history' \in Outcomes(history \cup {r}, history) /\ clock' = clock + 1
        /\ UNCHANGED <<listings, credited, rankings, rollback, psbts, chain, log,
                       pollVars>>
    BY DEF RelistRecord, At
  <1>2. clock + 1 \in Nat /\ job[h] \in TradeRecord
    BY <1>1, JobIs, Parts DEF ClientsOK
  <1>3. r \in TradeRecord
    BY <1>2 DEF TradeRecord
  <1> HIDE DEF r
  <1>4. history' \subseteq history \cup {r}
    BY <1>1 DEF Outcomes
  <1>5. CP!ChainOK' /\ PP!IInv' /\ Accepted \subseteq Accepted'
    BY <1>1, OutsideSame, Parts
  <1>6. TablesOK' /\ RankingsOK' /\ clock' \in Nat
    BY <1>1, <1>2, <1>3, <1>4, Parts DEF TablesOK, RankingsOK, rankings
  <1>7. ShownExecuted'
    BY <1>1, <1>5, ShowStays, Parts
  <1> QED
    BY <1>1, <1>5, <1>6, <1>7, HandlerMoves DEF Stages

\* relist writes the price into the row, which keeps its transaction.
LEMMA RelistPriceIInv ==
  ASSUME IInv, NEW h \in Handlers, RelistPrice(h) PROVE IInv'
  <1> DEFINE n == job[h].name
             row == [listings[n] EXCEPT !.price = job[h].price]
  <1>1. /\ pc[h] = "relistRecorded" /\ Goto(h, "relistPriced")
        /\ listings' = listings \/ (Listed(n) /\ listings' = Updated(n, row))
        /\ UNCHANGED <<history, credited, rankings, rollback, clients, chain, log,
                       pollVars>>
    BY DEF RelistPrice, At, Outcomes
  <1>2. n \in Names /\ job[h].price \in Nat
    BY <1>1, JobIs, Parts DEF TradeRecord
  <1>3. CP!ChainOK' /\ PP!IInv' /\ Accepted' = Accepted
    BY <1>1, OutsideSame, Parts
  <1>4. Sound(listings)
    BY ListingsSound, Parts DEF IInv
  <1>5. Listed(n) => row \in Listing /\ row.tx \in Accepted
    BY <1>2, <1>4, RowType DEF IInv, Listing, Sound, Listed
  <1>6. Sound(listings')
    BY <1>1, <1>2, <1>4, <1>5, RowWritten
  <1>7. TablesOK' /\ RankingsOK' /\ clock' \in Nat /\ UNCHANGED psbts
    BY <1>1, <1>6, Parts DEF TablesOK, RankingsOK, ClientsOK, clients, rankings, Sound
  <1>8. ShownExecuted'
    BY <1>1, <1>3, <1>6, Parts DEF ShownExecuted, Listed, Sound
  <1> QED
    BY <1>1, <1>3, <1>7, <1>8, HandlerMoves DEF Stages

\* relist ranks the deal.
LEMMA RelistRankIInv ==
  ASSUME IInv, NEW h \in Handlers, RelistRank(h) PROVE IInv'
  <1> DEFINE n == job[h].name
  <1>1. /\ pc[h] = "relistPriced" /\ Answer(h)
        /\ \/ Listed(n) /\ RankDeal(n, listings[n].price)
           \/ UNCHANGED <<newListings, bestDeals>>
        /\ UNCHANGED <<tables, sales, rollback, clients, chain, log, pollVars>>
    BY DEF RelistRank, At
  <1>2. n \in Names
    BY <1>1, JobIs, Parts DEF TradeRecord
  <1>3. CP!ChainOK' /\ PP!IInv' /\ Accepted \subseteq Accepted'
    BY <1>1, OutsideSame, Parts
  <1>4. Listed(n) => listings[n].price \in Nat
    BY <1>2, RowType DEF IInv
  <1>5. RankingsOK'
    BY <1>1, <1>2, <1>4, Parts DEF RankingsOK, RankDeal
  <1>6. TablesOK' /\ clock' \in Nat /\ UNCHANGED psbts
    BY <1>1, Parts DEF TablesOK, ClientsOK, tables, clients
  <1>7. ShownExecuted'
    BY <1>1, <1>3, ShowStays, Parts DEF tables
  <1> QED
    BY <1>1, <1>3, <1>5, <1>6, <1>7, HandlerMoves
\* A step of the poller on its own, or with a change of the tables or rankings.
LEMMA PollerPart ==
  ASSUME IInv, UNCHANGED <<tasks, clients>>,
         CP!ChainOK', PP!IInv', Accepted' = Accepted,
         TablesOK', RankingsOK', RollbackOK', ShownExecuted',
         rollback' # NoRecord => rollback'.record.tx \in Accepted
  PROVE  IInv'
  <1>1. TasksOK' /\ ClientsOK'
    BY Parts DEF TasksOK, ClientsOK, tasks, clients
  <1>2. Signed' /\ Founded'
    BY PromisesStay, Parts
  <1> QED
    BY <1>1, <1>2, PartsNext

\* A status change reaches the history.
LEMMA PollStatusIInv == ASSUME IInv, PollStatus PROVE IInv'
  <1> DEFINE e == Poller!Current
  <1>1. /\ Poller!HandleNext
        /\ \/ UNCHANGED history
           \/ /\ e.status \in {"Finalized", "Confirmed"}
              /\ history' \in Outcomes(WithStatus(e.tx, e.status), history)
        /\ UNCHANGED <<listings, credited, rankings, tasks, rollback, clients, chain,
                       log>>
    BY DEF PollStatus
  <1>2. CP!ChainOK' /\ PP!IInv' /\ Accepted' = Accepted
    BY <1>1, PollerMoves, Parts
  <1>3. history' \subseteq TradeRecord
    <2>1. history \subseteq TradeRecord
      BY Parts DEF TablesOK
    <2>2. ASSUME NEW s \in {"Finalized", "Confirmed"}, NEW t
          PROVE  WithStatus(t, s) \subseteq TradeRecord
      BY <2>1, StatusTypes DEF TradeStatus
    <2> QED
      BY <1>1, <2>1, <2>2 DEF Outcomes
  <1>4. TablesOK' /\ RankingsOK' /\ RollbackOK'
    BY <1>1, <1>3, Parts DEF TablesOK, RankingsOK, RollbackOK, rankings
  <1>5. ShownExecuted'
    BY <1>1, <1>2, ShowStays, Parts
  <1>6. rollback' # NoRecord => rollback'.record.tx \in Accepted
    BY <1>1, Parts DEF Founded
  <1> QED
    BY <1>1, <1>2, <1>4, <1>5, <1>6, PollerPart

\* A rejected trade was executed: the log speaks of it.
LEMMA PollRejectedIInv == ASSUME IInv, PollRejected PROVE IInv'
  <1> DEFINE e == Poller!Current
  <1>1. /\ Poller!Handling
        /\ history' = WithStatus(e.tx, "Rejected")
        /\ UNCHANGED <<listings, credited, rankings, tasks, clients, chain, log,
                       pollVars>>
    BY DEF PollRejected
  <1>2. PICK r \in history' :
          r.tx = e.tx /\ rollback' = [record |-> r, step |-> "listing"]
    BY DEF PollRejected
  <1>3. CP!ChainOK' /\ PP!IInv' /\ Accepted' = Accepted
    BY <1>1, OutsideSame, Parts
  <1>4. history' \subseteq TradeRecord
    BY <1>1, StatusTypes, Parts DEF TablesOK, TradeStatus
  <1>5. e.tx \in Accepted
    BY <1>1, CurrentEvent, Parts
  <1>6. TablesOK' /\ RankingsOK' /\ RollbackOK'
    BY <1>1, <1>2, <1>4, Parts DEF TablesOK, RankingsOK, RollbackOK, rankings
  <1>7. ShownExecuted'
    BY <1>1, <1>3, ShowStays, Parts
  <1> QED
    BY <1>1, <1>2, <1>3, <1>5, <1>6, <1>7, PollerPart

\* The rollback writes a row of an executed trade.
LEMMA RollbackListingIInv == ASSUME IInv, RollbackListing PROVE IInv'
  <1> DEFINE r == rollback.record
  <1>1. /\ rollback # NoRecord
        /\ listings' \in Outcomes(ListingsRolledBack(r), listings)
        /\ rollback' = [rollback EXCEPT !.step = "rankings"]
        /\ UNCHANGED <<history, credited, rankings, tasks, clients, chain, log,
                       pollVars>>
    BY DEF RollbackListing
  <1>2. CP!ChainOK' /\ PP!IInv' /\ Accepted' = Accepted
    BY <1>1, OutsideSame, Parts
  <1>3. /\ rollback \in [record : TradeRecord, step : {"listing", "rankings"}]
        /\ r.tx \in Accepted
    BY <1>1, Parts DEF RollbackOK, Founded
  <1>4. r \in TradeRecord
    BY <1>3
  <1>5. rollback' \in [record : TradeRecord, step : {"listing", "rankings"}]
        /\ rollback'.record = r
    BY <1>1, <1>3
  <1>6. Sound(listings')
    BY <1>1, <1>3, <1>4, ListingsSound, ListingsAfterSound, Parts, TypeParts DEF Outcomes
  <1>7. TablesOK' /\ RankingsOK' /\ RollbackOK'
    BY <1>1, <1>5, <1>6, Parts DEF TablesOK, RankingsOK, RollbackOK, rankings, Sound
  <1>8. ShownExecuted'
    BY <1>1, <1>2, <1>6, Parts DEF ShownExecuted, Listed, Sound
  <1> QED
    BY <1>1, <1>2, <1>3, <1>5, <1>7, <1>8, PollerPart

\* The rankings follow the rollback.
LEMMA RollbackRankingsIInv == ASSUME IInv, RollbackRankings PROVE IInv'
  <1> DEFINE r == rollback.record
  <1>1. /\ rollback # NoRecord /\ rollback' = NoRecord /\ Poller!HandleNext
        /\ \/ RankAsNew(r.name, r.prev)
           \/ Listed(r.name) /\ RankAsNew(r.name, listings[r.name].price)
           \/ Unrank(r.name)
        /\ UNCHANGED <<tables, sales, tasks, clients, chain, log>>
    BY DEF RollbackRankings
  <1>2. CP!ChainOK' /\ PP!IInv' /\ Accepted' = Accepted
    BY <1>1, PollerMoves, Parts
  <1>3. r \in TradeRecord
    BY <1>1, Parts DEF RollbackOK
  <1>4. r.name \in Names /\ r.prev \in Nat
    BY <1>3 DEF TradeRecord
  <1>5. Listed(r.name) => listings[r.name].price \in Nat
    BY <1>4, RowType DEF IInv
  <1>6. RankingsOK'
    BY <1>1, <1>4, <1>5, Parts DEF RankingsOK, RankAsNew, Unrank, NoPrice
  <1>7. TablesOK' /\ RollbackOK'
    BY <1>1, Parts DEF TablesOK, RollbackOK, tables
  <1>8. ShownExecuted'
    BY <1>1, <1>2, ShowStays, Parts DEF tables
  <1> QED
    BY <1>1, <1>2, <1>6, <1>7, <1>8, PollerPart

\* The poller between events.
LEMMA PollIdleIInv == ASSUME IInv, PollIdle PROVE IInv'
  <1>1. CP!ChainOK' /\ PP!IInv' /\ Accepted' = Accepted
    BY PollerMoves, Parts DEF PollIdle
  <1>2. /\ TablesOK' /\ RankingsOK' /\ RollbackOK' /\ UNCHANGED <<listings, credited>>
        /\ UNCHANGED <<tasks, clients, rollback>>
    BY Parts DEF PollIdle, TablesOK, RankingsOK, RollbackOK, tables, rankings
  <1>3. ShownExecuted'
    BY <1>1, <1>2, ShowStays, Parts
  <1>4. rollback' # NoRecord => rollback'.record.tx \in Accepted
    BY <1>2, Parts DEF Founded
  <1> QED
    BY <1>1, <1>2, <1>3, <1>4, PollerPart

\* The canister reports a status change, or rejects what it had executed.
LEMMA CanisterIInv ==
  ASSUME IInv, CanisterReports \/ CanisterRejects PROVE IInv'
  <1>1. UNCHANGED <<tables, rankings, tasks, rollback, clients, pollVars>>
    BY DEF CanisterReports, CanisterRejects
  <1>2. CP!ChainOK' /\ PP!IInv' /\ Accepted' = Accepted
    <2>1. CASE CanisterReports
      <3>1. PICK n \in Names, s \in Progress : \E i \in 2 .. Len(chain[n]) :
              Chain!Report(n, i, s)
        BY <2>1 DEF CanisterReports
      <3> QED
        BY <3>1, <1>1, ReportStep, Parts
    <2>2. CASE CanisterRejects
      <3>1. PICK n \in Names : \E i \in 2 .. Len(chain[n]) : Chain!Reject(n, i)
        BY <2>2 DEF CanisterRejects
      <3> QED
        BY <3>1, <1>1, RejectStep, Parts
    <2> QED
      BY <2>1, <2>2
  <1>3. TablesOK' /\ RankingsOK' /\ RollbackOK' /\ UNCHANGED <<listings, credited>>
    BY <1>1, Parts DEF TablesOK, RankingsOK, RollbackOK, tables, rankings
  <1>4. ShownExecuted'
    BY <1>2, <1>3, ShowStays, Parts
  <1>5. rollback' # NoRecord => rollback'.record.tx \in Accepted
    BY <1>1, Parts DEF Founded
  <1> QED
    BY <1>1, <1>2, <1>3, <1>4, <1>5, PollerPart

\* A crash forgets the requests and the rollback under way.
LEMMA CrashIInv == ASSUME IInv, Crash PROVE IInv'
  <1>1. /\ Poller!Crash
        /\ pc' = [h \in Handlers |-> "idle"] /\ job' = [h \in Handlers |-> NoRecord]
        /\ rollback' = NoRecord
        /\ UNCHANGED <<tables, rankings, clients, chain, log>>
    BY DEF Crash
  <1>2. CP!ChainOK' /\ PP!IInv' /\ Accepted' = Accepted
    BY <1>1, PollerMoves, Parts
  <1>3. TasksOK' /\ Signed' /\ Founded'
    BY <1>1 DEF TasksOK, Stages, Signed, Founded
  <1>4. TablesOK' /\ RankingsOK' /\ RollbackOK' /\ ClientsOK'
    BY <1>1, Parts DEF TablesOK, RankingsOK, RollbackOK, ClientsOK, tables, rankings,
       clients
  <1>5. ShownExecuted'
    BY <1>1, <1>2, ShowStays, Parts DEF tables
  <1> QED
    BY <1>2, <1>3, <1>4, <1>5, PartsNext

\* The server starts again with rankings made of the tables.
LEMMA RestartIInv == ASSUME IInv, Restart PROVE IInv'
  <1>1. /\ Poller!Start /\ UNCHANGED <<tables, tasks, rollback, clients, chain, log>>
        /\ newListings' = {n \in Names : Listed(n)}
        /\ bestDeals' = [n \in Names |-> IF Listed(n) THEN listings[n].price ELSE NoPrice]
        /\ sales' = RecordedSales
    BY DEF Restart
  <1>2. CP!ChainOK' /\ PP!IInv' /\ Accepted' = Accepted
    BY <1>1, PollerMoves, Parts
  <1>3. RecordedSales \subseteq Nat
    BY Parts DEF RecordedSales, TablesOK, TradeRecord
  <1>4. RankingsOK'
    BY <1>1, <1>3, RowType DEF RankingsOK, NoPrice, IInv
  <1>5. TablesOK' /\ RollbackOK'
    BY <1>1, Parts DEF TablesOK, RollbackOK, tables
  <1>6. ShownExecuted'
    BY <1>1, <1>2, ShowStays, Parts DEF tables
  <1>7. rollback' # NoRecord => rollback'.record.tx \in Accepted
    BY <1>1, Parts DEF Founded
  <1> QED
    BY <1>1, <1>2, <1>4, <1>5, <1>6, <1>7, PollerPart

\* A step in which nothing happens.
LEMMA StutterIInv == ASSUME IInv, UNCHANGED vars PROVE IInv'
  <1>1. UNCHANGED <<tables, rankings, tasks, rollback, clients, chain, log, pollVars>>
    BY DEF vars
  <1>2. CP!ChainOK' /\ PP!IInv' /\ Accepted' = Accepted
    BY <1>1, OutsideSame, Parts
  <1>3. TablesOK' /\ RankingsOK' /\ RollbackOK' /\ UNCHANGED <<listings, credited>>
    BY <1>1, Parts DEF TablesOK, RankingsOK, RollbackOK, tables, rankings
  <1>4. ShownExecuted'
    BY <1>2, <1>3, ShowStays, Parts
  <1>5. rollback' # NoRecord => rollback'.record.tx \in Accepted
    BY <1>1, Parts DEF Founded
  <1> QED
    BY <1>1, <1>2, <1>3, <1>4, <1>5, PollerPart

LEMMA StepIInv == IInv /\ [Next]_vars => IInv'
  <1> SUFFICES ASSUME IInv, [Next]_vars PROVE IInv'
    OBVIOUS
  <1>1. ASSUME NEW h \in Handlers, Request(h) PROVE IInv'
    BY <1>1, ValidateIInv, RelistReadIInv DEF Request
  <1>2. ASSUME NEW h \in Handlers, HandlerStep(h) PROVE IInv'
    BY <1>2, AddRecordIInv, InvokeIInv, DeleteRecordIInv, ApplyListingIInv,
       ApplyRankingsIInv, RelistCallIInv, RelistRecordIInv, RelistPriceIInv,
       RelistRankIInv DEF HandlerStep
  <1>3. CASE PollerStep
    BY <1>3, PollIdleIInv, PollStatusIInv, PollRejectedIInv, RollbackListingIInv,
       RollbackRankingsIInv DEF PollerStep
  <1>4. CASE CanisterReports \/ CanisterRejects
    BY <1>4, CanisterIInv
  <1>5. CASE Crash \/ Restart
    BY <1>5, CrashIInv, RestartIInv
  <1>6. CASE UNCHANGED vars
    BY <1>6, StutterIInv
  <1> QED
    BY <1>1, <1>2, <1>3, <1>4, <1>5, <1>6 DEF Next

\* The invariant holds in every reachable state, for any names, users, prices,
\* actions, faults and any number of concurrent requests.
THEOREM Invariance == Spec => []IInv
  BY InitIInv, StepIInv, PTL DEF Spec

-----------------------------------------------------------------------------
(* What follows. *)

\* The tables, the rankings and the tasks' local state keep their types.
THEOREM TypeCorrectness == Spec => []TypeOK
  <1>1. IInv => TypeOK
    BY DEF IInv
  <1> QED
    BY <1>1, Invariance, PTL
==============================================================================
