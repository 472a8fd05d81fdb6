---------------------------- MODULE RecordProofs -----------------------------
(***************************************************************************)
(* Proofs about the trade history of Trading, which records there are and  *)
(* what they say, about what rows and credits show, and about its poller,  *)
(* for all names, users, prices and any number of tasks.                   *)
(***************************************************************************)
EXTENDS TradingProofs

-----------------------------------------------------------------------------
(* What the steps do to the tasks, the history and the executed trades,     *)
(* whatever else they do.                                                   *)

Others(h) == \A g \in Handlers \ {h} : job'[g] = job[g] /\ pc'[g] = pc[g]

\* Task h takes a request with a record made now.
Signs(h) ==
  /\ pc[h] = "idle" /\ pc'[h] = "validated" /\ Others(h)
  /\ history' = history /\ Accepted' = Accepted
  /\ \/ Len(psbts') = Len(psbts) + 1 /\ job'[h].tx = Len(psbts) + 1
     \/ "resubmit" \in Faults /\ psbts' = psbts
  /\ job'[h].status = "Pending"

Adds(h) ==
  /\ pc[h] = "validated" /\ pc'[h] = "recorded" /\ job'[h] = job[h] /\ Others(h)
  /\ history' = history \cup {job[h]}
  /\ Accepted' = Accepted /\ psbts' = psbts

Executes(h) ==
  /\ pc[h] = "recorded" /\ job'[h] = job[h] /\ Others(h)
  /\ pc'[h] = "accepted" \/ (pc'[h] = "refused" /\ "lostReply" \in Faults)
  /\ history' = history /\ psbts' = psbts
  /\ Accepted' = Accepted \cup {job[h].tx}

Deletes(h) ==
  /\ pc[h] = "refused" /\ pc'[h] = "idle" /\ Others(h)
  /\ history' = WithoutTx(job[h].tx) \/ (MayFail /\ history' = history)
  /\ Accepted' = Accepted /\ psbts' = psbts

Relists(h) ==
  /\ pc[h] = "relistDone" /\ pc'[h] = "relistRecorded" /\ job'[h] = job[h] /\ Others(h)
  /\ \/ history' = history \cup {[job[h] EXCEPT !.at = clock + 1]}
     \/ history' = history
  /\ Accepted' = Accepted /\ psbts' = psbts

\* Task h takes a request to relist, or goes on, or answers, and writes no record.
GoesOn(h) ==
  /\ Others(h)
  /\ \/ pc[h] = "idle" /\ pc'[h] = "relistRead" /\ job'[h].tx = NoTx
     \/ pc[h] = "validated" /\ pc'[h] = "idle"
     \/ pc[h] = "recorded" /\ pc'[h] = "refused" /\ job'[h] = job[h]
     \/ pc[h] = "accepted" /\ pc'[h] = "applied" /\ job'[h] = job[h]
     \/ pc[h] = "applied" /\ pc'[h] = "idle"
     \/ /\ pc[h] \in {"relistRead", "relistRecorded", "relistPriced"}
        /\ \/ pc'[h] \in {"relistDone", "relistPriced"} /\ job'[h] = job[h]
           \/ pc'[h] = "idle"
  /\ history' = history /\ Accepted' = Accepted /\ psbts' = psbts

\* The tasks stay and at most the status of an executed trade changes.
Updates ==
  /\ UNCHANGED <<pc, job, psbts>>
  /\ Accepted' = Accepted
  /\ \/ history' = history
     \/ \E t \in Accepted, s \in TradeStatus : history' = WithStatus(t, s)

Stops ==
  /\ "crash" \in Faults
  /\ pc' = [h \in Handlers |-> "idle"]
  /\ history' = history /\ Accepted' = Accepted /\ psbts' = psbts

HandlerEffect(h) ==
  Signs(h) \/ Adds(h) \/ Executes(h) \/ Deletes(h) \/ Relists(h) \/ GoesOn(h)

LEMMA LogSame == ASSUME UNCHANGED log PROVE Accepted' = Accepted
  BY DEF Accepted

\* The requests.
LEMMA ValidateEffect ==
  ASSUME IInv, NEW h \in Handlers, NEW u \in Users, NEW n \in Names,
         NEW a \in Actions \ {"Relist"}, Validate(h, u, n, a)
  PROVE  Signs(h)
  <1>1. /\ pc[h] = "idle" /\ pc' = [pc EXCEPT ![h] = "validated"]
        /\ UNCHANGED <<history, log>>
        /\ \E p, base, t :
             /\ job' = [job EXCEPT ![h] = NewRecord(p, base, t)]
             /\ \/ psbts' = Append(psbts, p) /\ t = Len(psbts) + 1
                \/ "resubmit" \in Faults /\ psbts' = psbts
    BY DEF Validate, MayRequest, tables
  <1>2. PICK p, base, t :
          /\ job' = [job EXCEPT ![h] = NewRecord(p, base, t)]
          /\ \/ psbts' = Append(psbts, p) /\ t = Len(psbts) + 1
             \/ "resubmit" \in Faults /\ psbts' = psbts
    BY <1>1
  <1>3. psbts \in Seq(Psbt)
    BY Parts DEF ClientsOK
  <1>4. psbts' = Append(psbts, p) => Len(psbts') = Len(psbts) + 1
    BY <1>3
  <1>5. /\ job'[h] = NewRecord(p, base, t) /\ pc'[h] = "validated" /\ Others(h)
    BY <1>1, <1>2, Parts DEF TasksOK, Others
  <1>6. NewRecord(p, base, t).tx = t /\ NewRecord(p, base, t).status = "Pending"
    BY DEF NewRecord
  <1> QED
    BY <1>1, <1>2, <1>4, <1>5, <1>6, LogSame DEF Signs

LEMMA RelistReadEffect ==
  ASSUME IInv, NEW h \in Handlers, NEW u \in Users, NEW n \in Names,
         RelistRead(h, u, n)
  PROVE  GoesOn(h)
  <1>1. /\ pc[h] = "idle" /\ pc' = [pc EXCEPT ![h] = "relistRead"]
        /\ UNCHANGED <<history, log, psbts>>
    BY DEF RelistRead, MayRequest, tables
  <1>2. PICK p \in Prices :
          job' = [job EXCEPT ![h] =
            [at |-> clock + 1, name |-> n, who |-> u, action |-> "Relist",
             tx |-> NoTx, status |-> "Finalized", seller |-> u,
             prev |-> listings[n].price, price |-> p]]
    BY DEF RelistRead
  <1>3. job'[h].tx = NoTx /\ pc'[h] = "relistRead" /\ Others(h)
    BY <1>1, <1>2, Parts DEF TasksOK, Others
  <1> QED
    BY <1>1, <1>3, LogSame DEF GoesOn

\* A task that moves on or answers leaves the other tasks where they are.
LEMMA Moved ==
  ASSUME IInv, NEW h \in Handlers, pc[h] # "idle", NEW s \in Stages, s # "idle",
         Goto(h, s)
  PROVE  Others(h) /\ pc'[h] = s /\ job'[h] = job[h]
  BY GotoOK, Parts DEF Others

LEMMA Answered ==
  ASSUME IInv, NEW h \in Handlers, Answer(h)
  PROVE  Others(h) /\ pc'[h] = "idle"
  BY AnswerOK, Parts DEF Others

\* The handlers of list, delist and the purchases.
LEMMA TradeEffect ==
  ASSUME IInv, NEW h \in Handlers,
         \/ AddRecord(h) \/ Invoke(h) \/ DeleteRecord(h)
         \/ ApplyListing(h) \/ ApplyRankings(h)
  PROVE  HandlerEffect(h)
  <1>1. CASE AddRecord(h)
    <2>1. pc[h] = "validated" /\ UNCHANGED <<log, psbts>>
      BY <1>1 DEF AddRecord, At, clients
    <2>2. CASE history' = history \cup {job[h]} /\ Goto(h, "recorded")
      BY <2>1, <2>2, Moved, LogSame DEF Stages, Adds, HandlerEffect
    <2>3. CASE UNCHANGED history /\ Answer(h)
      BY <2>1, <2>3, Answered, LogSame DEF GoesOn, HandlerEffect
    <2> QED
      BY <1>1, <2>2, <2>3 DEF AddRecord
  <1>2. CASE Invoke(h)
    <2>1. pc[h] = "recorded" /\ UNCHANGED <<history, psbts, pollVars>>
      BY <1>2 DEF Invoke, At, tables, clients
    <2>2. ASSUME Chain!Execute(psbts[job[h].tx], job[h].tx)
          PROVE  Accepted' = Accepted \cup {job[h].tx}
      <3>1. job[h].tx \in 1 .. Len(psbts) /\ psbts \in Seq(Psbt) /\ job[h].tx \in Nat
        BY <2>1, Parts DEF Signed, ClientsOK
      <3>2. psbts[job[h].tx] \in Psbt
        BY <3>1
      <3> QED
        BY <2>1, <2>2, <3>1, <3>2, ExecuteStep, Parts
    <2>3. CASE /\ Chain!Execute(psbts[job[h].tx], job[h].tx)
               /\ \/ Goto(h, "accepted")
                  \/ "lostReply" \in Faults /\ Goto(h, "refused")
      BY <2>1, <2>2, <2>3, Moved DEF Stages, Executes, HandlerEffect
    <2>4. CASE UNCHANGED log /\ Goto(h, "refused")
      BY <2>1, <2>4, Moved, LogSame DEF Stages, GoesOn, HandlerEffect
    <2> QED
      BY <1>2, <2>3, <2>4 DEF Invoke
  <1>3. CASE DeleteRecord(h)
    <2>1. /\ pc[h] = "refused" /\ Answer(h) /\ UNCHANGED <<psbts, log>>
          /\ history' = WithoutTx(job[h].tx) \/ (MayFail /\ history' = history)
      BY <1>3 DEF DeleteRecord, At, Outcomes, clients
    <2> QED
      BY <2>1, Answered, LogSame DEF Deletes, HandlerEffect
  <1>4. CASE ApplyListing(h)
    <2>1. /\ pc[h] = "accepted" /\ Goto(h, "applied") /\ UNCHANGED <<history, psbts, log>>
      BY <1>4 DEF ApplyListing, At, clients
    <2> QED
      BY <2>1, Moved, LogSame DEF Stages, GoesOn, HandlerEffect
  <1>5. CASE ApplyRankings(h)
    <2>1. /\ pc[h] = "applied" /\ Answer(h) /\ UNCHANGED <<history, psbts, log>>
      BY <1>5 DEF ApplyRankings, At, clients
    <2> QED
      BY <2>1, Answered, LogSame DEF GoesOn, HandlerEffect
  <1> QED
    BY <1>1, <1>2, <1>3, <1>4, <1>5

\* The handler of relist.
LEMMA RelistEffect ==
  ASSUME IInv, NEW h \in Handlers,
         RelistCall(h) \/ RelistRecord(h) \/ RelistPrice(h) \/ RelistRank(h)
  PROVE  HandlerEffect(h)
  <1>1. CASE RelistCall(h)
    <2>1. pc[h] = "relistRead" /\ UNCHANGED <<history, psbts>>
      BY <1>1 DEF RelistCall, At, tables, clients
    <2>2. UNCHANGED log /\ (Goto(h, "relistDone") \/ Answer(h))
      BY <1>1 DEF RelistCall, Chain!Relist
    <2> QED
      BY <2>1, <2>2, Moved, Answered, LogSame DEF Stages, GoesOn, HandlerEffect
  <1>2. CASE RelistRecord(h)
    <2>1. /\ pc[h] = "relistDone" /\ Goto(h, "relistRecorded") /\ UNCHANGED <<psbts, log>>
          /\ \/ history' = history \cup {[job[h] EXCEPT !.at = clock + 1]}
             \/ history' = history
      BY <1>2 DEF RelistRecord, At, Outcomes
    <2> QED
      BY <2>1, Moved, LogSame DEF Stages, Relists, HandlerEffect
  <1>3. CASE RelistPrice(h)
    <2>1. /\ pc[h] = "relistRecorded" /\ Goto(h, "relistPriced")
          /\ UNCHANGED <<history, psbts, log>>
      BY <1>3 DEF RelistPrice, At, clients
    <2> QED
      BY <2>1, Moved, LogSame DEF Stages, GoesOn, HandlerEffect
  <1>4. CASE RelistRank(h)
    <2>1. /\ pc[h] = "relistPriced" /\ Answer(h) /\ UNCHANGED <<history, psbts, log>>
      BY <1>4 DEF RelistRank, At, tables, clients
    <2> QED
      BY <2>1, Answered, LogSame DEF GoesOn, HandlerEffect
  <1> QED
    BY <1>1, <1>2, <1>3, <1>4

\* The poller, the canister, a start and a step of nobody.
LEMMA OtherEffect ==
  ASSUME IInv,
         PollerStep \/ CanisterReports \/ CanisterRejects \/ Restart \/ UNCHANGED vars
  PROVE  Updates
  <1>1. CASE PollStatus \/ PollRejected
    <2>1. Poller!Handling /\ UNCHANGED <<pc, job, psbts, log>>
      BY <1>1 DEF PollStatus, PollRejected, tasks, clients
    <2>2. Poller!Current.tx \in Accepted
      BY <2>1, CurrentEvent, Parts
    <2>3. \/ history' = history
          \/ \E s \in TradeStatus : history' = WithStatus(Poller!Current.tx, s)
      BY <1>1 DEF PollStatus, PollRejected, Outcomes, TradeStatus
    <2> QED
      BY <2>1, <2>2, <2>3, LogSame DEF Updates
  <1>2. CASE RollbackListing \/ RollbackRankings \/ PollIdle \/ Restart \/ UNCHANGED vars
    <2>1. UNCHANGED <<pc, job, psbts, history, log>>
      BY <1>2 DEF RollbackListing, RollbackRankings, PollIdle, Restart, vars, tasks,
         clients, tables
    <2> QED
      BY <2>1, LogSame DEF Updates
  <1>3. CASE CanisterReports \/ CanisterRejects
    <2>1. UNCHANGED <<tables, rankings, tasks, rollback, clients, pollVars>>
      BY <1>3 DEF CanisterReports, CanisterRejects
    <2>2. Accepted' = Accepted
      <3>1. CASE CanisterReports
        <4>1. PICK n \in Names, s \in Progress : \E i \in 2 .. Len(chain[n]) :
                Chain!Report(n, i, s)
          BY <3>1 DEF CanisterReports
        <4> QED
          BY <4>1, <2>1, ReportStep, Parts
      <3>2. CASE CanisterRejects
        <4>1. PICK n \in Names : \E i \in 2 .. Len(chain[n]) : Chain!Reject(n, i)
          BY <3>2 DEF CanisterRejects
        <4> QED
          BY <4>1, <2>1, RejectStep, Parts
      <3> QED
        BY <1>3, <3>1, <3>2
    <2> QED
      BY <2>1, <2>2 DEF Updates, tables, tasks, clients
  <1> QED
    BY <1>1, <1>2, <1>3 DEF PollerStep

LEMMA TaskEffect ==
  ASSUME IInv, NEW h \in Handlers, Request(h) \/ HandlerStep(h)
  PROVE  HandlerEffect(h)
  <1>1. CASE Request(h)
    BY <1>1, ValidateEffect, RelistReadEffect DEF Request, HandlerEffect
  <1>2. CASE HandlerStep(h)
    BY <1>2, TradeEffect, RelistEffect DEF HandlerStep
  <1> QED
    BY <1>1, <1>2

LEMMA StepEffect ==
  ASSUME IInv, [Next]_vars
  PROVE  (\E h \in Handlers : HandlerEffect(h)) \/ Updates \/ Stops
  <1>1. ASSUME Crash PROVE Stops
    BY <1>1, LogSame DEF Crash, Stops, tables, clients
  <1> QED
    BY <1>1, TaskEffect, OtherEffect DEF Next

-----------------------------------------------------------------------------
(* No record without a trade is left behind.                                *)

\* A price change has no transaction.
Bare ==
  \A h \in Handlers :
    pc[h] \in {"relistRead", "relistDone", "relistRecorded", "relistPriced"} =>
      job[h].tx = NoTx

LEMMA BareStep ==
  ASSUME IInv, Bare, (\E h \in Handlers : HandlerEffect(h)) \/ Updates \/ Stops
  PROVE  Bare'
  <1>1. ASSUME NEW h \in Handlers, HandlerEffect(h) PROVE Bare'
    <2>1. Others(h)
      BY <1>1 DEF HandlerEffect, Signs, Adds, Executes, Deletes, Relists, GoesOn
    <2>2. pc'[h] \in {"relistRead", "relistDone", "relistRecorded", "relistPriced"} =>
            job'[h].tx = NoTx
      BY <1>1 DEF HandlerEffect, Signs, Adds, Executes, Deletes, Relists, GoesOn, Bare
    <2> QED
      BY <2>1, <2>2 DEF Others, Bare
  <1>2. CASE Updates
    BY <1>2 DEF Updates, Bare
  <1>3. CASE Stops
    BY <1>3 DEF Stops, Bare
  <1> QED
    BY <1>1, <1>2, <1>3

\* A record whose trade was executed, or whose request is going to clean it up.
Owned(r) ==
  \/ r.tx \in Accepted \cup {NoTx}
  \/ \E h \in Handlers : pc[h] \in {"recorded", "refused"} /\ job[h] = r

\* A handler leaves no record behind.
LEMMA OrphanHandler ==
  ASSUME IInv, Bare, NoOrphanRecords, ~ MayFail, NEW h \in Handlers, HandlerEffect(h)
  PROVE  NoOrphanRecords'
  <1>0. SUFFICES ASSUME NEW r \in history'
                 PROVE  \/ r.tx \in Accepted' \cup {NoTx}
                        \/ \E g \in Handlers :
                             pc'[g] \in {"recorded", "refused"} /\ job'[g] = r
    BY DEF NoOrphanRecords
  <1>1. Others(h) /\ Accepted \subseteq Accepted'
    BY DEF HandlerEffect, Signs, Adds, Executes, Deletes, Relists, GoesOn
  <1>2. r \in history => Owned(r)
    BY DEF NoOrphanRecords, Owned
  \* It is enough to look at task h and its record.
  <1>3. ASSUME r \in history, pc[h] \in {"recorded", "refused"} /\ job[h] = r =>
                 \/ r.tx \in Accepted'
                 \/ pc'[h] \in {"recorded", "refused"} /\ job'[h] = r
        PROVE  \/ r.tx \in Accepted' \cup {NoTx}
               \/ \E g \in Handlers :
                    pc'[g] \in {"recorded", "refused"} /\ job'[g] = r
    BY <1>1, <1>2, <1>3 DEF Owned, Others
  <1>4. CASE Signs(h) \/ GoesOn(h)
    BY <1>3, <1>4 DEF Signs, GoesOn
  <1>5. CASE Adds(h)
    BY <1>3, <1>5 DEF Adds
  <1>6. CASE Executes(h)
    BY <1>3, <1>6 DEF Executes
  <1>7. CASE Deletes(h)
    BY <1>3, <1>7 DEF Deletes, WithoutTx
  <1>8. CASE Relists(h)
    <2>1. job[h] \in TradeRecord /\ job[h].tx = NoTx
      BY <1>8, JobIs, Parts DEF Relists, Bare
    <2>2. [job[h] EXCEPT !.at = clock + 1].tx = NoTx
      BY <2>1 DEF TradeRecord
    <2> QED
      BY <1>3, <1>8, <2>2 DEF Relists
  <1> QED
    BY <1>4, <1>5, <1>6, <1>7, <1>8 DEF HandlerEffect

\* A status is written only to records of executed trades.
LEMMA OrphanUpdate ==
  ASSUME IInv, NoOrphanRecords, Updates
  PROVE  NoOrphanRecords'
  <1>0. SUFFICES ASSUME NEW r \in history'
                 PROVE  \/ r.tx \in Accepted \cup {NoTx}
                        \/ \E g \in Handlers :
                             pc[g] \in {"recorded", "refused"} /\ job[g] = r
    BY DEF NoOrphanRecords, Updates
  <1>1. CASE r \in history
    BY <1>1 DEF NoOrphanRecords
  <1>2. CASE r \notin history
    <2>1. PICK t \in Accepted, s \in TradeStatus : history' = WithStatus(t, s)
      BY <1>2 DEF Updates
    <2>2. PICK q \in history : q.tx = t /\ r = [q EXCEPT !.status = s]
      BY <1>2, <2>1 DEF WithStatus
    <2>3. q \in TradeRecord
      BY Parts DEF TablesOK
    <2>4. r.tx = t
      BY <2>2, <2>3 DEF TradeRecord
    <2> QED
      BY <2>4
  <1> QED
    BY <1>1, <1>2

\* While no request is cut short, neither by a crash nor by a failing statement,
\* a record whose trade the canister did not execute belongs to a request that
\* still runs, also when signed transactions are resubmitted and answers get
\* lost: every failed request deletes what it wrote (trading.rs list, delist,
\* buy_*: add_trade_record before invoke, del_trade_record when it fails).
THEOREM NoOrphans ==
  ASSUME "crash" \notin Faults, "outage" \notin Faults
  PROVE  Spec => []NoOrphanRecords
  <1>1. Init => IInv /\ Bare /\ NoOrphanRecords
    BY InitIInv DEF Init, Bare, NoOrphanRecords
  <1>2. (IInv /\ Bare /\ NoOrphanRecords) /\ [Next]_vars
          => (IInv /\ Bare /\ NoOrphanRecords)'
    <2> SUFFICES ASSUME IInv, Bare, NoOrphanRecords, [Next]_vars
                 PROVE  IInv' /\ Bare' /\ NoOrphanRecords'
      OBVIOUS
    <2>1. IInv' /\ Bare'
      BY StepIInv, StepEffect, BareStep
    <2>2. ~ MayFail /\ ~ Stops
      BY DEF MayFail, Stops
    <2>3. NoOrphanRecords'
      BY <2>2, StepEffect, OrphanHandler, OrphanUpdate
    <2> QED
      BY <2>1, <2>3
  <1> QED
    BY <1>1, <1>2, PTL DEF Spec

-----------------------------------------------------------------------------
(* Every executed trade has its record.                                     *)

\* The tasks whose transaction the canister has not executed.
Waits(h) == pc[h] \in {"validated", "recorded", "refused"}

Numbered ==
  /\ Accepted \subseteq 1 .. Len(psbts)
  /\ \A h \in Handlers : Waits(h) => job[h].tx \in (1 .. Len(psbts)) \ Accepted

\* No two tasks work for the same transaction.
Apart ==
  \A g \in Handlers, h \in Handlers :
    Waits(g) /\ Waits(h) /\ job[g].tx = job[h].tx => g = h

Has(t) == \E r \in history : r.tx = t

\* invoke is called when the record has been inserted.
Written == \A h \in Handlers : pc[h] = "recorded" => Has(job[h].tx)

RecordInv == Numbered /\ Apart /\ Written /\ ExecutedTradesAreRecorded

LEMMA RecordHandler ==
  ASSUME IInv, RecordInv, "resubmit" \notin Faults, "lostReply" \notin Faults,
         NEW h \in Handlers, HandlerEffect(h)
  PROVE  RecordInv'
  <1>0. Len(psbts) \in Nat /\ Others(h)
    BY Parts DEF ClientsOK, HandlerEffect, Signs, Adds, Executes, Deletes, Relists, GoesOn
  <1>1. CASE Signs(h)
    <2>1. /\ Len(psbts') = Len(psbts) + 1 /\ job'[h].tx = Len(psbts) + 1
          /\ UNCHANGED history /\ Accepted' = Accepted /\ pc'[h] = "validated"
      BY <1>1 DEF Signs
    <2>2. /\ \A t \in 1 .. Len(psbts) : t \in 1 .. Len(psbts') /\ t # Len(psbts) + 1
          /\ Len(psbts) + 1 \in 1 .. Len(psbts')
      BY <2>1, <1>0
    <2>3. Numbered'
      BY <2>1, <2>2, <1>0 DEF RecordInv, Numbered, Waits, Others
    <2>4. Apart'
      BY <2>1, <2>2, <1>0 DEF RecordInv, Numbered, Apart, Waits, Others
    <2>5. Written' /\ ExecutedTradesAreRecorded'
      BY <2>1, <1>0 DEF RecordInv, Written, Has, ExecutedTradesAreRecorded, Others
    <2> QED
      BY <2>3, <2>4, <2>5 DEF RecordInv
  <1>2. CASE Adds(h)
    <2>1. Numbered' /\ Apart'
      BY <1>0, <1>2 DEF RecordInv, Numbered, Apart, Waits, Others, Adds
    <2>2. Written' /\ ExecutedTradesAreRecorded'
      BY <1>0, <1>2 DEF RecordInv, Written, Has, ExecutedTradesAreRecorded, Others, Adds
    <2> QED
      BY <2>1, <2>2 DEF RecordInv
  <1>3. CASE Executes(h)
    <2>1. /\ pc[h] = "recorded" /\ pc'[h] = "accepted" /\ UNCHANGED <<history, psbts>>
          /\ Accepted' = Accepted \cup {job[h].tx}
      BY <1>3 DEF Executes
    <2>2. Numbered' /\ Apart'
      BY <2>1, <1>0 DEF RecordInv, Numbered, Apart, Waits, Others
    <2>3. Written' /\ ExecutedTradesAreRecorded'
      BY <2>1, <1>0 DEF RecordInv, Written, Has, ExecutedTradesAreRecorded, Others
    <2> QED
      BY <2>2, <2>3 DEF RecordInv
  <1>4. CASE Deletes(h)
    <2>1. /\ pc[h] = "refused" /\ pc'[h] = "idle" /\ UNCHANGED psbts /\ Accepted' = Accepted
          /\ job[h].tx \notin Accepted
      BY <1>4 DEF Deletes, RecordInv, Numbered, Waits
    <2>2. \A t : t # job[h].tx /\ Has(t) => Has(t)'
      BY <1>4 DEF Deletes, Has, WithoutTx
    <2>3. Numbered' /\ Apart'
      BY <2>1, <1>0 DEF RecordInv, Numbered, Apart, Waits, Others
    <2>4. \A g \in Handlers \ {h} : pc[g] = "recorded" => job[g].tx # job[h].tx
      BY <2>1 DEF RecordInv, Apart, Waits
    <2>5. Written'
      BY <2>1, <2>2, <2>4, <1>0 DEF RecordInv, Written, Others
    <2>6. ExecutedTradesAreRecorded'
      BY <2>1, <2>2 DEF RecordInv, ExecutedTradesAreRecorded, Has
    <2> QED
      BY <2>3, <2>5, <2>6 DEF RecordInv
  <1>5. CASE Relists(h)
    <2>1. history \subseteq history'
      BY <1>5 DEF Relists
    <2>2. Numbered' /\ Apart'
      BY <1>0, <1>5 DEF RecordInv, Numbered, Apart, Waits, Others, Relists
    <2>3. Written' /\ ExecutedTradesAreRecorded'
      BY <2>1, <1>0, <1>5
         DEF RecordInv, Written, Has, ExecutedTradesAreRecorded, Others, Relists
    <2> QED
      BY <2>2, <2>3 DEF RecordInv
  <1>6. CASE GoesOn(h)
    <2>1. /\ UNCHANGED <<history, psbts>> /\ Accepted' = Accepted
          /\ Waits(h)' => Waits(h) /\ job'[h] = job[h]
          /\ pc'[h] # "recorded"
      BY <1>6 DEF GoesOn, Waits
    <2>2. Numbered' /\ Apart'
      BY <2>1, <1>0 DEF RecordInv, Numbered, Apart, Waits, Others
    <2>3. Written' /\ ExecutedTradesAreRecorded'
      BY <2>1, <1>0 DEF RecordInv, Written, Has, ExecutedTradesAreRecorded, Others
    <2> QED
      BY <2>2, <2>3 DEF RecordInv
  <1> QED
    BY <1>1, <1>2, <1>3, <1>4, <1>5, <1>6 DEF HandlerEffect

\* A status update keeps the transactions of the records.
LEMMA StatusKeepsTx ==
  ASSUME IInv, NEW t, NEW s, history' = WithStatus(t, s)
  PROVE  \A x : Has(x) => Has(x)'
  <1>1. SUFFICES ASSUME NEW x, NEW r \in history, r.tx = x
                 PROVE  \E q \in history' : q.tx = x
    BY DEF Has
  <1>2. r \in TradeRecord
    BY Parts DEF TablesOK
  <1>3. [r EXCEPT !.status = s].tx = r.tx
    BY <1>2 DEF TradeRecord
  <1> QED
    BY <1>1, <1>3 DEF WithStatus

LEMMA RecordOther ==
  ASSUME IInv, RecordInv, Updates \/ Stops
  PROVE  RecordInv'
  <1>1. Accepted' = Accepted /\ psbts' = psbts
    BY DEF Updates, Stops
  <1>2. \A t : Has(t) => Has(t)'
    BY StatusKeepsTx DEF Updates, Stops, Has
  <1>3. \A h \in Handlers : pc'[h] # "idle" => pc'[h] = pc[h] /\ job'[h] = job[h]
    BY DEF Updates, Stops
  <1>4. Numbered' /\ Apart'
    BY <1>1, <1>3 DEF RecordInv, Numbered, Apart, Waits
  <1>5. Written' /\ ExecutedTradesAreRecorded'
    BY <1>1, <1>2, <1>3 DEF RecordInv, Written, ExecutedTradesAreRecorded, Has
  <1> QED
    BY <1>4, <1>5 DEF RecordInv

LEMMA RecordInit == Init => RecordInv
  <1>1. Init => log = <<>> /\ psbts = <<>> /\ pc = [h \in Handlers |-> "idle"]
    BY DEF Init, Chain!CanisterInit
  <1>2. log = <<>> => Accepted = {}
    BY DEF Accepted
  <1> QED
    BY <1>1, <1>2
       DEF RecordInv, Numbered, Apart, Waits, Written, ExecutedTradesAreRecorded

\* While no client sends a signed transaction twice and the canister's answers
\* arrive, every trade the canister executed has a record, across crashes,
\* rejections and failing statements (trading.rs, "Create trade history
\* record"): the record precedes invoke, and only a refused request deletes one,
\* the one of its own transaction.
THEOREM Recorded ==
  ASSUME "resubmit" \notin Faults, "lostReply" \notin Faults
  PROVE  Spec => []ExecutedTradesAreRecorded
  <1>1. Init => IInv /\ RecordInv
    BY InitIInv, RecordInit
  <1>2. (IInv /\ RecordInv) /\ [Next]_vars => (IInv /\ RecordInv)'
    BY StepIInv, StepEffect, RecordHandler, RecordOther
  <1>3. RecordInv => ExecutedTradesAreRecorded
    BY DEF RecordInv
  <1> QED
    BY <1>1, <1>2, <1>3, PTL DEF Spec

-----------------------------------------------------------------------------
(* The history catches up with the log of the canister.                     *)

\* The events before this position have been handled, or will be after the
\* next start: where the poller stands.
Pos ==
  CASE phase = "handling" -> cursor
    [] phase = "down" -> dbOffset
    [] OTHER -> memOffset

\* The stored offset does not run ahead of the poller.
Behind == phase # "down" => dbOffset <= memOffset

\* The log has news of the record's trade ahead of the poller, or the record
\* shows the last of it.
UpToDate(r) ==
  \E i \in 1 .. Len(log) :
    /\ log[i].tx = r.tx
    /\ \/ i > Pos
       \/ /\ log[i].status = r.status
          /\ \A j \in 1 .. Len(log) : j > i => log[j].tx # r.tx

Shown == \A r \in history : r.tx \in Accepted => UpToDate(r)

\* A record says what the log says, or that nothing is known yet.
Known ==
  \A r \in history :
    \/ r.tx = NoTx \/ r.status = "Pending"
    \/ \E i \in 1 .. Len(log) : log[i].tx = r.tx /\ log[i].status = r.status

PendingJobs == \A h \in Handlers : Waits(h) => job[h].status = "Pending"

\* The first event of a trade is the one of its execution.
PendingFirst ==
  \A i, j \in 1 .. Len(log) :
    log[j].status = "Pending" /\ log[i].tx = log[j].tx => j <= i

\* What the poller rolls back is the event in hand, and its records say so.
RolledBack ==
  rollback # NoRecord =>
    /\ Poller!Handling
    /\ Poller!Current.status = "Rejected"
    /\ \A r \in history : r.tx = Poller!Current.tx => r.status = "Rejected"

CatchInv == Shown /\ Known /\ PendingJobs /\ PendingFirst /\ RolledBack /\ Behind

\* The positions are numbers within the log.
LEMMA Places ==
  ASSUME IInv
  PROVE  /\ Len(log) \in Nat /\ dbOffset \in 0 .. Len(log) /\ memOffset \in 0 .. Len(log)
         /\ cursor \in 0 .. Len(log) /\ batchEnd \in 0 .. Len(log)
         /\ memOffset <= cursor /\ cursor <= batchEnd
         /\ Pos \in 0 .. Len(log)
  <1>1. /\ Len(log) \in Nat /\ dbOffset \in 0 .. Len(log) /\ memOffset \in 0 .. Len(log)
        /\ cursor \in 0 .. Len(log) /\ batchEnd \in 0 .. Len(log)
        /\ memOffset <= cursor /\ cursor <= batchEnd
    BY LogLength, Parts DEF PP!IInv, PP!TypeOK, PP!Ordered
  <1> QED
    BY <1>1 DEF Pos

\* The log keeps what it has, and news of a trade it already spoke of is never
\* that it is pending.
News ==
  /\ Len(log') \in Nat /\ Len(log') >= Len(log)
  /\ \A i \in 1 .. Len(log) : log'[i] = log[i]
  /\ \A j \in 1 .. Len(log') :
       j > Len(log) => \/ log'[j].status # "Pending"
                       \/ j = Len(log) + 1 /\ log'[j].tx \notin Accepted

LEMMA NoNews == ASSUME IInv, UNCHANGED log PROVE News
  BY Places DEF News

LEMMA PendingStaysFirst == ASSUME IInv, PendingFirst, News PROVE PendingFirst'
  <1>1. SUFFICES ASSUME NEW i \in 1 .. Len(log'), NEW j \in 1 .. Len(log'),
                        log'[j].status = "Pending", log'[i].tx = log'[j].tx
                 PROVE  j <= i
    BY DEF PendingFirst
  <1>2. Len(log) \in Nat /\ Len(log') \in Nat
    BY Places DEF News
  <1>3. CASE j <= Len(log)
    <2>1. CASE i <= Len(log)
      <3>1. /\ i \in 1 .. Len(log) /\ j \in 1 .. Len(log)
            /\ log'[i] = log[i] /\ log'[j] = log[j]
        BY <1>2, <1>3, <2>1 DEF News
      <3> QED
        BY <3>1, <1>1 DEF PendingFirst
    <2>2. CASE i > Len(log)
      BY <1>2, <1>3, <2>2
    <2> QED
      BY <1>2, <2>1, <2>2
  <1>4. CASE j > Len(log)
    <2>1. j = Len(log) + 1 /\ log'[j].tx \notin Accepted
      BY <1>1, <1>4 DEF News
    <2>2. ~ (i <= Len(log))
      <3> SUFFICES ASSUME i <= Len(log) PROVE FALSE
        OBVIOUS
      <3>1. i \in 1 .. Len(log) /\ log'[i] = log[i]
        BY <1>2 DEF News
      <3>2. log[i].tx \in Accepted
        BY <3>1 DEF Accepted
      <3> QED
        BY <3>1, <3>2, <2>1, <1>1
    <2> QED
      BY <2>1, <2>2, <1>2
  <1> QED
    BY <1>2, <1>3, <1>4

\* A record is up to date as long as the poller does not go ahead.
LEMMA StaysUpToDate ==
  ASSUME IInv, IInv', News, Pos' <= Pos, NEW r, r.tx \in Accepted',
         r.tx \in Accepted => UpToDate(r)
  PROVE  UpToDate(r)'
  <1>1. /\ Len(log) \in Nat /\ Len(log') \in Nat /\ Len(log') >= Len(log)
        /\ Pos \in 0 .. Len(log) /\ Pos' \in Int
    <2>1. Pos' \in Int
      <3>1. /\ Len(log') \in Nat /\ dbOffset' \in 0 .. Len(log')
            /\ memOffset' \in 0 .. Len(log') /\ cursor' \in 0 .. Len(log')
        BY LogLength, PartsNext DEF PP!IInv, PP!TypeOK, PP!Ordered, News
      <3> QED
        BY <3>1 DEF Pos
    <2> QED
      BY <2>1, Places DEF News
  <1>2. CASE \E j \in 1 .. Len(log') : j > Len(log) /\ log'[j].tx = r.tx
    <2>1. PICK j \in 1 .. Len(log') : j > Len(log) /\ log'[j].tx = r.tx
      BY <1>2
    <2>2. j > Pos'
      BY <2>1, <1>1
    <2> QED
      BY <2>1, <2>2 DEF UpToDate
  <1>3. CASE \A j \in 1 .. Len(log') : j > Len(log) => log'[j].tx # r.tx
    <2>1. PICK k \in 1 .. Len(log') : log'[k].tx = r.tx
      BY DEF Accepted
    <2>2. k \in 1 .. Len(log) /\ log'[k] = log[k]
      BY <2>1, <1>1, <1>3 DEF News
    <2>3. r.tx \in Accepted
      BY <2>1, <2>2 DEF Accepted
    <2>4. PICK i \in 1 .. Len(log) :
            /\ log[i].tx = r.tx
            /\ \/ i > Pos
               \/ /\ log[i].status = r.status
                  /\ \A j \in 1 .. Len(log) : j > i => log[j].tx # r.tx
      BY <2>3 DEF UpToDate
    <2>5. i \in 1 .. Len(log') /\ log'[i] = log[i]
      BY <1>1 DEF News
    <2>6. CASE i > Pos
      <3>1. i > Pos'
        BY <2>6, <1>1
      <3> QED
        BY <3>1, <2>4, <2>5 DEF UpToDate
    <2>7. CASE /\ log[i].status = r.status
               /\ \A j \in 1 .. Len(log) : j > i => log[j].tx # r.tx
      <3>1. ASSUME NEW j \in 1 .. Len(log'), j > i PROVE log'[j].tx # r.tx
        <4>1. CASE j > Len(log)
          BY <4>1, <1>3
        <4>2. CASE j <= Len(log)
          <5>1. j \in 1 .. Len(log) /\ log'[j] = log[j]
            BY <4>2, <1>1 DEF News
          <5> QED
            BY <5>1, <3>1, <2>7
        <4> QED
          BY <4>1, <4>2, <1>1
      <3> QED
        BY <3>1, <2>4, <2>5, <2>7 DEF UpToDate
    <2> QED
      BY <2>4, <2>6, <2>7
  <1> QED
    BY <1>2, <1>3

\* A step of anyone by which the poller does not go ahead: the history changes
\* only by records of trades that are not executed.
LEMMA CatchStays ==
  ASSUME IInv, IInv', RecordInv', CatchInv, News, Pos' <= Pos,
         \A r \in history' :
           \/ r \in history
           \/ r.tx = NoTx
           \/ r.tx \notin Accepted' /\ r.status = "Pending",
         PendingJobs', RolledBack', Behind'
  PROVE  CatchInv'
  <1>1. NoTx \notin Accepted'
    BY DEF RecordInv, Numbered, NoTx
  <1>2. Shown'
    <2>1. ASSUME NEW r \in history', r.tx \in Accepted' PROVE UpToDate(r)'
      <3>1. r \in history
        BY <1>1, <2>1
      <3> QED
        BY <3>1, <2>1, StaysUpToDate DEF CatchInv, Shown
    <2> QED
      BY <2>1 DEF Shown
  <1>3. Known'
    <2>1. Len(log) \in Nat
      BY Places
    <2>2. \A i \in 1 .. Len(log) : i \in 1 .. Len(log') /\ log'[i] = log[i]
      BY <2>1 DEF News
    <2> QED
      BY <2>2 DEF CatchInv, Known
  <1> QED
    BY <1>2, <1>3, PendingStaysFirst DEF CatchInv

\* The tasks leave the poller alone, and what they add to the log is the
\* execution of the transaction of a task that called the canister.
LEMMA HandlerLeaves ==
  ASSUME NEW h \in Handlers, Request(h) \/ HandlerStep(h)
  PROVE  /\ UNCHANGED <<rollback, pollVars>>
         /\ \/ log' = log
            \/ /\ pc[h] = "recorded"
               /\ log' = Append(log, [tx |-> job[h].tx, status |-> "Pending"])
  <1>1. CASE Request(h)
    BY <1>1 DEF Request, Validate, RelistRead
  <1>2. CASE HandlerStep(h)
    <2>1. UNCHANGED <<rollback, pollVars>>
      BY <1>2 DEF HandlerStep, AddRecord, Invoke, DeleteRecord, ApplyListing,
         ApplyRankings, RelistCall, RelistRecord, RelistPrice, RelistRank
    <2>2. ~ Invoke(h) => log' = log
      BY <1>2 DEF HandlerStep, AddRecord, DeleteRecord, ApplyListing, ApplyRankings,
         RelistCall, RelistRecord, RelistPrice, RelistRank, Chain!Relist
    <2>3. Invoke(h) =>
            \/ log' = log
            \/ /\ pc[h] = "recorded"
               /\ log' = Append(log, [tx |-> job[h].tx, status |-> "Pending"])
      BY DEF Invoke, At, Chain!Execute
    <2> QED
      BY <2>1, <2>2, <2>3
  <1> QED
    BY <1>1, <1>2

\* The event in hand stays in hand while the log grows at its end.
LEMMA HandStays ==
  ASSUME IInv, News, UNCHANGED pollVars
  PROVE  /\ Poller!Handling' <=> Poller!Handling
         /\ Poller!Handling => /\ Poller!Current' = Poller!Current
                              /\ Poller!Current.tx \in Accepted
         /\ Pos' = Pos
  <1>1. UNCHANGED <<dbOffset, phase, memOffset, cursor, batchEnd>>
    BY DEF pollVars
  <1>2. Pos' = Pos /\ (Poller!Handling' <=> Poller!Handling)
    BY <1>1 DEF Pos, Poller!Handling
  <1>3. ASSUME Poller!Handling
        PROVE  Poller!Current' = Poller!Current /\ Poller!Current.tx \in Accepted
    <2>1. cursor + 1 \in 1 .. Len(log)
      BY <1>3, Places DEF Poller!Handling
    <2> QED
      BY <1>1, <1>3, <2>1, CurrentEvent, Parts DEF News, Poller!Current
  <1> QED
    BY <1>2, <1>3

LEMMA HandlerCatch ==
  ASSUME IInv, IInv', Bare, RecordInv, RecordInv', CatchInv,
         NEW h \in Handlers, Request(h) \/ HandlerStep(h), HandlerEffect(h)
  PROVE  CatchInv'
  <1>1. UNCHANGED <<rollback, pollVars>>
    BY HandlerLeaves
  <1>2. News
    <2>1. CASE log' = log
      BY <2>1, NoNews
    <2>2. CASE /\ pc[h] = "recorded"
               /\ log' = Append(log, [tx |-> job[h].tx, status |-> "Pending"])
      <3> DEFINE e == [tx |-> job[h].tx, status |-> "Pending"]
      <3>1. e.tx \notin Accepted
        BY <2>2 DEF RecordInv, Numbered, Waits
      <3>2. log \in Seq(Chain!StatusEvent) /\ Len(log) \in Nat
        BY Places, Parts DEF PP!IInv, PP!TypeOK
      <3> HIDE DEF e
      <3>3. /\ Len(log') = Len(log) + 1 /\ log'[Len(log) + 1] = e
            /\ \A i \in 1 .. Len(log) : log'[i] = log[i]
        BY <2>2, <3>2 DEF e
      <3> QED
        BY <3>1, <3>2, <3>3 DEF News
    <2> QED
      BY <2>1, <2>2, HandlerLeaves
  <1>3. \A r \in history' :
          \/ r \in history
          \/ r.tx = NoTx
          \/ r.tx \notin Accepted' /\ r.status = "Pending"
    <2>1. CASE Adds(h)
      BY <2>1 DEF Adds, RecordInv, Numbered, CatchInv, PendingJobs, Waits
    <2>2. CASE Relists(h)
      <3>1. job[h] \in TradeRecord /\ job[h].tx = NoTx
        BY <2>2, JobIs, Parts DEF Relists, Bare
      <3>2. [job[h] EXCEPT !.at = clock + 1].tx = NoTx
        BY <3>1 DEF TradeRecord
      <3> QED
        BY <2>2, <3>2 DEF Relists
    <2>3. CASE ~ Adds(h) /\ ~ Relists(h)
      BY <2>3 DEF HandlerEffect, Signs, Executes, Deletes, GoesOn, WithoutTx
    <2> QED
      BY <2>1, <2>2, <2>3
  <1>4. PendingJobs'
    <2>1. Others(h)
      BY DEF HandlerEffect, Signs, Adds, Executes, Deletes, Relists, GoesOn
    <2>2. Waits(h)' => job'[h].status = "Pending"
      BY DEF HandlerEffect, Signs, Adds, Executes, Deletes, Relists, GoesOn, Waits,
         CatchInv, PendingJobs
    <2> QED
      BY <2>1, <2>2 DEF CatchInv, PendingJobs, Waits, Others
  <1>5. RolledBack'
    <2>1. NoTx \notin Accepted /\ Accepted \subseteq Accepted'
      BY DEF RecordInv, Numbered, NoTx, HandlerEffect, Signs, Adds, Executes, Deletes,
         Relists, GoesOn
    <2> QED
      BY <1>1, <1>2, <1>3, <2>1, HandStays DEF CatchInv, RolledBack
  <1>6. Behind' /\ Pos' <= Pos
    BY <1>1, <1>2, HandStays, Places DEF pollVars, CatchInv, Behind
  <1> QED
    BY <1>2, <1>3, <1>4, <1>5, <1>6, CatchStays

\* The canister reports a status other than pending, or rejects.
LEMMA CanisterNews ==
  ASSUME IInv, CanisterReports \/ CanisterRejects PROVE News
  <1>1. log \in Seq(Chain!StatusEvent) /\ Len(log) \in Nat
    BY Places, Parts DEF PP!IInv, PP!TypeOK
  <1>2. CASE CanisterReports
    <2>1. PICK n \in Names, s \in Progress : \E i \in 2 .. Len(chain[n]) :
            Chain!Report(n, i, s)
      BY <1>2 DEF CanisterReports
    <2>2. PICK i \in 2 .. Len(chain[n]) : Chain!Report(n, i, s)
      BY <2>1
    <2> DEFINE e == [tx |-> chain[n][i].tx, status |-> s]
    <2>3. log' = Append(log, e) /\ e.status # "Pending"
      BY <2>2, TradingAssumption DEF Chain!Report
    <2> HIDE DEF e
    <2>4. /\ Len(log') = Len(log) + 1 /\ log'[Len(log) + 1] = e
          /\ \A j \in 1 .. Len(log) : log'[j] = log[j]
      BY <2>3, <1>1
    <2>5. ASSUME NEW j \in 1 .. Len(log'), j > Len(log)
          PROVE  log'[j].status # "Pending"
      <3>1. j = Len(log) + 1
        BY <2>4, <2>5, <1>1
      <3> QED
        BY <2>3, <2>4, <3>1
    <2>6. Len(log') \in Nat /\ Len(log') >= Len(log)
      BY <2>4, <1>1
    <2> QED
      BY <2>4, <2>5, <2>6, Zenon DEF News
  <1>3. CASE CanisterRejects
    <2>1. PICK n \in Names : \E i \in 2 .. Len(chain[n]) : Chain!Reject(n, i)
      BY <1>3 DEF CanisterRejects
    <2>2. PICK i \in 2 .. Len(chain[n]) : Chain!Reject(n, i)
      BY <2>1
    <2>3. CP!Reject(n, i)
      BY <2>2 DEF Chain!Reject, CP!Reject, Chain!Published, CP!Published,
             Chain!Settled, CP!Settled, Chain!Genesis, CP!Genesis
    <2>4. /\ Len(log') \in Nat /\ Len(log') >= Len(log)
          /\ \A j \in 1 .. Len(log) : log'[j] = log[j]
          /\ \A j \in 1 .. Len(log') : j > Len(log) => log'[j].status = "Rejected"
      BY <2>3, CP!RejectGrows, Parts
    <2>5. \A j \in 1 .. Len(log') : j > Len(log) => log'[j].status # "Pending"
      BY <2>4
    <2> QED
      BY <2>4, <2>5, Zenon DEF News
  <1> QED
    BY <1>2, <1>3

LEMMA CanisterCatch ==
  ASSUME IInv, IInv', RecordInv', CatchInv, CanisterReports \/ CanisterRejects
  PROVE  CatchInv'
  <1>1. UNCHANGED <<tables, tasks, rollback, pollVars>>
    BY DEF CanisterReports, CanisterRejects
  <1>2. News
    BY CanisterNews
  <1>3. PendingJobs' /\ UNCHANGED history
    BY <1>1 DEF CatchInv, PendingJobs, Waits, tasks, tables
  <1>4. RolledBack'
    BY <1>1, <1>2, <1>3, HandStays DEF CatchInv, RolledBack
  <1>5. Behind' /\ Pos' <= Pos
    BY <1>1, <1>2, HandStays, Places DEF pollVars, CatchInv, Behind
  <1> QED
    BY <1>2, <1>3, <1>4, <1>5, CatchStays

\* A step of the poller between events, a crash and a start: the poller stands
\* where it stood, or falls back to the stored offset.
LEMMA PlaceKept ==
  ASSUME IInv, Behind, ~ MayFail,
         \/ Poller!Start \/ Poller!Fetch \/ Poller!FinishBatch
         \/ Poller!SaveOffset \/ Poller!SaveFails \/ Poller!Crash
  PROVE  Behind' /\ Pos' <= Pos
  <1> USE Places
  <1>1. CASE Poller!Start
    BY <1>1 DEF Poller!Start, Behind, Pos
  <1>2. CASE Poller!Fetch
    BY <1>2 DEF Poller!Fetch, Behind, Pos
  <1>3. CASE Poller!FinishBatch
    BY <1>3 DEF Poller!FinishBatch, Behind, Pos
  <1>4. CASE Poller!SaveOffset \/ Poller!SaveFails
    BY <1>4 DEF Poller!SaveOffset, Poller!SaveFails, Behind, Pos
  <1>5. CASE Poller!Crash
    BY <1>5 DEF Poller!Crash, Behind, Pos
  <1> QED
    BY <1>1, <1>2, <1>3, <1>4, <1>5

LEMMA IdleCatch ==
  ASSUME IInv, IInv', RecordInv', CatchInv, ~ MayFail, PollIdle \/ Crash \/ Restart
  PROVE  CatchInv'
  <1>1. UNCHANGED <<history, log>> /\ Behind' /\ Pos' <= Pos
    BY PlaceKept DEF PollIdle, Crash, Restart, tables, CatchInv
  <1>2. rollback' = NoRecord
    <2>1. CASE Crash
      BY <2>1 DEF Crash
    <2>2. CASE PollIdle \/ Restart
      <3>1. ~ Poller!Handling
        BY <2>2, Places DEF PollIdle, Restart, Poller!Start, Poller!Fetch, Poller!FinishBatch,
           Poller!SaveOffset, Poller!SaveFails, Poller!Handling
      <3> QED
        BY <2>2, <3>1 DEF CatchInv, RolledBack, PollIdle, Restart
    <2> QED
      BY <2>1, <2>2
  <1>3. PendingJobs'
    BY DEF CatchInv, PendingJobs, Waits, PollIdle, Crash, Restart, tasks
  <1>4. News /\ RolledBack'
    BY <1>1, <1>2, NoNews DEF RolledBack
  <1> QED
    BY <1>1, <1>3, <1>4, CatchStays

LEMMA StillCatch ==
  ASSUME IInv, IInv', RecordInv', CatchInv, RollbackListing \/ UNCHANGED vars
  PROVE  CatchInv'
  <1>1. /\ UNCHANGED <<history, log, tasks, pollVars>>
        /\ rollback' # NoRecord => rollback # NoRecord
    BY DEF RollbackListing, vars, tables
  <1>2. News
    BY <1>1, NoNews
  <1>3. PendingJobs' /\ RolledBack'
    BY <1>1, <1>2, HandStays DEF CatchInv, PendingJobs, Waits, tasks, RolledBack
  <1>4. Behind' /\ Pos' <= Pos
    BY <1>1, <1>2, HandStays, Places DEF pollVars, CatchInv, Behind
  <1> QED
    BY <1>1, <1>2, <1>3, <1>4, CatchStays

\* handle_status_change returned: the records of the event's trade say what the
\* event says, and one that is pending still says what the log says of it.
LEMMA HandledCatch ==
  ASSUME IInv, RecordInv, CatchInv, Poller!HandleNext, UNCHANGED <<log, tasks>>,
         rollback' = NoRecord,
         \A r \in history' :
           \/ r \in history /\ r.tx # Poller!Current.tx
           \/ r.tx = Poller!Current.tx /\ r.status = Poller!Current.status
           \/ /\ r \in history /\ r.tx = Poller!Current.tx
              /\ Poller!Current.status = "Pending"
  PROVE  CatchInv'
  <1> DEFINE k == cursor + 1
             e == Poller!Current
  <1>1. /\ k \in 1 .. Len(log) /\ e = log[k] /\ Pos = cursor /\ Pos' = k
        /\ cursor \in Nat /\ Len(log) \in Nat
    BY Places DEF Poller!HandleNext, Poller!Handling, Poller!Current, Pos
  <1>2. e.tx \in Accepted
    BY CurrentEvent, Parts DEF Poller!HandleNext
  <1>3. ASSUME NEW r \in history', r.tx \in Accepted
        PROVE  \E i \in 1 .. Len(log) :
                 /\ log[i].tx = r.tx
                 /\ \/ i > k
                    \/ /\ log[i].status = r.status
                       /\ \A j \in 1 .. Len(log) : j > i => log[j].tx # r.tx
    <2>1. CASE \E j \in 1 .. Len(log) : j > k /\ log[j].tx = r.tx
      BY <2>1
    <2>2. CASE /\ \A j \in 1 .. Len(log) : j > k => log[j].tx # r.tx
               /\ r \in history /\ r.tx # e.tx
      <3>1. PICK i \in 1 .. Len(log) :
              /\ log[i].tx = r.tx
              /\ \/ i > Pos
                 \/ /\ log[i].status = r.status
                    /\ \A j \in 1 .. Len(log) : j > i => log[j].tx # r.tx
        BY <1>3, <2>2 DEF CatchInv, Shown, UpToDate
      <3>2. i # k /\ ~ (i > k)
        BY <1>1, <2>2, <3>1
      <3>3. ~ (i > Pos)
        BY <1>1, <3>2
      <3> QED
        BY <3>1, <3>3
    <2>3. CASE /\ \A j \in 1 .. Len(log) : j > k => log[j].tx # r.tx
               /\ r.tx = e.tx
      <3>1. r.status = e.status
        <4>1. CASE r \in history /\ e.status = "Pending" /\ r.status # "Pending"
          <5>1. r.tx # NoTx
            BY <1>3 DEF RecordInv, Numbered, NoTx
          <5>2. PICK i \in 1 .. Len(log) : log[i].tx = r.tx /\ log[i].status = r.status
            BY <4>1, <5>1 DEF CatchInv, Known
          <5>3. k <= i
            BY <1>1, <2>3, <4>1, <5>2 DEF CatchInv, PendingFirst
          <5>4. i = k
            BY <1>1, <2>3, <5>2, <5>3
          <5> QED
            BY <1>1, <5>2, <5>4
        <4> QED
          BY <4>1, <2>3
      <3> QED
        BY <1>1, <2>3, <3>1
    <2> QED
      BY <2>1, <2>2, <2>3
  <1>4. Accepted' = Accepted
    BY LogSame
  <1>5. Shown'
    BY <1>1, <1>3, <1>4 DEF Shown, UpToDate
  <1>6. Known'
    BY <1>1 DEF CatchInv, Known
  <1>7. PendingJobs' /\ PendingFirst' /\ RolledBack'
    BY DEF CatchInv, PendingJobs, Waits, PendingFirst, RolledBack, tasks
  <1>8. Behind'
    BY DEF Poller!HandleNext, CatchInv, Behind
  <1> QED
    BY <1>5, <1>6, <1>7, <1>8 DEF CatchInv

\* A status update leaves the other records, and its own say what it said.
LEMMA StatusWritten ==
  ASSUME IInv, NEW t, NEW s, NEW r \in WithStatus(t, s)
  PROVE  \/ r \in history /\ r.tx # t
         \/ r.tx = t /\ r.status = s
  <1>1. PICK q \in history : r = IF q.tx = t THEN [q EXCEPT !.status = s] ELSE q
    BY DEF WithStatus
  <1>2. q \in TradeRecord
    BY Parts DEF TablesOK
  <1>3. q.tx = t => r.tx = t /\ r.status = s
    BY <1>1, <1>2 DEF TradeRecord
  <1> QED
    BY <1>1, <1>3

LEMMA PollStatusCatch ==
  ASSUME IInv, RecordInv, CatchInv, ~ MayFail, PollStatus
  PROVE  CatchInv'
  <1> DEFINE e == Poller!Current
  <1>1. /\ Poller!HandleNext /\ UNCHANGED <<log, tasks>> /\ rollback' = NoRecord
    BY DEF PollStatus
  <1>2. \/ e.status = "Pending" /\ history' = history
        \/ history' = WithStatus(e.tx, e.status)
        \/ history' = history /\ \A r \in history : r.tx # e.tx
    BY DEF PollStatus, Outcomes
  <1> HIDE DEF e
  <1>3. ASSUME NEW r \in history'
        PROVE  \/ r \in history /\ r.tx # e.tx
               \/ r.tx = e.tx /\ r.status = e.status
               \/ r \in history /\ r.tx = e.tx /\ e.status = "Pending"
    BY <1>2, <1>3, StatusWritten
  <1> QED
    BY <1>1, <1>3, HandledCatch DEF e

LEMMA RollbackCatch ==
  ASSUME IInv, RecordInv, CatchInv, RollbackRankings
  PROVE  CatchInv'
  <1>1. /\ Poller!HandleNext /\ UNCHANGED <<log, tasks, history>>
        /\ rollback # NoRecord /\ rollback' = NoRecord
    BY DEF RollbackRankings, tables
  <1>2. /\ Poller!Current.status = "Rejected"
        /\ \A r \in history : r.tx = Poller!Current.tx => r.status = "Rejected"
    BY <1>1 DEF CatchInv, RolledBack
  <1> QED
    BY <1>1, <1>2, HandledCatch

\* The records of a rejected trade say so while the event is still ahead.
LEMMA PollRejectedCatch ==
  ASSUME IInv, CatchInv, PollRejected
  PROVE  CatchInv'
  <1> DEFINE k == cursor + 1
             e == Poller!Current
  <1>1. /\ Poller!Handling /\ e.status = "Rejected" /\ history' = WithStatus(e.tx, "Rejected")
        /\ UNCHANGED <<log, tasks, pollVars>>
    BY DEF PollRejected
  <1>2. News /\ Accepted' = Accepted
    BY <1>1, NoNews, LogSame
  <1>3. Pos' = Pos /\ Poller!Handling' /\ Poller!Current' = e
    BY <1>1, <1>2, HandStays
  <1>4. k \in 1 .. Len(log) /\ e = log[k] /\ k > Pos
    BY <1>1, Places DEF Poller!Handling, Poller!Current, Pos
  <1> HIDE DEF e, k
  <1>5. ASSUME NEW r \in history'
        PROVE  \/ r \in history /\ r.tx # e.tx
               \/ r.tx = e.tx /\ r.status = "Rejected"
    BY <1>1, <1>5, StatusWritten
  <1>6. Shown'
    <2>1. ASSUME NEW r \in history', r.tx \in Accepted PROVE UpToDate(r)
      <3>1. CASE r \in history
        BY <2>1, <3>1 DEF CatchInv, Shown
      <3>2. CASE r.tx = e.tx
        BY <1>4, <3>2 DEF UpToDate
      <3> QED
        BY <1>5, <3>1, <3>2
    <2>2. \A r : UpToDate(r) => UpToDate(r)'
      BY <1>1, <1>3 DEF UpToDate
    <2> QED
      BY <1>2, <2>1, <2>2 DEF Shown
  <1>7. Known'
    <2>1. \A r \in history' :
            \/ r \in history
            \/ log[k].tx = r.tx /\ log[k].status = r.status
      BY <1>1, <1>4, <1>5
    <2> QED
      BY <1>1, <1>4, <2>1 DEF CatchInv, Known
  <1>8. RolledBack'
    BY <1>1, <1>3, <1>5 DEF RolledBack
  <1>9. PendingJobs' /\ PendingFirst' /\ Behind'
    BY <1>1 DEF CatchInv, PendingJobs, Waits, PendingFirst, Behind, tasks, pollVars
  <1> QED
    BY <1>6, <1>7, <1>8, <1>9 DEF CatchInv

LEMMA StepCatch ==
  ASSUME IInv, IInv', Bare, RecordInv, RecordInv', CatchInv, ~ MayFail, [Next]_vars
  PROVE  CatchInv'
  <1>1. ASSUME NEW h \in Handlers, Request(h) \/ HandlerStep(h) PROVE CatchInv'
    <2>1. HandlerEffect(h)
      BY <1>1, TaskEffect
    <2> QED
      BY <1>1, <2>1, HandlerCatch
  <1>2. CASE PollerStep
    BY <1>2, IdleCatch, PollStatusCatch, PollRejectedCatch, StillCatch, RollbackCatch
       DEF PollerStep
  <1>3. CASE CanisterReports \/ CanisterRejects
    BY <1>3, CanisterCatch
  <1>4. CASE Crash \/ Restart \/ UNCHANGED vars
    BY <1>4, IdleCatch, StillCatch
  <1> QED
    BY <1>1, <1>2, <1>3, <1>4 DEF Next

\* The last status of a trade is the one of its last event.
LEMMA LastIs ==
  ASSUME IInv, NEW t, NEW i \in 1 .. Len(log), log[i].tx = t,
         \A j \in 1 .. Len(log) : j > i => log[j].tx # t
  PROVE  LastStatus(t) = log[i].status
  <1> DEFINE P == {j \in 1 .. Len(log) : log[j].tx = t}
             k == CHOOSE k \in P : \A j \in P : j <= k
  <1>1. Len(log) \in Nat
    BY Places
  <1>2. i \in P /\ \A j \in P : j <= i
    BY <1>1
  <1>3. k \in P /\ \A j \in P : j <= k
    <2> HIDE DEF P
    <2> QED
      BY <1>2, Zenon
  <1>4. LastStatus(t) = log[k].status
    BY DEF LastStatus
  <1> HIDE DEF k
  <1>5. k = i
    BY <1>1, <1>2, <1>3
  <1> QED
    BY <1>4, <1>5

\* While no client sends a signed transaction twice, the canister's answers
\* arrive and the statements succeed, every record has the last status the
\* canister published of its trade whenever the poller has handled the whole
\* log, whatever crashes made it replay on the way (event.rs polling_loop,
\* handle_status_change; postgres.rs update_trade_status overwrites the status
\* without looking at it).
THEOREM CatchUp ==
  ASSUME "resubmit" \notin Faults, "lostReply" \notin Faults, "outage" \notin Faults
  PROVE  Spec => []StatusesCatchUp
  <1>1. Init => IInv /\ Bare /\ RecordInv /\ CatchInv
    <2>1. Init => /\ log = <<>> /\ history = {} /\ rollback = NoRecord
                  /\ phase = "down" /\ pc = [h \in Handlers |-> "idle"]
      BY DEF Init, Chain!CanisterInit, Poller!PollInit
    <2>2. Init => CatchInv
      BY <2>1 DEF CatchInv, Shown, Known, PendingJobs, Waits, PendingFirst, RolledBack,
         Behind
    <2>3. Init => Bare
      BY <2>1 DEF Bare
    <2> QED
      BY <2>2, <2>3, InitIInv, RecordInit
  <1>2. ~ MayFail
    BY DEF MayFail
  <1>3. (IInv /\ Bare /\ RecordInv /\ CatchInv) /\ [Next]_vars
          => (IInv /\ Bare /\ RecordInv /\ CatchInv)'
    <2> SUFFICES ASSUME IInv, Bare, RecordInv, CatchInv, [Next]_vars
                 PROVE  IInv' /\ Bare' /\ RecordInv' /\ CatchInv'
      OBVIOUS
    <2>1. IInv' /\ Bare' /\ RecordInv'
      BY StepIInv, StepEffect, BareStep, RecordHandler, RecordOther
    <2> QED
      BY <1>2, <2>1, StepCatch
  <1>4. IInv /\ CatchInv => StatusesCatchUp
    <2> SUFFICES ASSUME IInv, CatchInv, phase = "sleeping", memOffset = Len(log),
                        NEW r \in history, r.tx \in Accepted
                 PROVE  r.status = LastStatus(r.tx)
      BY DEF StatusesCatchUp
    <2>1. PICK i \in 1 .. Len(log) :
            /\ log[i].tx = r.tx
            /\ \/ i > Pos
               \/ /\ log[i].status = r.status
                  /\ \A j \in 1 .. Len(log) : j > i => log[j].tx # r.tx
      BY DEF CatchInv, Shown, UpToDate
    <2>2. ~ (i > Pos)
      BY Places DEF Pos
    <2> QED
      BY <2>1, <2>2, LastIs
  <1> QED
    BY <1>1, <1>3, <1>4, PTL DEF Spec

-----------------------------------------------------------------------------
(* What rows and credits show of the executed trades.                       *)

\* A record tells of its transaction what the user signed.
Told(r) ==
  LET p == psbts[r.tx] IN
    /\ r.tx \in 1 .. Len(psbts)
    /\ r.name = p.name /\ r.who = p.who /\ r.action = p.action

Trading(h) == pc[h] \in {"validated", "recorded", "refused", "accepted", "applied"}

AllTold ==
  /\ \A h \in Handlers : Trading(h) => Told(job[h])
  /\ \A r \in history : r.tx = NoTx \/ Told(r)
AcceptedSigned == Accepted \subseteq 1 .. Len(psbts)
RollbackTold ==
  rollback # NoRecord =>
    Told(rollback.record) /\ Chain!Published(rollback.record.tx, "Rejected")

\* What the row of a name shows.
RowTold(row, n) ==
  LET p == psbts[row.tx] IN
    /\ row.tx \in Accepted
    /\ p.name = n
    /\ \/ p.action \in {"List", "BuyAndRelist"} /\ p.who = row.seller
       \/ Chain!Published(row.tx, "Rejected")

ToldInv == Bare /\ AllTold /\ AcceptedSigned /\ RollbackTold /\ OnlyExecutedTradesShow

\* What was signed and what was published stays so.
Onward ==
  /\ Len(psbts) \in Nat /\ Len(psbts') \in Nat /\ Len(psbts') >= Len(psbts)
  /\ \A t \in 1 .. Len(psbts) : psbts'[t] = psbts[t]
  /\ Len(log') >= Len(log) /\ \A i \in 1 .. Len(log) : log'[i] = log[i]
  /\ Accepted \subseteq Accepted'
  /\ \A t, st : Chain!Published(t, st) => Chain!Published(t, st)'

LEMMA ToldOn ==
  ASSUME Onward, NEW r, Told(r) PROVE Told(r)'
  <1>1. r.tx \in 1 .. Len(psbts') /\ psbts'[r.tx] = psbts[r.tx]
    BY DEF Onward, Told
  <1> QED
    BY <1>1 DEF Told

LEMMA LogGrows ==
  ASSUME Len(log) \in Nat, Len(log') \in Nat, Len(log') >= Len(log),
         \A i \in 1 .. Len(log) : log'[i] = log[i]
  PROVE  /\ Accepted \subseteq Accepted'
         /\ \A t, st : Chain!Published(t, st) => Chain!Published(t, st)'
  <1>1. \A i \in 1 .. Len(log) : i \in 1 .. Len(log') /\ log'[i] = log[i]
    OBVIOUS
  <1>2. Accepted \subseteq Accepted'
    BY <1>1 DEF Accepted
  <1>3. \A t, st : Chain!Published(t, st) => Chain!Published(t, st)'
    BY <1>1 DEF Chain!Published
  <1> QED
    BY <1>2, <1>3

\* What users sign is well formed.
LEMMA SignedType ==
  ASSUME IInv, NEW u \in Users, NEW n \in Names, NEW a \in Actions,
         NEW p \in Signable(u, n, a)
  PROVE  p \in Psbt /\ p.name = n /\ p.who = u /\ p.action = a
  <1>1. Len(psbts) \in Nat
    BY Parts DEF ClientsOK
  <1>2. 0 .. Len(psbts) \subseteq Nat /\ Prices \cup {0} \subseteq Nat
    BY <1>1, TradingAssumption
  <1>3. Signable(u, n, a) \subseteq
          [name : {n}, who : {u}, action : {a}, input : 0 .. Len(psbts),
           pay : Prices \cup {0}, price : Prices \cup {0}]
    BY DEF Signable
  <1> QED
    BY <1>2, <1>3, TradingAssumption DEF Psbt

\* Every step goes onward, and a request is told by the transaction it is made of.
LEMMA ValidateOnward ==
  ASSUME IInv, NEW h \in Handlers, NEW u \in Users, NEW n \in Names,
         NEW a \in Actions \ {"Relist"}, Validate(h, u, n, a)
  PROVE  Onward /\ Told(job[h])'
  <1>1. PICK p \in Signable(u, n, a) : \E base \in BasePrices(p) :
          \/ /\ psbts' = Append(psbts, p)
             /\ job' = [job EXCEPT ![h] = NewRecord(p, base, Len(psbts) + 1)]
          \/ /\ \E t \in 1 .. Len(psbts) :
                  psbts[t] = p /\ job' = [job EXCEPT ![h] = NewRecord(p, base, t)]
             /\ UNCHANGED psbts
    BY DEF Validate
  <1>2. PICK base \in BasePrices(p) :
          \/ /\ psbts' = Append(psbts, p)
             /\ job' = [job EXCEPT ![h] = NewRecord(p, base, Len(psbts) + 1)]
          \/ /\ \E t \in 1 .. Len(psbts) :
                  psbts[t] = p /\ job' = [job EXCEPT ![h] = NewRecord(p, base, t)]
             /\ UNCHANGED psbts
    BY <1>1
  <1>3. p \in Psbt /\ psbts \in Seq(Psbt) /\ Len(psbts) \in Nat /\ UNCHANGED log
    BY SignedType, Parts DEF ClientsOK, Validate
  <1>4. PICK t \in 1 .. Len(psbts') :
          /\ job' = [job EXCEPT ![h] = NewRecord(p, base, t)]
          /\ Len(psbts') \in Nat /\ Len(psbts') >= Len(psbts)
          /\ \A i \in 1 .. Len(psbts) : psbts'[i] = psbts[i]
          /\ psbts'[t] = p
    <2>1. CASE /\ psbts' = Append(psbts, p)
               /\ job' = [job EXCEPT ![h] = NewRecord(p, base, Len(psbts) + 1)]
      <3>1. /\ Len(psbts') = Len(psbts) + 1 /\ psbts'[Len(psbts) + 1] = p
            /\ \A i \in 1 .. Len(psbts) : psbts'[i] = psbts[i]
        BY <2>1, <1>3
      <3>2. /\ Len(psbts) + 1 \in 1 .. Len(psbts') /\ Len(psbts') \in Nat
            /\ Len(psbts') >= Len(psbts)
        BY <3>1, <1>3
      <3> QED
        BY <2>1, <3>1, <3>2
    <2>2. CASE /\ \E t \in 1 .. Len(psbts) :
                    psbts[t] = p /\ job' = [job EXCEPT ![h] = NewRecord(p, base, t)]
               /\ UNCHANGED psbts
      <3>1. PICK t \in 1 .. Len(psbts) :
              psbts[t] = p /\ job' = [job EXCEPT ![h] = NewRecord(p, base, t)]
        BY <2>2
      <3>2. /\ t \in 1 .. Len(psbts') /\ psbts'[t] = p
            /\ Len(psbts') \in Nat /\ Len(psbts') >= Len(psbts)
            /\ \A i \in 1 .. Len(psbts) : psbts'[i] = psbts[i]
        BY <2>2, <3>1, <1>3
      <3> QED
        BY <3>1, <3>2
    <2> QED
      BY <1>2, <2>1, <2>2
  <1>5. job'[h] = NewRecord(p, base, t)
    BY <1>4, Parts DEF TasksOK
  <1>6. Told(job[h])'
    BY <1>4, <1>5 DEF Told, NewRecord
  <1>7. Onward
    BY <1>3, <1>4 DEF Onward, Accepted, Chain!Published
  <1> QED
    BY <1>6, <1>7

LEMMA InvokeOnward ==
  ASSUME IInv, NEW h \in Handlers, Invoke(h) PROVE Onward
  <1>1. /\ UNCHANGED psbts /\ Len(psbts) \in Nat
        /\ log \in Seq(Chain!StatusEvent) /\ Len(log) \in Nat
    BY Places, Parts DEF Invoke, clients, ClientsOK, PP!IInv, PP!TypeOK
  <1>2. \/ UNCHANGED log
        \/ log' = Append(log, [tx |-> job[h].tx, status |-> "Pending"])
    BY DEF Invoke, Chain!Execute
  <1>3. /\ Len(log') \in Nat /\ Len(log') >= Len(log)
        /\ \A i \in 1 .. Len(log) : log'[i] = log[i]
    BY <1>1, <1>2
  <1> QED
    BY <1>1, <1>3, LogGrows DEF Onward

LEMMA StepOnward ==
  ASSUME IInv, [Next]_vars PROVE Onward
  <1>1. ASSUME UNCHANGED <<psbts, log>> PROVE Onward
    BY <1>1, Places, Parts DEF Onward, ClientsOK, Accepted, Chain!Published
  <1>2. ASSUME NEW h \in Handlers, Request(h) PROVE Onward
    BY <1>1, <1>2, ValidateOnward DEF Request, RelistRead
  <1>3. ASSUME NEW h \in Handlers, HandlerStep(h) PROVE Onward
    BY <1>1, <1>3, InvokeOnward DEF HandlerStep, AddRecord, DeleteRecord, ApplyListing,
       ApplyRankings, RelistCall, RelistRecord, RelistPrice, RelistRank, clients,
       Chain!Relist
  <1>4. CASE CanisterReports \/ CanisterRejects
    <2>1. News
      BY <1>4, CanisterNews
    <2>2. UNCHANGED psbts /\ Len(psbts) \in Nat
      BY <1>4, Parts DEF CanisterReports, CanisterRejects, clients, ClientsOK
    <2>3. Len(log) \in Nat
      BY Places
    <2> QED
      BY <2>1, <2>2, <2>3, LogGrows DEF News, Onward
  <1>5. CASE PollerStep \/ Crash \/ Restart \/ UNCHANGED vars
    BY <1>1, <1>5 DEF PollerStep, PollStatus, PollRejected, RollbackListing,
       RollbackRankings, PollIdle, Crash, Restart, vars, clients
  <1> QED
    BY <1>2, <1>3, <1>4, <1>5 DEF Next

\* The records of the tasks and of the history.
LEMMA AllToldStep ==
  ASSUME IInv, IInv', ToldInv, [Next]_vars, Onward
  PROVE  AllTold' /\ AcceptedSigned' /\ Bare'
  <1>1. Bare'
    BY StepEffect, BareStep DEF ToldInv
  <1>2. \A r : Told(r) => Told(r)'
    BY ToldOn
  <1>3. \A t \in 1 .. Len(psbts) : t \in 1 .. Len(psbts')
    BY DEF Onward
  <1>4. ASSUME NEW h \in Handlers, HandlerEffect(h), Signs(h) => Told(job[h])'
        PROVE  AllTold' /\ AcceptedSigned'
    <2>1. Others(h)
      BY <1>4 DEF HandlerEffect, Signs, Adds, Executes, Deletes, Relists, GoesOn
    <2>2. Trading(h)' => Told(job[h])'
      <3>1. CASE Signs(h)
        BY <1>4, <3>1
      <3>2. CASE ~ Signs(h)
        <4>1. Trading(h)' => Trading(h) /\ job'[h] = job[h]
          BY <1>4, <3>2 DEF HandlerEffect, Adds, Executes, Deletes, Relists, GoesOn,
             Trading
        <4>2. ASSUME Trading(h)' PROVE Told(job[h])'
          <5>1. PICK r : r = job[h]
            OBVIOUS
          <5>2. Told(r) /\ job'[h] = r
            BY <4>1, <4>2, <5>1 DEF ToldInv, AllTold
          <5>3. Told(r)'
            BY <5>2, <1>2
          <5> QED
            BY <5>2, <5>3 DEF Told
        <4> QED
          BY <4>2
      <3> QED
        BY <3>1, <3>2
    <2>3. ASSUME NEW g \in Handlers \ {h}, Trading(g)' PROVE Told(job[g])'
      <3>1. PICK r : r = job[g]
        OBVIOUS
      <3>2. Told(r) /\ job'[g] = r
        BY <2>1, <2>3, <3>1 DEF ToldInv, AllTold, Trading, Others
      <3>3. Told(r)'
        BY <3>2, <1>2
      <3> QED
        BY <3>2, <3>3 DEF Told
    <2>4. \A r \in history' :
            \/ r \in history
            \/ r = job[h] /\ pc[h] = "validated"
            \/ r.tx = NoTx
      <3>1. CASE Relists(h)
        <4>1. job[h] \in TradeRecord /\ job[h].tx = NoTx
          BY <3>1, JobIs, Parts DEF Relists, ToldInv, Bare
        <4>2. [job[h] EXCEPT !.at = clock + 1].tx = NoTx
          BY <4>1 DEF TradeRecord
        <4> QED
          BY <3>1, <4>2 DEF Relists
      <3>2. CASE ~ Relists(h)
        BY <1>4, <3>2 DEF HandlerEffect, Signs, Adds, Executes, Deletes, GoesOn, WithoutTx
      <3> QED
        BY <3>1, <3>2
    <2>5. ASSUME NEW r \in history' PROVE r.tx = NoTx \/ Told(r)'
      BY <2>4, <2>5, <1>2 DEF ToldInv, AllTold, Trading
    <2>6. AcceptedSigned'
      <3>1. Accepted' \subseteq Accepted \cup {job[h].tx}
            /\ (Accepted' = Accepted \/ Trading(h))
        BY <1>4 DEF HandlerEffect, Signs, Adds, Executes, Deletes, Relists, GoesOn, Trading
      <3>2. Trading(h) => job[h].tx \in 1 .. Len(psbts)
        BY DEF ToldInv, AllTold, Told
      <3> QED
        BY <1>3, <3>1, <3>2 DEF ToldInv, AcceptedSigned
    <2> QED
      BY <2>2, <2>3, <2>5, <2>6 DEF AllTold
  <1>5. CASE Updates
    <2>1. Accepted' = Accepted /\ UNCHANGED <<pc, job, psbts>>
      BY <1>5 DEF Updates
    <2>2. \A r : Told(r)' <=> Told(r)
      BY <2>1 DEF Told
    <2>3. ASSUME NEW t, NEW st \in TradeStatus, history' = WithStatus(t, st),
                 NEW r \in history'
          PROVE  r.tx = NoTx \/ Told(r)'
      <3>1. PICK q \in history : r = q \/ r = [q EXCEPT !.status = st]
        BY <2>3 DEF WithStatus
      <3>2. /\ r.tx = q.tx /\ r.name = q.name /\ r.who = q.who /\ r.action = q.action
        BY <3>1, Parts DEF TablesOK, TradeRecord
      <3>3. q.tx = NoTx \/ Told(q)
        BY DEF ToldInv, AllTold
      <3> QED
        BY <3>2, <3>3, <2>2 DEF Told
    <2>4. \A r \in history' : r.tx = NoTx \/ Told(r)'
      BY <1>5, <2>2, <2>3 DEF Updates, ToldInv, AllTold
    <2>5. \A h \in Handlers : Trading(h)' => Told(job[h])'
      BY <2>1 DEF ToldInv, AllTold, Trading, Told
    <2>6. AcceptedSigned'
      BY <2>1 DEF ToldInv, AcceptedSigned
    <2> QED
      BY <1>1, <2>4, <2>5, <2>6 DEF AllTold
  <1>6. CASE Stops
    <2>1. \A h \in Handlers : ~ Trading(h)'
      BY <1>6 DEF Stops, Trading
    <2>2. \A r \in history' : r.tx = NoTx \/ Told(r)'
      BY <1>2, <1>6 DEF Stops, ToldInv, AllTold
    <2>3. AcceptedSigned'
      BY <1>6 DEF Stops, ToldInv, AcceptedSigned
    <2> QED
      BY <1>1, <2>1, <2>2, <2>3 DEF AllTold
  <1>7. ASSUME NEW h \in Handlers, Request(h) \/ HandlerStep(h)
        PROVE  AllTold' /\ AcceptedSigned'
    <2>1. HandlerEffect(h)
      BY <1>7, TaskEffect
    <2>2. Signs(h) => Told(job[h])'
      <3>1. CASE \E u \in Users, n \in Names, a \in Actions \ {"Relist"} : Validate(h, u, n, a)
        BY <3>1, ValidateOnward
      <3>2. CASE ~ \E u \in Users, n \in Names, a \in Actions \ {"Relist"} : Validate(h, u, n, a)
        <4>1. ~ (pc[h] = "idle" /\ pc'[h] = "validated")
          <5>1. ASSUME NEW u \in Users, NEW n \in Names, RelistRead(h, u, n)
                PROVE  pc'[h] = "relistRead"
            BY <5>1, Parts DEF RelistRead, TasksOK
          <5>2. HandlerStep(h) => pc[h] # "idle"
            BY DEF HandlerStep, AddRecord, Invoke, DeleteRecord, ApplyListing,
               ApplyRankings, RelistCall, RelistRecord, RelistPrice, RelistRank, At
          <5> QED
            BY <1>7, <3>2, <5>1, <5>2 DEF Request
        <4> QED
          BY <4>1 DEF Signs
      <3> QED
        BY <3>1, <3>2
    <2> QED
      BY <1>4, <2>1, <2>2
  <1>8. ASSUME ~ \E h \in Handlers : Request(h) \/ HandlerStep(h)
        PROVE  Updates \/ Stops
    <2>1. ASSUME Crash PROVE Stops
      BY <2>1, LogSame DEF Crash, Stops, tables, clients
    <2> QED
      BY <1>8, <2>1, OtherEffect DEF Next
  <1> QED
    BY <1>1, <1>5, <1>6, <1>7, <1>8

\* A row that a step leaves or reprices, and one that it writes for a record.
Kept(n) ==
  Listed(n) /\ listings'[n].seller = listings[n].seller /\ listings'[n].tx = listings[n].tx
WrittenFor(n, r) ==
  /\ r.name = n /\ r.tx \in Accepted /\ Told(r) /\ listings'[n].tx = r.tx
  /\ \/ listings'[n].seller = r.who /\ r.action \in {"List", "BuyAndRelist"}
     \/ Chain!Published(r.tx, "Rejected")
RowSource == \A n \in Names : Listed(n)' => Kept(n) \/ \E r : WrittenFor(n, r)

LEMMA SourceSame == ASSUME UNCHANGED listings PROVE RowSource
  BY DEF RowSource, Kept, Listed

\* A statement that writes the row of the record's name writes no other.
LEMMA SourceWritten ==
  ASSUME IInv, NEW r \in TradeRecord, NEW row \in Listing, row.tx = r.tx,
         r.tx \in Accepted, Told(r),
         \/ row.seller = r.who /\ r.action \in {"List", "BuyAndRelist"}
         \/ Chain!Published(r.tx, "Rejected"),
         listings' \in {listings, Inserted(r.name, row), Updated(r.name, row)}
  PROVE  RowSource
  <1>1. PICK m \in Names : m = r.name
    BY DEF TradeRecord
  <1>2. listings \in [Names -> Listing \cup {NoListing}]
    BY Parts DEF TablesOK
  <1>3. listings' \in {listings, [listings EXCEPT ![m] = row]}
    BY <1>1 DEF Inserted, Updated
  <1>4. ASSUME NEW n \in Names
        PROVE  listings'[n] = listings[n] \/ (n = m /\ listings'[n] = row)
    <2>1. CASE listings' = listings
      BY <2>1
    <2>2. CASE listings' = [listings EXCEPT ![m] = row] /\ n = m
      BY <1>2, <2>2
    <2>3. CASE listings' = [listings EXCEPT ![m] = row] /\ n # m
      BY <1>2, <2>3
    <2> QED
      BY <1>3, <2>1, <2>2, <2>3
  <1>5. ASSUME listings'[m] = row PROVE WrittenFor(m, r)
    BY <1>1, <1>5 DEF WrittenFor
  <1> QED
    BY <1>4, <1>5 DEF RowSource, Kept, Listed

LEMMA ApplySource ==
  ASSUME IInv, ToldInv, NEW h \in Handlers, ApplyListing(h) PROVE RowSource
  <1>1. PICK r : r = job[h]
    OBVIOUS
  <1>2. /\ r \in TradeRecord /\ r.tx \in Accepted /\ Told(r)
        /\ listings' \in {listings, ListingsAfter(r)}
    BY <1>1, JobIs, Parts DEF ApplyListing, At, Founded, Outcomes, ToldInv, AllTold, Trading
  <1> DEFINE row == [seller |-> r.who, price |-> r.price, tx |-> r.tx]
  <1>3. row \in Listing /\ row.tx = r.tx /\ row.seller = r.who
    BY <1>2 DEF TradeRecord, Listing
  <1>4. CASE r.action \in {"List", "BuyAndRelist"}
    <2>1. listings' \in {listings, Inserted(r.name, row), Updated(r.name, row)}
      BY <1>2, <1>4 DEF ListingsAfter
    <2> HIDE DEF row
    <2> QED
      BY <1>2, <1>3, <1>4, <2>1, SourceWritten
  <1>5. CASE r.action \notin {"List", "BuyAndRelist"}
    <2>1. listings' \in {listings, Removed(r.name)}
      BY <1>2, <1>5 DEF ListingsAfter
    <2>2. \A n \in Names : listings'[n] \in {listings[n], NoListing}
      BY <2>1, Parts DEF Removed, TablesOK
    <2> QED
      BY <2>2 DEF RowSource, Kept, Listed
  <1> QED
    BY <1>4, <1>5

LEMMA RollbackSource ==
  ASSUME IInv, ToldInv, RollbackListing PROVE RowSource
  <1>1. PICK r : r = rollback.record
    OBVIOUS
  <1>2. /\ r \in TradeRecord /\ r.tx \in Accepted /\ Told(r)
        /\ Chain!Published(r.tx, "Rejected")
        /\ listings' \in {listings, ListingsRolledBack(r)}
    BY <1>1, Parts DEF RollbackListing, RollbackOK, Founded, Outcomes, ToldInv, RollbackTold
  <1> DEFINE row == [seller |-> r.seller, price |-> r.prev, tx |-> r.tx]
  <1>3. row \in Listing /\ row.tx = r.tx
    BY <1>2 DEF TradeRecord, Listing
  <1>4. CASE r.action # "List"
    <2>1. listings' \in {listings, Inserted(r.name, row), Updated(r.name, row)}
      BY <1>2, <1>4 DEF ListingsRolledBack
    <2> HIDE DEF row
    <2> QED
      BY <1>2, <1>3, <2>1, SourceWritten
  <1>5. CASE r.action = "List"
    <2>1. listings' \in {listings, Removed(r.name)}
      BY <1>2, <1>5 DEF ListingsRolledBack
    <2>2. \A n \in Names : listings'[n] \in {listings[n], NoListing}
      BY <2>1, Parts DEF Removed, TablesOK
    <2> QED
      BY <2>2 DEF RowSource, Kept, Listed
  <1> QED
    BY <1>4, <1>5

LEMMA RepriceSource ==
  ASSUME IInv, NEW h \in Handlers, RelistPrice(h) PROVE RowSource
  <1> DEFINE n == job[h].name
             row == [listings[n] EXCEPT !.price = job[h].price]
  <1>1. /\ n \in Names
        /\ listings' = listings \/ (Listed(n) /\ listings' = [listings EXCEPT ![n] = row])
    BY JobIs, Parts DEF RelistPrice, At, Outcomes, Updated, TradeRecord
  <1>2. Listed(n) => row.seller = listings[n].seller /\ row.tx = listings[n].tx
    BY <1>1, RowType DEF IInv, Listing
  <1> HIDE DEF row
  <1>3. ASSUME NEW m \in Names, Listed(m)' PROVE Kept(m)
    <2>1. CASE listings' = listings
      BY <1>3, <2>1 DEF Kept, Listed
    <2>2. CASE m = n /\ Listed(n) /\ listings' = [listings EXCEPT ![n] = row]
      <3>1. listings'[m] = row
        BY <2>2, Parts DEF TablesOK
      <3> QED
        BY <1>2, <2>2, <3>1 DEF Kept
    <2>3. CASE m # n /\ listings' = [listings EXCEPT ![n] = row]
      <3>1. listings'[m] = listings[m]
        BY <2>3, Parts DEF TablesOK
      <3> QED
        BY <1>3, <3>1 DEF Kept, Listed
    <2> QED
      BY <1>1, <2>1, <2>2, <2>3
  <1> QED
    BY <1>3 DEF RowSource

LEMMA StepSource == ASSUME IInv, ToldInv, [Next]_vars PROVE RowSource
  <1>1. ASSUME NEW h \in Handlers, Request(h) PROVE RowSource
    BY <1>1, SourceSame DEF Request, Validate, RelistRead, tables
  <1>2. ASSUME NEW h \in Handlers, HandlerStep(h) PROVE RowSource
    <2>1. CASE ApplyListing(h)
      BY <2>1, ApplySource
    <2>2. CASE RelistPrice(h)
      BY <2>2, RepriceSource
    <2>3. CASE UNCHANGED listings
      BY <2>3, SourceSame
    <2> QED
      BY <1>2, <2>1, <2>2, <2>3 DEF HandlerStep, AddRecord, Invoke, DeleteRecord,
         ApplyRankings, RelistCall, RelistRecord, RelistRank, tables
  <1>3. CASE PollerStep
    <2>1. CASE RollbackListing
      BY <2>1, RollbackSource
    <2>2. CASE UNCHANGED listings
      BY <2>2, SourceSame
    <2> QED
      BY <1>3, <2>1, <2>2 DEF PollerStep, PollStatus, PollRejected, RollbackRankings,
         PollIdle, tables
  <1>4. CASE CanisterReports \/ CanisterRejects \/ Crash \/ Restart \/ UNCHANGED vars
    BY <1>4, SourceSame DEF CanisterReports, CanisterRejects, Crash, Restart, vars, tables
  <1> QED
    BY <1>1, <1>2, <1>3, <1>4 DEF Next

\* Credits are given for executed purchases only.
LEMMA StepCredits ==
  ASSUME IInv, ToldInv, [Next]_vars
  PROVE  \A t \in credited' : t \in credited \/ (t \in Accepted /\ psbts[t].action \in Buys)
  <1>1. ASSUME NEW h \in Handlers, ApplyRankings(h)
        PROVE  \A t \in credited' :
                 t \in credited \/ (t \in Accepted /\ psbts[t].action \in Buys)
    <2>1. /\ job[h].tx \in Accepted /\ Told(job[h])
          /\ \/ credited' = credited
             \/ job[h].action \in Buys /\ credited' = credited \cup {job[h].tx}
      BY <1>1, Parts DEF ApplyRankings, At, Founded, ToldInv, AllTold, Trading, CreditSeller,
         Outcomes
    <2> QED
      BY <2>1 DEF Told
  <1>2. CASE UNCHANGED credited
    BY <1>2
  <1> QED
    BY <1>1, <1>2 DEF Next, Request, HandlerStep, PollerStep, Validate, RelistRead,
       AddRecord, Invoke, DeleteRecord, ApplyListing, RelistCall, RelistRecord,
       RelistPrice, RelistRank, PollIdle, PollStatus, PollRejected, RollbackListing,
       RollbackRankings, CanisterReports, CanisterRejects, Crash, Restart, vars, tables

LEMMA ShownStep ==
  ASSUME IInv, ToldInv, Onward, [Next]_vars PROVE OnlyExecutedTradesShow'
  <1>1. RowSource
    BY StepSource
  <1>2. \A t \in Accepted : psbts'[t] = psbts[t] /\ t \in Accepted'
    BY DEF ToldInv, AcceptedSigned, Onward
  <1>3. ASSUME NEW t \in credited' PROVE t \in Accepted' /\ psbts'[t].action \in Buys
    <2>1. t \in Accepted /\ psbts[t].action \in Buys
      BY <1>3, StepCredits DEF ToldInv, OnlyExecutedTradesShow
    <2> QED
      BY <1>2, <2>1
  <1>4. ASSUME NEW n \in Names, Listed(n)' PROVE RowTold(listings[n], n)'
    <2>1. PICK row : row = listings'[n]
      OBVIOUS
    <2>2. RowTold(row, n)
      <3>1. CASE Kept(n)
        BY <2>1, <3>1 DEF Kept, ToldInv, OnlyExecutedTradesShow, RowTold
      <3>2. ASSUME NEW r, WrittenFor(n, r) PROVE RowTold(row, n)
        BY <2>1, <3>2 DEF WrittenFor, Told, RowTold
      <3> QED
        BY <1>1, <1>4, <3>1, <3>2 DEF RowSource
    <2>3. RowTold(row, n)'
      BY <1>2, <2>2 DEF RowTold, Onward
    <2> QED
      BY <2>1, <2>3 DEF RowTold
  <1> QED
    BY <1>3, <1>4 DEF OnlyExecutedTradesShow, RowTold

\* What is rolled back was published as rejected.
LEMMA RollbackToldStep ==
  ASSUME IInv, ToldInv, Onward, AllTold', AcceptedSigned', [Next]_vars
  PROVE  RollbackTold'
  <1>1. CASE UNCHANGED rollback
    <2>1. ASSUME rollback # NoRecord
          PROVE  Told(rollback.record)' /\ Chain!Published(rollback.record.tx, "Rejected")'
      <3>1. PICK r : r = rollback.record
        OBVIOUS
      <3>2. Told(r) /\ Chain!Published(r.tx, "Rejected")
        BY <2>1, <3>1 DEF ToldInv, RollbackTold
      <3>3. Told(r)' /\ Chain!Published(r.tx, "Rejected")'
        BY <3>2, ToldOn DEF Onward
      <3> QED
        BY <1>1, <3>1, <3>3 DEF Told, Chain!Published
    <2> QED
      BY <1>1, <2>1 DEF RollbackTold
  <1>2. CASE PollRejected
    <2>1. PICK e : e = Poller!Current
      OBVIOUS
    <2>2. /\ Poller!Handling /\ e.status = "Rejected" /\ UNCHANGED log
          /\ \E r \in history' :
               r.tx = e.tx /\ rollback' = [record |-> r, step |-> "listing"]
      BY <1>2, <2>1 DEF PollRejected
    <2>3. PICK r \in history' :
            r.tx = e.tx /\ rollback' = [record |-> r, step |-> "listing"]
      BY <2>2
    <2>4. e \in Chain!StatusEvent /\ e.tx \in Accepted
      BY <2>1, <2>2, CurrentEvent, Parts
    <2>5. Chain!Published(e.tx, "Rejected")
      <3>1. cursor + 1 \in 1 .. Len(log) /\ e = log[cursor + 1]
        BY <2>1, <2>2, Places DEF Poller!Handling, Poller!Current
      <3>2. e = [tx |-> e.tx, status |-> "Rejected"]
        BY <2>2, <2>4 DEF Chain!StatusEvent
      <3> QED
        BY <3>1, <3>2 DEF Chain!Published
    <2>6. r.tx # NoTx
      BY <2>3, <2>4 DEF ToldInv, AcceptedSigned, NoTx
    <2>7. Told(r)' /\ Chain!Published(r.tx, "Rejected")'
      BY <2>3, <2>5, <2>6 DEF AllTold, Onward
    <2>8. rollback'.record = r
      BY <2>3
    <2> QED
      BY <2>7, <2>8 DEF RollbackTold, Told, Chain!Published
  <1>3. CASE RollbackListing
    <2>1. rollback # NoRecord /\ rollback' = [rollback EXCEPT !.step = "rankings"]
      BY <1>3 DEF RollbackListing
    <2>2. rollback \in [record : TradeRecord, step : {"listing", "rankings"}]
      BY <2>1, Parts DEF RollbackOK
    <2>3. PICK r : r = rollback.record
      OBVIOUS
    <2>4. rollback'.record = r
      BY <2>1, <2>2, <2>3
    <2>5. Told(r) /\ Chain!Published(r.tx, "Rejected")
      BY <2>1, <2>3 DEF ToldInv, RollbackTold
    <2>6. Told(r)' /\ Chain!Published(r.tx, "Rejected")'
      BY <2>5, ToldOn DEF Onward
    <2> QED
      BY <2>4, <2>6 DEF RollbackTold, Told, Chain!Published
  <1>4. CASE rollback' = NoRecord
    BY <1>4 DEF RollbackTold
  <1> QED
    BY <1>1, <1>2, <1>3, <1>4 DEF Next, Request, HandlerStep, PollerStep, Validate,
       RelistRead, AddRecord, Invoke, DeleteRecord, ApplyListing, ApplyRankings,
       RelistCall, RelistRecord, RelistPrice, RelistRank, PollIdle, PollStatus,
       RollbackRankings, CanisterReports, CanisterRejects, Crash, Restart, vars

\* Whatever fails, crashes, is resubmitted, rejected or rolled back, every row of the
\* listings table belongs to an executed trade of its name and shows the seller who
\* signed it for sale, or is what the rollback of a rejected trade left, and every
\* credit of points belongs to an executed purchase (trading.rs list, delist, buy_*;
\* event.rs handle_pending and handle_rejected).
THEOREM OnlyExecuted == Spec => []OnlyExecutedTradesShow
  <1>1. Init => IInv /\ ToldInv
    <2>1. Init => ToldInv
      <3> SUFFICES ASSUME Init PROVE ToldInv
        OBVIOUS
      <3>1. /\ log = <<>> /\ history = {} /\ rollback = NoRecord /\ credited = {}
            /\ pc = [h \in Handlers |-> "idle"] /\ listings = [n \in Names |-> NoListing]
        BY DEF Init, Chain!CanisterInit
      <3> QED
        BY <3>1 DEF ToldInv, Bare, AllTold, Trading, AcceptedSigned, Accepted, RollbackTold,
           OnlyExecutedTradesShow, Listed
    <2> QED
      BY <2>1, InitIInv
  <1>2. (IInv /\ ToldInv) /\ [Next]_vars => (IInv /\ ToldInv)'
    <2> SUFFICES ASSUME IInv, ToldInv, [Next]_vars PROVE IInv' /\ ToldInv'
      OBVIOUS
    <2>1. IInv' /\ Onward
      BY StepIInv, StepOnward
    <2>2. AllTold' /\ AcceptedSigned' /\ Bare'
      BY <2>1, AllToldStep
    <2>3. OnlyExecutedTradesShow' /\ RollbackTold'
      BY <2>1, <2>2, ShownStep, RollbackToldStep
    <2> QED
      BY <2>1, <2>2, <2>3 DEF ToldInv
  <1>3. ToldInv => OnlyExecutedTradesShow
    BY DEF ToldInv
  <1> QED
    BY <1>1, <1>2, <1>3, PTL DEF Spec
-----------------------------------------------------------------------------
(* Trading's poller implements EventDelivery. *)

\* A step that leaves the poller alone publishes events or nothing.
LEMMA LogPublished ==
  ASSUME IInv, IInv', Onward, UNCHANGED pollVars
  PROVE  Poller!Delivery!Publish
  <1>1. log' \in Seq(Chain!StatusEvent)
    BY Parts DEF IInv, PP!IInv, PP!TypeOK
  <1>2. UNCHANGED <<delivered, dbOffset>>
    BY DEF pollVars
  <1> QED
    BY <1>1, <1>2 DEF Onward, Poller!Delivery!Publish

\* An event that is done is delivered, an offset that is stored acknowledged.
LEMMA PollDelivers ==
  ASSUME IInv, UNCHANGED log,
         \/ Poller!Start \/ Poller!Fetch \/ Poller!HandleNext
         \/ Poller!FinishBatch \/ Poller!SaveOffset \/ Poller!SaveFails
         \/ Poller!Crash
  PROVE  [Poller!Delivery!Next]_(Poller!Delivery!vars)
  <1> USE DEF Poller!Delivery!Next, Poller!Delivery!vars
  <1>1. /\ memOffset \in 0 .. Len(log) /\ 1 .. memOffset \subseteq delivered
        /\ 1 .. cursor \subseteq delivered
    BY Places, Parts DEF PP!IInv, PP!HandledBefore
  <1>2. CASE Poller!HandleNext
    <2>1. cursor + 1 \in 1 .. Len(log) /\ 1 .. ((cursor + 1) - 1) \subseteq delivered
      BY <1>1, <1>2, Places DEF Poller!HandleNext, Poller!Handling
    <2>2. Poller!Delivery!Deliver(cursor + 1)
      BY <1>2, <2>1 DEF Poller!HandleNext, Poller!Delivery!Deliver
    <2> QED
      BY <2>1, <2>2
  <1>3. CASE Poller!SaveOffset
    <2>1. Poller!Delivery!Acknowledge(memOffset)
      BY <1>1, <1>3 DEF Poller!SaveOffset, Poller!Delivery!Acknowledge
    <2> QED
      BY <1>1, <2>1
  <1>4. CASE \/ Poller!Start \/ Poller!Fetch \/ Poller!FinishBatch
             \/ Poller!SaveFails \/ Poller!Crash
    BY <1>4 DEF Poller!Start, Poller!Fetch, Poller!FinishBatch, Poller!SaveFails, Poller!Crash
  <1> QED
    BY <1>2, <1>3, <1>4

LEMMA StepDelivers ==
  ASSUME IInv, IInv', [Next]_vars
  PROVE  [Poller!Delivery!Next]_(Poller!Delivery!vars)
  <1>1. ASSUME UNCHANGED pollVars PROVE [Poller!Delivery!Next]_(Poller!Delivery!vars)
    BY <1>1, LogPublished, StepOnward DEF Poller!Delivery!Next
  <1>2. ASSUME NEW h \in Handlers, Request(h) \/ HandlerStep(h)
        PROVE  UNCHANGED pollVars
    BY <1>2 DEF Request, Validate, RelistRead, HandlerStep, AddRecord, Invoke,
       DeleteRecord, ApplyListing, ApplyRankings, RelistCall, RelistRecord,
       RelistPrice, RelistRank
  <1>3. ASSUME \/ CanisterReports \/ CanisterRejects
               \/ PollRejected \/ RollbackListing \/ UNCHANGED vars
        PROVE  UNCHANGED pollVars
    BY <1>3 DEF CanisterReports, CanisterRejects, PollRejected, RollbackListing, vars
  <1>4. CASE PollIdle \/ PollStatus \/ RollbackRankings \/ Crash \/ Restart
    BY <1>4, PollDelivers DEF PollIdle, PollStatus, RollbackRankings, Crash, Restart
  <1> QED
    BY <1>1, <1>2, <1>3, <1>4 DEF Next, PollerStep

\* The poller of the whole system hands over the canister's status changes in
\* order and passes over none, and no stored offset is ahead of one that was not
\* handled, with any faults and any number of requests beside it (event.rs
\* polling_loop, poll_once, handle_status_change).
THEOREM DeliversStatuses == Spec => StatusesDelivered
  <1>1. Init => Poller!Delivery!Init
    BY DEF Init, Chain!CanisterInit, Poller!PollInit, Poller!Delivery!Init
  <1>2. IInv /\ IInv' /\ [Next]_vars => [Poller!Delivery!Next]_(Poller!Delivery!vars)
    BY StepDelivers
  <1> QED
    BY <1>1, <1>2, Invariance, PTL
    DEF Spec, StatusesDelivered, Poller!DeliverySpec, Poller!Delivery!Spec
=============================================================================
