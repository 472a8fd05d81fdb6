--------------------------- MODULE CanisterProofs ---------------------------
(***************************************************************************)
(* Facts about the steps of Canister, for the proofs about the systems     *)
(* that contain it.                                                        *)
(***************************************************************************)
EXTENDS Canister, SequenceTheorems, TLAPS

\* The transactions the log speaks of.
Logged == {log[i].tx : i \in 1 .. Len(log)}

\* The canister's state has the right types, the log speaks of every executed
\* transaction, and what is executed was built on the state before any trade.
ChainOK ==
  /\ chain \in [Names -> Seq(Entry)]
  /\ log \in Seq(StatusEvent)
  /\ \A n \in Names :
       /\ Len(chain[n]) >= 1
       /\ \A i \in 2 .. Len(chain[n]) : chain[n][i].tx \in Logged

\* Appending to the log adds the appended transaction to those it speaks of.
LEMMA LoggedAppend ==
  ASSUME log \in Seq(StatusEvent), NEW e \in StatusEvent, log' = Append(log, e)
  PROVE  /\ log' \in Seq(StatusEvent)
         /\ Len(log') = Len(log) + 1
         /\ Logged' = Logged \cup {e.tx}
  <1>1. /\ log' \in Seq(StatusEvent) /\ Len(log') = Len(log) + 1
        /\ \A i \in 1 .. Len(log) : log'[i] = log[i]
        /\ log'[Len(log) + 1] = e
        /\ Len(log) \in Nat
    BY AppendProperties, LenProperties
  <1>2. \A t \in Logged' : t \in Logged \cup {e.tx}
    BY <1>1 DEF Logged
  <1>3. Logged \subseteq Logged'
    BY <1>1 DEF Logged
  <1>4. e.tx \in Logged'
    BY <1>1 DEF Logged
  <1> QED
    BY <1>1, <1>2, <1>3, <1>4

\* Executing an action appends it to its name's chain and publishes it.
LEMMA ExecuteOK ==
  ASSUME ChainOK, NEW psbt, NEW t \in Nat, Execute(psbt, t),
         psbt.name \in Names, psbt.who \in Users, psbt.price \in Nat
  PROVE  ChainOK' /\ Len(log') = Len(log) + 1 /\ Logged' = Logged \cup {t}
  <1> DEFINE n == psbt.name
             listed == psbt.action \in {"List", "BuyAndRelist"}
             e == [tx |-> t, owner |-> psbt.who, listed |-> listed,
                   price |-> psbt.price]
  <1>1. e \in Entry
    BY DEF Entry, TxId
  <1>2. /\ chain' = [chain EXCEPT ![n] = Append(@, e)]
        /\ log' = Append(log, [tx |-> t, status |-> "Pending"])
    BY DEF Execute
  <1>3. [tx |-> t, status |-> "Pending"] \in StatusEvent
    BY DEF StatusEvent, Statuses, TxId
  <1>4. /\ log' \in Seq(StatusEvent) /\ Len(log') = Len(log) + 1
        /\ Logged' = Logged \cup {t}
    BY <1>2, <1>3, LoggedAppend DEF ChainOK
  <1> HIDE DEF e
  <1>5. /\ Append(chain[n], e) \in Seq(Entry)
        /\ Len(Append(chain[n], e)) = Len(chain[n]) + 1
        /\ \A i \in 1 .. Len(chain[n]) : Append(chain[n], e)[i] = chain[n][i]
        /\ Append(chain[n], e)[Len(chain[n]) + 1] = e
        /\ Len(chain[n]) \in Nat
    BY <1>1, AppendProperties, LenProperties DEF ChainOK
  <1>6. chain' \in [Names -> Seq(Entry)]
    BY <1>2, <1>5 DEF ChainOK
  <1>7. ASSUME NEW m \in Names
        PROVE  /\ Len(chain'[m]) >= 1
               /\ \A i \in 2 .. Len(chain'[m]) : chain'[m][i].tx \in Logged'
    <2>1. CASE m = n
      <3>1. chain'[m] = Append(chain[n], e) /\ e.tx = t
        BY <1>2, <2>1 DEF ChainOK, e
      <3> QED
        BY <3>1, <1>4, <1>5, <2>1 DEF ChainOK
    <2>2. CASE m # n
      BY <2>2, <1>2, <1>4 DEF ChainOK
    <2> QED
      BY <2>1, <2>2
  <1> QED
    BY <1>4, <1>6, <1>7 DEF ChainOK

\* A price change replaces the last entry by one of the same transaction.
LEMMA RelistOK ==
  ASSUME ChainOK, NEW n \in Names, NEW price \in Nat, Relist(n, price)
  PROVE  ChainOK' /\ UNCHANGED log
  <1> DEFINE s == chain[n]
             e == [s[Len(s)] EXCEPT !.price = price]
             front == SubSeq(s, 1, Len(s) - 1)
  <1>1. s \in Seq(Entry) /\ Len(s) \in Nat /\ Len(s) >= 1
    BY LenProperties DEF ChainOK
  <1>2. s[Len(s)] \in Entry
    BY <1>1, ElementOfSeq
  <1>3. e \in Entry /\ e.tx = s[Len(s)].tx
    BY <1>2 DEF Entry
  <1>4. /\ front \in Seq(Entry) /\ Len(front) = Len(s) - 1
        /\ \A i \in 1 .. Len(s) - 1 : front[i] = s[i]
    BY <1>1, SubSeqProperties
  <1>5. chain' = [chain EXCEPT ![n] = Append(front, e)] /\ log' = log
    BY DEF Relist, Front, Last
  <1> HIDE DEF e, front
  <1>6. /\ Append(front, e) \in Seq(Entry)
        /\ Len(Append(front, e)) = Len(s)
        /\ \A i \in 1 .. Len(s) - 1 : Append(front, e)[i] = s[i]
        /\ Append(front, e)[Len(s)] = e
    BY <1>1, <1>3, <1>4, AppendProperties
  <1>7. chain' \in [Names -> Seq(Entry)]
    BY <1>5, <1>6 DEF ChainOK
  <1>8. Logged' = Logged
    BY <1>5 DEF Logged
  <1>9. ASSUME NEW m \in Names
        PROVE  /\ Len(chain'[m]) >= 1
               /\ \A i \in 2 .. Len(chain'[m]) : chain'[m][i].tx \in Logged
    <2>1. CASE m = n
      <3>1. chain'[m] = Append(front, e)
        BY <1>5, <2>1 DEF ChainOK
      <3>2. ASSUME NEW i \in 2 .. Len(s) PROVE chain'[m][i].tx = s[i].tx
        BY <3>1, <1>1, <1>3, <1>6
      <3> QED
        BY <3>1, <3>2, <1>1, <1>6 DEF ChainOK
    <2>2. CASE m # n
      BY <2>2, <1>5 DEF ChainOK
    <2> QED
      BY <2>1, <2>2
  <1> QED
    BY <1>5, <1>7, <1>8, <1>9 DEF ChainOK

\* A report speaks of a transaction the log already spoke of.
LEMMA ReportOK ==
  ASSUME ChainOK, Progress \subseteq Statuses,
         NEW n \in Names, NEW i \in 2 .. Len(chain[n]), NEW s, Report(n, i, s)
  PROVE  ChainOK' /\ Len(log') = Len(log) + 1 /\ Logged' = Logged
  <1> DEFINE e == [tx |-> chain[n][i].tx, status |-> s]
  <1>1. s \in Progress /\ log' = Append(log, e) /\ chain' = chain
    BY DEF Report
  <1>2. chain[n] \in Seq(Entry) /\ i \in 1 .. Len(chain[n])
    BY LenProperties DEF ChainOK
  <1>3. chain[n][i] \in Entry
    BY <1>2, ElementOfSeq
  <1>4. e \in StatusEvent /\ e.tx \in Logged
    BY <1>1, <1>3 DEF Entry, StatusEvent, ChainOK
  <1> HIDE DEF e
  <1>5. /\ log' \in Seq(StatusEvent) /\ Len(log') = Len(log) + 1
        /\ Logged' = Logged
    BY <1>1, <1>4, LoggedAppend DEF ChainOK
  <1> QED
    BY <1>1, <1>5 DEF ChainOK

\* So do rejections, and the chain keeps its first entry.
LEMMA RejectOK ==
  ASSUME ChainOK, NEW n \in Names, NEW i \in 2 .. Len(chain[n]), Reject(n, i)
  PROVE  ChainOK' /\ Len(log') >= Len(log) /\ Logged' = Logged
  <1> DEFINE s == chain[n]
             k == Len(s) - i + 1
             es == [j \in 1 .. k |-> [tx |-> s[i + j - 1].tx, status |-> "Rejected"]]
             kept == SubSeq(s, 1, i - 1)
  <1>1. s \in Seq(Entry) /\ Len(s) \in Nat /\ i \in 2 .. Len(s) /\ k \in Nat
    BY LenProperties DEF ChainOK
  <1>2. log' = log \o es /\ chain' = [chain EXCEPT ![n] = kept]
    BY DEF Reject
  <1>3. ASSUME NEW j \in 1 .. k
        PROVE  es[j] \in StatusEvent /\ es[j].tx \in Logged
    <2>1. i + j - 1 \in 2 .. Len(s)
      BY <1>1
    <2>2. s[i + j - 1] \in Entry /\ s[i + j - 1].tx \in Logged
      BY <1>1, <2>1, ElementOfSeq DEF ChainOK
    <2>3. es[j] = [tx |-> s[i + j - 1].tx, status |-> "Rejected"]
      OBVIOUS
    <2> QED
      BY <2>2, <2>3 DEF Entry, StatusEvent, Statuses
  <1>4. /\ kept \in Seq(Entry) /\ Len(kept) = i - 1
        /\ \A j \in 1 .. i - 1 : kept[j] = s[j]
    BY <1>1, SubSeqProperties
  <1>5. es \in Seq(StatusEvent) /\ Len(es) = k
    <2>1. es \in [1 .. k -> StatusEvent]
      BY <1>3
    <2> HIDE DEF es
    <2> QED
      BY <2>1, <1>1
  <1> HIDE DEF es, kept
  <1>6. /\ log' \in Seq(StatusEvent) /\ Len(log') = Len(log) + k
        /\ \A j \in 1 .. Len(log') :
             log'[j] = IF j <= Len(log) THEN log[j] ELSE es[j - Len(log)]
        /\ Len(log) \in Nat
    <2>1. log \in Seq(StatusEvent) /\ Len(log) \in Nat
      BY LenProperties DEF ChainOK
    <2>2. /\ log \o es \in Seq(StatusEvent)
          /\ Len(log \o es) = Len(log) + Len(es)
          /\ \A j \in 1 .. Len(log) + Len(es) :
               (log \o es)[j] = IF j <= Len(log) THEN log[j] ELSE es[j - Len(log)]
      <3>1. es \in Seq(StatusEvent)
        BY <1>5
      <3> QED
        BY <2>1, <3>1, ConcatProperties, Zenon
    <2> QED
      BY <2>1, <2>2, <1>2, <1>5
  <1> HIDE DEF k
  <1>7. Logged' = Logged
    <2>0. \A j \in 1 .. Len(log) : j \in 1 .. Len(log') /\ log'[j] = log[j]
      BY <1>1, <1>6
    <2>1. Logged \subseteq Logged'
      BY <2>0 DEF Logged
    <2>2. ASSUME NEW j \in 1 .. Len(log') PROVE log'[j].tx \in Logged
      <3>1. CASE j <= Len(log)
        <4>1. j \in 1 .. Len(log) /\ log'[j] = log[j]
          BY <3>1, <1>1, <1>6
        <4> QED
          BY <4>1 DEF Logged
      <3>2. CASE j > Len(log)
        <4>1. j - Len(log) \in 1 .. k /\ log'[j] = es[j - Len(log)]
          BY <3>2, <1>1, <1>6
        <4> QED
          BY <4>1, <1>3
      <3> QED
        BY <3>1, <3>2, <1>6
    <2>3. Logged' \subseteq Logged
      BY <2>2 DEF Logged
    <2> QED
      BY <2>1, <2>3
  <1>8. chain' \in [Names -> Seq(Entry)]
    BY <1>2, <1>4 DEF ChainOK
  <1>9. ASSUME NEW m \in Names
        PROVE  /\ Len(chain'[m]) >= 1
               /\ \A j \in 2 .. Len(chain'[m]) : chain'[m][j].tx \in Logged
    <2>1. CASE m = n
      <3>1. chain'[m] = kept
        BY <1>2, <2>1 DEF ChainOK
      <3>2. ASSUME NEW j \in 2 .. i - 1 PROVE kept[j].tx \in Logged
        <4>1. j \in 2 .. Len(s) /\ kept[j] = s[j]
          BY <1>1, <1>4
        <4> QED
          BY <4>1 DEF ChainOK
      <3> QED
        BY <3>1, <3>2, <1>1, <1>4
    <2>2. CASE m # n
      BY <2>2, <1>2 DEF ChainOK
    <2> QED
      BY <2>1, <2>2
  <1> QED
    BY <1>1, <1>6, <1>7, <1>8, <1>9 DEF ChainOK

\* The log keeps what it has, and what a rejection adds are rejections.
LEMMA RejectGrows ==
  ASSUME ChainOK, NEW n \in Names, NEW i \in 2 .. Len(chain[n]), Reject(n, i)
  PROVE  /\ Len(log') \in Nat /\ Len(log') >= Len(log)
         /\ \A j \in 1 .. Len(log) : log'[j] = log[j]
         /\ \A j \in 1 .. Len(log') : j > Len(log) => log'[j].status = "Rejected"
  <1> DEFINE k == Len(chain[n]) - i + 1
             es == [j \in 1 .. k |->
                      [tx |-> chain[n][i + j - 1].tx, status |-> "Rejected"]]
  <1>1. /\ log \in Seq(StatusEvent) /\ Len(log) \in Nat
        /\ Len(chain[n]) \in Nat /\ i \in 2 .. Len(chain[n])
    BY LenProperties DEF ChainOK
  <1>2. k \in Nat
    BY <1>1
  <1>3. log' = log \o es
    BY DEF Reject
  <1>4. \A j \in 1 .. k : es[j].status = "Rejected"
    OBVIOUS
  <1>5. es \in Seq(Range(es)) /\ Len(es) = k
    <2>1. es \in [1 .. k -> Range(es)]
      BY DEF Range
    <2> HIDE DEF es
    <2> QED
      BY <2>1, <1>2
  <1> HIDE DEF es
  <1>6. /\ Len(log') = Len(log) + k
        /\ \A j \in 1 .. Len(log) : log'[j] = log[j]
        /\ \A j \in 1 .. Len(log') : j > Len(log) => log'[j] = es[j - Len(log)]
    <2> DEFINE E == StatusEvent \cup Range(es)
    <2>1. log \in Seq(E) /\ es \in Seq(E)
      BY <1>1, <1>5, SeqMonotonic DEF E
    <2> HIDE DEF E
    <2>2. /\ Len(log \o es) = Len(log) + Len(es)
          /\ \A j \in 1 .. Len(log) + Len(es) :
               (log \o es)[j] = IF j <= Len(log) THEN log[j] ELSE es[j - Len(log)]
      BY <2>1, ConcatProperties, Zenon
    <2> HIDE DEF k
    <2> QED
      BY <1>1, <1>2, <1>3, <1>5, <2>2
  <1> HIDE DEF k
  <1>7. ASSUME NEW j \in 1 .. Len(log'), j > Len(log) PROVE log'[j].status = "Rejected"
    <2>1. j - Len(log) \in 1 .. k
      BY <1>1, <1>2, <1>6, <1>7
    <2> QED
      BY <2>1, <1>4, <1>6, <1>7
  <1> QED
    BY <1>1, <1>2, <1>6, <1>7
=============================================================================
